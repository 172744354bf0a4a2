---------------------------- MODULE MCTraversal ----------------------------
(***************************************************************************)
(* A dataset: opening it, reading its catchments, walking its graph.  A    *)
(* behaviour is about one part, which the variable part names and which    *)
(* never changes:                                                          *)
(*   traversal   Traversal: every graph of three units whose upstream_ids  *)
(*               come from a small set of lists, with and without damage   *)
(*               to one of the two tables, and two graphs of four units;   *)
(*   open        LocalOpen: one open of a dataset;                         *)
(*   catchments  CatchmentStore: opens and queries of one file.            *)
(* Every part has its variables; those of the other parts rest.            *)
(***************************************************************************)
EXTENDS Traversal, TLC

CONSTANTS
  Parts,            \* the parts to check
  OpenDataset, OpenMaxLevel, OpenGroupSize,  \* of the part open
  StoreFile, StoreIndexFile, StoreRequest, StoreConcurrency,  \* of the part catchments
  None, Null

VARIABLES
  part,
  ds, opening, aux, graph, levels, err, probe,
  file, indexed, indexFile, stage, boxes, index, unitLevels, query, todo, done, answer

open == <<ds, opening, aux, graph, levels, err, probe>>

catchments ==
  <<file, indexed, indexFile, stage, boxes, index, unitLevels, query, todo, done, answer>>

MCUnit == 1 .. 4

MCLevel == 0 .. 1

Lists == {<<>>, <<1>>, <<2, 3>>, <<3, 2>>, <<2, 2>>, <<4>>}

\* A dataset whose catchment table agrees with its graph.
Sound(rows, up, lev) ==
  [rows |-> rows, up |-> up, level |-> lev,
   catchments |-> rows, unitLevel |-> lev, count |-> Cardinality(rows)]

\* The same with a catchment missing, a row of the graph missing, a catchment of
\* another level, or a count that is wrong in the manifest.
Damaged(d) ==
  {[d EXCEPT !.catchments = @ \ {3},
             !.unitLevel = [u \in d.catchments \ {3} |-> d.unitLevel[u]],
             !.count = Cardinality(d.catchments \ {3})],
   [d EXCEPT !.rows = @ \ {3},
             !.up = [u \in d.rows \ {3} |-> d.up[u]],
             !.level = [u \in d.rows \ {3} |-> d.level[u]]],
   [d EXCEPT !.unitLevel = [u \in d.catchments |->
                              IF u = 2 THEN 1 - d.unitLevel[u] ELSE d.unitLevel[u]]],
   [d EXCEPT !.count = @ + 1]}

Small ==
  UNION {{Sound(rows, up, lev) : up \in [rows -> Lists],
                                 lev \in {[u \in rows |-> 0],
                                          [u \in rows |-> IF u = 3 THEN 1 ELSE 0],
                                          [u \in rows |-> IF u = 3 THEN 0 ELSE 1]}} :
           rows \in {{}, {1}, {1, 2}, {1, 2, 3}}}

OneLevel == [u \in 1 .. 4 |-> 0]

\* Two branches that meet again, and the same with a way back.
Diamond == Sound(1 .. 4, <<<<>>, <<1>>, <<1>>, <<2, 3>>>>, OneLevel)

Loop == Sound(1 .. 4, <<<<4>>, <<1>>, <<1>>, <<2, 3>>>>, OneLevel)

MCDataset == {d : d \in Small \cup UNION {Damaged(e) : e \in Small} \cup {Diamond, Loop}}

-----------------------------------------------------------------------------
(* LocalOpen. *)

Fabrics == INSTANCE MCLocalOpen

MCOpenDataset == Fabrics!MCDataset

Local == INSTANCE LocalOpen WITH
  Dataset <- OpenDataset, MaxLevel <- OpenMaxLevel, GroupSize <- OpenGroupSize, pc <- opening

ASSUME FabricAssumption == Local!OpenAssumption

-----------------------------------------------------------------------------
(* CatchmentStore. *)

Rectangle(x0, y0, x1, y1) == [x0 |-> x0, y0 |-> y0, x1 |-> x1, y1 |-> y1]

RowOf(id, lev, box, bad) == [id |-> id, level |-> lev, box |-> box, bad |-> bad]

Group(rows, stats) == [rows |-> rows, stats |-> stats]

\* Three groups of a valid file: the first without statistics, the second of one
\* thin row, the third of two rows.
Whole == <<Group(<<RowOf(1, 0, Rectangle(0, 0, 2, 2), {}), RowOf(2, 1, Rectangle(4, 4, 6, 6), {})>>, FALSE),
           Group(<<RowOf(3, 0, Rectangle(3, 3, 4, 4), {})>>, TRUE),
           Group(<<RowOf(5, 0, Rectangle(5, 0, 6, 1), {}), RowOf(4, 1, Rectangle(6, 2, 7, 5), {})>>, TRUE)>>

\* Faulty in the rows 1 and 4 of five; an undecodable polygon in row 2.
Faulty ==
  <<Group(<<RowOf(1, 0, Rectangle(0, 0, 2, 2), {}), RowOf(2, 1, Rectangle(4, 4, 6, 6), {"scalar"})>>, TRUE),
    Group(<<RowOf(3, 0, Rectangle(3, 3, 4, 4), {"wkb"})>>, TRUE),
    Group(<<RowOf(5, 0, Rectangle(5, 0, 6, 1), {}), RowOf(4, 1, Rectangle(6, 2, 7, 5), {"geometry"})>>, TRUE)>>

\* A null id in the last group, and an id of two groups.
NullIds == <<Whole[1], Whole[2], Group(<<RowOf(4, 0, Rectangle(5, 0, 6, 1), {}), RowOf(0, 1, Rectangle(6, 2, 7, 5), {"id"})>>, TRUE)>>

TwiceIds == <<Whole[1], Group(<<RowOf(1, 0, Rectangle(3, 3, 4, 4), {})>>, TRUE), Whole[3]>>

FileOf(groups, lev, etag) == [schema |-> TRUE, level |-> lev, etag |-> etag, groups |-> groups]

MCStoreFile ==
  {FileOf(Whole, TRUE, 1), FileOf(Whole, FALSE, 1), FileOf(Whole, TRUE, None), FileOf(Faulty, TRUE, 1),
   FileOf(NullIds, TRUE, 1), FileOf(TwiceIds, TRUE, 1), FileOf(TwiceIds, TRUE, None), FileOf(<<>>, TRUE, 1),
   [FileOf(Whole, TRUE, 1) EXCEPT !.schema = FALSE]}

\* None, one of an older object, one of an older version and one that lacks the
\* row groups.
MCStoreIndexFile ==
  {None,
   [etag |-> 0, current |-> TRUE, crc |-> TRUE, entries |-> <<[id |-> 1, group |-> 2], [id |-> 9, group |-> 1]>>],
   [etag |-> 1, current |-> FALSE, crc |-> TRUE, entries |-> <<[id |-> 1, group |-> None]>>],
   [etag |-> 1, current |-> TRUE, crc |-> TRUE, entries |-> <<[id |-> 1, group |-> None]>>]}

MCStoreRequest ==
  {[kind |-> "by_ids", ids |-> s] : s \in {<<>>, <<4, 1, 4>>, <<9, 3>>}}
  \cup {[kind |-> "geometries", ids |-> s] : s \in {<<4, 3, 1>>, <<5, 9, 5>>}}
  \cup {[kind |-> "by_bbox", box |-> b] : b \in {Rectangle(4, 4, 5, 5), Rectangle(6, 1, 6, 1), Rectangle(8, 8, 9, 9)}}
  \cup {[kind |-> "id_levels"]}

Store == INSTANCE CatchmentStore WITH
  File <- StoreFile, IndexFile <- StoreIndexFile, Request <- StoreRequest, Concurrency <- StoreConcurrency,
  pc <- stage, levels <- unitLevels

ASSUME StoreAssumption == Store!CatchmentAssumption

-----------------------------------------------------------------------------

OpenRest ==
  /\ ds = None /\ opening = None /\ aux = None /\ graph = None /\ levels = None
  /\ err = None /\ probe = None

CatchmentsRest ==
  /\ file = None /\ indexed = None /\ indexFile = None /\ stage = None /\ boxes = None
  /\ index = None /\ unitLevels = None /\ query = None /\ todo = None /\ done = None
  /\ answer = None

MCInit ==
  /\ part \in Parts
  /\ IF part = "traversal" THEN Init ELSE data = Diamond /\ Init
  /\ IF part = "open" THEN Local!Init ELSE OpenRest
  /\ IF part = "catchments" THEN Store!Init ELSE CatchmentsRest

MCNext ==
  \/ part = "traversal" /\ Next /\ UNCHANGED <<part, open, catchments>>
  \/ part = "open" /\ Local!Next /\ UNCHANGED <<part, vars, catchments>>
  \/ part = "catchments" /\ Store!Next /\ UNCHANGED <<part, vars, open>>

\* Fairness of Traversal.
MCSpec ==
  /\ MCInit /\ [][MCNext]_<<part, vars, open, catchments>>
  /\ WF_vars(part = "traversal" /\ Next)

-----------------------------------------------------------------------------

\* A call ends, also on a graph with cycles (collect_upstream, algo/upstream.rs).
TraversalEnds == (part = "traversal") => CallEnds

\* Opening decides rightly on every path: locally on the whole dataset, remotely
\* on the manifest, and for the level hint on the statistics
\* (DatasetSession::open, session.rs).
OpenDecidesRightly == (part = "open") => Local!OpenDecidesRightly

\* A store that opened holds every id of the file once, with the group its row is
\* in and its level, from a scan or from an index file of an earlier process,
\* torn or left from another version of the object (catchment_store.rs, id_index.rs).
IndexExact == (part = "catchments") => Store!IndexExact

\* What a query answers is right either way: the rows when it succeeds, the row it
\* blames when it fails (query_by_ids and query_by_bbox, catchment_store.rs).
QueryExact == (part = "catchments") => Store!QueryExact

=============================================================================
