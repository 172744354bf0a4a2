----------------------------- MODULE MCResolver -----------------------------
(***************************************************************************)
(* Resolving an outlet, the snap targets it is resolved to, the stages     *)
(* around it and their telemetry.  A behaviour is about one part, which    *)
(* the variable part names and which never changes:                        *)
(*   resolver  Resolver: rankings of up to three targets, catchments       *)
(*             around the outlet, and manifests of up to two declarations; *)
(*   snaps     SnapStore: an open and its queries;                         *)
(*   listing   SnapExport: one export of snap targets;                     *)
(*   staged    StagedApi: two engines whose datasets use the same ids at   *)
(*             different levels;                                           *)
(*   source    SourceTelemetry: two threads, two paths, three operations;  *)
(*   stages    StageTelemetry: two threads and three spans.                *)
(* Every part has its variables; those of the other parts rest.            *)
(***************************************************************************)
EXTENDS Resolver, TLC

CONSTANTS
  Parts,
  t1, t2, Old,
  ApiEngines, ApiCoords, ApiFabric,  \* of the part staged
  LimitX, LimitY,  \* of the parts snaps and listing
  SnapFiles, SnapBoxes, SnapScans, SnapReads,  \* of the part snaps
  ListingCases, ListingRows,  \* of the part listing
  SourceThreads, SourcePaths, SourceOps, SourceChunk,  \* of the part source
  StageThreads, MaxSpans  \* of the part stages

VARIABLES
  part,
  file, mode, stage, boxes, refs, query, todo, done, answer,
  job, exporting, stores, groups, offset, batch, layers, frame, temp, output, error,
  apiLevel, apiOutlet, upstream, apiUnits, refinement, dissolved, result,
  total, perPath, op, additions, added, snapshot, moved, ops,
  spans, stack, line, lock, log, broken, noted

snaps == <<file, mode, stage, boxes, refs, query, todo, done, answer>>

listing ==
  <<job, exporting, stores, groups, offset, batch, layers, frame, temp, output, error>>

staged == <<apiLevel, apiOutlet, upstream, apiUnits, refinement, dissolved, result>>

source == <<total, perPath, op, additions, added, snapshot, moved, ops>>

stages == <<spans, stack, line, lock, log, broken, noted>>

MCLevel == 0 .. 1

Tg(id, level, weight, mainstem, distance) ==
  [id |-> id, unit |-> id, level |-> level, weight |-> weight,
   mainstem |-> mainstem, distance |-> distance]

\* Around a radius of 2: ties in every field, the same id twice, a target
\* outside the circle, one without a geometry, one of another level.
Pool == {Tg(5, 0, 2, FALSE, 2), Tg(4, 0, 2, TRUE, 1), Tg(3, 0, 1, TRUE, 0),
         Tg(2, 0, 2, TRUE, 2), Tg(6, 0, 2, TRUE, 2), Tg(6, 0, 1, FALSE, 1),
         Tg(1, 0, 3, TRUE, 3), Tg(7, 0, 3, TRUE, None), Tg(8, 1, 3, TRUE, 0)}

UpTo(n, S) == UNION {[1 .. k -> S] : k \in 0 .. n}

Decl(name, snap, levels, targets) ==
  [name |-> name, snap |-> snap, levels |-> levels, targets |-> targets]

Call(selected, declarations, units, strategy, tolerance) ==
  [selected |-> selected, declarations |-> declarations, units |-> units,
   strategy |-> strategy, radius |-> 2, tolerance |-> tolerance]

Ranking ==
  {Call(c[1], <<Decl(1, 1, {0, 1}, c[2])>>, <<>>, c[3], c[4]) :
     c \in {None, 0, 1} \X UpTo(3, Pool) \X Strategy \X {0, 1}}

U(id, level, outlet, up, area) ==
  [id |-> id, level |-> level, outlet |-> outlet, upstreamArea |-> up, area |-> area]

Catchments == {U(1, 0, "inside", None, 2), U(2, 0, "inside", 1, 1),
               U(3, 0, "inside", 1, 2), U(4, 0, "inside", 2, 1),
               U(5, 0, "inside", 1, 2), U(6, 0, "edge", 3, 3),
               U(7, 0, "edge", None, 1), U(8, 0, "outside", 1, 1),
               U(9, 0, "corrupt", 1, 1), U(10, 1, "inside", 3, 3),
               U(11, 0, "inside", None, 2)}

Containment ==
  {Call(c[1], <<>>, c[2], "WeightFirst", 0) :
     c \in {None, 0, 1}
           \X {s \in UpTo(3, Catchments) :
                 \A a, b \in DOMAIN s : s[a].id = s[b].id => a = b}}

Declarations ==
  {Decl(d[1], d[2], d[3], d[4]) :
     d \in {1, 2} \X {1, 2} \X {{0}, {1}, {0, 1}}
           \X {<<>>, <<Tg(1, 0, 1, TRUE, 1), Tg(2, 1, 1, TRUE, 0)>>}}

Dispatching ==
  {Call(c[1], c[2], <<U(1, 0, "inside", None, 1)>>, "WeightFirst", 0) :
     c \in {None, 0, 1} \X UpTo(2, Declarations)}

MCCase == {c : c \in Ranking \cup Containment \cup Dispatching}

\* Two datasets that use the same ids at different levels.
MCApiCoords == {"north", "south"}

MCApiEngines == {"fine", "deep"}

MCApiFabric ==
  [fine |-> [level |-> <<1, 1, 1>>, down |-> <<None, 1, 2>>, d8 |-> TRUE, refine |-> TRUE,
             home |-> [c \in MCApiCoords, l \in 0 .. 2 |->
                         IF l # 1 THEN None ELSE IF c = "north" THEN 3 ELSE 1]],
   deep |-> [level |-> <<2, 2, 1>>, down |-> <<None, 1, None>>, d8 |-> FALSE, refine |-> FALSE,
             home |-> [c \in MCApiCoords, l \in 0 .. 2 |->
                         CASE l = 2 -> IF c = "north" THEN 2 ELSE 1
                           [] l = 1 -> IF c = "north" THEN 3 ELSE None
                           [] OTHER -> None]]]

-----------------------------------------------------------------------------
(* The other parts. *)

Snap == INSTANCE MCSnapRows

MCSnapFiles == Snap!StoreFile

MCSnapBoxes == Snap!StoreBox

MCListingCases == Snap!ExportCase

Snaps == INSTANCE SnapStore WITH
  File <- SnapFiles, QueryBox <- SnapBoxes,
  MembershipConcurrency <- SnapScans, BboxConcurrency <- SnapReads, pc <- stage

Listing == INSTANCE SnapExport WITH
  Case <- ListingCases, BatchRows <- ListingRows, case <- job, pc <- exporting, todo <- groups

Staged == INSTANCE StagedApi WITH
  Engines <- ApiEngines, Fabric <- ApiFabric, Coords <- ApiCoords,
  level <- apiLevel, outlet <- apiOutlet, units <- apiUnits

Source == INSTANCE SourceTelemetry WITH
  Threads <- SourceThreads, Paths <- SourcePaths, Root <- "<root>",
  MaxOps <- SourceOps, MaxChunk <- SourceChunk,
  todo <- additions, done <- moved, snap <- snapshot

Stages == INSTANCE StageTelemetry WITH Threads <- StageThreads, file <- log

ASSUME SnapsAssumption == Snaps!SnapStoreAssumption

ASSUME ListingAssumption == Listing!SnapExportAssumption

ASSUME StagedAssumption == Staged!FabricAssumption

ASSUME CountingAssumption == Source!SourceAssumption

ASSUME TelemetryAssumption == Stages!StagesAssumption

ResolverRest == case = Call(None, <<>>, <<>>, "WeightFirst", 0) /\ Init

SnapsRest ==
  /\ file = None /\ mode = None /\ stage = None /\ boxes = None /\ refs = None
  /\ query = None /\ todo = None /\ done = None /\ answer = None

ListingRest ==
  /\ job = None /\ exporting = None /\ stores = None /\ groups = None /\ offset = None
  /\ batch = None /\ layers = None /\ frame = None /\ temp = None /\ output = None
  /\ error = None

MCInit ==
  /\ part \in Parts
  /\ IF part = "resolver" THEN Init ELSE ResolverRest
  /\ IF part = "snaps" THEN Snaps!Init ELSE SnapsRest
  /\ IF part = "listing" THEN Listing!Init ELSE ListingRest
  /\ Staged!Init /\ Source!Init /\ Stages!Init

MCNext ==
  \/ part = "resolver" /\ Next /\ UNCHANGED <<part, snaps, listing, staged, source, stages>>
  \/ part = "snaps" /\ Snaps!Next /\ UNCHANGED <<part, vars, listing, staged, source, stages>>
  \/ part = "listing" /\ Listing!Next /\ UNCHANGED <<part, vars, snaps, staged, source, stages>>
  \/ part = "staged" /\ Staged!Next /\ UNCHANGED <<part, vars, snaps, listing, source, stages>>
  \/ part = "source" /\ Source!Next /\ UNCHANGED <<part, vars, snaps, listing, staged, stages>>
  \/ part = "stages" /\ Stages!Next /\ UNCHANGED <<part, vars, snaps, listing, staged, source>>

MCSpec == MCInit /\ [][MCNext]_<<part, vars, snaps, listing, staged, source, stages>>

\* The threads of the telemetry are interchangeable.
Symmetric == Permutations({t1, t2})

-----------------------------------------------------------------------------

\* The query by box and the membership scan both show the file as it is
\* (query_by_bbox and read_all_snap_membership_refs, snap_store.rs).
SnapAnswersExact == (part = "snaps") => Snaps!SnapAnswersExact

\* The output path holds what it held, or exactly the targets of the selected
\* sets that meet the extent, in file order: no error, kill, invalid row or
\* skipped row group makes it publish less (run_export_snap, main.rs).
ExportComplete == (part = "listing") => Listing!ExportComplete

\* The stages compose to what delineate returns, and no mixing of pieces gives
\* records of two levels (staged.rs, engine.rs).
StagesCompose == (part = "staged") => Staged!StagesCompose

\* The counters can be trusted at any time: never more per path than in total,
\* and exact when nothing is under way (source_telemetry.rs).
CountersHonest == (part = "source") => Source!CountersHonest

\* The trace is one whole line per stage with the counts of that stage
\* (telemetry/jsonl.rs).
TraceHonest == (part = "stages") => Stages!TraceHonest

=============================================================================
