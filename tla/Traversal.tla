----------------------------- MODULE Traversal -----------------------------
(***************************************************************************)
(* From an opened dataset to the pre-merge units of one delineation: the   *)
(* referential checks of the open (validate_graph_catchments in            *)
(* crates/core/src/session.rs), the staged calls select_level,             *)
(* traverse_upstream_at_level and produce_pre_merge_units of               *)
(* crates/core/src/engine.rs, and the breadth-first collect_upstream of    *)
(* crates/core/src/algo/upstream.rs.                                       *)
(*                                                                         *)
(* A dataset is the graph table (rows, their upstream_ids in file order,   *)
(* their levels) and the catchment table (ids and levels).  The readers    *)
(* reject a repeated id in either table and nothing else: upstream_ids may *)
(* repeat, form cycles or name units that have no row.                     *)
(***************************************************************************)
EXTENDS Naturals, Sequences, FiniteSets

CONSTANTS
  Unit,      \* unit ids
  Level,     \* HFX levels
  Dataset    \* the datasets considered

\* What the graph and catchment readers deliver.
IsDataset(d) ==
  /\ d.rows \subseteq Unit
  /\ d.up \in [d.rows -> Seq(Unit)]
  /\ d.level \in [d.rows -> Level]
  /\ d.catchments \subseteq Unit
  /\ d.unitLevel \in [d.catchments -> Level]
  /\ d.count \in Nat

ASSUME DatasetAssumption ==
  /\ Unit # {}
  /\ Level \subseteq Nat
  /\ \A d \in Dataset : IsDataset(d)

VARIABLES
  data,      \* the dataset that is opened
  checked,   \* did the referential checks run (a sidecar hit skips them)
  pc,        \* the stage the call is in, or how it ended
  level,     \* the selected level
  terminal,  \* the unit the outlet was resolved to
  visited,   \* collect_upstream: visited
  units,     \* collect_upstream: units, the last one being scanned
  queue,     \* collect_upstream: queue
  k,         \* position in the upstream_ids, and then in units
  geometry,  \* geometry_by_id: the geometries not yet handed out
  records    \* the pre-merge units, by id

vars == <<data, checked, pc, level, terminal, visited, units, queue, k,
          geometry, records>>

walk == <<visited, units, queue, k>>

\* Ends of the call: the error it returns, or "ok".
Ended == {"refused", "no_level", "unresolved", "no_terminal", "dangling",
          "wrong_level", "read_failed", "missing_record", "ok"}

Stage == {"open", "select", "resolve", "start", "next", "scan", "levels",
          "query", "produce"}

TypeOK ==
  /\ IsDataset(data)
  /\ checked \in BOOLEAN
  /\ pc \in Stage \cup Ended
  /\ level \in Nat
  /\ terminal \in Unit
  /\ visited \subseteq data.rows
  /\ units \in Seq(data.rows)
  /\ queue \in Seq(data.rows)
  /\ k \in Nat \ {0}
  /\ geometry \subseteq data.catchments
  /\ records \in Seq(data.catchments)

Init ==
  /\ data \in Dataset
  /\ checked = FALSE
  /\ pc = "open"
  /\ level = 0
  /\ terminal = CHOOSE u \in Unit : TRUE
  /\ visited = {}
  /\ units = <<>>
  /\ queue = <<>>
  /\ k = 1
  /\ geometry = {}
  /\ records = <<>>

Goto(from, to) == pc = from /\ pc' = to

-----------------------------------------------------------------------------
(* Opening. *)

\* One row of the graph against the catchment table.
RowAgrees(d, u) ==
  /\ u \in d.catchments
  /\ d.level[u] = d.unitLevel[u]
  /\ \A i \in 1 .. Len(d.up[u]) :
       /\ d.up[u][i] \in d.catchments
       /\ d.unitLevel[d.up[u][i]] = d.level[u]

Valid(d) ==
  /\ d.count = Cardinality(d.catchments)
  /\ Cardinality(d.rows) = Cardinality(d.catchments)
  /\ \A u \in d.rows : RowAgrees(d, u)
  /\ \A u \in d.catchments : u \in d.rows

\* Mutant: the levels of the two ends of an edge are not compared.
OpenCheckedAcrossLevels ==
  /\ IF /\ Cardinality(data.rows) = Cardinality(data.catchments)
        /\ \A u \in data.rows :
             /\ u \in data.catchments
             /\ data.level[u] = data.unitLevel[u]
             /\ \A i \in 1 .. Len(data.up[u]) : data.up[u][i] \in data.catchments
        /\ data.catchments \subseteq data.rows
       THEN Goto("open", "select")
       ELSE Goto("open", "refused")
  /\ checked' = TRUE
  /\ UNCHANGED <<data, level, terminal, walk, geometry, records>>

OpenChecked ==
  /\ \/ Valid(data) /\ Goto("open", "select")
     \/ ~Valid(data) /\ Goto("open", "refused")
  /\ checked' = TRUE
  /\ UNCHANGED <<data, level, terminal, walk, geometry, records>>

\* A remote open whose validation sidecar matched (see RemoteOpen).
OpenTrusted ==
  /\ Goto("open", "select")
  /\ UNCHANGED <<data, checked, level, terminal, walk, geometry, records>>

-----------------------------------------------------------------------------
(* select_level and the resolver. *)

\* max_level: the finest level among the graph's rows.
SelectLevel ==
  /\ \/ /\ data.rows = {}
        /\ Goto("select", "no_level")
        /\ UNCHANGED level
     \/ \E u \in data.rows :
          /\ \A v \in data.rows : data.level[v] <= data.level[u]
          /\ Goto("select", "resolve")
          /\ level' = data.level[u]
  /\ UNCHANGED <<data, checked, terminal, walk, geometry, records>>

\* The outlet is resolved to a unit of the selected level: a snap target's
\* unit by the graph's level, a containing catchment by its own.
Resolve(u) ==
  /\ \/ u \in data.rows /\ data.level[u] = level
     \/ u \in data.catchments /\ data.unitLevel[u] = level
  /\ Goto("resolve", "start")
  /\ terminal' = u
  /\ UNCHANGED <<data, checked, level, walk, geometry, records>>

ResolveFails ==
  /\ Goto("resolve", "unresolved")
  /\ UNCHANGED <<data, checked, level, terminal, walk, geometry, records>>

-----------------------------------------------------------------------------
(* collect_upstream. *)

Start ==
  /\ \/ /\ terminal \notin data.rows
        /\ Goto("start", "no_terminal")
        /\ UNCHANGED <<visited, queue>>
     \/ /\ terminal \in data.rows
        /\ Goto("start", "next")
        /\ visited' = {terminal}
        /\ queue' = <<terminal>>
  /\ UNCHANGED <<data, checked, level, terminal, units, k, geometry, records>>

\* while let Some(current) = queue.pop_front()
PopFront ==
  /\ queue # <<>>
  /\ Goto("next", "scan")
  /\ units' = Append(units, Head(queue))
  /\ queue' = Tail(queue)
  /\ k' = 1
  /\ UNCHANGED <<data, checked, level, terminal, visited, geometry, records>>

Current == units[Len(units)]

Ups == data.up[Current]

Scanning == pc = "scan" /\ k <= Len(Ups)

\* Mutant: a visited unit is skipped without going on to the next one.
SkipWithoutAdvancing ==
  /\ Scanning
  /\ Ups[k] \in visited
  /\ UNCHANGED vars

SkipVisited ==
  /\ Scanning
  /\ Ups[k] \in visited
  /\ k' = k + 1
  /\ UNCHANGED <<data, checked, pc, level, terminal, visited, units, queue,
                 geometry, records>>

\* Mutant: the unit is looked for in the catchment table.
DanglingByCatchments ==
  /\ Scanning
  /\ Ups[k] \notin visited
  /\ Ups[k] \notin data.catchments
  /\ pc' = "dangling"
  /\ UNCHANGED <<data, checked, level, terminal, walk, geometry, records>>

\* TraversalError::DanglingUpstreamRef
Dangling ==
  /\ Scanning
  /\ Ups[k] \notin visited
  /\ Ups[k] \notin data.rows
  /\ pc' = "dangling"
  /\ UNCHANGED <<data, checked, level, terminal, walk, geometry, records>>

\* Mutant: a unit is marked visited only when it is popped.
PushUnmarked ==
  /\ Scanning
  /\ Ups[k] \notin visited
  /\ Ups[k] \in data.rows
  /\ visited' = visited \cup {Current}
  /\ queue' = Append(queue, Ups[k])
  /\ k' = k + 1
  /\ UNCHANGED <<data, checked, pc, level, terminal, units, geometry, records>>

Push ==
  /\ Scanning
  /\ Ups[k] \notin visited
  /\ Ups[k] \in data.rows
  /\ visited' = visited \cup {Ups[k]}
  /\ queue' = Append(queue, Ups[k])
  /\ k' = k + 1
  /\ UNCHANGED <<data, checked, pc, level, terminal, units, geometry, records>>

ScanDone ==
  /\ Goto("scan", "next")
  /\ k > Len(Ups)
  /\ UNCHANGED <<data, checked, level, terminal, walk, geometry, records>>

Collected ==
  /\ queue = <<>>
  /\ Goto("next", "levels")
  /\ k' = 1
  /\ UNCHANGED <<data, checked, level, terminal, visited, units, queue,
                 geometry, records>>

-----------------------------------------------------------------------------
(* The rest of traverse_upstream_at_level, and produce_pre_merge_units. *)

CheckLevel ==
  /\ pc = "levels"
  /\ \/ /\ k <= Len(units)
        /\ data.level[units[k]] # level
        /\ pc' = "wrong_level"
        /\ UNCHANGED k
     \/ /\ k <= Len(units)
        /\ data.level[units[k]] = level
        /\ k' = k + 1
        /\ UNCHANGED pc
     \/ /\ k > Len(units)
        /\ pc' = "query"
        /\ UNCHANGED k
  /\ UNCHANGED <<data, checked, level, terminal, visited, units, queue,
                 geometry, records>>

\* query_by_ids and query_geometries_by_ids answer with the rows they have.
QueryByIds ==
  /\ Goto("query", "produce")
  /\ geometry' = {u \in data.catchments : \E i \in 1 .. Len(units) : units[i] = u}
  /\ k' = 1
  /\ UNCHANGED <<data, checked, level, terminal, visited, units, queue, records>>

QueryFails ==
  /\ Goto("query", "read_failed")
  /\ UNCHANGED <<data, checked, level, terminal, walk, geometry, records>>

\* Mutant: the records are pushed in the order the store returned them.
ProduceInStoreOrder ==
  /\ pc = "produce"
  /\ \/ \E u \in geometry :
          /\ records' = Append(records, u)
          /\ geometry' = geometry \ {u}
          /\ UNCHANGED pc
     \/ geometry = {} /\ pc' = "ok" /\ UNCHANGED <<geometry, records>>
  /\ UNCHANGED <<data, checked, level, terminal, walk>>

\* One record per unit, in the order of units; the geometry is moved out of
\* the map, so a unit that came twice would find it gone.
Produce ==
  /\ pc = "produce"
  /\ \/ /\ k <= Len(units)
        /\ units[k] \in data.catchments =>
             data.unitLevel[units[k]] = level /\ units[k] \notin geometry
        /\ pc' = "missing_record"
        /\ UNCHANGED <<k, geometry, records>>
     \/ /\ k <= Len(units)
        /\ units[k] \in data.catchments
        /\ data.unitLevel[units[k]] # level
        /\ pc' = "wrong_level"
        /\ UNCHANGED <<k, geometry, records>>
     \/ /\ k <= Len(units)
        /\ units[k] \in geometry
        /\ data.unitLevel[units[k]] = level
        /\ records' = Append(records, units[k])
        /\ geometry' = geometry \ {units[k]}
        /\ k' = k + 1
        /\ UNCHANGED pc
     \/ /\ k > Len(units)
        /\ pc' = "ok"
        /\ UNCHANGED <<k, geometry, records>>
  /\ UNCHANGED <<data, checked, level, terminal, visited, units, queue>>

-----------------------------------------------------------------------------

Next ==
  \/ OpenChecked \/ OpenTrusted
  \/ SelectLevel \/ (\E u \in Unit : Resolve(u)) \/ ResolveFails
  \/ Start \/ PopFront \/ SkipVisited \/ Dangling \/ Push \/ ScanDone
  \/ Collected \/ CheckLevel \/ QueryByIds \/ QueryFails \/ Produce

Spec == Init /\ [][Next]_vars

\* One thread runs the call: it takes its next step.
FairSpec == Spec /\ WF_vars(Next)

-----------------------------------------------------------------------------
(* Properties. *)

Elements(s) == {s[i] : i \in 1 .. Len(s)}

\* A set that contains, with a unit that has a row, the units it names.
Closed(d, S) ==
  \A u \in S \cap d.rows : \A i \in 1 .. Len(d.up[u]) : d.up[u][i] \in S

\* The units upstream of t, t included: the least closed set t is in.
Upstream(d, t) ==
  {u \in Unit : \A S \in SUBSET Unit : t \in S /\ Closed(d, S) => u \in S}

Distinct(s) == \A i, j \in 1 .. Len(s) : s[i] = s[j] => i = j

\* collect_upstream returns exactly the units upstream of the terminal, each
\* once and the terminal first, on every graph, cyclic ones too.
UpstreamExact ==
  pc \in {"levels", "query", "produce", "ok"} =>
    /\ Elements(units) = Upstream(data, terminal)
    /\ Distinct(units)
    /\ units[1] = terminal

\* DanglingUpstreamRef is returned only for a graph in which a unit upstream of
\* the terminal names a unit that has no row.
DanglingIsReal ==
  pc = "dangling" => ~(Upstream(data, terminal) \subseteq data.rows)

\* The checks of the open suffice: on a dataset that passed them no later stage
\* meets a missing row, a missing record or a unit of another level.
CheckedDataSucceeds ==
  checked => pc \notin {"no_terminal", "dangling", "wrong_level",
                        "missing_record"}

\* The pre-merge units are the upstream units in their order, so the terminal's
\* record comes first (refine_terminal relies on it), and all are of the
\* selected level.
RecordsFollowUnits ==
  pc = "ok" => /\ records = units
               /\ \A i \in 1 .. Len(records) :
                    data.unitLevel[records[i]] = level

\* A call ends, also on a graph with cycles.
CallEnds == <>(pc \in Ended)

\* What the walk and the record loop answer is right: exactly the upstream
\* units, their records in the same order, and a dangling reference only when
\* there is one.
TraversalExact == UpstreamExact /\ DanglingIsReal /\ RecordsFollowUnits

=============================================================================
