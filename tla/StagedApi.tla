----------------------------- MODULE StagedApi -----------------------------
(***************************************************************************)
(* The staged API (docs/guide/staged-api.md; crates/python/src/engine.rs   *)
(* and staged.rs over crates/core/src/engine.rs and staged.rs): the seven  *)
(* stages of a delineation as calls a Python program makes in the order    *)
(* and with the pieces it likes. It holds the latest piece of each kind    *)
(* and may give a stage a piece of another outlet, or of an engine over    *)
(* another dataset; no stage asks where its pieces come from. A stage that *)
(* raises leaves the program with the pieces it had.                       *)
(***************************************************************************)
EXTENDS Naturals, FiniteSets

CONSTANTS
  Engines, \* Engine objects
  Fabric,  \* per engine: the units of its dataset with their level and the unit
           \* downstream, the home unit of a coordinate per level, D8 or not, refine or not
  Coords,  \* outlet coordinates
  None     \* no unit, no piece

VARIABLES
  level, outlet, upstream, units, refinement, dissolved, \* the piece of each kind, or None
  result   \* the composed result, or None

pieces == <<level, outlet, upstream, units, refinement, dissolved>>

vars == <<pieces, result>>

Mixed == "mixed"

\* The delineation a piece belongs to, for the properties only: an engine and
\* a coordinate when everything it was made from belongs to them.
Run(e, runs) == IF Cardinality(runs) = 1 THEN
                  LET r == CHOOSE r \in runs : TRUE
                  IN IF r.engine = e THEN r ELSE [engine |-> Mixed, coord |-> Mixed]
                ELSE [engine |-> Mixed, coord |-> Mixed]

Units(e) == DOMAIN Fabric[e].level

\* What the values of the constants are assumed to be.
FabricAssumption == \A e \in Engines : IsFiniteSet(Units(e))

Finest(e) == CHOOSE l \in {Fabric[e].level[u] : u \in Units(e)} :
               \A u \in Units(e) : Fabric[e].level[u] <= l

\* The units whose path downstream passes a unit (module Traversal).
Upstream(e, u) ==
  LET reaches[k \in 0 .. Cardinality(Units(e))] ==
        IF k = 0 THEN {u} ELSE {v \in Units(e) : v \in reaches[k - 1] \/ Fabric[e].down[v] \in reaches[k - 1]}
  IN reaches[Cardinality(Units(e))]

SelectedLevel(l, e) == [level |-> l, by |-> e]

ResolvedOutlet(l, unit, coord, run) == [level |-> l, terminal |-> unit, coord |-> coord, run |-> run]

UpstreamUnits(l, unit, ids, run) == [level |-> l, terminal |-> unit, ids |-> ids, run |-> run]

\* A whole unit of a dataset, and the part of it that drains to a coordinate.
Whole(e, u) == [fabric |-> e, id |-> u, cut |-> None]

Carved(unit, coord) == [unit EXCEPT !.cut = coord]

PreMergeUnits(l, unit, records, e, run) ==
  [level |-> l, terminal |-> unit, records |-> records, by |-> e, run |-> run]

Refinement(status, geometry, coord, run) ==
  [status |-> status, geometry |-> geometry, refined |-> coord, run |-> run]

\* The status is that of the refinement dissolved, for the properties only.
Dissolved(geometry, status, run) == [geometry |-> geometry, status |-> status, run |-> run]

\* Unlike the other stages, select_level needs no earlier piece.
select_level(e) ==
  /\ level' = SelectedLevel(Finest(e), e)
  /\ UNCHANGED <<outlet, upstream, units, refinement, dissolved, result>>

\* The home unit of the coordinate at the level given, whichever engine chose
\* the level; ResolutionError when there is none.
resolve_outlet(e, c) ==
  /\ level # None
  /\ LET home == Fabric[e].home[<<c, level.level>>] IN
     /\ home # None
     /\ outlet' = ResolvedOutlet(level.level, home, c,
                                 Run(e, {[engine |-> level.by, coord |-> c]}))
  /\ UNCHANGED <<level, upstream, units, refinement, dissolved, result>>

\* A unit the engine's graph does not have is a traversal error; a unit of
\* another level breaks the same-level invariant.
traverse(e) ==
  /\ outlet # None
  /\ outlet.terminal \in Units(e)
  /\ \A u \in Upstream(e, outlet.terminal) : Fabric[e].level[u] = outlet.level
  /\ upstream' = UpstreamUnits(outlet.level, outlet.terminal, Upstream(e, outlet.terminal),
                               Run(e, {outlet.run}))
  /\ UNCHANGED <<level, outlet, units, refinement, dissolved, result>>

\* Mutant: the level of the records is taken from the traversal.
SameLevelUnchecked(e) == TRUE

\* Every id must have a row here, of the level of the traversal.
SameLevel(e) == \A u \in upstream.ids : Fabric[e].level[u] = upstream.level

pre_merge_units(e) ==
  /\ upstream # None
  /\ upstream.ids \subseteq Units(e)
  /\ SameLevel(e)
  /\ units' = PreMergeUnits(upstream.level, upstream.terminal,
                            {Whole(e, u) : u \in upstream.ids}, e, Run(e, {upstream.run}))
  /\ UNCHANGED <<level, outlet, upstream, refinement, dissolved, result>>

\* The record of the terminal of the units, not of the outlet.
Terminal == CHOOSE r \in units.records : r.id = units.terminal

\* With D8 rasters the strategy applies or gives up (module Delineate).
refine(e) ==
  /\ outlet # None /\ units # None
  /\ LET run == Run(e, {outlet.run, units.run}) IN
     refinement' \in
       IF ~Fabric[e].refine THEN {Refinement("disabled", None, None, run)}
       ELSE {Refinement("best_effort_skipped", None, None, run)}
            \cup (IF Fabric[e].d8
                  THEN {Refinement("applied", Carved(Terminal, outlet.coord), outlet.coord, run)}
                  ELSE {})
  /\ UNCHANGED <<level, outlet, upstream, units, dissolved, result>>

\* Mutant: the whole terminal is dissolved along with its refined part.
MergedPartsWithTerminal == units.records \cup {refinement.geometry}

\* An applied refinement takes the place of the terminal.
MergedParts == (units.records \ {Terminal}) \cup {refinement.geometry}

dissolve(e) ==
  /\ units # None /\ refinement # None
  /\ dissolved' = Dissolved(IF refinement.status = "applied" THEN MergedParts ELSE units.records,
                            refinement.status, Run(e, {units.run, refinement.run}))
  /\ UNCHANGED <<level, outlet, upstream, units, refinement, result>>

SeedKind(status) ==
  CASE status = "applied" -> "raster_ranked"
    [] status = "best_effort_skipped" -> "coarse"
    [] status = "disabled" -> "disabled"

\* The getters of a result.
View(r) ==
  [terminal_unit_id |-> r.terminal, input_outlet |-> r.coord, upstream_unit_ids |-> r.ids,
   upstream_units |-> {u.id : u \in r.records}, geometry_wkb |-> r.geometry,
   refined_outlet |-> IF r.status = "applied" THEN r.refined ELSE None,
   refinement_skip_reason |-> r.status = "best_effort_skipped",
   refinement_seed_kind |-> SeedKind(r.status)]

Composed(run) ==
  [terminal |-> outlet.terminal, coord |-> outlet.coord, ids |-> upstream.ids,
   records |-> units.records, status |-> refinement.status, refined |-> refinement.refined,
   geometry |-> dissolved.geometry, run |-> run]

\* compose_result takes its parts from the pieces as they are. No stage reads
\* a result, so the behaviour ends with it.
compose_result(e) ==
  /\ \A p \in {outlet, upstream, units, refinement, dissolved} : p # None
  /\ result' = Composed(IF dissolved.status # refinement.status THEN Run(e, {})
                        ELSE Run(e, {outlet.run, upstream.run, units.run, refinement.run,
                                     dissolved.run}))
  /\ UNCHANGED pieces

Init ==
  /\ level = None /\ outlet = None /\ upstream = None /\ units = None
  /\ refinement = None /\ dissolved = None /\ result = None

Next ==
  /\ result = None
  /\ \E e \in Engines :
       \/ select_level(e)
       \/ \E c \in Coords : resolve_outlet(e, c)
       \/ traverse(e)
       \/ pre_merge_units(e)
       \/ refine(e)
       \/ dissolve(e)
       \/ compose_result(e)

Spec == Init /\ [][Next]_vars

-----------------------------------------------------------------------------

\* The watershed of a coordinate: its home unit and the least set with it that
\* holds every unit draining into a unit of the set.
Watershed(e, home) ==
  CHOOSE s \in SUBSET Units(e) :
    /\ home \in s
    /\ \A v \in Units(e) : Fabric[e].down[v] \in s => v \in s
    /\ \A s2 \in SUBSET s : (home \in s2 /\ \A v \in Units(e) : Fabric[e].down[v] \in s2 => v \in s2)
                            => s2 = s

\* What delineate may return for a coordinate.
Delineated(e, c) ==
  LET home == Fabric[e].home[<<c, Finest(e)>>]
      shed == Watershed(e, home)
      seen(kind, refined, reason, geometry) ==
        [terminal_unit_id |-> home, input_outlet |-> c, upstream_unit_ids |-> shed,
         upstream_units |-> shed, geometry_wkb |-> geometry, refined_outlet |-> refined,
         refinement_skip_reason |-> reason, refinement_seed_kind |-> kind]
      whole == {Whole(e, u) : u \in shed}
  IN IF ~Fabric[e].refine THEN {seen("disabled", None, FALSE, whole)}
     ELSE {seen("coarse", None, TRUE, whole)}
          \cup (IF Fabric[e].d8
                THEN {seen("raster_ranked", c, FALSE,
                           {Whole(e, u) : u \in shed \ {home}} \cup {Carved(Whole(e, home), c)})}
                ELSE {})

\* Pieces of one outlet and one engine, made in any order and any number of
\* times between calls for other outlets and engines, compose to what delineate
\* returns, as Python sees it (docs/guide/staged-api.md: "identical").
StagedLikeDelineate ==
  (result # None /\ result.run.engine # Mixed) =>
    View(result) \in Delineated(result.run.engine, result.run.coord)

\* Whatever pieces are mixed, the records materialised for a traversal of any
\* engine are all of the level the piece names, its terminal among them, in the
\* dataset that was asked for them (SameLevelInvariant, engine.rs:435 and 687).
RecordsOfOneLevel ==
  units # None =>
    /\ \A r \in units.records : Fabric[units.by].level[r.id] = units.level
    /\ \E r \in units.records : r.id = units.terminal

\* The stages compose to what delineate returns, and no mixing of pieces gives
\* records of two levels (staged.rs, engine.rs).
StagesCompose == StagedLikeDelineate /\ RecordsOfOneLevel

=============================================================================
