------------------------------ MODULE Assembly ------------------------------
(***************************************************************************)
(* The final watershed (assembly.rs, Engine::dissolve_watershed): the      *)
(* geometries of the traversed units, the terminal one replaced by its     *)
(* refined part, are dissolved, cleaned or repaired, their holes filled,   *)
(* and the result validated and measured. A multi-polygon is a set of      *)
(* polygons, each the tiles of its shell and those of its holes; the       *)
(* cleaning distance is far below the size of a tile, and windings do not  *)
(* show.                                                                   *)
(***************************************************************************)
EXTENDS GridRegion

CONSTANTS
  Units, Terminal,  \* the traversed units, and the last of them
  Stored,           \* geometries a unit may have: regions, {} for an empty one
  Refinements,          \* refined terminals: regions
  Thresholds,       \* hole sizes below which BelowThreshold removes
  Strays,           \* regions that a repair backend may add as further polygons
  RemoveAll,        \* the other hole policy
  None

VARIABLES
  call,     \* [entry, rows, refined, mode, repairer]: what is assembled, and how
  stage,    \* the next step
  parts,    \* unit -> region, once collected
  geometry, \* the multi-polygon so far
  faithful, \* the repair backend, if called, kept the region
  outcome   \* [state, ...]: "running", an error, or "ok" with geometry and area

vars == <<call, stage, parts, geometry, faithful, outcome>>

\* What the values of the constants are assumed to be.
UnitsAssumption == Terminal \in Units /\ Units \subseteq Nat

\* What a query finds for a unit.
Rows == [kind : {"row"}, region : Stored]
          \cup [kind : {"absent", "undecodable", "twice"}, region : {{}}]

\* The engine has the decoded units already; the store is asked by the other entry.
Calls ==
  [entry : {"engine"}, rows : [Units -> {r \in Rows : r.kind = "row"}], refined : Refinements \cup {None},
   mode : Thresholds \cup {RemoveAll}, repairer : BOOLEAN]
  \cup
  [entry : {"store"}, rows : [Units -> Rows], refined : Refinements \cup {None},
   mode : {RemoveAll}, repairer : {FALSE}]

Init ==
  /\ call \in Calls
  /\ stage = (IF call.entry = "store" THEN "query" ELSE "collect")
  /\ parts = <<>> /\ geometry = {} /\ faithful = TRUE
  /\ outcome = [state |-> "running"]

Fails(error) ==
  /\ outcome' = [state |-> "error", error |-> error] /\ stage' = "done"
  /\ UNCHANGED <<call, parts, geometry, faithful>>

\* assemble_watershed: the refined terminal is not queried; the decoder, the
\* index and the coverage check each refuse the whole query.
Query ==
  /\ stage = "query"
  /\ LET queried == IF call.refined = None THEN Units ELSE Units \ {Terminal}
         is(kind) == {u \in queried : call.rows[u].kind = kind}
     IN \/ Fails("CatchmentQuery")
        \/ is("undecodable") # {} /\ Fails("GeometryDecode")
        \/ is("undecodable") = {} /\ is("twice") # {} /\ Fails("DuplicateCatchment")
        \/ /\ is("undecodable") = {} /\ is("twice") = {}
           /\ IF \E u \in Units : call.rows[u].kind = "absent"
              THEN Fails("MissingCatchments")
              ELSE stage' = "collect" /\ UNCHANGED <<call, parts, geometry, faithful, outcome>>

\* One region per unit, the terminal's replaced; none may be empty.
Collect ==
  /\ stage = "collect"
  /\ LET chosen == [u \in Units |-> IF u = Terminal /\ call.refined # None
                                    THEN call.refined ELSE call.rows[u].region]
         empty == {u \in Units : chosen[u] = {}}
     IN IF empty = {}
        THEN /\ parts' = chosen /\ stage' = "dissolve"
             /\ UNCHANGED <<call, geometry, faithful, outcome>>
        ELSE Fails(IF Min(empty) = Terminal /\ call.refined # None
                   THEN "EmptyRefinedTerminalGeometry" ELSE "EmptyCatchmentGeometry")

Region(p) == p.shell \ UNION p.holes

Covered(mp) == UNION {Region(p) : p \in mp}

\* The rings that a union is given back with: every connected part is a
\* polygon, every enclosed part of its complement a hole.
Polygons(S) ==
  {[shell |-> C \cup Enclosed(C), holes |-> Components(Enclosed(C))] : C \in Components(S)}

\* Mutant: all rings in one bag, filled by the even-odd rule.
DissolveEvenOdd(regions) ==
  Polygons({t \in UNION {regions[u] : u \in DOMAIN regions} :
              Cardinality({u \in DOMAIN regions : t \in regions[u]}) % 2 = 1})

\* Unions of pairs up a fixed tree.
Dissolve(regions) == Polygons(UNION {regions[u] : u \in DOMAIN regions})

DissolveParts ==
  /\ stage = "dissolve"
  /\ geometry' = Dissolve(parts) /\ stage' = "clean"
  /\ UNCHANGED <<call, parts, faithful, outcome>>

\* clean_topology: closes gaps narrower than the cleaning distance, of which
\* regions of whole tiles have none.
CleanTopology ==
  /\ stage = "clean" /\ ~call.repairer
  /\ stage' = "fill"
  /\ UNCHANGED <<call, parts, geometry, faithful, outcome>>

\* What a backend may hand back: the polygons it kept (of a collection only
\* the polygons are taken over), and perhaps one that it made up.
Returned(mp) ==
  {kept \cup {[shell |-> s, holes |-> {}] : s \in strays} :
     kept \in SUBSET mp, strays \in {{}} \cup {{s} : s \in Strays}}

RepairTopology ==
  /\ stage = "clean" /\ call.repairer
  /\ \/ Fails("TopologyRepair")
     \/ /\ geometry' \in Returned(geometry)
        /\ faithful' = (geometry' = geometry) /\ stage' = "fill"
        /\ UNCHANGED <<call, parts, outcome>>

Kept(holes, mode) == IF mode = RemoveAll THEN {} ELSE {h \in holes : Cardinality(h) >= mode}

\* Mutant: the filled polygons are returned as they are.
FillHolesApart(mp, mode) == {[p EXCEPT !.holes = Kept(p.holes, mode)] : p \in mp}

\* A filled hole may cover the polygons that lay in it: they are united.
FillHoles(mp, mode) ==
  LET filled == {[p EXCEPT !.holes = Kept(p.holes, mode)] : p \in mp}
  IN IF filled # mp /\ Cardinality(mp) > 1 THEN Polygons(Covered(filled)) ELSE filled

Fill ==
  /\ stage = "fill"
  /\ geometry' = FillHoles(geometry, call.mode) /\ stage' = "validate"
  /\ UNCHANGED <<call, parts, faithful, outcome>>

\* Mutant: polygons are only compared by their boundaries.
ConflictOnLine(p, q) == Boundary(Region(p)) \cap Boundary(Region(q)) # {}

\* Two polygons share interior or a length of boundary.
Conflict(p, q) ==
  Region(p) \cap Region(q) # {} \/ Boundary(Region(p)) \cap Boundary(Region(q)) # {}

Validate ==
  /\ stage = "validate"
  /\ IF geometry = {} THEN Fails("EmptyAssembledGeometry")
     ELSE IF \E p, q \in geometry : p # q /\ Conflict(p, q) THEN Fails("InvalidAssembledGeometry")
     ELSE stage' = "measure" /\ UNCHANGED <<call, parts, geometry, faithful, outcome>>

\* geodesic_area_multi: the shells less their holes, polygon by polygon.
Measure ==
  /\ stage = "measure"
  /\ LET area(p) == Cardinality(p.shell) - MapThenSumSet(Cardinality, p.holes)
     IN outcome' = [state |-> "ok", area |-> MapThenSumSet(area, geometry)]
  /\ stage' = "done"
  /\ UNCHANGED <<call, parts, geometry, faithful>>

Next ==
  \/ Query \/ Collect \/ DissolveParts \/ CleanTopology \/ RepairTopology
  \/ Fill \/ Validate \/ Measure

Spec == Init /\ [][Next]_vars

-----------------------------------------------------------------------------

\* The watershed that was asked for: every tile of a unit (the refined part of
\* the terminal), and every tile in a hole that the mode removes.
Wanted ==
  LET drained == UNION {parts[u] : u \in Units}
      removed(h) == call.mode = RemoveAll \/ Cardinality(h) < call.mode
  IN drained \cup UNION {h \in UNION {Components(Enclosed(C)) : C \in Components(drained)} : removed(h)}

\* Sound units always make a watershed, unless the repair backend fails or
\* changes the region: where units overlap, touch in points, enclose islands
\* or leave holes, the result is accepted and is exactly the region that was
\* asked for (assemble_from_geometries, assembly.rs:252-284).
SoundUnitsAssemble ==
  stage = "done" /\ parts # <<>> /\ faithful =>
    \/ outcome.state = "ok" /\ Covered(geometry) = Wanted
    \/ outcome.state = "error" /\ outcome.error = "TopologyRepair"

\* Whatever the backend returned, a watershed that is handed out is measured
\* right: no tile belongs to two polygons, and the area is that of the region
\* (validate_multi_polygon and geodesic_area_multi, assembly.rs:272-283).
AreaIsOfTheRegion ==
  outcome.state = "ok" => outcome.area = Cardinality(Covered(geometry)) /\ outcome.area > 0

=============================================================================
