----------------------------- MODULE Delineate -----------------------------
(***************************************************************************)
(* delineate_batch of crates/core/src/engine.rs: the calls of a batch run  *)
(* concurrently, each through refine_terminal, the D8 strategy of          *)
(* crates/core/src/refinement.rs, the selection of a D8 declaration in     *)
(* crates/core/src/session.rs, dissolve_watershed and compose_result.      *)
(* The stages before refine_terminal are the module Traversal; the windows *)
(* of a remote dataset come from the cache, by its promise WindowStore.    *)
(*                                                                         *)
(* Coordinates are integers; a projected terminal is its bounding box in   *)
(* each coordinate system.  A terminal that has a bounding box has one     *)
(* after projection, so the strategy's later tests for none never apply.   *)
(***************************************************************************)
EXTENDS Naturals, Integers, Sequences

CONSTANTS
  Call,      \* the elements of the batch
  Unit,      \* unit ids
  Crs,       \* coordinate systems the projection code claims
  BadCrs,    \* identifiers it does not claim
  Engine,    \* the sessions and raster sources considered
  Input      \* the outlets (as resolved) and options considered

Mode == {"disabled", "best_effort", "require_d8"}

Kind == {"flow_dir", "flow_acc"}

Rect == {r \in [x0 : Int, y0 : Int, x1 : Int, y1 : Int] :
           r.x0 <= r.x1 /\ r.y0 <= r.y1}

Declaration == [crs : Crs \cup BadCrs, flow_dir : Rect, flow_acc : Rect]

\* The session's blessed-D8 declarations in manifest order, whether one of an
\* unreadable schema was retained, and what the engine was built with.
IsEngine(e) ==
  /\ e.d8 \in Seq(Declaration)
  /\ e.unreadable \in BOOLEAN
  /\ e.source \in BOOLEAN
  /\ e.remote \in BOOLEAN

\* A call: its mode, how its outlet was resolved, its pre-merge units, those
\* without polygons, and the terminal's bounds in each coordinate system.
IsInput(a) ==
  /\ a.mode \in Mode
  /\ a.authority \in {"vector_point", "unit_containment"}
  /\ a.units \subseteq Unit
  /\ a.terminal \in a.units
  /\ a.hollow \subseteq a.units
  /\ a.bounds \in [Crs -> Rect]

ASSUME DelineateAssumption ==
  /\ Crs \cap BadCrs = {}
  /\ \A e \in Engine : IsEngine(e)
  /\ \A a \in Input : IsInput(a)

VARIABLES
  engine,        \* shared and immutable: the session and the raster source
  input,         \* the batch
  pc,            \* the stage each call is in
  pos,           \* select_d8_raster_for_terminal: index of the loop
  intersecting,  \* its intersecting
  covering,      \* its covering, as declaration indices
  verdict,       \* what the strategy returned
  outcome,       \* the TerminalRefinement of each call
  pieces,        \* the geometries handed to the assembly
  answer,        \* the Result of each call
  stored, want, status   \* the window cache, see WindowStore

cache == <<stored, want, status>>

local == <<pos, intersecting, covering, verdict>>

vars == <<engine, input, pc, local, outcome, pieces, answer, cache>>

Window == [decl : Nat \ {0}, kind : Kind, box : Rect]

\* What want holds before a call's first request.
NoWindow == [decl |-> 1, kind |-> "flow_dir",
             box |-> [x0 |-> 0, y0 |-> 0, x1 |-> 0, y1 |-> 0]]

Windows == INSTANCE WindowStore WITH Task <- Call

\* Errors of the strategy and their class in best_effort_skip_reason.
Availability == {"no_covering_tile", "spans_tiles", "extent_unread",
                 "not_localized", "raster_unread"}

MisDeclaration == {"crs_unsupported", "tile_mismatch"}

DataGeometryIntegrity == {"degenerate_terminal", "carve_failed"}

StrategyError == Availability \cup MisDeclaration \cup DataGeometryIntegrity

Skip == {"no_d8_aux", "coarse_unit_only", "unreadable_d8_aux",
         "no_raster_source", "availability", "mis_declaration", "integrity"}

\* EngineErrors of the refinement; "prepare" and "assembly" are the others.
RefinementFailure == {"missing_required_d8", "d8_selection", "raster_localize",
                      "refinement", "raster_source_missing"}

Stage == {"prepare", "mode", "bounds", "select", "selected", "flow_dir",
          "flow_acc", "carve", "decide", "dissolve", "returned"}

BatchTypeOK ==
  /\ IsEngine(engine)
  /\ \A c \in Call : IsInput(input[c])
  /\ pc \in [Call -> Stage]
  /\ pos \in [Call -> Nat \ {0}]
  /\ intersecting \in [Call -> Seq(Nat \ {0})]
  /\ covering \in [Call -> Seq(Nat \ {0})]
  /\ verdict \in [Call -> StrategyError \cup {"none", "applied", "no_raster_source"}]
  /\ outcome \in [Call -> Skip \cup {"none", "disabled", "applied"}]
  /\ pieces \in [Call -> SUBSET (Unit \X {"whole", "carved"})]
  /\ answer \in [Call -> RefinementFailure \cup {"none", "prepare", "assembly", "ok"}]
  /\ status \in [Call -> {"idle", "pending", "ok", "err"}]

TypeOK ==
  /\ BatchTypeOK
  /\ stored \subseteq Window
  /\ want \in [Call -> Window]

Init ==
  /\ engine \in Engine
  /\ input \in [Call -> Input]
  /\ pc = [c \in Call |-> "prepare"]
  /\ pos = [c \in Call |-> 1]
  /\ intersecting = [c \in Call |-> <<>>]
  /\ covering = [c \in Call |-> <<>>]
  /\ verdict = [c \in Call |-> "none"]
  /\ outcome = [c \in Call |-> "none"]
  /\ pieces = [c \in Call |-> {}]
  /\ answer = [c \in Call |-> "none"]
  /\ stored = {}
  /\ want = [c \in Call |-> NoWindow]
  /\ status = [c \in Call |-> "idle"]

Goto(c, from, to) == pc[c] = from /\ pc' = [pc EXCEPT ![c] = to]

Return(c, from, a) ==
  /\ Goto(c, from, "returned")
  /\ answer' = [answer EXCEPT ![c] = a]

-----------------------------------------------------------------------------
(* delineate, up to refine_terminal. *)

\* select_level, the resolver, the traversal and the pre-merge units.
Prepare(c) ==
  /\ Goto(c, "prepare", "mode")
  /\ UNCHANGED <<engine, input, local, outcome, pieces, answer, cache>>

PrepareFails(c) ==
  /\ Return(c, "prepare", "prepare")
  /\ UNCHANGED <<engine, input, local, outcome, pieces, cache>>

-----------------------------------------------------------------------------
(* refine_terminal: what the mode and the session decide. *)

\* The terminal refinement is known: on to the assembly.
Refined(c, from, o) ==
  /\ Goto(c, from, "dissolve")
  /\ outcome' = [outcome EXCEPT ![c] = o]

HasD8Aux == engine.d8 # <<>>

\* Mutant: an unreadable declaration is not told from none.
NoD8ReasonByAuthority(c) ==
  IF input[c].authority = "vector_point" THEN "no_d8_aux" ELSE "coarse_unit_only"

NoD8Reason(c) ==
  IF engine.unreadable THEN "unreadable_d8_aux"
  ELSE IF input[c].authority = "vector_point" THEN "no_d8_aux"
  ELSE "coarse_unit_only"

ChooseMode(c) ==
  /\ \/ /\ input[c].mode = "disabled"
        /\ Refined(c, "mode", "disabled")
        /\ UNCHANGED answer
     \/ /\ input[c].mode = "best_effort" /\ ~HasD8Aux
        /\ Refined(c, "mode", NoD8Reason(c))
        /\ UNCHANGED answer
     \/ /\ input[c].mode = "require_d8" /\ ~HasD8Aux
        /\ Return(c, "mode", "missing_required_d8")
        /\ UNCHANGED outcome
     \/ /\ input[c].mode # "disabled" /\ HasD8Aux
        /\ Goto(c, "mode", "bounds")
        /\ UNCHANGED <<outcome, answer>>
  /\ UNCHANGED <<engine, input, local, pieces, cache>>

-----------------------------------------------------------------------------
(* D8RasterRefinementStrategy::refine_terminal. *)

\* The strategy returns: v is its decision or its error.
Decide(c, from, v) ==
  /\ Goto(c, from, "decide")
  /\ verdict' = [verdict EXCEPT ![c] = v]

Bounds(c) ==
  /\ \/ /\ input[c].terminal \in input[c].hollow
        /\ Decide(c, "bounds", "degenerate_terminal")
     \/ /\ input[c].terminal \notin input[c].hollow
        /\ Goto(c, "bounds", "select")
        /\ UNCHANGED verdict
  /\ UNCHANGED <<engine, input, pos, intersecting, covering, outcome, pieces,
                 answer, cache>>

Contains(r, s) == /\ s.x0 >= r.x0 /\ s.y0 >= r.y0
                  /\ s.x1 <= r.x1 /\ s.y1 <= r.y1

Intersects(r, s) == /\ r.x0 <= s.x1 /\ r.x1 >= s.x0
                    /\ r.y0 <= s.y1 /\ r.y1 >= s.y0

\* The terminal's bounding box in the coordinate system of declaration i.
BoxIn(c, i) == input[c].bounds[engine.d8[i].crs]

Covers(c, i) == /\ Contains(engine.d8[i].flow_dir, BoxIn(c, i))
                /\ Contains(engine.d8[i].flow_acc, BoxIn(c, i))

AtDeclaration(c) == pc[c] = "select" /\ pos[c] <= Len(engine.d8)

\* d8_crs fails: the whole selection fails, whatever was found before.
SelectBadCrs(c) ==
  /\ AtDeclaration(c)
  /\ engine.d8[pos[c]].crs \in BadCrs
  /\ Decide(c, "select", "crs_unsupported")
  /\ UNCHANGED <<engine, input, pos, intersecting, covering, outcome, pieces,
                 answer, cache>>

\* The header of one of the two rasters cannot be read: likewise.
SelectExtentFails(c) ==
  /\ AtDeclaration(c)
  /\ engine.d8[pos[c]].crs \in Crs
  /\ Decide(c, "select", "extent_unread")
  /\ UNCHANGED <<engine, input, pos, intersecting, covering, outcome, pieces,
                 answer, cache>>

SelectDeclaration(c) ==
  /\ AtDeclaration(c)
  /\ engine.d8[pos[c]].crs \in Crs
  /\ LET i == pos[c] IN
     /\ intersecting' = [intersecting EXCEPT ![c] =
          IF /\ Intersects(engine.d8[i].flow_dir, BoxIn(c, i))
             /\ Intersects(engine.d8[i].flow_acc, BoxIn(c, i))
            THEN Append(@, i) ELSE @]
     /\ covering' = [covering EXCEPT ![c] =
          IF Intersects(engine.d8[i].flow_dir, BoxIn(c, i)) /\ Covers(c, i)
            THEN Append(@, i) ELSE @]
  /\ pos' = [pos EXCEPT ![c] = @ + 1]
  /\ UNCHANGED <<engine, input, pc, verdict, outcome, pieces, answer, cache>>

\* Mutant: a terminal that touches several tiles is given up before the
\* covering ones are looked at.
SelectEndSpansFirst(c) ==
  /\ pc[c] = "select" /\ pos[c] > Len(engine.d8)
  /\ IF Len(intersecting[c]) > 1 THEN Decide(c, "select", "spans_tiles")
     ELSE IF covering[c] # <<>> THEN Goto(c, "select", "selected") /\ UNCHANGED verdict
     ELSE Decide(c, "select", "no_covering_tile")
  /\ UNCHANGED <<engine, input, pos, intersecting, covering, outcome, pieces,
                 answer, cache>>

SelectEnd(c) ==
  /\ pc[c] = "select" /\ pos[c] > Len(engine.d8)
  /\ \/ /\ covering[c] # <<>>
        /\ Goto(c, "select", "selected")
        /\ UNCHANGED verdict
     \/ /\ covering[c] = <<>> /\ Len(intersecting[c]) > 1
        /\ Decide(c, "select", "spans_tiles")
     \/ /\ covering[c] = <<>> /\ Len(intersecting[c]) <= 1
        /\ Decide(c, "select", "no_covering_tile")
  /\ UNCHANGED <<engine, input, pos, intersecting, covering, outcome, pieces,
                 answer, cache>>

\* Mutant: the last covering declaration is taken.
SelectedLast(c) ==
  covering[c][Len(covering[c])]

\* The handle: the first covering declaration in manifest order.
Selected(c) ==
  covering[c][1]

RasterSource(c) ==
  /\ \/ ~engine.source /\ Decide(c, "selected", "no_raster_source")
     \/ engine.source /\ Goto(c, "selected", "flow_dir") /\ UNCHANGED verdict
  /\ UNCHANGED <<engine, input, pos, intersecting, covering, outcome, pieces,
                 answer, cache>>

WindowOf(c, kind) ==
  [decl |-> Selected(c), kind |-> kind, box |-> BoxIn(c, Selected(c))]

\* The stage after the window of this kind.
Following(kind) == IF kind = "flow_dir" THEN "flow_acc" ELSE "carve"

\* A local dataset is read in place.
LocalizeInPlace(c, kind) ==
  /\ ~engine.remote
  /\ Goto(c, kind, Following(kind))
  /\ UNCHANGED <<engine, input, local, outcome, pieces, answer, cache>>

\* A remote one asks the cache for the window and waits for its answer.
LocalizeAsk(c, kind) ==
  /\ engine.remote
  /\ pc[c] = kind
  /\ Windows!Begin(c, WindowOf(c, kind))
  /\ UNCHANGED <<engine, input, pc, local, outcome, pieces, answer>>

LocalizeStore(c) ==
  /\ Windows!Store(c)
  /\ UNCHANGED <<engine, input, pc, local, outcome, pieces, answer>>

LocalizeOk(c, kind) ==
  /\ Goto(c, kind, Following(kind))
  /\ Windows!EndOk(c)
  /\ UNCHANGED <<engine, input, local, outcome, pieces, answer>>

LocalizeFails(c, kind) ==
  /\ pc[c] = kind
  /\ Windows!EndErr(c)
  /\ Decide(c, kind, "not_localized")
  /\ UNCHANGED <<engine, input, pos, intersecting, covering, outcome, pieces, answer>>

\* refine_terminal_from_source and the projection back.
Carve(c) ==
  /\ \E v \in {"applied", "raster_unread", "tile_mismatch", "carve_failed"} :
       Decide(c, "carve", v)
  /\ UNCHANGED <<engine, input, pos, intersecting, covering, outcome, pieces,
                 answer, cache>>

-----------------------------------------------------------------------------
(* The end of refine_terminal: the strategy's verdict by mode. *)

BestEffortSkipReason(v) ==
  CASE v \in Availability -> "availability"
    [] v \in MisDeclaration -> "mis_declaration"
    [] v \in DataGeometryIntegrity -> "integrity"
    [] v = "no_raster_source" -> "no_raster_source"

\* EngineError::from, and terminal_refinement_from_decision under RequireD8.
FailureOf(v) ==
  CASE v \in {"no_covering_tile", "spans_tiles", "extent_unread", "crs_unsupported"} ->
         "d8_selection"
    [] v = "not_localized" -> "raster_localize"
    [] v = "no_raster_source" -> "raster_source_missing"
    [] OTHER -> "refinement"

\* Mutant: an error of the selection is returned in every mode.
ApplyVerdictStrictly(c) ==
  /\ \/ /\ verdict[c] = "applied"
        /\ Refined(c, "decide", "applied")
        /\ UNCHANGED answer
     \/ /\ verdict[c] = "no_raster_source" /\ input[c].mode = "best_effort"
        /\ Refined(c, "decide", BestEffortSkipReason(verdict[c]))
        /\ UNCHANGED answer
     \/ /\ verdict[c] \in StrategyError
        /\ Return(c, "decide", FailureOf(verdict[c]))
        /\ UNCHANGED outcome
  /\ UNCHANGED <<engine, input, local, pieces, cache>>

\* Mutant: a skip of the strategy is a skip in every mode.
ApplyVerdictLeniently(c) ==
  /\ \/ /\ verdict[c] = "applied"
        /\ Refined(c, "decide", "applied")
        /\ UNCHANGED answer
     \/ /\ verdict[c] = "no_raster_source" \/ input[c].mode = "best_effort"
        /\ verdict[c] # "applied"
        /\ Refined(c, "decide", BestEffortSkipReason(verdict[c]))
        /\ UNCHANGED answer
     \/ /\ verdict[c] \in StrategyError /\ input[c].mode = "require_d8"
        /\ Return(c, "decide", FailureOf(verdict[c]))
        /\ UNCHANGED outcome
  /\ UNCHANGED <<engine, input, local, pieces, cache>>

ApplyVerdict(c) ==
  /\ \/ /\ verdict[c] = "applied"
        /\ Refined(c, "decide", "applied")
        /\ UNCHANGED answer
     \/ /\ verdict[c] # "applied" /\ input[c].mode = "best_effort"
        /\ Refined(c, "decide", BestEffortSkipReason(verdict[c]))
        /\ UNCHANGED answer
     \/ /\ verdict[c] # "applied" /\ input[c].mode = "require_d8"
        /\ Return(c, "decide", FailureOf(verdict[c]))
        /\ UNCHANGED outcome
  /\ UNCHANGED <<engine, input, local, pieces, cache>>

-----------------------------------------------------------------------------
(* dissolve_watershed and compose_result. *)

Whole(U) == {<<u, "whole">> : u \in U}

\* Mutant: the carved terminal is added to the whole one.
GeometriesWithBoth(c) ==
  Whole(input[c].units) \cup
    (IF outcome[c] = "applied" THEN {<<input[c].terminal, "carved">>} ELSE {})

\* The terminal's polygon is replaced by the carved one when there is one.
Geometries(c) ==
  IF outcome[c] = "applied"
    THEN Whole(input[c].units \ {input[c].terminal})
           \cup {<<input[c].terminal, "carved">>}
    ELSE Whole(input[c].units)

\* Is one of the geometries without polygons?  A carved one never is.
SomeEmpty(c) == \E u \in input[c].hollow : <<u, "whole">> \in Geometries(c)

Dissolve(c) ==
  /\ ~SomeEmpty(c)
  /\ Return(c, "dissolve", "ok")
  /\ pieces' = [pieces EXCEPT ![c] = Geometries(c)]
  /\ UNCHANGED <<engine, input, local, outcome, cache>>

\* An empty geometry, or a failure of assemble_from_geometries.
AssemblyFails(c) ==
  /\ Return(c, "dissolve", "assembly")
  /\ UNCHANGED <<engine, input, local, outcome, pieces, cache>>

-----------------------------------------------------------------------------

Strategy(c) ==
  \/ Bounds(c)
  \/ SelectBadCrs(c) \/ SelectExtentFails(c) \/ SelectDeclaration(c) \/ SelectEnd(c)
  \/ RasterSource(c)
  \/ \E kind \in Kind : \/ LocalizeInPlace(c, kind) \/ LocalizeAsk(c, kind)
                        \/ LocalizeOk(c, kind) \/ LocalizeFails(c, kind)
  \/ LocalizeStore(c)
  \/ Carve(c)

Next ==
  \E c \in Call :
    \/ Prepare(c) \/ PrepareFails(c) \/ ChooseMode(c)
    \/ Strategy(c)
    \/ ApplyVerdict(c) \/ Dissolve(c) \/ AssemblyFails(c)

Spec == Init /\ [][Next]_vars

-----------------------------------------------------------------------------
(* Properties. *)

\* BestEffort has no failing outcome of its own: whatever goes wrong on the D8
\* path is a skip, and the call fails only before the refinement or in the
\* assembly.
BestEffortTotal ==
  \A c \in Call : input[c].mode = "best_effort" => answer[c] \notin RefinementFailure

\* A RequireD8 call that succeeds was refined: no error and no skip of the
\* strategy turns into an unrefined watershed.
RequireD8Refines ==
  \A c \in Call : input[c].mode = "require_d8" /\ answer[c] = "ok" =>
                   <<input[c].terminal, "carved">> \in pieces[c]

\* The watershed is made of one geometry per upstream unit, the terminal's
\* carved exactly when the reported outcome is Applied; so a skipped call
\* answers what Disabled would.
OnePiecePerUnit ==
  \A c \in Call : answer[c] = "ok" =>
    \A u \in Unit, g \in {"whole", "carved"} :
      <<u, g>> \in pieces[c] <=>
        /\ u \in input[c].units
        /\ g = IF u = input[c].terminal /\ outcome[c] = "applied"
                THEN "carved" ELSE "whole"

\* A carve reads the manifest-first declaration that covers the terminal, both
\* of its rasters, and for a remote dataset from complete windows of both.
AppliedIsCovered ==
  \A c \in Call : outcome[c] = "applied" =>
    /\ Selected(c) \in 1 .. Len(engine.d8)
    /\ Covers(c, Selected(c))
    /\ \A i \in 1 .. Selected(c) - 1 : ~Covers(c, i)
    /\ engine.remote => \A kind \in Kind : WindowOf(c, kind) \in stored

\* The selection gives a terminal up as uncovered or spanning several tiles only
\* when no declaration covers it; overlapping declarations are no obstacle.
GivenUpIsUncovered ==
  \A c \in Call : verdict[c] \in {"no_covering_tile", "spans_tiles"} =>
    \A i \in 1 .. Len(engine.d8) : ~Covers(c, i)

\* The reason of a skip is true: no D8 data, an unreadable declaration or no
\* raster source is reported only by a session or an engine that has none, and
\* a mis-declaration never of rasters that were not even reached.
SkipIsTrue ==
  \A c \in Call :
    /\ outcome[c] \in {"no_d8_aux", "coarse_unit_only"} =>
         ~HasD8Aux /\ ~engine.unreadable
    /\ outcome[c] = "unreadable_d8_aux" => ~HasD8Aux /\ engine.unreadable
    /\ outcome[c] = "no_raster_source" => ~engine.source /\ Covers(c, Selected(c))
    /\ outcome[c] = "mis_declaration" =>
         \/ \E i \in 1 .. Len(engine.d8) : engine.d8[i].crs \in BadCrs
         \/ engine.source /\ Covers(c, Selected(c))

\* What a call reports is what happened to its terminal: refined, when that was
\* required; carved by a declaration that covers it and put in the place of the
\* whole unit, when Applied; given up or skipped for a reason that is the case.
OutcomeIsTrue ==
  /\ RequireD8Refines
  /\ OnePiecePerUnit
  /\ AppliedIsCovered
  /\ GivenUpIsUncovered
  /\ SkipIsTrue

=============================================================================
