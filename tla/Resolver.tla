------------------------------ MODULE Resolver ------------------------------
(***************************************************************************)
(* The resolution of an outlet to a terminal unit                          *)
(* (crates/core/src/resolver.rs, and the choice of a snap declaration in   *)
(* session.rs).  The snap path ranks the targets near the outlet; without  *)
(* a snap declaration for the level, the catchment that contains the       *)
(* outlet is taken.                                                        *)
(*                                                                         *)
(* A target carries what the code computes from its row: the level of its  *)
(* unit, and its distance from the outlet, or NoDistance when its geometry *)
(* cannot be decoded or has no closest point.  A unit carries where the    *)
(* outlet lies with respect to its polygon.  Weights, distances and areas  *)
(* are naturals in place of floats: only their order is used.              *)
(***************************************************************************)
EXTENDS Naturals, Sequences

CONSTANTS
  Case,         \* the calls: a session, a configuration and an outlet
  Level,        \* the levels of a dataset
  None          \* an absent value

NoDistance == None

Strategy == {"DistanceFirst", "WeightFirst"}

PipTieBreak == {"HighestUpstreamArea", "HighestLocalArea", "LowestUnitId"}

\* A snap target that the store returns for the search box.
Target == [id : Nat, unit : Nat, level : Level \cup {None}, weight : Nat,
           mainstem : BOOLEAN, distance : Nat \cup {NoDistance}]

\* A declaration of hfx.aux.snap.v2 and the answer of its store.
Declaration == [name : Nat, snap : Nat, levels : SUBSET Level, targets : Seq(Target)]

\* A catchment that the store returns for the outlet's box.
Unit == [id : Nat, level : Level, outlet : {"inside", "edge", "outside", "corrupt"},
         upstreamArea : Nat \cup {None}, area : Nat]

\* selected is None in resolve_outlet_authority, which has no level.
IsCase(c) ==
  /\ c.selected \in Level \cup {None}
  /\ c.declarations \in Seq(Declaration)
  /\ c.units \in Seq(Unit)
  /\ \A i, j \in 1 .. Len(c.units) : c.units[i].id = c.units[j].id => i = j
  /\ c.strategy \in Strategy
  /\ c.radius \in Nat
  /\ c.tolerance \in Nat

ASSUME ResolverAssumption ==
  /\ None \notin Level \cup Nat \cup PipTieBreak
  /\ \A c \in Case : IsCase(c)

VARIABLES
  case,         \* the call
  pc,           \* where it is, or how it ended
  store,        \* the index of the snap declaration in use, or 0
  i,            \* the position in a loop over the targets
  failures,     \* decode_failures
  scored,       \* the targets that qualify, by position
  nearest,      \* the fold of the minimum distance, or NoDistance
  best,         \* the fold of the ranking: a position, or 0
  hits,         \* the catchments that hold the outlet, by position
  winner,       \* the position of the target or the unit chosen, or 0
  tieBreak      \* PipTieBreak

vars == <<case, pc, store, i, failures, scored, nearest, best, hits, winner, tieBreak>>

Ended == {"snapped", "contained", "NoSnapCandidates", "OutsideAllCatchments",
          "AllGeometriesCorrupt", "DatasetRead"}

Targets == case.declarations[store].targets

Distance(t) == Targets[t].distance

\* The call's variables have the types of the code; positions lie in the list
\* they index.
TypeOK ==
  /\ IsCase(case)
  /\ pc \in {"dispatch", "snap", "score", "nearest", "rank", "pip", "contain"} \cup Ended
  /\ store \in 0 .. Len(case.declarations)
  /\ i \in Nat
  /\ failures \in Nat
  /\ nearest \in Nat \cup {NoDistance}
  /\ scored \subseteq (IF store = 0 THEN {} ELSE 1 .. Len(Targets))
  /\ best \in scored \cup {0}
  /\ hits \subseteq 1 .. Len(case.units)
  /\ winner \in scored \cup hits \cup {0}
  /\ tieBreak \in PipTieBreak \cup {None}

Init ==
  /\ case \in Case
  /\ pc = "dispatch"
  /\ store = 0 /\ i = 1 /\ failures = 0
  /\ scored = {} /\ nearest = NoDistance /\ best = 0
  /\ hits = {} /\ winner = 0 /\ tieBreak = None

-----------------------------------------------------------------------------
(* The dispatch between the two paths, and the choice of a declaration.    *)

\* Mutant: the comparison of names is turned round.
PrecedesByHighestName(d, e) ==
  \/ d.name > e.name
  \/ d.name = e.name /\ d.snap < e.snap

\* The order of snap_for_level: by name, then by path.
Precedes(d, e) ==
  \/ d.name < e.name
  \/ d.name = e.name /\ d.snap < e.snap

\* Without a level every declaration will do; the first of the manifest does.
Usable(n) ==
  case.selected = None \/ case.selected \in case.declarations[n].levels

Preferred(n) ==
  /\ Usable(n)
  /\ \A k \in 1 .. Len(case.declarations) : Usable(k) =>
       /\ case.selected = None => n <= k
       /\ case.selected # None =>
            /\ ~ Precedes(case.declarations[k], case.declarations[n])
            /\ Precedes(case.declarations[n], case.declarations[k]) \/ n <= k

DispatchSnap ==
  /\ pc = "dispatch"
  /\ \E n \in 1 .. Len(case.declarations) : Preferred(n) /\ store' = n
  /\ pc' = "snap"
  /\ UNCHANGED <<case, i, failures, scored, nearest, best, hits, winner, tieBreak>>

DispatchPip ==
  /\ pc = "dispatch"
  /\ \A n \in 1 .. Len(case.declarations) : ~ Usable(n)
  /\ pc' = "pip"
  /\ UNCHANGED <<case, store, i, failures, scored, nearest, best, hits, winner, tieBreak>>

End(outcome) ==
  /\ pc' = outcome
  /\ UNCHANGED <<case, store, i, failures, scored, nearest, best, hits, winner, tieBreak>>

\* The search box cannot be built, or the store cannot be read.
QueryFails ==
  /\ pc \in {"snap", "pip"}
  /\ End("DatasetRead")

-----------------------------------------------------------------------------
(* resolve_via_snap_store.                                                 *)

SnapQuery ==
  /\ pc = "snap"
  /\ pc' = IF Targets = <<>> THEN "NoSnapCandidates" ELSE "score"
  /\ UNCHANGED <<case, store, i, failures, scored, nearest, best, hits, winner, tieBreak>>

OfLevel(t) ==
  case.selected = None \/ Targets[t].level = case.selected

Decoded(t) == Distance(t) # NoDistance

InRadius(t) ==
  Distance(t) <= case.radius

Scoring == pc = "score" /\ i <= Len(Targets)

\* A target is left out: it is of another level, has no distance (which is
\* counted), or is outside the circle.
Leave ==
  /\ Scoring
  /\ ~ (OfLevel(i) /\ Decoded(i) /\ InRadius(i))
  /\ failures' = IF OfLevel(i) /\ ~ Decoded(i) THEN failures + 1 ELSE failures
  /\ i' = i + 1
  /\ UNCHANGED <<case, pc, store, scored, nearest, best, hits, winner, tieBreak>>

Keep ==
  /\ Scoring
  /\ OfLevel(i) /\ Decoded(i) /\ InRadius(i)
  /\ scored' = scored \cup {i}
  /\ i' = i + 1
  /\ UNCHANGED <<case, pc, store, failures, nearest, best, hits, winner, tieBreak>>

\* Mutant: any decode failure is taken for all of them.
NoneScoredOnFailure ==
  /\ pc = "score" /\ i > Len(Targets)
  /\ scored = {}
  /\ End(IF failures > 0 THEN "AllGeometriesCorrupt" ELSE "NoSnapCandidates")

NoneScored ==
  /\ pc = "score" /\ i > Len(Targets)
  /\ scored = {}
  /\ End(IF failures > 0 /\ failures = Len(Targets) THEN "AllGeometriesCorrupt"
                                                    ELSE "NoSnapCandidates")

\* Distance-first folds the minimum before it ranks.
SomeScored ==
  /\ pc = "score" /\ i > Len(Targets)
  /\ scored # {}
  /\ i' = 1
  /\ pc' = IF case.strategy = "DistanceFirst" THEN "nearest" ELSE "rank"
  /\ UNCHANGED <<case, store, failures, scored, nearest, best, hits, winner, tieBreak>>

\* One turn of the minimum over the scored targets.
FoldNearest ==
  /\ pc = "nearest" /\ i <= Len(Targets)
  /\ nearest' = IF i \in scored /\ (nearest = NoDistance \/ Distance(i) < nearest)
                THEN Distance(i) ELSE nearest
  /\ i' = i + 1
  /\ UNCHANGED <<case, pc, store, failures, scored, best, hits, winner, tieBreak>>

NearestFound ==
  /\ pc = "nearest" /\ i > Len(Targets)
  /\ i' = 1
  /\ pc' = "rank"
  /\ UNCHANGED <<case, store, failures, scored, nearest, best, hits, winner, tieBreak>>

MainstemRank(a) ==
  IF a.mainstem THEN 1 ELSE 0

\* vector_dominance_order: Less.
Dominates(a, b, includeDistance) ==
  \/ a.weight > b.weight
  \/ /\ a.weight = b.weight
     /\ \/ MainstemRank(a) > MainstemRank(b)
        \/ /\ MainstemRank(a) = MainstemRank(b)
           /\ \/ includeDistance /\ a.distance < b.distance
              \/ /\ includeDistance => a.distance = b.distance
                 /\ a.id < b.id

Beats(s, t) ==
  Dominates(Targets[s], Targets[t], case.strategy = "WeightFirst")

\* Mutant: the band is measured from the best so far and not from the nearest.
InBandOfBest(t) ==
  \/ case.strategy = "WeightFirst"
  \/ best = 0
  \/ Distance(t) <= Distance(best) + case.tolerance

\* Distance-first ranks the targets within the tolerance of the nearest.
InBand(t) ==
  case.strategy = "WeightFirst" \/ Distance(t) <= nearest + case.tolerance

\* One turn of min_by, which keeps the first of equals.
FoldBest ==
  /\ pc = "rank" /\ i <= Len(Targets)
  /\ best' = IF i \in scored /\ InBand(i) /\ (best = 0 \/ Beats(i, best))
             THEN i ELSE best
  /\ i' = i + 1
  /\ UNCHANGED <<case, pc, store, failures, scored, nearest, hits, winner, tieBreak>>

\* The ranker's answer; None would be an integrity error.
Ranked ==
  /\ pc = "rank" /\ i > Len(Targets)
  /\ pc' = IF best = 0 THEN "DatasetRead" ELSE "snapped"
  /\ winner' = best
  /\ UNCHANGED <<case, store, i, failures, scored, nearest, best, hits, tieBreak>>

-----------------------------------------------------------------------------
(* resolve_via_pip.                                                        *)

PipQuery ==
  /\ pc = "pip"
  /\ pc' = IF case.units = <<>> THEN "OutsideAllCatchments" ELSE "contain"
  /\ UNCHANGED <<case, store, i, failures, scored, nearest, best, hits, winner, tieBreak>>

Corrupt == {u \in 1 .. Len(case.units) : case.units[u].outlet = "corrupt"}

\* The decoded catchments of the selected level.
DecodedUnits ==
  {u \in 1 .. Len(case.units) :
     /\ case.units[u].outlet # "corrupt"
     /\ case.selected = None \/ case.units[u].level = case.selected}

\* Mutant: a boundary is as good as the inside.
HoldingInclusively ==
  {u \in DecodedUnits : case.units[u].outlet \in {"inside", "edge"}}

\* Strict containment, else the boundary.
Holding ==
  LET inside == {u \in DecodedUnits : case.units[u].outlet = "inside"}
  IN  IF inside # {} THEN inside
                     ELSE {u \in DecodedUnits : case.units[u].outlet = "edge"}

ContainNone ==
  /\ pc = "contain"
  /\ Holding = {}
  /\ pc' = IF Corrupt # {} /\ Corrupt = 1 .. Len(case.units)
           THEN "AllGeometriesCorrupt" ELSE "OutsideAllCatchments"
  /\ UNCHANGED <<case, store, i, failures, scored, nearest, best, hits, winner, tieBreak>>

ContainOne ==
  /\ pc = "contain"
  /\ \E u \in Holding : Holding = {u} /\ winner' = u
  /\ hits' = Holding
  /\ pc' = "contained"
  /\ UNCHANGED <<case, store, i, failures, scored, nearest, best, tieBreak>>

\* Mutant: an unknown upstream area sorts before the known ones.
LargerUpstreamNoneFirst(x, y) ==
  IF x = None THEN y # None ELSE y # None /\ x > y

\* upstream_area, descending, with unknown ones last.
LargerUpstream(x, y) ==
  IF y = None THEN x # None ELSE x # None /\ x > y

\* The comparison of sort_by: Less.
SortsBefore(a, b) ==
  \/ LargerUpstream(a.upstreamArea, b.upstreamArea)
  \/ /\ a.upstreamArea = b.upstreamArea
     /\ \/ a.area > b.area
        \/ a.area = b.area /\ a.id < b.id

\* The rule that told the first two apart.
TieBreak(a, b) ==
  IF a.upstreamArea # b.upstreamArea THEN "HighestUpstreamArea"
  ELSE IF a.area # b.area THEN "HighestLocalArea" ELSE "LowestUnitId"

\* Several hold it: sorted, the first is taken and compared with the second.
ContainMany ==
  /\ pc = "contain"
  /\ \E first, second \in Holding :
       /\ first # second
       /\ \A u \in Holding \ {first} : SortsBefore(case.units[first], case.units[u])
       /\ \A u \in Holding \ {first, second} :
            SortsBefore(case.units[second], case.units[u])
       /\ winner' = first
       /\ tieBreak' = TieBreak(case.units[first], case.units[second])
  /\ hits' = Holding
  /\ pc' = "contained"
  /\ UNCHANGED <<case, store, i, failures, scored, nearest, best>>

-----------------------------------------------------------------------------
Next ==
  \/ DispatchSnap \/ DispatchPip \/ QueryFails
  \/ SnapQuery \/ Leave \/ Keep \/ NoneScored \/ SomeScored
  \/ FoldNearest \/ NearestFound \/ FoldBest \/ Ranked
  \/ PipQuery \/ ContainNone \/ ContainOne \/ ContainMany

Spec == Init /\ [][Next]_vars

-----------------------------------------------------------------------------
(* Properties.  Each is stated over the call's input, by filters and not   *)
(* by the comparisons the code folds with.                                 *)

\* May target x be chosen in call c: of its level, readable, in its circle.
Qualifies(c, x) ==
  /\ c.selected = None \/ x.level = c.selected
  /\ x.distance # NoDistance
  /\ x.distance <= c.radius

\* The targets of store n that may be chosen.
Qualified(n) ==
  LET T == case.declarations[n].targets
  IN  {t \in 1 .. Len(T) : Qualifies(case, T[t])}

\* Those of S for which no other has a smaller value of f, and a larger one.
Least(S, f) == {t \in S : \A u \in S : f[t] <= f[u]}
Most(S, f)  == {t \in S : \A u \in S : f[u] <= f[t]}

\* The target with the least id among those that rank highest: for
\* weight-first by weight, stem and distance over the whole circle, for
\* distance-first by weight and stem among those within the tolerance of the
\* nearest (SnapStrategy).
BestTargets(n) ==
  LET T == case.declarations[n].targets
      dist == [t \in DOMAIN T |-> T[t].distance]
      byWeight(S) == Most(S, [t \in DOMAIN T |-> T[t].weight])
      byStem(S) == LET main == {t \in S : T[t].mainstem}
                   IN  IF main = {} THEN S ELSE main
      byId(S) == Least(S, [t \in DOMAIN T |-> T[t].id])
      band == {t \in Qualified(n) :
                 \A u \in Qualified(n) : dist[t] <= dist[u] + case.tolerance}
  IN  IF case.strategy = "WeightFirst"
      THEN byId(Least(byStem(byWeight(Qualified(n))), dist))
      ELSE byId(byStem(byWeight(band)))

\* A snapped outlet is snapped to the best target of the circle and level, in
\* whatever order the store returned them (ConfiguredVectorCandidateRanker).
SnappedToBest ==
  pc = "snapped" => winner \in BestTargets(store)

\* A declaration is used when there is one for the level, and it is the first
\* by name and path, wherever the manifest lists it (snap_for_level).
DeclarationIsFirst ==
  LET At == {n \in 1 .. Len(case.declarations) :
               case.selected \in case.declarations[n].levels}
      d(n) == case.declarations[n]
  IN  case.selected # None =>
        /\ pc \in {"contain", "contained", "OutsideAllCatchments"} => At = {}
        /\ pc \in {"score", "snapped", "NoSnapCandidates"} =>
             store \in At /\ \A n \in At : \/ d(store).name < d(n).name
                                           \/ /\ d(store).name = d(n).name
                                              /\ d(store).snap <= d(n).snap

\* An outlet is refused only if nothing could have been chosen: no target of
\* the circle and level, no readable catchment of the level that touches it;
\* corruption is reported only if every candidate was corrupt, and no ranking
\* of scored targets comes out empty (the integrity error of the ranker).
RefusedRightly ==
  /\ pc = "DatasetRead" => scored = {}
  /\ pc = "NoSnapCandidates" => Qualified(store) = {}
  /\ pc = "OutsideAllCatchments" =>
       \A u \in 1 .. Len(case.units) :
         (case.selected = None \/ case.units[u].level = case.selected) =>
           case.units[u].outlet \in {"outside", "corrupt"}
  /\ pc = "AllGeometriesCorrupt" =>
       IF store = 0 THEN \A u \in 1 .. Len(case.units) : case.units[u].outlet = "corrupt"
                    ELSE \A t \in 1 .. Len(Targets) : Distance(t) = NoDistance

\* The winner of point-in-polygon is of the selected level, and strictly
\* contains the outlet if any readable catchment of the level does.
InsideBeforeEdge ==
  pc = "contained" =>
    /\ case.selected = None \/ case.units[winner].level = case.selected
    /\ \/ case.units[winner].outlet = "inside"
       \/ /\ case.units[winner].outlet = "edge"
          /\ \A u \in 1 .. Len(case.units) :
               (case.selected = None \/ case.units[u].level = case.selected) =>
                 case.units[u].outlet # "inside"

\* The tie-break reported is the one that decided: the winner has more
\* upstream area than every other hit, or as much as any and more area, or the
\* least id among equals (PipTieBreak).
TieBreakIsTrue ==
  pc = "contained" =>
    LET w == case.units[winner]
        rest == hits \ {winner}
        x(u) == case.units[u]
        most == \A u \in rest : x(u).upstreamArea # None =>
                  w.upstreamArea # None /\ x(u).upstreamArea <= w.upstreamArea
        level(u) == x(u).upstreamArea = w.upstreamArea
    IN  /\ tieBreak = None => rest = {}
        /\ tieBreak = "HighestUpstreamArea" =>
             w.upstreamArea # None /\ most /\ \A u \in rest : ~ level(u)
        /\ tieBreak = "HighestLocalArea" =>
             /\ most /\ \E u \in rest : level(u)
             /\ \A u \in rest : level(u) => x(u).area < w.area
        /\ tieBreak = "LowestUnitId" =>
             /\ most /\ \E u \in rest : level(u) /\ x(u).area = w.area
             /\ \A u \in rest : level(u) =>
                  x(u).area < w.area \/ (x(u).area = w.area /\ w.id < x(u).id)

\* A resolution is right: the declaration, the snap target or the catchment is
\* the one the rules choose over the whole input, the tie-break reported is the
\* one that decided, and a refusal is true.
ResolvedRightly ==
  /\ SnappedToBest
  /\ DeclarationIsFirst
  /\ RefusedRightly
  /\ InsideBeforeEdge
  /\ TieBreakIsTrue

=============================================================================
