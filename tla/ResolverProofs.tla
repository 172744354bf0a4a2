--------------------------- MODULE ResolverProofs ---------------------------
(***************************************************************************)
(* Proofs about the resolution of an outlet, for every session: any number *)
(* of declarations, targets, catchments and levels, in any order; and      *)
(* about the other parts of the same run: the trace of the stages, the     *)
(* staged calls, the counters of the object store, the snap store and the  *)
(* export of snap targets.                                                 *)
(***************************************************************************)
EXTENDS MCResolver, SequenceTheorems, FiniteSetTheorems, WellFoundedInduction, TLAPS

(***************************************************************************)
(* The inductive invariant.  The properties speak of the end of a call;    *)
(* what carries them there are the loop invariants of the three folds:     *)
(* scored holds what qualifies of the targets looked at (ScoredSoFar),     *)
(* nearest is the minimum of their distances (NearestSoFar), and best is   *)
(* beaten by none of the band looked at (BestSoFar).                       *)
(***************************************************************************)
SnapOnly == {"snap", "score", "nearest", "rank", "snapped", "NoSnapCandidates"}

PipOnly == {"pip", "contain", "contained", "OutsideAllCatchments"}

Dispatched ==
  /\ pc = "dispatch" => store = 0
  /\ store # 0 => Preferred(store)
  /\ pc \in SnapOnly => store # 0
  /\ pc \in PipOnly => store = 0 /\ \A n \in 1 .. Len(case.declarations) : ~ Usable(n)

BeforeScore == {"dispatch", "snap"} \cup PipOnly

ScoredSoFar ==
  /\ pc \in BeforeScore => scored = {} /\ failures = 0 /\ i = 1
  /\ pc = "score" =>
       /\ i <= Len(Targets) + 1
       /\ \A t \in 1 .. Len(Targets) :
            t \in scored <=> t < i /\ Qualifies(case, Targets[t])
       /\ failures < i
       /\ failures = i - 1 => \A t \in 1 .. Len(Targets) : t < i => Distance(t) = NoDistance
  /\ pc \in {"nearest", "rank", "snapped"} =>
       /\ scored = Qualified(store)
       /\ scored # {}

\* nearest is the minimum over the scored targets before position n.
MinimumBefore(n) ==
  \/ nearest = NoDistance /\ \A t \in scored : ~ (t < n)
  \/ /\ nearest \in Nat
     /\ \E t \in scored : t < n /\ Distance(t) = nearest
     /\ \A t \in scored : t < n => nearest <= Distance(t)

NearestSoFar ==
  /\ pc \in BeforeScore \cup {"score"} => nearest = NoDistance
  /\ pc = "nearest" => case.strategy = "DistanceFirst" /\ MinimumBefore(i)
  /\ pc \in {"rank", "snapped"} /\ case.strategy = "DistanceFirst" =>
       MinimumBefore(Len(Targets) + 1)

\* best is a target of the band before position n that none of them beats.
BestBefore(n) ==
  \/ best = 0 /\ \A t \in scored : ~ (t < n /\ InBand(t))
  \/ /\ best \in scored /\ best < n /\ InBand(best)
     /\ \A t \in scored : t < n /\ InBand(t) => ~ Beats(t, best)

BestSoFar ==
  /\ pc \in BeforeScore \cup {"score", "nearest"} => best = 0
  /\ pc = "rank" => BestBefore(i)
  /\ pc = "snapped" => BestBefore(Len(Targets) + 1) /\ best # 0 /\ winner = best

Positions == pc \in {"nearest", "rank"} => i \in 1 .. Len(Targets) + 1

\* The tie-break is set by the last step only.
Unbroken == pc # "contained" => tieBreak = None

Contained ==
  pc = "contained" =>
    /\ hits = Holding
    /\ winner \in hits
    /\ \A u \in hits \ {winner} : SortsBefore(case.units[winner], case.units[u])
    /\ \/ tieBreak = None /\ hits = {winner}
       \/ \E second \in hits \ {winner} :
            /\ tieBreak = TieBreak(case.units[winner], case.units[second])
            /\ \A u \in hits \ {winner, second} :
                 SortsBefore(case.units[second], case.units[u])

ResolverInv ==
  /\ TypeOK
  /\ Dispatched
  /\ ScoredSoFar
  /\ NearestSoFar
  /\ Positions
  /\ BestSoFar
  /\ Contained
  /\ Unbroken
  /\ RefusedRightly

-----------------------------------------------------------------------------
(* What the lists of a call hold.                                          *)

LEMMA TargetTypes ==
  ASSUME NEW c, IsCase(c), NEW n \in 1 .. Len(c.declarations),
         NEW t \in 1 .. Len(c.declarations[n].targets)
  PROVE  /\ c.declarations[n].targets \in Seq(Target)
         /\ c.declarations[n].targets[t] \in Target
  <1>1. c.declarations[n] \in Declaration
    BY ElementOfSeq DEF IsCase
  <1>2. c.declarations[n].targets \in Seq(Target)
    BY <1>1 DEF Declaration
  <1> QED  BY <1>2, ElementOfSeq

LEMMA UnitTypes ==
  ASSUME NEW c, IsCase(c), NEW u \in 1 .. Len(c.units)
  PROVE  c.units[u] \in Unit
  BY ElementOfSeq DEF IsCase

LEMMA LengthTypes ==
  ASSUME NEW c, IsCase(c)
  PROVE  /\ Len(c.declarations) \in Nat
         /\ Len(c.units) \in Nat
         /\ \A n \in 1 .. Len(c.declarations) : Len(c.declarations[n].targets) \in Nat
  <1>1. \A n \in 1 .. Len(c.declarations) : c.declarations[n] \in Declaration
    BY ElementOfSeq DEF IsCase
  <1>2. \A n \in 1 .. Len(c.declarations) : c.declarations[n].targets \in Seq(Target)
    BY <1>1 DEF Declaration
  <1> QED  BY <1>2, LenProperties DEF IsCase

(***************************************************************************)
(* The comparison of the ranking is a weak order: what is not beaten by    *)
(* the best so far is not beaten by what beats it.                         *)
(***************************************************************************)
LEMMA DominatesTransfers ==
  ASSUME NEW a \in Target, NEW b \in Target, NEW c \in Target, NEW f \in BOOLEAN,
         a.distance \in Nat, b.distance \in Nat, c.distance \in Nat,
         Dominates(a, b, f), ~ Dominates(c, b, f)
  PROVE  ~ Dominates(c, a, f)
  <1>1. /\ MainstemRank(a) \in Nat /\ MainstemRank(b) \in Nat /\ MainstemRank(c) \in Nat
        /\ a.weight \in Nat /\ b.weight \in Nat /\ c.weight \in Nat
        /\ a.id \in Nat /\ b.id \in Nat /\ c.id \in Nat
    BY DEF MainstemRank, Target
  <1>2. CASE f
    BY <1>1, <1>2 DEF Dominates
  <1>3. CASE ~ f
    BY <1>1, <1>3 DEF Dominates
  <1> QED  BY <1>2, <1>3

LEMMA DominatesIrreflexive ==
  ASSUME NEW a \in Target, NEW f \in BOOLEAN, a.distance \in Nat
  PROVE  ~ Dominates(a, a, f)
  <1>1. MainstemRank(a) \in Nat /\ a.weight \in Nat /\ a.id \in Nat
    BY DEF MainstemRank, Target
  <1> QED  BY <1>1 DEF Dominates

LEMMA CaseFacts ==
  ASSUME TypeOK
  PROVE  /\ Len(case.declarations) \in Nat /\ Len(case.units) \in Nat
         /\ case.radius \in Nat /\ case.tolerance \in Nat
         /\ case.strategy \in Strategy
         /\ \A u \in 1 .. Len(case.units) : case.units[u] \in Unit
         /\ store # 0 => /\ store \in 1 .. Len(case.declarations)
                         /\ Len(Targets) \in Nat
                         /\ \A t \in 1 .. Len(Targets) : Targets[t] \in Target
  <1>1. IsCase(case) /\ store \in 0 .. Len(case.declarations)
    BY DEF TypeOK
  <1>2. Len(case.declarations) \in Nat /\ Len(case.units) \in Nat
    BY <1>1, LengthTypes
  <1>3. \A u \in 1 .. Len(case.units) : case.units[u] \in Unit
    BY <1>1, UnitTypes
  <1>4. ASSUME store # 0
        PROVE  /\ store \in 1 .. Len(case.declarations)
               /\ Len(Targets) \in Nat
               /\ \A t \in 1 .. Len(Targets) : Targets[t] \in Target
    <2>1. store \in 1 .. Len(case.declarations)
      BY <1>1, <1>2, <1>4
    <2> QED  BY <2>1, <1>1, LengthTypes, TargetTypes DEF Targets
  <1> QED  BY <1>1, <1>2, <1>3, <1>4 DEF IsCase

-----------------------------------------------------------------------------
LEMMA InitInv ==
  ASSUME Init
  PROVE  ResolverInv
  <1>1. IsCase(case)
    BY ResolverAssumption DEF Init
  <1>2. Len(case.declarations) \in Nat
    BY <1>1, LengthTypes
  <1>3. TypeOK
    BY <1>1, <1>2 DEF Init, TypeOK, NoDistance, Ended
  <1>4. /\ Dispatched /\ ScoredSoFar /\ NearestSoFar /\ Positions /\ BestSoFar
        /\ Contained /\ Unbroken /\ RefusedRightly
    BY DEF Init, Dispatched, ScoredSoFar, NearestSoFar, Positions, BestSoFar, Contained,
           Unbroken, RefusedRightly, SnapOnly, PipOnly, BeforeScore
  <1> QED  BY <1>3, <1>4 DEF ResolverInv

\* Steps that leave the call and its store alone leave the targets alone.
LEMMA SameTargets ==
  ASSUME UNCHANGED <<case, store>>
  PROVE  Targets' = Targets
  BY DEF Targets

LEMMA TypeStep ==
  ASSUME ResolverInv, Next
  PROVE  TypeOK'
  <1> USE DEF Ended, NoDistance, PipTieBreak
  <1>0. TypeOK /\ Dispatched /\ Len(case.declarations) \in Nat
    BY CaseFacts DEF ResolverInv
  <1>1. CASE DispatchSnap
    BY <1>0, <1>1 DEF DispatchSnap, TypeOK, Dispatched, IsCase, ResolverInv, ScoredSoFar, BeforeScore
  <1>2. CASE DispatchPip \/ QueryFails \/ SnapQuery \/ NoneScored \/ SomeScored
             \/ NearestFound \/ Leave \/ PipQuery \/ ContainNone
    <2>1. Targets' = Targets /\ IsCase(case)'
      BY <1>0, <1>2, SameTargets DEF DispatchPip, QueryFails, SnapQuery, NoneScored, SomeScored,
         NearestFound, Leave, PipQuery, ContainNone, End, TypeOK
    <2>2. UNCHANGED <<case, store, scored, nearest, best, hits, winner, tieBreak>>
      BY <1>2 DEF DispatchPip, QueryFails, SnapQuery, NoneScored, SomeScored,
         NearestFound, Leave, PipQuery, ContainNone, End
    <2>3. i' \in Nat /\ failures' \in Nat
      BY <1>0, <1>2 DEF DispatchPip, QueryFails, SnapQuery, NoneScored, SomeScored,
         NearestFound, Leave, PipQuery, ContainNone, End, TypeOK
    <2>4. pc' \in {"dispatch", "snap", "score", "nearest", "rank", "pip", "contain"} \cup Ended
      BY <1>0, <1>2 DEF DispatchPip, QueryFails, SnapQuery, NoneScored, SomeScored,
         NearestFound, Leave, PipQuery, ContainNone, End, TypeOK
    <2> QED  BY <1>0, <2>1, <2>2, <2>3, <2>4 DEF TypeOK
  <1>3. CASE Keep
    <2>1. Targets' = Targets /\ IsCase(case)'
      BY <1>0, <1>3, SameTargets DEF Keep, TypeOK
    <2>2. i \in 1 .. Len(Targets) \/ i = 0
      BY <1>0, <1>3, CaseFacts DEF Keep, Scoring, TypeOK, Dispatched, SnapOnly
    <2>3. store # 0 /\ i # 0
      BY <1>0, <1>3 DEF Keep, Scoring, Dispatched, SnapOnly, ResolverInv, ScoredSoFar, TypeOK
    <2> QED  BY <1>0, <1>3, <2>1, <2>2, <2>3 DEF Keep, TypeOK
  <1>4. CASE FoldNearest
    <2>1. Targets' = Targets /\ IsCase(case)'
      BY <1>0, <1>4, SameTargets DEF FoldNearest, TypeOK
    <2>2. store # 0
      BY <1>0, <1>4 DEF FoldNearest, Dispatched, SnapOnly
    <2>3. i \in scored => Distance(i) \in Nat \cup {None}
      BY <1>0, <2>2, CaseFacts DEF TypeOK, Distance, Target
    <2> QED  BY <1>0, <1>4, <2>1, <2>3 DEF FoldNearest, TypeOK
  <1>5. CASE FoldBest \/ Ranked
    <2>1. Targets' = Targets /\ IsCase(case)'
      BY <1>0, <1>5, SameTargets DEF FoldBest, Ranked, TypeOK
    <2>2. /\ UNCHANGED <<case, store, failures, nearest, scored, hits, tieBreak>>
          /\ best' \in scored \cup {0} /\ winner' \in scored \cup hits \cup {0}
          /\ i' \in Nat /\ pc' \in {"rank", "snapped", "DatasetRead"}
      BY <1>0, <1>5 DEF FoldBest, Ranked, TypeOK
    <2> QED  BY <1>0, <2>1, <2>2 DEF TypeOK
  <1>6. CASE ContainOne \/ ContainMany
    <2>1. Targets' = Targets /\ IsCase(case)'
      BY <1>0, <1>6, SameTargets DEF ContainOne, ContainMany, TypeOK
    <2>2. Holding \subseteq 1 .. Len(case.units)
      BY DEF Holding, DecodedUnits
    <2> QED  BY <1>0, <1>6, <2>1, <2>2 DEF ContainOne, ContainMany, TypeOK, TieBreak
  <1> QED  BY <1>1, <1>2, <1>3, <1>4, <1>5, <1>6 DEF Next

LEMMA DispatchStep ==
  ASSUME ResolverInv, Next
  PROVE  Dispatched'
  <1> USE DEF SnapOnly, PipOnly
  <1>0. Dispatched /\ TypeOK /\ Len(case.declarations) \in Nat
    BY CaseFacts DEF ResolverInv
  <1>1. CASE DispatchSnap
    BY <1>0, <1>1 DEF DispatchSnap, Dispatched, Preferred, Usable
  <1>2. CASE DispatchPip
    BY <1>0, <1>2 DEF DispatchPip, Dispatched, Usable, Preferred
  <1>3. ASSUME UNCHANGED <<case, store>>,
               pc \in SnapOnly => pc' \in SnapOnly \cup {"AllGeometriesCorrupt", "DatasetRead"},
               pc \in PipOnly => pc' \in PipOnly \cup {"AllGeometriesCorrupt", "DatasetRead"},
               pc \in SnapOnly \cup PipOnly
        PROVE  Dispatched'
    <2>1. /\ store # 0 => Preferred(store)'
          /\ pc \in PipOnly => \A n \in 1 .. Len(case.declarations') : ~ Usable(n)'
      BY <1>0, <1>3 DEF Dispatched, Preferred, Usable
    <2> QED  BY <1>0, <1>3, <2>1 DEF Dispatched
  <1>4. CASE QueryFails \/ SnapQuery \/ Leave \/ Keep \/ NoneScored \/ SomeScored
             \/ FoldNearest \/ NearestFound \/ FoldBest \/ Ranked
    BY <1>3, <1>4 DEF QueryFails, SnapQuery, Leave, Keep, Scoring, NoneScored, SomeScored,
       FoldNearest, NearestFound, FoldBest, Ranked, End
  <1>5. CASE PipQuery \/ ContainNone \/ ContainOne \/ ContainMany
    BY <1>3, <1>5 DEF PipQuery, ContainNone, ContainOne, ContainMany
  <1> QED  BY <1>1, <1>2, <1>4, <1>5 DEF Next

-----------------------------------------------------------------------------
(* The loop over the targets.                                              *)

\* What the code tests of a target is what the properties ask of it.
LEMMA QualifiesAsTested ==
  ASSUME TypeOK, store # 0, NEW t \in 1 .. Len(Targets)
  PROVE  Qualifies(case, Targets[t]) <=> OfLevel(t) /\ Decoded(t) /\ InRadius(t)
  BY DEF Qualifies, OfLevel, Decoded, InRadius, Distance

LEMMA ScoredStep ==
  ASSUME ResolverInv, Next
  PROVE  ScoredSoFar'
  <1> USE DEF BeforeScore, PipOnly
  <1>0. /\ ScoredSoFar /\ TypeOK /\ Dispatched
        /\ i \in Nat /\ failures \in Nat
    BY DEF ResolverInv, TypeOK
  <1>1. CASE DispatchSnap \/ DispatchPip \/ PipQuery \/ ContainNone \/ ContainOne \/ ContainMany
    BY <1>0, <1>1 DEF DispatchSnap, DispatchPip, PipQuery, ContainNone, ContainOne,
       ContainMany, ScoredSoFar
  <1>2. CASE QueryFails
    BY <1>0, <1>2 DEF QueryFails, End, ScoredSoFar
  <1>3. CASE SnapQuery
    <2>1. Targets' = Targets /\ store # 0 /\ Len(Targets) \in Nat
      BY <1>0, <1>3, SameTargets, CaseFacts DEF SnapQuery, Dispatched, SnapOnly
    <2> QED  BY <1>0, <1>3, <2>1 DEF SnapQuery, ScoredSoFar
  <1>4. CASE Leave \/ Keep
    <2>1. /\ Targets' = Targets /\ case' = case /\ pc = "score" /\ pc' = "score"
          /\ store # 0 /\ Len(Targets) \in Nat /\ i \in 1 .. Len(Targets) /\ i' = i + 1
      BY <1>0, <1>4, SameTargets, CaseFacts DEF Leave, Keep, Scoring, Dispatched, SnapOnly,
         ScoredSoFar
    <2>2. i \in scored' <=> Qualifies(case, Targets[i])
      BY <1>0, <1>4, <2>1, QualifiesAsTested DEF Leave, Keep, ScoredSoFar
    <2>3. \A t \in 1 .. Len(Targets) : t # i => (t \in scored' <=> t \in scored)
      BY <1>4 DEF Leave, Keep
    <2>4. \A t \in 1 .. Len(Targets) : t \in scored' <=> t < i + 1 /\ Qualifies(case, Targets[t])
      BY <1>0, <2>1, <2>2, <2>3 DEF ScoredSoFar
    <2>5. /\ failures' < i + 1
          /\ failures' = i =>
               \A t \in 1 .. Len(Targets) : t < i + 1 => Distance(t) = NoDistance
      <3>1. CASE failures' = failures
        BY <1>0, <2>1, <3>1 DEF ScoredSoFar
      <3>2. CASE failures' = failures + 1 /\ Distance(i) = NoDistance
        BY <1>0, <2>1, <3>2 DEF ScoredSoFar
      <3> QED  BY <1>4, <3>1, <3>2 DEF Leave, Keep, Decoded
    <2>6. \A t : Distance(t)' = Distance(t)
      BY <2>1 DEF Distance
    <2> QED  BY <2>1, <2>4, <2>5, <2>6 DEF ScoredSoFar
  <1>5. CASE NoneScored
    BY <1>0, <1>5 DEF NoneScored, End, ScoredSoFar
  <1>6. CASE SomeScored
    <2>1. /\ store # 0 /\ Len(Targets) \in Nat /\ scored \subseteq 1 .. Len(Targets)
          /\ Qualified(store)' = Qualified(store)
      BY <1>0, <1>6, CaseFacts DEF SomeScored, Dispatched, SnapOnly, TypeOK, Qualified
    <2>2. scored = Qualified(store)
      <3>1. \A t \in 1 .. Len(Targets) : t \in scored <=> Qualifies(case, Targets[t])
        BY <1>0, <1>6, <2>1 DEF SomeScored, ScoredSoFar
      <3> QED  BY <2>1, <3>1 DEF Qualified, Targets
    <2> QED  BY <1>6, <2>1, <2>2 DEF SomeScored, ScoredSoFar
  <1>7. CASE FoldNearest \/ NearestFound \/ FoldBest \/ Ranked
    <2>1. Qualified(store)' = Qualified(store)
      BY <1>7 DEF FoldNearest, NearestFound, FoldBest, Ranked, Qualified
    <2> QED  BY <1>0, <1>7, <2>1 DEF FoldNearest, NearestFound, FoldBest, Ranked, ScoredSoFar
  <1> QED  BY <1>1, <1>2, <1>3, <1>4, <1>5, <1>6, <1>7 DEF Next

\* Every scored target has a distance.
LEMMA ScoredFacts ==
  ASSUME ResolverInv, pc \in {"nearest", "rank", "snapped"}
  PROVE  /\ store # 0 /\ Len(Targets) \in Nat
         /\ scored \subseteq 1 .. Len(Targets) /\ scored # {}
         /\ \A t \in scored : /\ Targets[t] \in Target
                              /\ Distance(t) \in Nat /\ Targets[t].distance \in Nat
  <1>1. /\ store # 0 /\ Len(Targets) \in Nat /\ scored # {} /\ scored = Qualified(store)
        /\ \A t \in 1 .. Len(Targets) : Targets[t] \in Target
    BY CaseFacts DEF ResolverInv, Dispatched, ScoredSoFar, SnapOnly
  <1>2. \A t \in Qualified(store) : t \in 1 .. Len(Targets) /\ Targets[t].distance # NoDistance
    BY DEF Qualified, Qualifies, Targets
  <1> QED  BY <1>1, <1>2 DEF Distance, Target, NoDistance

LEMMA PositionsStep ==
  ASSUME ResolverInv, Next
  PROVE  Positions'
  <1>0. i \in Nat /\ TypeOK /\ Dispatched /\ Positions
    BY DEF ResolverInv, TypeOK
  <1>1. CASE SomeScored \/ NearestFound \/ FoldNearest \/ FoldBest
    <2>1. Targets' = Targets /\ Len(Targets) \in Nat
      BY <1>0, <1>1, SameTargets, CaseFacts DEF SomeScored, NearestFound, FoldNearest, FoldBest,
         Dispatched, SnapOnly
    <2> QED  BY <1>0, <1>1, <2>1 DEF SomeScored, NearestFound, FoldNearest, FoldBest, Positions
  <1>2. CASE ~ (SomeScored \/ NearestFound \/ FoldNearest \/ FoldBest)
    BY <1>2 DEF Next, DispatchSnap, DispatchPip, QueryFails, SnapQuery, Leave, Keep, Scoring,
       NoneScored, Ranked, PipQuery, ContainNone, ContainOne, ContainMany, End, Positions
  <1> QED  BY <1>1, <1>2

LEMMA NearestStep ==
  ASSUME ResolverInv, Next
  PROVE  NearestSoFar'
  <1> USE DEF BeforeScore, PipOnly
  <1>0. TypeOK /\ Dispatched /\ NearestSoFar /\ Positions /\ i \in Nat
    BY DEF ResolverInv, TypeOK
  <1>1. CASE ~ (SomeScored \/ FoldNearest \/ NearestFound \/ FoldBest \/ Ranked)
    BY <1>0, <1>1 DEF Next, DispatchSnap, DispatchPip, QueryFails, SnapQuery, Leave, Keep, Scoring,
       NoneScored, PipQuery, ContainNone, ContainOne, ContainMany, End, NearestSoFar
  <1>2. CASE SomeScored
    <2>1. /\ nearest' = NoDistance /\ i' = 1 /\ scored' = scored /\ pc' \in {"nearest", "rank"}
          /\ case' = case
          /\ pc' = "nearest" <=> case.strategy = "DistanceFirst"
      BY <1>0, <1>2 DEF SomeScored, NearestSoFar, NoDistance
    <2>2. \A t \in scored : ~ (t < 1)
      BY <1>0, <1>2, CaseFacts DEF SomeScored, TypeOK, Dispatched, SnapOnly
    <2> QED  BY <2>1, <2>2 DEF NearestSoFar, MinimumBefore, NoDistance
  <1>3. CASE FoldNearest
    <2>1. /\ Targets' = Targets /\ scored' = scored /\ i' = i + 1 /\ pc = "nearest"
          /\ pc' = pc /\ case' = case
      BY <1>3, SameTargets DEF FoldNearest
    <2>2. \A t : Distance(t)' = Distance(t)
      BY <2>1 DEF Distance
    <2>3. /\ scored \subseteq 1 .. Len(Targets) /\ Len(Targets) \in Nat
          /\ \A t \in scored : Distance(t) \in Nat
      BY <2>1, ScoredFacts
    <2>4. MinimumBefore(i) /\ NoDistance \notin Nat /\ case.strategy = "DistanceFirst"
      BY <1>0, <2>1, ResolverAssumption DEF NearestSoFar, NoDistance
    <2>5. nearest' = IF i \in scored /\ (nearest = NoDistance \/ Distance(i) < nearest)
                     THEN Distance(i) ELSE nearest
      BY <1>3 DEF FoldNearest
    <2>6. \/ nearest' = NoDistance /\ \A t \in scored : ~ (t < i + 1)
          \/ /\ nearest' \in Nat
             /\ \E t \in scored : t < i + 1 /\ Distance(t) = nearest'
             /\ \A t \in scored : t < i + 1 => nearest' <= Distance(t)
      <3>1. CASE i \notin scored
        BY <1>0, <2>3, <2>4, <2>5, <3>1 DEF MinimumBefore
      <3>2. CASE i \in scored /\ nearest = NoDistance
        BY <1>0, <2>3, <2>4, <2>5, <3>2 DEF MinimumBefore
      <3>3. CASE i \in scored /\ nearest # NoDistance
        BY <1>0, <2>3, <2>4, <2>5, <3>3 DEF MinimumBefore
      <3> QED  BY <3>1, <3>2, <3>3
    <2> QED  BY <2>1, <2>2, <2>4, <2>6 DEF NearestSoFar, MinimumBefore, NoDistance
  <1>4. CASE NearestFound \/ FoldBest \/ Ranked
    <2>1. /\ Targets' = Targets /\ UNCHANGED <<scored, nearest, case>>
          /\ pc \in {"nearest", "rank"} /\ pc' \in {"rank", "snapped", "DatasetRead"}
      BY <1>4, SameTargets DEF NearestFound, FoldBest, Ranked
    <2>2. \A t : Distance(t)' = Distance(t)
      BY <2>1 DEF Distance
    <2>3. pc = "nearest" => i = Len(Targets) + 1
      BY <1>0, <1>4, <2>1, ScoredFacts DEF NearestFound, FoldBest, Ranked, Positions
    <2>4. case.strategy = "DistanceFirst" => MinimumBefore(Len(Targets) + 1)
      BY <1>0, <2>1, <2>3 DEF NearestSoFar
    <2> QED  BY <2>1, <2>2, <2>4 DEF NearestSoFar, MinimumBefore, NoDistance
  <1> QED  BY <1>1, <1>2, <1>3, <1>4

-----------------------------------------------------------------------------
(* The ranking.                                                            *)

LEMMA BestStep ==
  ASSUME ResolverInv, Next
  PROVE  BestSoFar'
  <1> USE DEF BeforeScore, PipOnly
  <1>0. TypeOK /\ Dispatched /\ BestSoFar /\ Positions /\ i \in Nat /\ NoDistance \notin Nat
    BY ResolverAssumption DEF ResolverInv, TypeOK, NoDistance
  <1>1. CASE ~ (SomeScored \/ NearestFound \/ FoldBest \/ Ranked)
    BY <1>0, <1>1 DEF Next, DispatchSnap, DispatchPip, QueryFails, SnapQuery, Leave, Keep, Scoring,
       NoneScored, FoldNearest, PipQuery, ContainNone, ContainOne, ContainMany, End, BestSoFar
  <1>2. CASE SomeScored \/ NearestFound
    <2>1. best' = 0 /\ i' = 1 /\ scored' = scored /\ pc' \in {"nearest", "rank"}
      BY <1>0, <1>2 DEF SomeScored, NearestFound, BestSoFar
    <2>2. \A t \in scored : ~ (t < 1)
      BY <1>0, <1>2, CaseFacts DEF SomeScored, NearestFound, TypeOK, Dispatched, SnapOnly
    <2> QED  BY <2>1, <2>2 DEF BestSoFar, BestBefore
  <1>3. CASE FoldBest
    <2>1. /\ Targets' = Targets /\ UNCHANGED <<scored, nearest, case>> /\ i' = i + 1
          /\ pc = "rank" /\ pc' = pc
      BY <1>3, SameTargets DEF FoldBest
    <2>2. /\ \A t : InBand(t)' = InBand(t)
          /\ \A s, t : Beats(s, t)' = Beats(s, t)
      BY <2>1 DEF InBand, Distance, Beats
    <2>3. /\ scored \subseteq 1 .. Len(Targets) /\ Len(Targets) \in Nat
          /\ \A t \in scored : Targets[t] \in Target /\ Targets[t].distance \in Nat
      BY <2>1, ScoredFacts
    <2>4. BestBefore(i)
      BY <1>0, <2>1 DEF BestSoFar
    <2>5. \/ best' = 0 /\ \A t \in scored : ~ (t < i + 1 /\ InBand(t))
          \/ /\ best' \in scored /\ best' < i + 1 /\ InBand(best')
             /\ \A t \in scored : t < i + 1 /\ InBand(t) => ~ Beats(t, best')
      <3>1. CASE ~ (i \in scored /\ InBand(i))
        <4>1. best' = best
          BY <1>3, <3>1 DEF FoldBest
        <4>2. \A t \in scored : t < i + 1 /\ InBand(t) => t < i
          BY <1>0, <2>3, <3>1
        <4>3. \A t \in scored : t < i => t < i + 1
          BY <1>0, <2>3
        <4> QED  BY <2>4, <4>1, <4>2, <4>3 DEF BestBefore
      <3>2. CASE i \in scored /\ InBand(i) /\ best = 0
        <4>1. best' = i
          BY <1>3, <3>2 DEF FoldBest
        <4>2. \A t \in scored : t < i + 1 /\ InBand(t) => t = i
          BY <1>0, <2>3, <2>4, <3>2 DEF BestBefore
        <4>3. ~ Beats(i, i)
          BY <2>3, <3>2, DominatesIrreflexive DEF Beats
        <4> QED  BY <1>0, <3>2, <4>1, <4>2, <4>3
      <3>3. CASE i \in scored /\ InBand(i) /\ best # 0 /\ Beats(i, best)
        <4>1. best' = i
          BY <1>3, <3>3 DEF FoldBest
        <4>2. /\ best \in scored
              /\ \A t \in scored : t < i /\ InBand(t) => ~ Beats(t, best)
          BY <2>4, <3>3 DEF BestBefore
        <4>3. \A t \in scored : ~ Beats(t, best) => ~ Beats(t, i)
          BY <2>3, <3>3, <4>2, DominatesTransfers DEF Beats
        <4>4. ~ Beats(i, i)
          BY <2>3, <3>3, DominatesIrreflexive DEF Beats
        <4>5. \A t \in scored : t < i + 1 => t < i \/ t = i
          BY <1>0, <2>3
        <4> QED  BY <1>0, <3>3, <4>1, <4>2, <4>3, <4>4, <4>5
      <3>4. CASE i \in scored /\ InBand(i) /\ best # 0 /\ ~ Beats(i, best)
        <4>1. best' = best
          BY <1>3, <3>4 DEF FoldBest
        <4>2. /\ best \in scored /\ best < i /\ InBand(best)
              /\ \A t \in scored : t < i /\ InBand(t) => ~ Beats(t, best)
          BY <2>4, <3>4 DEF BestBefore
        <4>3. \A t \in scored : t < i + 1 => t < i \/ t = i
          BY <1>0, <2>3
        <4>4. best < i + 1
          BY <1>0, <2>3, <4>2
        <4> QED  BY <3>4, <4>1, <4>2, <4>3, <4>4
      <3> QED  BY <3>1, <3>2, <3>3, <3>4
    <2>6. BestBefore(i)'
      BY <2>1, <2>5 DEF BestBefore, InBand, Beats, Distance
    <2> QED  BY <2>1, <2>6 DEF BestSoFar
  <1>4. CASE Ranked
    <2>1. /\ Targets' = Targets /\ UNCHANGED <<scored, nearest, case, best>>
          /\ pc = "rank" /\ i = Len(Targets) + 1 /\ BestBefore(i)
          /\ pc' = IF best = 0 THEN "DatasetRead" ELSE "snapped"
          /\ winner' = best
      BY <1>0, <1>4, SameTargets, ScoredFacts DEF Ranked, BestSoFar, Positions
    <2>2. /\ \A t : InBand(t)' = InBand(t)
          /\ \A s, t : Beats(s, t)' = Beats(s, t)
      BY <2>1 DEF InBand, Distance, Beats
    <2>3. BestBefore(Len(Targets) + 1)'
      BY <2>1, <2>2 DEF BestBefore
    <2> QED  BY <2>1, <2>3 DEF BestSoFar
  <1> QED  BY <1>1, <1>2, <1>3, <1>4

\* A scored target is in the band: the nearest one is.
LEMMA BandNotEmpty ==
  ASSUME ResolverInv, pc = "rank"
  PROVE  \E t \in scored : t < Len(Targets) + 1 /\ InBand(t)
  <1>1. /\ scored \subseteq 1 .. Len(Targets) /\ Len(Targets) \in Nat /\ scored # {}
        /\ \A t \in scored : Distance(t) \in Nat
        /\ case.tolerance \in Nat
    BY ScoredFacts, CaseFacts DEF ResolverInv
  <1>0. \E t \in scored : t < Len(Targets) + 1
    <2>1. PICK t \in scored : TRUE
      BY <1>1
    <2>2. t < Len(Targets) + 1
      BY <1>1, <2>1
    <2> QED  BY <2>1, <2>2
  <1>2. CASE case.strategy = "WeightFirst"
    BY <1>0, <1>2 DEF InBand
  <1>3. CASE case.strategy = "DistanceFirst"
    <2>1. MinimumBefore(Len(Targets) + 1)
      BY <1>3 DEF ResolverInv, NearestSoFar
    <2>2. \E t \in scored : t < Len(Targets) + 1 /\ Distance(t) = nearest
      BY <1>0, <2>1 DEF MinimumBefore
    <2> QED  BY <1>1, <2>2 DEF InBand
  <1> QED  BY <1>2, <1>3, CaseFacts DEF Strategy, ResolverInv

-----------------------------------------------------------------------------
(* Containment, and the errors.                                            *)

LEMMA ContainedStep ==
  ASSUME ResolverInv, Next
  PROVE  Contained'
  <1>1. CASE ContainOne \/ ContainMany
    <2>1. UNCHANGED case /\ hits' = Holding
      BY <1>1 DEF ContainOne, ContainMany
    <2>2. Holding' = Holding
      BY <2>1 DEF Holding, DecodedUnits
    <2>3. CASE ContainOne
      <3>1. PICK u \in Holding : Holding = {u} /\ winner' = u
        BY <2>3 DEF ContainOne
      <3>2. tieBreak' = None
        <4>1. tieBreak = None
          BY <2>3 DEF ContainOne, ResolverInv, Unbroken
        <4> QED  BY <2>3, <4>1 DEF ContainOne
      <3> QED  BY <2>1, <2>2, <3>1, <3>2 DEF Contained
    <2>4. CASE ContainMany
      <3>1. PICK first \in Holding, second \in Holding :
              /\ first # second
              /\ \A u \in Holding \ {first} : SortsBefore(case.units[first], case.units[u])
              /\ \A u \in Holding \ {first, second} :
                   SortsBefore(case.units[second], case.units[u])
              /\ winner' = first
              /\ tieBreak' = TieBreak(case.units[first], case.units[second])
        BY <2>4 DEF ContainMany
      <3> QED  BY <2>1, <2>2, <3>1 DEF Contained
    <2> QED  BY <1>1, <2>3, <2>4
  <1>2. CASE ~ (ContainOne \/ ContainMany)
    BY <1>2 DEF Next, DispatchSnap, DispatchPip, QueryFails, SnapQuery, Leave, Keep, Scoring,
       NoneScored, SomeScored, FoldNearest, NearestFound, FoldBest, Ranked, PipQuery,
       ContainNone, End, Contained
  <1> QED  BY <1>1, <1>2

LEMMA UnbrokenStep ==
  ASSUME ResolverInv, Next
  PROVE  Unbroken'
  BY DEF ResolverInv, Unbroken, Next, DispatchSnap, DispatchPip, QueryFails, SnapQuery, Leave,
     Keep, Scoring, NoneScored, SomeScored, FoldNearest, NearestFound, FoldBest, Ranked, PipQuery,
     ContainNone, ContainOne, ContainMany, End

LEMMA RefusedStep ==
  ASSUME ResolverInv, Next
  PROVE  RefusedRightly'
  <1>0. TypeOK /\ Dispatched /\ ScoredSoFar /\ BestSoFar /\ Positions
    BY DEF ResolverInv
  <1>1. CASE QueryFails
    <2>1. scored' = {} /\ pc' = "DatasetRead"
      BY <1>0, <1>1 DEF QueryFails, End, ScoredSoFar, BeforeScore, PipOnly
    <2> QED  BY <2>1 DEF RefusedRightly
  <1>2. CASE SnapQuery
    <2>1. pc' = "NoSnapCandidates" => Targets = <<>>
      BY <1>2 DEF SnapQuery
    <2>2. pc' = "NoSnapCandidates" => Qualified(store)' = {}
      BY <1>2, <2>1 DEF SnapQuery, Qualified, Targets
    <2> QED  BY <1>2, <2>2 DEF SnapQuery, RefusedRightly
  <1>3. CASE NoneScored
    <2>1. /\ pc = "score" /\ store # 0 /\ Len(Targets) \in Nat /\ i = Len(Targets) + 1
          /\ failures \in Nat /\ Targets' = Targets /\ UNCHANGED <<case, store>>
      BY <1>0, <1>3, CaseFacts, SameTargets DEF NoneScored, End, Dispatched, SnapOnly,
         ScoredSoFar, TypeOK
    <2>2. \A t \in 1 .. Len(Targets) : ~ Qualifies(case, Targets[t])
      BY <1>0, <1>3, <2>1 DEF NoneScored, ScoredSoFar
    <2>3. Qualified(store)' = {}
      BY <2>1, <2>2 DEF Qualified, Targets
    <2>4. failures = Len(Targets) => \A t \in 1 .. Len(Targets) : Distance(t) = NoDistance
      BY <1>0, <2>1 DEF ScoredSoFar
    <2>5. failures = Len(Targets) => \A t \in 1 .. Len(Targets') : Distance(t)' = NoDistance
      BY <2>1, <2>4 DEF Distance
    <2>6. /\ pc' \in {"NoSnapCandidates", "AllGeometriesCorrupt"}
          /\ pc' = "AllGeometriesCorrupt" => failures = Len(Targets)
      BY <1>3 DEF NoneScored, End
    <2> QED  BY <2>1, <2>3, <2>5, <2>6 DEF RefusedRightly, NoDistance
  <1>4. CASE Ranked
    <2>1. pc = "rank" /\ i = Len(Targets) + 1 /\ BestBefore(i)
      BY <1>0, <1>4, ScoredFacts DEF Ranked, BestSoFar, Positions
    <2>2. best # 0
      BY <2>1, BandNotEmpty, ScoredFacts DEF BestBefore, ResolverInv, TypeOK
    <2>3. pc' = "snapped"
      BY <1>4, <2>2 DEF Ranked
    <2> QED  BY <2>3 DEF RefusedRightly
  <1>5. CASE PipQuery
    <2>1. /\ pc' \in {"OutsideAllCatchments", "contain"} /\ case' = case
          /\ pc' = "OutsideAllCatchments" => case.units = <<>>
      BY <1>5 DEF PipQuery
    <2> QED  BY <2>1 DEF RefusedRightly
  <1>6. CASE ContainNone
    <2>1. /\ pc' \in {"AllGeometriesCorrupt", "OutsideAllCatchments"} /\ UNCHANGED <<case, store>>
          /\ store = 0 /\ Holding = {}
          /\ pc' = "AllGeometriesCorrupt" => Corrupt = 1 .. Len(case.units)
      BY <1>0, <1>6 DEF ContainNone, Dispatched, PipOnly
    <2>2. \A u \in DecodedUnits : case.units[u].outlet \notin {"inside", "edge"}
      BY <2>1 DEF Holding
    <2>3. \A u \in 1 .. Len(case.units) :
            (case.selected = None \/ case.units[u].level = case.selected) =>
              case.units[u].outlet \in {"outside", "corrupt"}
      BY <1>0, <2>2, CaseFacts DEF DecodedUnits, Unit
    <2>4. pc' = "AllGeometriesCorrupt" =>
            \A u \in 1 .. Len(case.units) : case.units[u].outlet = "corrupt"
      BY <2>1 DEF Corrupt
    <2> QED  BY <2>1, <2>3, <2>4 DEF RefusedRightly
  <1>7. CASE ~ (QueryFails \/ SnapQuery \/ NoneScored \/ Ranked \/ PipQuery \/ ContainNone)
    BY <1>7 DEF Next, DispatchSnap, DispatchPip, Leave, Keep, Scoring, SomeScored,
       FoldNearest, NearestFound, FoldBest, ContainOne, ContainMany, RefusedRightly
  <1> QED  BY <1>1, <1>2, <1>3, <1>4, <1>5, <1>6, <1>7

-----------------------------------------------------------------------------
LEMMA ResolverInvariant == Spec => []ResolverInv
  <1>1. Init => ResolverInv
    BY InitInv
  <1>2. ResolverInv /\ Next => ResolverInv'
    BY TypeStep, DispatchStep, ScoredStep, NearestStep, PositionsStep, BestStep,
       ContainedStep, UnbrokenStep, RefusedStep DEF ResolverInv
  <1>3. ResolverInv /\ UNCHANGED vars => ResolverInv'
    <2> SUFFICES ASSUME ResolverInv, UNCHANGED vars PROVE ResolverInv'
      OBVIOUS
    <2>1. TypeOK' /\ Positions' /\ Unbroken'
      BY DEF vars, ResolverInv, TypeOK, Positions, Unbroken, Targets
    <2>2. Dispatched'
      BY DEF vars, ResolverInv, Dispatched, Preferred, Usable
    <2>3. ScoredSoFar' /\ RefusedRightly'
      BY DEF vars, ResolverInv, ScoredSoFar, RefusedRightly, Qualified, Distance, Targets
    <2>4. NearestSoFar'
      BY DEF vars, ResolverInv, NearestSoFar, MinimumBefore, Distance, Targets
    <2>5. BestSoFar'
      BY DEF vars, ResolverInv, BestSoFar, BestBefore, InBand, Beats, Distance, Targets
    <2>6. Contained'
      BY DEF vars, ResolverInv, Contained, Holding, DecodedUnits
    <2> QED  BY <2>1, <2>2, <2>3, <2>4, <2>5, <2>6 DEF ResolverInv
  <1> QED  BY <1>1, <1>2, <1>3, PTL DEF Spec

-----------------------------------------------------------------------------
(* From the comparison to the filters.                                     *)

LEMMA UnbeatenPassesFilters ==
  ASSUME NEW T, NEW S \in SUBSET DOMAIN T, NEW w \in S, NEW f \in BOOLEAN,
         \A t \in S : T[t] \in Target /\ T[t].distance \in Nat,
         \A t \in S : ~ Dominates(T[t], T[w], f),
         NEW W, W = Most(S, [t \in DOMAIN T |-> T[t].weight]),
         NEW M, M = LET main == {t \in W : T[t].mainstem}
                    IN  IF main = {} THEN W ELSE main,
         NEW L, L = IF f THEN Least(M, [t \in DOMAIN T |-> T[t].distance]) ELSE M
  PROVE  w \in Least(L, [t \in DOMAIN T |-> T[t].id])
  <1>1. \A t \in S : /\ T[t].weight \in Nat /\ T[t].id \in Nat
                     /\ MainstemRank(T[t]) \in Nat /\ T[t].mainstem \in BOOLEAN
    BY DEF Target, MainstemRank
  <1>2. \A t \in S : T[t].weight <= T[w].weight
    BY <1>1 DEF Dominates
  <1>3. w \in W /\ \A t \in W : t \in S /\ T[t].weight = T[w].weight
    <2>1. \A t \in S : [u \in DOMAIN T |-> T[u].weight][t] = T[t].weight
      OBVIOUS
    <2>2. w \in W /\ W \subseteq S /\ \A t \in W : T[w].weight <= T[t].weight
      BY <1>2, <2>1 DEF Most
    <2> QED  BY <1>1, <1>2, <2>2
  <1>4. \A t \in W : MainstemRank(T[t]) <= MainstemRank(T[w])
    BY <1>1, <1>3 DEF Dominates
  <1>5. \A t \in W : T[t].mainstem => T[w].mainstem
    BY <1>1, <1>3, <1>4 DEF MainstemRank
  <1>6. w \in M /\ M \subseteq W /\ \A t \in M : MainstemRank(T[t]) = MainstemRank(T[w])
    <2>1. CASE T[w].mainstem
      BY <1>3, <2>1 DEF MainstemRank
    <2>2. CASE ~ T[w].mainstem
      BY <1>3, <1>5, <2>2 DEF MainstemRank
    <2> QED  BY <2>1, <2>2
  <1>7. f => \A t \in M : T[w].distance <= T[t].distance
    BY <1>1, <1>3, <1>6 DEF Dominates
  <1>8. /\ w \in L /\ L \subseteq M
        /\ f => \A t \in L : T[t].distance = T[w].distance
    <2>1. CASE f
      <3> DEFINE g == [t \in DOMAIN T |-> T[t].distance]
      <3>1. L = Least(M, g)
        BY <2>1
      <3>2. \A t \in M : t \in DOMAIN T /\ T[t].distance \in Nat
        BY <1>3, <1>6
      <3>3. \A t \in M : g[t] = T[t].distance
        BY <3>2
      <3> HIDE DEF g
      <3>4. L \subseteq M /\ \A t \in M : t \in L <=> \A u \in M : g[t] <= g[u]
        BY <3>1 DEF Least
      <3>5. w \in L
        BY <1>6, <1>7, <2>1, <3>3, <3>4
      <3>6. \A t \in L : T[t].distance <= T[w].distance
        BY <1>6, <3>3, <3>4
      <3>7. \A t \in L : T[t].distance = T[w].distance
        <4> TAKE t \in L
        <4>1. t \in M /\ w \in M
          BY <1>6, <3>4
        <4>2. T[t].distance \in Nat /\ T[w].distance \in Nat
          BY <3>2, <4>1
        <4>3. T[w].distance <= T[t].distance
          BY <1>7, <2>1, <4>1
        <4>4. T[t].distance <= T[w].distance
          BY <3>6
        <4> QED  BY <4>2, <4>3, <4>4
      <3> QED  BY <3>4, <3>5, <3>7
    <2>2. CASE ~ f
      BY <1>6, <2>2
    <2> QED  BY <2>1, <2>2
  <1>9. \A t \in L : T[w].id <= T[t].id
    <2> TAKE t \in L
    <2>1. /\ t \in S /\ w \in S /\ T[t].weight = T[w].weight
          /\ MainstemRank(T[t]) = MainstemRank(T[w])
          /\ f => T[t].distance = T[w].distance
      BY <1>3, <1>6, <1>8
    <2>2. ~ (T[t].id < T[w].id)
      BY <1>1, <2>1 DEF Dominates
    <2> QED  BY <1>1, <2>1, <2>2
  <1>10. \A t \in L : t \in DOMAIN T
    BY <1>3, <1>6, <1>8
  <1> QED  BY <1>8, <1>9, <1>10 DEF Least

LEMMA SnappedFollows ==
  ASSUME ResolverInv
  PROVE  SnappedToBest
  <1> SUFFICES ASSUME pc = "snapped" PROVE winner \in BestTargets(store)
    BY DEF SnappedToBest
  <1> DEFINE T == case.declarations[store].targets
             f == case.strategy = "WeightFirst"
             dist == [t \in DOMAIN T |-> T[t].distance]
             band == {t \in Qualified(store) :
                        \A u \in Qualified(store) : dist[t] <= dist[u] + case.tolerance}
             S == IF f THEN Qualified(store) ELSE band
             W == Most(S, [t \in DOMAIN T |-> T[t].weight])
             M == LET main == {t \in W : T[t].mainstem} IN IF main = {} THEN W ELSE main
             L == IF f THEN Least(M, dist) ELSE M
  <1>1. /\ store # 0 /\ Len(T) \in Nat /\ scored = Qualified(store) /\ T = Targets
        /\ scored \subseteq 1 .. Len(T)
        /\ \A t \in scored : T[t] \in Target /\ T[t].distance \in Nat /\ Distance(t) = T[t].distance
    BY ScoredFacts DEF Targets, Distance, ResolverInv, ScoredSoFar
  <1>2. DOMAIN T = 1 .. Len(T)
    BY <1>1, CaseFacts, LenProperties DEF ResolverInv, TypeOK, IsCase, Declaration
  <1>3. /\ winner \in scored /\ InBand(winner)
        /\ \A t \in scored : InBand(t) => ~ Beats(t, winner)
    BY <1>1 DEF ResolverInv, BestSoFar, BestBefore
  <1>4. S = {t \in scored : InBand(t)}
    <2>1. CASE f
      BY <1>1, <2>1 DEF InBand
    <2>2. CASE ~ f
      <3>1. case.strategy = "DistanceFirst" /\ case.tolerance \in Nat
        BY <2>2, CaseFacts DEF Strategy, ResolverInv
      <3>2. MinimumBefore(Len(Targets) + 1)
        BY <3>1 DEF ResolverInv, NearestSoFar
      <3>3. /\ nearest \in Nat
            /\ \E t \in scored : T[t].distance = nearest
            /\ \A t \in scored : nearest <= T[t].distance
        BY <1>1, <1>3, <3>2 DEF MinimumBefore
      <3>4. \A t \in scored : InBand(t) <=> T[t].distance <= nearest + case.tolerance
        BY <1>1, <3>1 DEF InBand
      <3>5. \A t \in scored :
              T[t].distance <= nearest + case.tolerance
                <=> \A u \in scored : T[t].distance <= T[u].distance + case.tolerance
        <4> TAKE t \in scored
        <4>1. ASSUME T[t].distance <= nearest + case.tolerance, NEW u \in scored
              PROVE  T[t].distance <= T[u].distance + case.tolerance
          <5> DEFINE a == T[t].distance
                     b == T[u].distance
          <5>1. a \in Nat /\ b \in Nat /\ nearest <= b
            BY <1>1, <3>3
          <5> HIDE DEF a, b
          <5> QED  BY <3>1, <3>3, <4>1, <5>1 DEF a, b
        <4>2. ASSUME \A u \in scored : T[t].distance <= T[u].distance + case.tolerance
              PROVE  T[t].distance <= nearest + case.tolerance
          BY <3>3, <4>2
        <4> QED  BY <4>1, <4>2
      <3>6. \A t \in scored : dist[t] = T[t].distance
        BY <1>1, <1>2
      <3> QED  BY <1>1, <2>2, <3>4, <3>5, <3>6
    <2> QED  BY <2>1, <2>2
  <1>5. \A t \in S : ~ Dominates(T[t], T[winner], f)
    BY <1>1, <1>3, <1>4 DEF Beats
  <1>6. /\ S \in SUBSET DOMAIN T /\ winner \in S /\ f \in BOOLEAN
        /\ \A t \in S : T[t] \in Target /\ T[t].distance \in Nat
    BY <1>1, <1>2, <1>3, <1>4
  <1>7. winner \in Least(L, [t \in DOMAIN T |-> T[t].id])
    <2> HIDE DEF T, f, S
    <2> QED  BY <1>5, <1>6, UnbeatenPassesFilters
  <1> QED  BY <1>7 DEF BestTargets

LEMMA DeclarationFollows ==
  ASSUME ResolverInv
  PROVE  DeclarationIsFirst
  <1> SUFFICES ASSUME case.selected # None PROVE DeclarationIsFirst
    BY DEF DeclarationIsFirst
  <1>1. pc \in {"contain", "contained", "OutsideAllCatchments"} =>
          \A n \in 1 .. Len(case.declarations) :
            case.selected \notin case.declarations[n].levels
    BY DEF ResolverInv, Dispatched, PipOnly, Usable
  <1>2. ASSUME pc \in {"score", "snapped", "NoSnapCandidates"}
        PROVE  /\ store \in 1 .. Len(case.declarations)
               /\ case.selected \in case.declarations[store].levels
               /\ \A n \in 1 .. Len(case.declarations) :
                    case.selected \in case.declarations[n].levels =>
                      ~ Precedes(case.declarations[n], case.declarations[store])
    BY <1>2, CaseFacts DEF ResolverInv, Dispatched, SnapOnly, Preferred, Usable
  <1>3. \A n \in 1 .. Len(case.declarations) :
          case.declarations[n].name \in Nat /\ case.declarations[n].snap \in Nat
    <2>1. \A n \in 1 .. Len(case.declarations) : case.declarations[n] \in Declaration
      BY ElementOfSeq DEF ResolverInv, TypeOK, IsCase
    <2> QED  BY <2>1 DEF Declaration
  <1> QED  BY <1>1, <1>2, <1>3 DEF DeclarationIsFirst, Precedes

LEMMA InsideFollows ==
  ASSUME ResolverInv
  PROVE  InsideBeforeEdge
  <1>1. pc = "contained" => winner \in Holding
    BY DEF ResolverInv, Contained
  <1>2. \A u \in 1 .. Len(case.units) : case.units[u].outlet = "inside" =>
          u \in DecodedUnits \/ ~ (case.selected = None \/ case.units[u].level = case.selected)
    BY DEF DecodedUnits
  <1> QED  BY <1>1, <1>2 DEF InsideBeforeEdge, Holding, DecodedUnits

LEMMA TieBreakFollows ==
  ASSUME ResolverInv
  PROVE  TieBreakIsTrue
  <1> SUFFICES ASSUME pc = "contained" PROVE TieBreakIsTrue
    BY DEF TieBreakIsTrue
  <1> DEFINE w == case.units[winner]
             x(u) == case.units[u]
  <1>0. None \notin PipTieBreak
    BY ResolverAssumption
  <1>1. /\ winner \in hits
        /\ \A u \in hits \ {winner} : SortsBefore(w, x(u))
        /\ \A u \in hits : /\ x(u).upstreamArea \in Nat \cup {None}
                           /\ x(u).area \in Nat /\ x(u).id \in Nat
        /\ None \notin Nat
    BY CaseFacts, ResolverAssumption DEF ResolverInv, Contained, TypeOK, Unit
  <1>2. \A u \in hits \ {winner} :
          /\ x(u).upstreamArea # None => w.upstreamArea # None /\ x(u).upstreamArea <= w.upstreamArea
          /\ x(u).upstreamArea = w.upstreamArea => x(u).area <= w.area
          /\ x(u).upstreamArea = w.upstreamArea /\ x(u).area = w.area => w.id < x(u).id
    BY <1>1 DEF SortsBefore, LargerUpstream
  <1>3. CASE tieBreak = None /\ hits = {winner}
    BY <1>0, <1>3 DEF TieBreakIsTrue, PipTieBreak
  <1>4. ASSUME NEW second \in hits \ {winner},
               tieBreak = TieBreak(w, x(second)),
               \A u \in hits \ {winner, second} : SortsBefore(x(second), x(u))
        PROVE  TieBreakIsTrue
    <2>1. CASE tieBreak = "HighestUpstreamArea"
      <3>1. w.upstreamArea # x(second).upstreamArea
        BY <1>4, <2>1 DEF TieBreak
      <3>2. w.upstreamArea # None
        BY <1>1, <1>2, <1>4, <3>1
      <3>3. \A u \in hits \ {winner} : x(u).upstreamArea # w.upstreamArea
        BY <1>1, <1>2, <1>4, <3>1, <3>2 DEF SortsBefore, LargerUpstream
      <3> QED  BY <1>0, <1>2, <2>1, <3>2, <3>3 DEF TieBreakIsTrue, PipTieBreak
    <2>2. CASE tieBreak = "HighestLocalArea"
      <3>1. w.upstreamArea = x(second).upstreamArea /\ w.area # x(second).area
        BY <1>4, <2>2 DEF TieBreak
      <3>2. \A u \in hits \ {winner} : x(u).upstreamArea = w.upstreamArea => x(u).area < w.area
        BY <1>1, <1>2, <1>4, <3>1 DEF SortsBefore, LargerUpstream
      <3> QED  BY <1>0, <1>2, <1>4, <2>2, <3>1, <3>2 DEF TieBreakIsTrue, PipTieBreak
    <2>3. CASE tieBreak = "LowestUnitId"
      <3>1. w.upstreamArea = x(second).upstreamArea /\ w.area = x(second).area
        BY <1>4, <2>3 DEF TieBreak
      <3>2. \A u \in hits \ {winner} : x(u).upstreamArea = w.upstreamArea =>
              x(u).area < w.area \/ (x(u).area = w.area /\ w.id < x(u).id)
        BY <1>1, <1>2
      <3> QED  BY <1>0, <1>2, <1>4, <2>3, <3>1, <3>2 DEF TieBreakIsTrue, PipTieBreak
    <2> QED  BY <1>4, <2>1, <2>2, <2>3 DEF TieBreak
  <1> QED  BY <1>3, <1>4 DEF ResolverInv, Contained

-----------------------------------------------------------------------------
(* The theorems.                                                           *)

\* The variables of a resolution keep their types: positions lie in the list
\* they index, whatever the store returns.
THEOREM ResolverTypeCorrect == Spec => []TypeOK
  <1>1. ResolverInv => TypeOK
    BY DEF ResolverInv
  <1> QED  BY <1>1, ResolverInvariant, PTL

\* The folds of the ranker choose what the strategy's successive filters
\* leave, for any targets in any order (ConfiguredVectorCandidateRanker).
THEOREM SnappedToBestHolds == Spec => []SnappedToBest
  <1>1. ResolverInv => SnappedToBest
    BY SnappedFollows
  <1> QED  BY <1>1, ResolverInvariant, PTL

\* The declaration in use is the first by name and path of those for the
\* level, and point-in-polygon is used only if there is none (snap_for_level).
THEOREM DeclarationIsFirstHolds == Spec => []DeclarationIsFirst
  <1>1. ResolverInv => DeclarationIsFirst
    BY DeclarationFollows
  <1> QED  BY <1>1, ResolverInvariant, PTL

\* Every refusal is true of the candidates, and the ranker's integrity error
\* is unreachable (resolve_via_snap_store, resolve_via_pip).
THEOREM RefusedRightlyHolds == Spec => []RefusedRightly
  <1>1. ResolverInv => RefusedRightly
    BY DEF ResolverInv
  <1> QED  BY <1>1, ResolverInvariant, PTL

\* A boundary is taken only when no readable catchment of the level contains
\* the outlet strictly (resolve_via_pip).
THEOREM InsideBeforeEdgeHolds == Spec => []InsideBeforeEdge
  <1>1. ResolverInv => InsideBeforeEdge
    BY InsideFollows
  <1> QED  BY <1>1, ResolverInvariant, PTL

\* The tie-break reported is the rule that decided among all hits, although
\* the code compares the first two only (PipTieBreak).
THEOREM TieBreakIsTrueHolds == Spec => []TieBreakIsTrue
  <1>1. ResolverInv => TieBreakIsTrue
    BY TieBreakFollows
  <1> QED  BY <1>1, ResolverInvariant, PTL

\* Every answer and every refusal of the resolver is the one the rules give over
\* the whole input.
THEOREM ResolvedRightlyHolds == Spec => []ResolvedRightly
BY SnappedToBestHolds, DeclarationIsFirstHolds, RefusedRightlyHolds,
   InsideBeforeEdgeHolds, TieBreakIsTrueHolds, PTL DEF ResolvedRightly

-----------------------------------------------------------------------------
(* The trace, in the specification that the run checks. *)

Trace == INSTANCE StageTelemetryProofs WITH Threads <- StageThreads, file <- log

\* The part stages keeps the invariant of StageTelemetryProofs.
TraceKept == (part = "stages") => Trace!TraceInv

LEMMA TraceAssumed == Trace!StagesAssumption
BY TelemetryAssumption DEF Stages!StagesAssumption, Trace!StagesAssumption,
     Stages!Fields, Trace!Fields, Stages!Record, Trace!Record, Stages!Emitted, Trace!Emitted

LEMMA TraceInit ==
  ASSUME Stages!Init
  PROVE  Trace!Init
BY DEF Stages!Init, Trace!Init

LEMMA TraceNext ==
  ASSUME Stages!Next
  PROVE  Trace!Next
<1>1. PICK t \in StageThreads :
        \/ Stages!EnterStage(t) \/ Stages!EnterOther(t) \/ Stages!RecordBytes(t)
        \/ Stages!RecordRows(t) \/ Stages!Close(t) \/ Stages!Lock(t)
        \/ \E f \in Stages!Emitted \ {"stage"} : Stages!LogEvent(t, f)
        \/ Stages!WriteObject(t) \/ Stages!WriteNewline(t) \/ Stages!WriteFails(t)
  BY DEF Stages!Next
<1>2. Stages!EnterStage(t) => Trace!EnterStage(t)
  BY DEF Stages!EnterStage, Trace!EnterStage, Stages!Push, Trace!Push, Stages!Quiet, Trace!Quiet
<1>3. Stages!EnterOther(t) => Trace!EnterOther(t)
  BY DEF Stages!EnterOther, Trace!EnterOther, Stages!Push, Trace!Push, Stages!Quiet, Trace!Quiet
<1>4. Stages!RecordBytes(t) => Trace!RecordBytes(t)
  BY DEF Stages!RecordBytes, Trace!RecordBytes, Stages!Recorded, Trace!Recorded,
         Stages!Top, Trace!Top, Stages!Innermost, Trace!Innermost, Stages!Max, Trace!Max,
         Stages!IsStage, Trace!IsStage, Stages!Quiet, Trace!Quiet
<1>5. Stages!RecordRows(t) => Trace!RecordRows(t)
  BY DEF Stages!RecordRows, Trace!RecordRows, Stages!Recorded, Trace!Recorded,
         Stages!NearestStage, Trace!NearestStage, Stages!Stages, Trace!Stages,
         Stages!Innermost, Trace!Innermost, Stages!Max, Trace!Max,
         Stages!IsStage, Trace!IsStage, Stages!Quiet, Trace!Quiet
<1>6. Stages!Close(t) => Trace!Close(t)
  BY DEF Stages!Close, Trace!Close, Stages!Top, Trace!Top, Stages!IsStage, Trace!IsStage,
         Stages!Quiet, Trace!Quiet, Stages!Emitted, Trace!Emitted
<1>7. Stages!Lock(t) => Trace!Lock(t)
  BY DEF Stages!Lock, Trace!Lock, Stages!Quiet, Trace!Quiet
<1>8. Stages!WriteObject(t) => Trace!WriteObject(t)
  BY DEF Stages!WriteObject, Trace!WriteObject
<1>9. Stages!WriteNewline(t) => Trace!WriteNewline(t)
  BY DEF Stages!WriteNewline, Trace!WriteNewline, Stages!Written, Trace!Written
<1>10. Stages!WriteFails(t) => Trace!WriteFails(t)
  BY DEF Stages!WriteFails, Trace!WriteFails, Stages!Written, Trace!Written
<1>11. \A f : Stages!LogEvent(t, f) => Trace!LogEvent(t, f)
  BY DEF Stages!LogEvent, Trace!LogEvent, Stages!Recorded, Trace!Recorded,
         Stages!NearestStage, Trace!NearestStage, Stages!Stages, Trace!Stages,
         Stages!Innermost, Trace!Innermost, Stages!Max, Trace!Max,
         Stages!IsStage, Trace!IsStage, Stages!Quiet, Trace!Quiet
<1>12. Stages!Emitted = Trace!Emitted
  BY DEF Stages!Emitted, Trace!Emitted
<1>. QED
  BY <1>1, <1>2, <1>3, <1>4, <1>5, <1>6, <1>7, <1>8, <1>9, <1>10, <1>11, <1>12 DEF Trace!Next

LEMMA TraceSays ==
  ASSUME Trace!TraceHonest
  PROVE  Stages!TraceHonest
BY DEF Stages!TraceHonest, Trace!TraceHonest, Stages!LineOfItsStage, Trace!LineOfItsStage,
       Stages!CountsReachTheLine, Trace!CountsReachTheLine, Stages!TraceIsLines,
       Trace!TraceIsLines, Stages!Lines, Trace!Lines, Stages!IsStage, Trace!IsStage

\* The trace in the specification that the run checks, for any number of threads
\* and spans: one whole line per closed stage, with the counts of that stage
\* (telemetry/jsonl.rs).
THEOREM TraceOfTheRunHonest == MCSpec => []TraceHonest
<1>. DEFINE all == <<part, vars, snaps, listing, staged, source, stages>>
<1>1. MCInit => TraceKept
  <2>. SUFFICES ASSUME MCInit PROVE Trace!TraceInv
    BY DEF TraceKept
  <2>1. Trace!Init
    BY TraceInit DEF MCInit
  <2>. QED
    BY <2>1, TraceAssumed, Trace!InitTraceInv
<1>2. TraceKept /\ [MCNext]_all => TraceKept'
  <2>. SUFFICES ASSUME TraceKept, [MCNext]_all, part' = "stages" PROVE Trace!TraceInv'
    BY DEF TraceKept
  <2>1. part = "stages" /\ (Stages!Next \/ UNCHANGED stages)
    BY DEF MCNext
  <2>2. [Trace!Next]_Trace!vars
    <3>1. CASE Stages!Next
      BY <3>1, TraceNext
    <3>2. CASE UNCHANGED stages
      BY <3>2 DEF stages, Trace!vars
    <3>. QED
      BY <2>1, <3>1, <3>2
  <2>3. Trace!TraceInv
    BY <2>1 DEF TraceKept
  <2>. QED
    BY <2>2, <2>3, TraceAssumed, Trace!NextTraceInv
<1>3. TraceKept => TraceHonest
  BY TraceSays, Trace!TraceInvHonest DEF TraceKept, TraceHonest
<1>. QED
  BY <1>1, <1>2, <1>3, PTL DEF MCSpec

-----------------------------------------------------------------------------
(* The staged calls, in the specification that the run checks.               *)

LEMMA LessWellFounded == IsWellFoundedOn({p \in Nat \X Nat : p[1] < p[2]}, Nat)
BY NatLessThanWellFounded, Zenon DEF OpToRel

LEMMA LeastElement ==
  ASSUME NEW T, T \subseteq Nat, T # {}
  PROVE  \E x \in T : \A y \in T : x <= y
<1>. DEFINE R == {p \in Nat \X Nat : p[1] < p[2]}
<1>1. \E x \in T : \A y \in T : <<y, x>> \notin R
  <2>1. IsWellFoundedOn(R, Nat)
    BY LessWellFounded
  <2>. HIDE DEF R
  <2>. QED
    BY <2>1, WFMin
<1>2. PICK x \in T : \A y \in T : <<y, x>> \notin R
  BY <1>1
<1>3. ASSUME NEW y \in T, y < x PROVE FALSE
  <2>1. <<y, x>> \in R
    BY <1>3
  <2>. QED
    BY <1>2, <2>1
<1>. QED
  BY <1>3

\* One round of the walk upstream: the units drained into by those of s.
Widen(V, down, s) == {v \in V : v \in s \/ down[v] \in s}

\* r is the walk from u over n rounds.
Walk(r, V, down, u, n) ==
  r = [k \in 0 .. n |-> IF k = 0 THEN {u} ELSE Widen(V, down, r[k - 1])]

DrainsIn(V, down, s) == \A v \in V : down[v] \in s => v \in s

LEMMA WalkExists ==
  ASSUME NEW V, NEW down, NEW u, NEW n \in Nat
  PROVE  \E r : Walk(r, V, down, u, n)
<1>. DEFINE T == {m \in Nat : ~\E r : Walk(r, V, down, u, m)}
<1>1. ASSUME T # {} PROVE FALSE
  <2>1. PICK m \in T : \A y \in T : m <= y
    BY <1>1, LeastElement
  <2>2. CASE m = 0
    <3>1. Walk([k \in 0 .. 0 |-> {u}], V, down, u, 0)
      BY DEF Walk
    <3>. QED
      BY <2>1, <2>2, <3>1
  <2>3. CASE m # 0
    <3>1. m - 1 \in Nat /\ m - 1 \notin T
      BY <2>1, <2>3
    <3>2. PICK r : Walk(r, V, down, u, m - 1)
      BY <3>1
    <3>. DEFINE g == [k \in 0 .. m |-> IF k = m THEN Widen(V, down, r[m - 1]) ELSE r[k]]
                body(h, k) == IF k = 0 THEN {u} ELSE Widen(V, down, h[k - 1])
    <3>3. ASSUME NEW k \in 0 .. m - 1 PROVE r[k] = body(r, k)
      BY <3>1, <3>2 DEF Walk
    <3>4. ASSUME NEW k \in 0 .. m PROVE g[k] = body(g, k)
      <4>1. CASE k = m
        BY <2>3, <4>1, <3>1
      <4>2. CASE k # m
        <5>1. k \in 0 .. m - 1 /\ g[k] = r[k]
          BY <4>2, <3>1
        <5>2. k # 0 => k - 1 \in 0 .. m /\ k - 1 # m /\ g[k - 1] = r[k - 1]
          BY <5>1, <3>1
        <5>. QED
          BY <5>1, <5>2, <3>3
      <4>. QED
        BY <4>1, <4>2
    <3>5. g = [k \in 0 .. m |-> body(g, k)]
      <4>1. g = [k \in 0 .. m |-> g[k]]
        OBVIOUS
      <4>. HIDE DEF g, body
      <4>. QED
        BY <4>1, <3>4
    <3>6. \E h : Walk(h, V, down, u, m)
      <4>. HIDE DEF g
      <4>1. Walk(g, V, down, u, m)
        BY <3>5 DEF Walk
      <4>. QED
        BY <4>1
    <3>. QED
      BY <2>1, <3>6
  <2>. QED
    BY <2>2, <2>3
<1>. QED
  BY <1>1

LEMMA WalkSteps ==
  ASSUME NEW V, NEW down, NEW u, NEW n \in Nat, NEW r, Walk(r, V, down, u, n)
  PROVE  /\ r[0] = {u}
         /\ \A k \in 1 .. n : r[k] = Widen(V, down, r[k - 1])
<1>1. ASSUME NEW k \in 0 .. n
      PROVE  r[k] = IF k = 0 THEN {u} ELSE Widen(V, down, r[k - 1])
  BY DEF Walk
<1>2. r[0] = {u}
  <2>1. 0 \in 0 .. n
    OBVIOUS
  <2>. QED
    BY <1>1, <2>1
<1>3. ASSUME NEW k \in 1 .. n PROVE r[k] = Widen(V, down, r[k - 1])
  <2>1. k \in 0 .. n /\ k # 0
    OBVIOUS
  <2>. QED
    BY <1>1, <2>1
<1>. QED
  BY <1>2, <1>3

\* Every round stays between the outlet's unit and any set that the rivers
\* into it do not leave.
LEMMA WalkBetween ==
  ASSUME NEW V, NEW down, NEW u \in V, NEW n \in Nat, NEW r, Walk(r, V, down, u, n),
         NEW s, s \subseteq V, u \in s, DrainsIn(V, down, s)
  PROVE  \A k \in 0 .. n : u \in r[k] /\ r[k] \subseteq s
<1>0. /\ r[0] = {u}
      /\ \A k \in 1 .. n : r[k] = Widen(V, down, r[k - 1])
  BY WalkSteps
<1>. DEFINE T == {m \in 0 .. n : ~(u \in r[m] /\ r[m] \subseteq s)}
<1>1. ASSUME T # {} PROVE FALSE
  <2>0. T \subseteq Nat
    OBVIOUS
  <2>1. PICK m \in T : \A y \in T : m <= y
    BY <1>1, <2>0, LeastElement
  <2>2. m # 0
    BY <2>1, <1>0
  <2>3. m - 1 \in 0 .. n /\ m \in 1 .. n /\ m - 1 \notin T
    BY <2>1, <2>2
  <2>4. u \in r[m - 1] /\ r[m - 1] \subseteq s
    BY <2>3
  <2>5. r[m] = Widen(V, down, r[m - 1])
    BY <2>3, <1>0
  <2>6. u \in r[m] /\ r[m] \subseteq s
    BY <2>4, <2>5 DEF Widen, DrainsIn
  <2>. QED
    BY <2>1, <2>6
<1>. QED
  BY <1>1

\* A round that adds nothing is the last that matters.
LEMMA WalkStops ==
  ASSUME NEW V, NEW down, NEW u \in V, NEW n \in Nat, NEW r, Walk(r, V, down, u, n),
         NEW k \in 0 .. n, r[k] \subseteq V, DrainsIn(V, down, r[k])
  PROVE  r[n] = r[k]
<1>0. /\ r[0] = {u}
      /\ \A j \in 1 .. n : r[j] = Widen(V, down, r[j - 1])
  <2>1. ASSUME NEW j \in 0 .. n
        PROVE  r[j] = IF j = 0 THEN {u} ELSE Widen(V, down, r[j - 1])
    BY DEF Walk
  <2>. QED
    BY <2>1
<1>. DEFINE T == {m \in k .. n : r[m] # r[k]}
<1>1. ASSUME T # {} PROVE FALSE
  <2>0. T \subseteq Nat
    OBVIOUS
  <2>1. PICK m \in T : \A y \in T : m <= y
    BY <1>1, <2>0, LeastElement
  <2>2. m # k
    BY <2>1
  <2>3. m - 1 \in k .. n /\ m \in 1 .. n /\ m - 1 \notin T
    BY <2>1, <2>2
  <2>4. r[m - 1] = r[k]
    BY <2>3
  <2>5. r[m] = Widen(V, down, r[k])
    BY <2>3, <2>4, <1>0
  <2>6. Widen(V, down, r[k]) = r[k]
    BY DEF Widen, DrainsIn
  <2>. QED
    BY <2>1, <2>5, <2>6
<1>. QED
  BY <1>1

\* As many rounds as there are units are enough.
LEMMA WalkCloses ==
  ASSUME NEW V, IsFiniteSet(V), NEW down, NEW u \in V, NEW r,
         Walk(r, V, down, u, Cardinality(V))
  PROVE  LET s == r[Cardinality(V)]
         IN  /\ u \in s /\ s \subseteq V /\ DrainsIn(V, down, s)
             /\ \A s2 \in SUBSET V : u \in s2 /\ DrainsIn(V, down, s2) => s \subseteq s2
<1>. DEFINE n == Cardinality(V)
<1>1. n \in Nat
  BY FS_CardinalityType
<1>0. /\ r[0] = {u}
      /\ \A k \in 1 .. n : r[k] = Widen(V, down, r[k - 1])
  <2>. HIDE DEF n
  <2>1. Walk(r, V, down, u, n)
    BY DEF n
  <2>2. ASSUME NEW j \in 0 .. n
        PROVE  r[j] = IF j = 0 THEN {u} ELSE Widen(V, down, r[j - 1])
    BY <2>1 DEF Walk
  <2>. QED
    BY <1>1, <2>2
<1>2. DrainsIn(V, down, V)
  BY DEF DrainsIn
<1>3. \A k \in 0 .. n : u \in r[k] /\ r[k] \subseteq V
  BY <1>1, <1>2, WalkBetween
<1>4. \A k \in 0 .. n : IsFiniteSet(r[k]) /\ Cardinality(r[k]) \in Nat /\ Cardinality(r[k]) <= n
  BY <1>3, FS_Subset, FS_CardinalityType
<1>5. ASSUME ~DrainsIn(V, down, r[n]) PROVE FALSE
  <2>1. ASSUME NEW k \in 0 .. n PROVE ~DrainsIn(V, down, r[k])
    <3>. HIDE DEF n
    <3>1. Walk(r, V, down, u, n) /\ r[k] \subseteq V
      BY <1>3 DEF n
    <3>2. DrainsIn(V, down, r[k]) => r[n] = r[k]
      BY <1>1, <3>1, WalkStops
    <3>. QED
      BY <1>5, <3>2
  <2>. DEFINE T == {m \in 0 .. n : ~(Cardinality(r[m]) >= m + 1)}
  <2>2. ASSUME T # {} PROVE FALSE
    <3>0. T \subseteq Nat
      BY <1>1
    <3>1. PICK m \in T : \A y \in T : m <= y
      BY <2>2, <3>0, LeastElement
    <3>2. m # 0
      <4>1. r[0] = {u}
        BY <1>0
      <4>2. Cardinality(r[0]) = 1
        BY <4>1, FS_Singleton
      <4>. QED
        BY <3>1, <4>2
    <3>3. m - 1 \in 0 .. n /\ m \in 1 .. n /\ m - 1 \notin T
      BY <1>1, <3>1, <3>2
    <3>4. Cardinality(r[m - 1]) >= m
      BY <1>1, <3>3
    <3>5. r[m] = Widen(V, down, r[m - 1])
      BY <1>0, <3>3
    <3>6. r[m - 1] \subseteq r[m] /\ r[m - 1] # r[m]
      BY <1>3, <2>1, <3>3, <3>5 DEF Widen, DrainsIn
    <3>7. m \in 0 .. n
      BY <3>1
    <3>8. IsFiniteSet(r[m]) /\ Cardinality(r[m - 1]) < Cardinality(r[m])
      BY <1>4, <3>6, <3>7, FS_Subset, FS_CardinalityType, SMTT(40)
    <3>9. Cardinality(r[m]) >= m + 1
      BY <1>4, <3>3, <3>4, <3>7, <3>8
    <3>. QED
      BY <3>1, <3>9
  <2>3. n \in 0 .. n
    BY <1>1
  <2>4. Cardinality(r[n]) >= n + 1
    BY <2>2, <2>3
  <2>. QED
    BY <1>1, <1>4, <2>3, <2>4
<1>6. n \in 0 .. n
  BY <1>1
<1>7. ASSUME NEW s2 \in SUBSET V, u \in s2, DrainsIn(V, down, s2) PROVE r[n] \subseteq s2
  BY <1>1, <1>6, <1>7, WalkBetween
<1>. QED
  BY <1>3, <1>5, <1>6, <1>7

LEMMA StagedCardinality == \A S : Staged!Cardinality(S) = Cardinality(S)
BY DEF Staged!Cardinality, Cardinality, Staged!IsFiniteSet, IsFiniteSet

LEMMA UnitsFinite ==
  ASSUME NEW e \in ApiEngines
  PROVE  IsFiniteSet(Staged!Units(e))
<1>1. \A S : Staged!IsFiniteSet(S) = IsFiniteSet(S)
  BY DEF Staged!IsFiniteSet, IsFiniteSet
<1>. QED
  BY <1>1, StagedAssumption DEF Staged!FabricAssumption

\* What the walk of a stage collects is the watershed: the least set with the
\* unit that holds every unit draining into it.
LEMMA UpstreamIsWatershed ==
  ASSUME NEW e \in ApiEngines, NEW u \in Staged!Units(e)
  PROVE  /\ Staged!Watershed(e, u) = Staged!Upstream(e, u)
         /\ u \in Staged!Upstream(e, u)
<1>. DEFINE V == Staged!Units(e)
            down == ApiFabric[e].down
            n == Cardinality(V)
            Smallest(s) == /\ u \in s
                           /\ \A v \in V : down[v] \in s => v \in s
                           /\ \A s2 \in SUBSET s :
                                (u \in s2 /\ \A v \in V : down[v] \in s2 => v \in s2) => s2 = s
<1>1. IsFiniteSet(V) /\ n \in Nat /\ Staged!Cardinality(V) = n
  BY UnitsFinite, FS_CardinalityType, StagedCardinality
<1>2. \E r : Walk(r, V, down, u, n)
  BY <1>1, WalkExists
<1>3. \E r : Walk(r, V, down, u, n) /\ Staged!Upstream(e, u) = r[n]
  <2>1. Staged!Upstream(e, u) = (CHOOSE r : Walk(r, V, down, u, n))[n]
    BY <1>1 DEF Staged!Upstream, Walk, Widen
  <2>. QED
    BY <1>2, <2>1
<1>4. PICK r : Walk(r, V, down, u, n) /\ Staged!Upstream(e, u) = r[n]
  BY <1>3
<1>. DEFINE up == Staged!Upstream(e, u)
<1>5. /\ u \in up /\ up \subseteq V /\ DrainsIn(V, down, up)
      /\ \A s2 \in SUBSET V : u \in s2 /\ DrainsIn(V, down, s2) => up \subseteq s2
  BY <1>1, <1>4, WalkCloses
<1>. HIDE DEF up, V, down, n
<1>6. Smallest(up)
  BY <1>5 DEF DrainsIn
<1>7. ASSUME NEW s \in SUBSET V, Smallest(s) PROVE s = up
  <2>1. up \subseteq s
    BY <1>5, <1>7 DEF DrainsIn
  <2>. QED
    BY <1>5, <1>6, <1>7, <2>1
<1>8. up \in SUBSET V
  BY <1>5
<1>9. (CHOOSE s \in SUBSET V : Smallest(s)) = up
  <2>. HIDE DEF Smallest
  <2>. QED
    BY <1>6, <1>7, <1>8
<1>10. Staged!Watershed(e, u) = CHOOSE s \in SUBSET V : Smallest(s)
  BY DEF Staged!Watershed, V, down
<1>. QED
  BY <1>5, <1>9, <1>10 DEF up

\* A run is of one delineation only when everything it was made from is.
LEMMA RunOfOne ==
  ASSUME NEW e, NEW runs, IsFiniteSet(runs), Staged!Run(e, runs).engine # Staged!Mixed
  PROVE  \E r : runs = {r} /\ r.engine = e /\ Staged!Run(e, runs) = r
<1>1. Cardinality(runs) = 1
  BY StagedCardinality DEF Staged!Run
<1>2. PICK r : runs = {r}
  BY <1>1, FS_Singleton
<1>3. (CHOOSE q \in runs : TRUE) = r
  BY <1>2
<1>. QED
  BY <1>1, <1>2, <1>3, StagedCardinality DEF Staged!Run

(***************************************************************************)
(* The strengthening that is inductive.  A piece whose run is not mixed is *)
(* the piece that delineating the coordinate of its run with the engine of *)
(* its run gives; of the others nothing is said, except that the records   *)
(* of a traversal are of its level.                                        *)
(***************************************************************************)

Unmixed(run) == run.engine # Staged!Mixed

HomeOf(run) == ApiFabric[run.engine].home[<<run.coord, Staged!Finest(run.engine)>>]

HomeKnown(run) == run.engine \in ApiEngines /\ HomeOf(run) \in Staged!Units(run.engine)

ShedOf(run) == Staged!Upstream(run.engine, HomeOf(run))

WholeOf(run) == {Staged!Whole(run.engine, u) : u \in ShedOf(run)}

CarvedOf(run) == Staged!Carved(Staged!Whole(run.engine, HomeOf(run)), run.coord)

LevelMade == apiLevel # None => apiLevel.level = Staged!Finest(apiLevel.by)

OutletMade ==
  (apiOutlet # None /\ Unmixed(apiOutlet.run)) =>
    /\ apiOutlet.run.engine \in ApiEngines
    /\ apiOutlet.coord = apiOutlet.run.coord /\ apiOutlet.terminal = HomeOf(apiOutlet.run)

UpstreamMade ==
  upstream # None =>
    /\ upstream.terminal \in upstream.ids
    /\ Unmixed(upstream.run) => /\ HomeKnown(upstream.run)
                                /\ upstream.ids = ShedOf(upstream.run)
                                /\ upstream.terminal = HomeOf(upstream.run)

UnitsMade ==
  (apiUnits # None /\ Unmixed(apiUnits.run)) =>
    /\ HomeKnown(apiUnits.run)
    /\ apiUnits.records = WholeOf(apiUnits.run) /\ apiUnits.terminal = HomeOf(apiUnits.run)

RefinedAs(run, status, refined, geometry) ==
  \/ status = "disabled" /\ ~ApiFabric[run.engine].refine
  \/ status = "best_effort_skipped" /\ ApiFabric[run.engine].refine
  \/ /\ status = "applied" /\ ApiFabric[run.engine].refine /\ ApiFabric[run.engine].d8
     /\ refined = run.coord /\ geometry = CarvedOf(run)

RefinementMade ==
  (refinement # None /\ Unmixed(refinement.run)) =>
    RefinedAs(refinement.run, refinement.status, refinement.refined, refinement.geometry)

GeometryOf(run, status) ==
  IF status = "applied"
  THEN (WholeOf(run) \ {Staged!Whole(run.engine, HomeOf(run))}) \cup {CarvedOf(run)}
  ELSE WholeOf(run)

DissolvedMade ==
  (dissolved # None /\ Unmixed(dissolved.run)) =>
    dissolved.geometry = GeometryOf(dissolved.run, dissolved.status)

StagedInv ==
  /\ LevelMade /\ OutletMade /\ UpstreamMade /\ UnitsMade /\ Staged!RecordsOfOneLevel
  /\ RefinementMade /\ DissolvedMade /\ Staged!StagedLikeDelineate

LEMMA InitStaged ==
  ASSUME Staged!Init
  PROVE  StagedInv
BY DEF Staged!Init, StagedInv, LevelMade, OutletMade, UpstreamMade, UnitsMade,
       Staged!RecordsOfOneLevel, RefinementMade, DissolvedMade, Staged!StagedLikeDelineate

LEMMA SelectLevelStaged ==
  ASSUME StagedInv, NEW e \in ApiEngines, Staged!select_level(e)
  PROVE  StagedInv'
<1>1. /\ apiLevel' = [level |-> Staged!Finest(e), by |-> e]
      /\ UNCHANGED <<apiOutlet, upstream, apiUnits, refinement, dissolved, result>>
  BY DEF Staged!select_level, Staged!SelectedLevel
<1>2. LevelMade'
  BY <1>1 DEF LevelMade
<1>3. OutletMade' /\ UpstreamMade' /\ UnitsMade'
  BY <1>1 DEF StagedInv, OutletMade, UpstreamMade, UnitsMade
<1>4. Staged!RecordsOfOneLevel'
  BY <1>1 DEF StagedInv, Staged!RecordsOfOneLevel
<1>5. RefinementMade' /\ DissolvedMade'
  BY <1>1 DEF StagedInv, RefinementMade, DissolvedMade
<1>6. Staged!StagedLikeDelineate'
  BY <1>1 DEF StagedInv, Staged!StagedLikeDelineate
<1>. QED
  BY <1>2, <1>3, <1>4, <1>5, <1>6 DEF StagedInv

LEMMA ResolveOutletStaged ==
  ASSUME StagedInv, NEW e \in ApiEngines, NEW c, Staged!resolve_outlet(e, c)
  PROVE  StagedInv'
<1>. DEFINE run == Staged!Run(e, {[engine |-> apiLevel.by, coord |-> c]})
<1>1. /\ apiLevel # None
      /\ apiOutlet' = [level |-> apiLevel.level, terminal |-> ApiFabric[e].home[<<c, apiLevel.level>>],
                       coord |-> c, run |-> run]
      /\ UNCHANGED <<apiLevel, upstream, apiUnits, refinement, dissolved, result>>
  BY DEF Staged!resolve_outlet, Staged!ResolvedOutlet
<1>2. LevelMade' /\ UpstreamMade' /\ UnitsMade'
  BY <1>1 DEF StagedInv, LevelMade, UpstreamMade, UnitsMade
<1>3. Unmixed(run) => run = [engine |-> e, coord |-> c] /\ apiLevel.by = e
  <2>. DEFINE x == [engine |-> apiLevel.by, coord |-> c]
  <2>1. IsFiniteSet({x})
    BY FS_Singleton
  <2>. HIDE DEF x
  <2>2. Unmixed(run) => \E r : {x} = {r} /\ r.engine = e /\ run = r
    BY <2>1, RunOfOne DEF Unmixed, x
  <2>3. Unmixed(run) => run = x /\ x.engine = e
    BY <2>2
  <2>. QED
    BY <2>3 DEF x
<1>4. OutletMade'
  <2>. SUFFICES ASSUME Unmixed(run)
       PROVE  /\ apiOutlet'.run.engine \in ApiEngines
              /\ apiOutlet'.coord = apiOutlet'.run.coord
              /\ apiOutlet'.terminal = HomeOf(apiOutlet'.run)
    BY <1>1 DEF OutletMade
  <2>1. run.engine = e /\ run.coord = c /\ apiLevel.level = Staged!Finest(e)
    BY <1>1, <1>3 DEF StagedInv, LevelMade
  <2>2. /\ apiOutlet'.run = run /\ apiOutlet'.coord = c
        /\ apiOutlet'.terminal = ApiFabric[e].home[<<c, apiLevel.level>>]
    BY <1>1
  <2>. HIDE DEF run
  <2>. QED
    BY <2>1, <2>2 DEF HomeOf
<1>5. Staged!RecordsOfOneLevel'
  BY <1>1 DEF StagedInv, Staged!RecordsOfOneLevel
<1>6. RefinementMade' /\ DissolvedMade'
  BY <1>1 DEF StagedInv, RefinementMade, DissolvedMade
<1>7. Staged!StagedLikeDelineate'
  BY <1>1 DEF StagedInv, Staged!StagedLikeDelineate
<1>. QED
  BY <1>2, <1>4, <1>5, <1>6, <1>7 DEF StagedInv

LEMMA TraverseStaged ==
  ASSUME StagedInv, NEW e \in ApiEngines, Staged!traverse(e)
  PROVE  StagedInv'
<1>. DEFINE run == Staged!Run(e, {apiOutlet.run})
<1>1. /\ apiOutlet # None /\ apiOutlet.terminal \in Staged!Units(e)
      /\ upstream' = [level |-> apiOutlet.level, terminal |-> apiOutlet.terminal,
                      ids |-> Staged!Upstream(e, apiOutlet.terminal), run |-> run]
      /\ UNCHANGED <<apiLevel, apiOutlet, apiUnits, refinement, dissolved, result>>
  BY DEF Staged!traverse, Staged!UpstreamUnits
<1>2. LevelMade' /\ OutletMade' /\ UnitsMade'
  BY <1>1 DEF StagedInv, LevelMade, OutletMade, UnitsMade
<1>3. Unmixed(run) => run = apiOutlet.run /\ run.engine = e
  <2>1. IsFiniteSet({apiOutlet.run})
    BY FS_Singleton
  <2>2. Unmixed(run) => \E r : {apiOutlet.run} = {r} /\ r.engine = e /\ run = r
    BY <2>1, RunOfOne DEF Unmixed
  <2>. HIDE DEF run
  <2>. QED
    BY <2>2
<1>4. UpstreamMade'
  <2>1. /\ upstream'.terminal = apiOutlet.terminal /\ upstream'.run = run
        /\ upstream'.ids = Staged!Upstream(e, apiOutlet.terminal)
    BY <1>1
  <2>2. upstream'.terminal \in upstream'.ids
    BY <1>1, <2>1, UpstreamIsWatershed
  <2>. HIDE DEF run
  <2>3. ASSUME Unmixed(run)
        PROVE  HomeKnown(run) /\ upstream'.ids = ShedOf(run) /\ upstream'.terminal = HomeOf(run)
    <3>1. apiOutlet.terminal = HomeOf(run) /\ run.engine = e
      BY <1>1, <1>3, <2>3 DEF StagedInv, OutletMade
    <3>. QED
      BY <1>1, <2>1, <3>1 DEF HomeKnown, ShedOf
  <2>. QED
    BY <2>1, <2>2, <2>3 DEF UpstreamMade
<1>5. Staged!RecordsOfOneLevel'
  BY <1>1 DEF StagedInv, Staged!RecordsOfOneLevel
<1>6. RefinementMade' /\ DissolvedMade'
  BY <1>1 DEF StagedInv, RefinementMade, DissolvedMade
<1>7. Staged!StagedLikeDelineate'
  BY <1>1 DEF StagedInv, Staged!StagedLikeDelineate
<1>. QED
  BY <1>2, <1>4, <1>5, <1>6, <1>7 DEF StagedInv

LEMMA PreMergeUnitsStaged ==
  ASSUME StagedInv, NEW e \in ApiEngines, Staged!pre_merge_units(e)
  PROVE  StagedInv'
<1>. DEFINE run == Staged!Run(e, {upstream.run})
            records == {Staged!Whole(e, u) : u \in upstream.ids}
<1>1. /\ upstream # None
      /\ \A u \in upstream.ids : ApiFabric[e].level[u] = upstream.level
      /\ apiUnits' = [level |-> upstream.level, terminal |-> upstream.terminal,
                      records |-> records, by |-> e, run |-> run]
      /\ UNCHANGED <<apiLevel, apiOutlet, upstream, refinement, dissolved, result>>
  BY DEF Staged!pre_merge_units, Staged!PreMergeUnits, Staged!SameLevel
<1>2. LevelMade' /\ OutletMade' /\ UpstreamMade'
  BY <1>1 DEF StagedInv, LevelMade, OutletMade, UpstreamMade
<1>3. Unmixed(run) => run = upstream.run /\ run.engine = e
  <2>1. IsFiniteSet({upstream.run})
    BY FS_Singleton
  <2>2. Unmixed(run) => \E r : {upstream.run} = {r} /\ r.engine = e /\ run = r
    BY <2>1, RunOfOne DEF Unmixed
  <2>. HIDE DEF run
  <2>. QED
    BY <2>2
<1>4. /\ apiUnits'.terminal = upstream.terminal /\ apiUnits'.run = run /\ apiUnits'.by = e
      /\ apiUnits'.records = records /\ apiUnits'.level = upstream.level
  BY <1>1
<1>5. UnitsMade'
  <2>. HIDE DEF run
  <2>1. ASSUME Unmixed(run)
        PROVE  HomeKnown(run) /\ records = WholeOf(run) /\ upstream.terminal = HomeOf(run)
    <3>1. HomeKnown(run) /\ upstream.ids = ShedOf(run) /\ upstream.terminal = HomeOf(run)
          /\ run.engine = e
      BY <1>1, <1>3, <2>1 DEF StagedInv, UpstreamMade
    <3>. QED
      BY <3>1 DEF WholeOf
  <2>. HIDE DEF records
  <2>. QED
    BY <1>4, <2>1 DEF UnitsMade
<1>6. Staged!RecordsOfOneLevel'
  <2>1. \A r \in records : r.id \in upstream.ids
    BY DEF Staged!Whole
  <2>2. \E r \in records : r.id = upstream.terminal
    <3>1. upstream.terminal \in upstream.ids
      BY <1>1 DEF StagedInv, UpstreamMade
    <3>2. Staged!Whole(e, upstream.terminal) \in records
      BY <3>1
    <3>. QED
      BY <3>2 DEF Staged!Whole
  <2>. HIDE DEF records, run
  <2>. QED
    BY <1>1, <1>4, <2>1, <2>2 DEF Staged!RecordsOfOneLevel
<1>7. RefinementMade' /\ DissolvedMade'
  BY <1>1 DEF StagedInv, RefinementMade, DissolvedMade
<1>8. Staged!StagedLikeDelineate'
  BY <1>1 DEF StagedInv, Staged!StagedLikeDelineate
<1>. QED
  BY <1>2, <1>5, <1>6, <1>7, <1>8 DEF StagedInv


\* Two pieces belong to one delineation only when their runs are the same.
LEMMA RunOfTwo ==
  ASSUME NEW e, NEW a, NEW b, Unmixed(Staged!Run(e, {a, b}))
  PROVE  a = b /\ a.engine = e /\ Staged!Run(e, {a, b}) = a
<1>1. IsFiniteSet({a, b})
  <2>1. IsFiniteSet({a}) /\ IsFiniteSet({b}) /\ {a, b} = {a} \cup {b}
    BY FS_Singleton
  <2>. QED
    BY <2>1, FS_Union
<1>2. \E r : {a, b} = {r} /\ r.engine = e /\ Staged!Run(e, {a, b}) = r
  BY <1>1, RunOfOne DEF Unmixed
<1>3. PICK r : {a, b} = {r} /\ r.engine = e /\ Staged!Run(e, {a, b}) = r
  BY <1>2
<1>4. a = r /\ b = r
  BY <1>3
<1>. QED
  BY <1>3, <1>4

\* The record of the terminal is the whole home unit.
LEMMA TerminalOf ==
  ASSUME StagedInv, apiUnits # None, Unmixed(apiUnits.run)
  PROVE  Staged!Terminal = Staged!Whole(apiUnits.run.engine, HomeOf(apiUnits.run))
<1>. DEFINE run == apiUnits.run
            home == HomeOf(run)
            e == run.engine
<1>1. /\ e \in ApiEngines /\ home \in Staged!Units(e)
      /\ apiUnits.records = WholeOf(run) /\ apiUnits.terminal = home
  BY DEF StagedInv, UnitsMade, HomeKnown
<1>2. home \in ShedOf(run)
  BY <1>1, UpstreamIsWatershed DEF ShedOf
<1>3. Staged!Whole(e, home) \in WholeOf(run)
  BY <1>2 DEF WholeOf
<1>. HIDE DEF run, home, e
<1>4. ASSUME NEW r \in WholeOf(run), r.id = home PROVE r = Staged!Whole(e, home)
  BY <1>4 DEF WholeOf, Staged!Whole, e
<1>5. Staged!Whole(e, home).id = home
  BY DEF Staged!Whole
<1>6. (CHOOSE r \in WholeOf(run) : r.id = home) = Staged!Whole(e, home)
  BY <1>3, <1>4, <1>5
<1>7. Staged!Terminal = CHOOSE r \in WholeOf(run) : r.id = home
  BY <1>1 DEF Staged!Terminal
<1>. QED
  BY <1>6, <1>7 DEF run, home, e

LEMMA RefineStaged ==
  ASSUME StagedInv, NEW e \in ApiEngines, Staged!refine(e)
  PROVE  StagedInv'
<1>. DEFINE run == Staged!Run(e, {apiOutlet.run, apiUnits.run})
            made(status, geometry, coord) ==
              [status |-> status, geometry |-> geometry, refined |-> coord, run |-> run]
            carved == Staged!Carved(Staged!Terminal, apiOutlet.coord)
<1>1. /\ apiOutlet # None /\ apiUnits # None
      /\ \/ ~ApiFabric[e].refine /\ refinement' = made("disabled", None, None)
         \/ ApiFabric[e].refine /\ refinement' = made("best_effort_skipped", None, None)
         \/ /\ ApiFabric[e].refine /\ ApiFabric[e].d8
            /\ refinement' = made("applied", carved, apiOutlet.coord)
      /\ UNCHANGED <<apiLevel, apiOutlet, upstream, apiUnits, dissolved, result>>
  <2>. HIDE DEF run, carved
  <2>. QED
    BY DEF Staged!refine, Staged!Refinement, run, carved
<1>2. LevelMade' /\ OutletMade' /\ UpstreamMade' /\ UnitsMade'
  BY <1>1 DEF StagedInv, LevelMade, OutletMade, UpstreamMade, UnitsMade
<1>3. Unmixed(run) => /\ apiOutlet.run = run /\ apiUnits.run = run /\ run.engine = e
  BY RunOfTwo
<1>4. RefinementMade'
  <2>. SUFFICES ASSUME Unmixed(run)
       PROVE  RefinedAs(run, refinement'.status, refinement'.refined, refinement'.geometry)
    <3>1. refinement'.run = run
      BY <1>1
    <3>. QED
      BY <3>1 DEF RefinementMade
  <2>1. carved = CarvedOf(run) /\ apiOutlet.coord = run.coord /\ run.engine = e
    <3>1. Staged!Terminal = Staged!Whole(run.engine, HomeOf(run))
      BY <1>1, <1>3, TerminalOf
    <3>2. apiOutlet.coord = run.coord
      BY <1>1, <1>3 DEF StagedInv, OutletMade
    <3>. HIDE DEF run
    <3>. QED
      BY <1>3, <3>1, <3>2 DEF CarvedOf
  <2>. HIDE DEF run, carved
  <2>. QED
    BY <1>1, <2>1 DEF RefinedAs
<1>5. Staged!RecordsOfOneLevel'
  BY <1>1 DEF StagedInv, Staged!RecordsOfOneLevel
<1>6. DissolvedMade'
  BY <1>1 DEF StagedInv, DissolvedMade
<1>7. Staged!StagedLikeDelineate'
  BY <1>1 DEF StagedInv, Staged!StagedLikeDelineate
<1>. QED
  BY <1>2, <1>4, <1>5, <1>6, <1>7 DEF StagedInv

LEMMA DissolveStaged ==
  ASSUME StagedInv, NEW e \in ApiEngines, Staged!dissolve(e)
  PROVE  StagedInv'
<1>. DEFINE run == Staged!Run(e, {apiUnits.run, refinement.run})
            geometry == IF refinement.status = "applied" THEN Staged!MergedParts
                        ELSE apiUnits.records
<1>1. /\ apiUnits # None /\ refinement # None
      /\ dissolved' = [geometry |-> geometry, status |-> refinement.status, run |-> run]
      /\ UNCHANGED <<apiLevel, apiOutlet, upstream, apiUnits, refinement, result>>
  BY DEF Staged!dissolve, Staged!Dissolved
<1>2. LevelMade' /\ OutletMade' /\ UpstreamMade' /\ UnitsMade'
  BY <1>1 DEF StagedInv, LevelMade, OutletMade, UpstreamMade, UnitsMade
<1>3. Unmixed(run) => /\ refinement.run = run /\ apiUnits.run = run /\ run.engine = e
  BY RunOfTwo
<1>4. DissolvedMade'
  <2>. SUFFICES ASSUME Unmixed(run)
       PROVE  geometry = GeometryOf(run, refinement.status)
    <3>1. /\ dissolved'.run = run /\ dissolved'.geometry = geometry
          /\ dissolved'.status = refinement.status
      BY <1>1
    <3>. HIDE DEF run, geometry
    <3>. QED
      BY <3>1 DEF DissolvedMade
  <2>1. Staged!Terminal = Staged!Whole(run.engine, HomeOf(run)) /\ apiUnits.records = WholeOf(run)
    BY <1>1, <1>3, TerminalOf DEF StagedInv, UnitsMade
  <2>2. refinement.status = "applied" => refinement.geometry = CarvedOf(run)
    BY <1>1, <1>3 DEF StagedInv, RefinementMade, RefinedAs
  <2>. HIDE DEF run
  <2>. QED
    BY <2>1, <2>2 DEF GeometryOf, Staged!MergedParts
<1>5. Staged!RecordsOfOneLevel'
  BY <1>1 DEF StagedInv, Staged!RecordsOfOneLevel
<1>6. RefinementMade'
  BY <1>1 DEF StagedInv, RefinementMade
<1>7. Staged!StagedLikeDelineate'
  BY <1>1 DEF StagedInv, Staged!StagedLikeDelineate
<1>. QED
  BY <1>2, <1>4, <1>5, <1>6, <1>7 DEF StagedInv

\* The parts of a composed result of one delineation, as Python sees them.
LEMMA ComposedIsDelineated ==
  ASSUME NEW r, NEW run, HomeKnown(run),
         r.terminal = HomeOf(run), r.coord = run.coord, r.ids = ShedOf(run),
         r.records = WholeOf(run), NEW g, RefinedAs(run, r.status, r.refined, g),
         r.geometry = GeometryOf(run, r.status)
  PROVE  Staged!View(r) \in Staged!Delineated(run.engine, run.coord)
<1>. DEFINE e == run.engine
            c == run.coord
            home == HomeOf(run)
            shed == ShedOf(run)
            whole == WholeOf(run)
            seen(kind, refined, reason, geometry) ==
              [terminal_unit_id |-> home, input_outlet |-> c, upstream_unit_ids |-> shed,
               upstream_units |-> shed, geometry_wkb |-> geometry, refined_outlet |-> refined,
               refinement_skip_reason |-> reason, refinement_seed_kind |-> kind]
            rest == {Staged!Whole(e, u) : u \in shed \ {home}}
<1>1. Staged!Watershed(e, home) = shed
  BY UpstreamIsWatershed DEF HomeKnown, ShedOf
<1>2. {u.id : u \in r.records} = shed
  <2>1. \A u \in shed : Staged!Whole(e, u).id = u
    BY DEF Staged!Whole
  <2>. HIDE DEF shed, e
  <2>2. r.records = {Staged!Whole(e, u) : u \in shed}
    BY DEF WholeOf, shed, e
  <2>3. ASSUME NEW x \in {u.id : u \in r.records} PROVE x \in shed
    BY <2>1, <2>2
  <2>4. ASSUME NEW x \in shed PROVE x \in {u.id : u \in r.records}
    <3>1. Staged!Whole(e, x) \in r.records /\ Staged!Whole(e, x).id = x
      BY <2>1, <2>2
    <3>. QED
      BY <3>1
  <2>. QED
    BY <2>3, <2>4
<1>3. whole \ {Staged!Whole(e, home)} = rest
  <2>. HIDE DEF shed, e, home
  <2>1. whole = {Staged!Whole(e, u) : u \in shed}
    BY DEF WholeOf, shed, e
  <2>2. \A u, v : Staged!Whole(e, u) = Staged!Whole(e, v) => u = v
    <3>1. \A u : Staged!Whole(e, u).id = u
      BY DEF Staged!Whole
    <3>. QED
      BY <3>1
  <2>. HIDE DEF whole
  <2>3. ASSUME NEW x \in rest PROVE x \in whole /\ x # Staged!Whole(e, home)
    BY <2>1, <2>2
  <2>4. ASSUME NEW x \in whole, x # Staged!Whole(e, home) PROVE x \in rest
    BY <2>1, <2>4
  <2>. QED
    BY <2>3, <2>4
<1>4. Staged!Delineated(e, c) =
        IF ~ApiFabric[e].refine THEN {seen("disabled", None, FALSE, whole)}
        ELSE {seen("coarse", None, TRUE, whole)}
             \cup (IF ApiFabric[e].d8
                   THEN {seen("raster_ranked", c, FALSE,
                              rest \cup {Staged!Carved(Staged!Whole(e, home), c)})}
                   ELSE {})
  <2>1. ApiFabric[e].home[<<c, Staged!Finest(e)>>] = home
    BY DEF HomeOf
  <2>2. whole = {Staged!Whole(e, u) : u \in shed}
    BY DEF WholeOf
  <2>. HIDE DEF e, c, home, shed, whole
  <2>. QED
    BY <1>1, <2>1, <2>2 DEF Staged!Delineated
<1>5. Staged!View(r) = seen(Staged!SeedKind(r.status),
                            IF r.status = "applied" THEN r.refined ELSE None,
                            r.status = "best_effort_skipped", r.geometry)
  <2>. HIDE DEF e, c, home, shed, whole
  <2>. QED
    BY <1>2 DEF Staged!View, c, home, shed
<1>6. CASE r.status = "disabled" /\ ~ApiFabric[e].refine
  <2>1. Staged!SeedKind(r.status) = "disabled" /\ r.geometry = whole
    BY <1>6 DEF Staged!SeedKind, GeometryOf
  <2>2. Staged!View(r) = seen("disabled", None, FALSE, whole)
    BY <1>5, <1>6, <2>1
  <2>. HIDE DEF seen, e, c, whole
  <2>. QED
    BY <1>4, <1>6, <2>2 DEF e, c
<1>7. CASE r.status = "best_effort_skipped" /\ ApiFabric[e].refine
  <2>1. Staged!SeedKind(r.status) = "coarse" /\ r.geometry = whole
    BY <1>7 DEF Staged!SeedKind, GeometryOf
  <2>2. Staged!View(r) = seen("coarse", None, TRUE, whole)
    BY <1>5, <1>7, <2>1
  <2>. HIDE DEF seen, e, c, whole
  <2>. QED
    BY <1>4, <1>7, <2>2 DEF e, c
<1>8. CASE r.status = "applied" /\ ApiFabric[e].refine /\ ApiFabric[e].d8 /\ r.refined = c
  <2>1. Staged!SeedKind(r.status) = "raster_ranked"
    BY <1>8 DEF Staged!SeedKind
  <2>2. r.geometry = rest \cup {Staged!Carved(Staged!Whole(e, home), c)}
    <3>. HIDE DEF rest, whole
    <3>. QED
      BY <1>3, <1>8 DEF GeometryOf, CarvedOf, whole
  <2>. HIDE DEF rest
  <2>3. Staged!View(r) = seen("raster_ranked", c, FALSE,
                              rest \cup {Staged!Carved(Staged!Whole(e, home), c)})
    BY <1>5, <1>8, <2>1, <2>2
  <2>. HIDE DEF seen, e, c, home, whole
  <2>. QED
    BY <1>4, <1>8, <2>3 DEF e, c
<1>. QED
  BY <1>6, <1>7, <1>8 DEF RefinedAs

LEMMA ComposeStaged ==
  ASSUME StagedInv, NEW e \in ApiEngines, Staged!compose_result(e)
  PROVE  StagedInv'
<1>. DEFINE five == {apiOutlet.run, upstream.run, apiUnits.run, refinement.run, dissolved.run}
            run == IF dissolved.status # refinement.status THEN Staged!Run(e, {})
                   ELSE Staged!Run(e, five)
<1>1. /\ apiOutlet # None /\ upstream # None /\ apiUnits # None /\ refinement # None
      /\ dissolved # None
      /\ result' = [terminal |-> apiOutlet.terminal, coord |-> apiOutlet.coord,
                    ids |-> upstream.ids, records |-> apiUnits.records,
                    status |-> refinement.status, refined |-> refinement.refined,
                    geometry |-> dissolved.geometry, run |-> run]
      /\ UNCHANGED <<apiLevel, apiOutlet, upstream, apiUnits, refinement, dissolved>>
  <2>. HIDE DEF run
  <2>. QED
    BY DEF Staged!compose_result, Staged!Composed, Staged!pieces, run
<1>2. LevelMade' /\ OutletMade' /\ UpstreamMade' /\ UnitsMade'
  BY <1>1 DEF StagedInv, LevelMade, OutletMade, UpstreamMade, UnitsMade
<1>3. Staged!RecordsOfOneLevel'
  BY <1>1 DEF StagedInv, Staged!RecordsOfOneLevel
<1>4. RefinementMade' /\ DissolvedMade'
  BY <1>1 DEF StagedInv, RefinementMade, DissolvedMade
<1>5. Staged!StagedLikeDelineate'
  <2>. SUFFICES ASSUME Unmixed(run)
       PROVE  Staged!View(result') \in Staged!Delineated(run.engine, run.coord)
    <3>1. result'.run = run
      BY <1>1
    <3>. HIDE DEF run
    <3>. QED
      BY <3>1 DEF Staged!StagedLikeDelineate, Unmixed
  <2>1. dissolved.status = refinement.status
    <3>1. Staged!Run(e, {}).engine = Staged!Mixed
      <4>1. Staged!Cardinality({}) = 0
        BY StagedCardinality, FS_EmptySet
      <4>. QED
        BY <4>1 DEF Staged!Run
    <3>. QED
      BY <3>1 DEF Unmixed
  <2>2. Unmixed(Staged!Run(e, five)) /\ run = Staged!Run(e, five)
    BY <2>1
  <2>3. IsFiniteSet(five)
    <3>1. \A x, y : IsFiniteSet({x}) /\ IsFiniteSet({x} \cup {y})
      BY FS_Singleton, FS_Union
    <3>2. IsFiniteSet({apiOutlet.run} \cup {upstream.run})
          /\ IsFiniteSet({apiUnits.run} \cup {refinement.run}) /\ IsFiniteSet({dissolved.run})
      BY <3>1
    <3>3. IsFiniteSet(({apiOutlet.run} \cup {upstream.run})
                      \cup ({apiUnits.run} \cup {refinement.run}))
      BY <3>2, FS_Union
    <3>4. IsFiniteSet((({apiOutlet.run} \cup {upstream.run})
                       \cup ({apiUnits.run} \cup {refinement.run})) \cup {dissolved.run})
      BY <3>2, <3>3, FS_Union
    <3>5. five = (({apiOutlet.run} \cup {upstream.run})
                       \cup ({apiUnits.run} \cup {refinement.run})) \cup {dissolved.run}
      OBVIOUS
    <3>. QED
      BY <3>4, <3>5
  <2>. HIDE DEF run
  <2>4. \E r : five = {r} /\ r.engine = e /\ Staged!Run(e, five) = r
    <3>. HIDE DEF five
    <3>. QED
      BY <2>2, <2>3, RunOfOne DEF Unmixed
  <2>5. five = {run}
    <3>. HIDE DEF five
    <3>. QED
      BY <2>2, <2>4
  <2>6. /\ apiOutlet.run = run /\ upstream.run = run /\ apiUnits.run = run
        /\ refinement.run = run /\ dissolved.run = run
    BY <2>5
  <2>7. /\ apiOutlet.terminal = HomeOf(run) /\ apiOutlet.coord = run.coord
        /\ upstream.ids = ShedOf(run) /\ HomeKnown(run) /\ apiUnits.records = WholeOf(run)
    BY <1>1, <2>6 DEF StagedInv, OutletMade, UpstreamMade, UnitsMade
  <2>8. /\ RefinedAs(run, refinement.status, refinement.refined, refinement.geometry)
        /\ dissolved.geometry = GeometryOf(run, refinement.status)
    BY <1>1, <2>1, <2>6 DEF StagedInv, RefinementMade, DissolvedMade
  <2>9. /\ result'.terminal = apiOutlet.terminal /\ result'.coord = apiOutlet.coord
        /\ result'.ids = upstream.ids /\ result'.records = apiUnits.records
        /\ result'.status = refinement.status /\ result'.refined = refinement.refined
        /\ result'.geometry = dissolved.geometry
    BY <1>1
  <2>10. /\ result'.terminal = HomeOf(run) /\ result'.coord = run.coord
         /\ result'.ids = ShedOf(run) /\ result'.records = WholeOf(run)
         /\ RefinedAs(run, result'.status, result'.refined, refinement.geometry)
         /\ result'.geometry = GeometryOf(run, result'.status)
    BY <2>7, <2>8, <2>9
  <2>. QED
    BY <2>7, <2>10, ComposedIsDelineated
<1>. QED
  BY <1>2, <1>3, <1>4, <1>5 DEF StagedInv

LEMMA StutterStaged ==
  ASSUME StagedInv, UNCHANGED staged
  PROVE  StagedInv'
<1>1. UNCHANGED <<apiLevel, apiOutlet, upstream, apiUnits, refinement, dissolved, result>>
  BY DEF staged
<1>2. LevelMade' /\ OutletMade' /\ UpstreamMade' /\ UnitsMade'
  BY <1>1 DEF StagedInv, LevelMade, OutletMade, UpstreamMade, UnitsMade
<1>3. Staged!RecordsOfOneLevel' /\ Staged!StagedLikeDelineate'
  BY <1>1 DEF StagedInv, Staged!RecordsOfOneLevel, Staged!StagedLikeDelineate
<1>4. RefinementMade' /\ DissolvedMade'
  BY <1>1 DEF StagedInv, RefinementMade, DissolvedMade
<1>. QED
  BY <1>2, <1>3, <1>4 DEF StagedInv

LEMMA NextStaged ==
  ASSUME StagedInv, Staged!Next
  PROVE  StagedInv'
<1>1. PICK e \in ApiEngines :
        \/ Staged!select_level(e)
        \/ \E c \in ApiCoords : Staged!resolve_outlet(e, c)
        \/ Staged!traverse(e)
        \/ Staged!pre_merge_units(e)
        \/ Staged!refine(e)
        \/ Staged!dissolve(e)
        \/ Staged!compose_result(e)
  BY DEF Staged!Next
<1>. QED
  BY <1>1, SelectLevelStaged, ResolveOutletStaged, TraverseStaged, PreMergeUnitsStaged,
     RefineStaged, DissolveStaged, ComposeStaged

\* The stages in the specification that the run checks, for any engines, datasets
\* and coordinates: pieces of one outlet and one engine compose to what delineate
\* returns, and no mixing of pieces gives records of two levels (staged.rs,
\* engine.rs).
THEOREM StagesComposeHolds == MCSpec => []StagesCompose
<1>. DEFINE Kept == (part = "staged") => StagedInv
            all == <<part, vars, snaps, listing, staged, source, stages>>
<1>1. MCInit => Kept
  BY InitStaged DEF MCInit
<1>2. ASSUME Kept, [MCNext]_all PROVE Kept'
  <2>. SUFFICES ASSUME part' = "staged" PROVE StagedInv'
    OBVIOUS
  <2>1. part = "staged" /\ (Staged!Next \/ UNCHANGED staged)
    <3>1. CASE MCNext
      BY <3>1 DEF MCNext
    <3>2. CASE UNCHANGED all
      BY <3>2
    <3>. QED
      BY <1>2, <3>1, <3>2
  <2>2. StagedInv
    BY <1>2, <2>1
  <2>. QED
    BY <2>1, <2>2, NextStaged, StutterStaged
<1>3. Kept => StagesCompose
  BY DEF StagesCompose, Staged!StagesCompose, StagedInv
<1>. QED
  BY <1>1, <1>2, <1>3, PTL DEF MCSpec

-----------------------------------------------------------------------------
(* Sums of naturals: the number of units.                                    *)

\* g[p] units for each p: a sum of naturals is their number.
Tally(p, n) == {p} \X (1 .. n)

Tallies(g, S) == UNION {Tally(p, g[p]) : p \in S}

Size(g, S) == Cardinality(Tallies(g, S))

LEMMA UnitIs ==
  ASSUME NEW p, NEW n \in Nat
  PROVE  IsFiniteSet(Tally(p, n)) /\ Cardinality(Tally(p, n)) = n
<1>. DEFINE A == {p}  B == 1 .. n
<1>1. IsFiniteSet(A) /\ Cardinality(A) = 1
  BY FS_Singleton
<1>2. IsFiniteSet(B) /\ Cardinality(B) = n
  BY FS_Interval
<1>3. IsFiniteSet(A \X B) /\ Cardinality(A \X B) = Cardinality(A) * Cardinality(B)
  <2>. HIDE DEF A, B
  <2>. QED
    BY <1>1, <1>2, FS_Product
<1>. QED
  BY <1>1, <1>2, <1>3 DEF Tally

LEMMA UnitsAre ==
  ASSUME NEW g, NEW S, NEW x
  PROVE  x \in Tallies(g, S) <=> \E p \in S : x \in Tally(p, g[p])
BY DEF Tallies

LEMMA SizeIs ==
  ASSUME NEW S, IsFiniteSet(S), NEW g, \A p \in S : g[p] \in Nat
  PROVE  IsFiniteSet(Tallies(g, S)) /\ Size(g, S) \in Nat
<1>. DEFINE F == [p \in S |-> Tally(p, g[p])]
            T == {Tally(p, g[p]) : p \in S}
<1>1. F \in Surjection(S, T)
  BY DEF Surjection
<1>2. IsFiniteSet(T)
  <2>. HIDE DEF F, T
  <2>. QED
    BY <1>1, FS_Surjection
<1>3. \A s \in T : IsFiniteSet(s)
  BY UnitIs
<1>4. IsFiniteSet(UNION T)
  <2>. HIDE DEF T
  <2>. QED
    BY <1>2, <1>3, FS_UNION
<1>. QED
  BY <1>4, FS_CardinalityType DEF Tallies, Size

\* One number more.
LEMMA SizeAdd ==
  ASSUME NEW S, IsFiniteSet(S), NEW g, \A p \in S : g[p] \in Nat, NEW t \in S
  PROVE  Size(g, S) = g[t] + Size(g, S \ {t})
<1>. DEFINE A == Tally(t, g[t])  B == Tallies(g, S \ {t})
<1>1. Tallies(g, S) = A \cup B
  <2>1. ASSUME NEW x PROVE x \in Tallies(g, S) <=> x \in A \cup B
    BY UnitsAre
  <2>. QED
    BY <2>1
<1>2. A \cap B = {}
  BY UnitsAre DEF Tally
<1>3. IsFiniteSet(A) /\ Cardinality(A) = g[t]
  BY UnitIs
<1>4. IsFiniteSet(B) /\ Cardinality(B) \in Nat
  BY FS_RemoveElement, SizeIs DEF Size
<1>5. Cardinality(A \cup B) = Cardinality(A) + Cardinality(B)
  <2>. HIDE DEF A, B
  <2>1. Cardinality(A \cap B) = 0
    BY <1>2, FS_EmptySet
  <2>2. Cardinality(A \cup B) = Cardinality(A) + Cardinality(B) - Cardinality(A \cap B)
    BY <1>3, <1>4, FS_Union
  <2>. QED
    BY <1>3, <1>4, <2>1, <2>2
<1>. QED
  BY <1>1, <1>3, <1>4, <1>5 DEF Size

LEMMA SizeSame ==
  ASSUME NEW S, NEW g, NEW h, \A p \in S : g[p] = h[p]
  PROVE  Size(g, S) = Size(h, S)
<1>1. Tallies(g, S) = Tallies(h, S)
  BY DEF Tallies
<1>. QED
  BY <1>1 DEF Size

LEMMA SizeMonotone ==
  ASSUME NEW S, IsFiniteSet(S), NEW T \in SUBSET S, NEW g, NEW h,
         \A p \in S : h[p] \in Nat, \A p \in T : g[p] \in Nat /\ g[p] <= h[p]
  PROVE  Size(g, T) <= Size(h, S)
<1>1. ASSUME NEW x \in Tallies(g, T) PROVE x \in Tallies(h, S)
  <2>1. PICK p \in T : x \in Tally(p, g[p])
    BY UnitsAre
  <2>2. x \in Tally(p, h[p])
    BY <2>1 DEF Tally
  <2>. QED
    BY <2>1, <2>2, UnitsAre
<1>2. Tallies(g, T) \in SUBSET Tallies(h, S)
  BY <1>1
<1>3. IsFiniteSet(Tallies(h, S))
  BY SizeIs
<1>. QED
  BY <1>2, <1>3, FS_Subset DEF Size

LEMMA SizeZero ==
  ASSUME NEW S, NEW g, \A p \in S : g[p] = 0
  PROVE  Size(g, S) = 0
<1>1. Tallies(g, S) = {}
  BY UnitsAre DEF Tally
<1>. QED
  BY <1>1, FS_EmptySet DEF Size

\* The fold of the library computes it: a function that satisfies its recursion
\* exists, and any such function is the number of units.
Pick(s) == CHOOSE x \in s : TRUE

Folds(it, g, S) ==
  it = [s \in SUBSET S |-> IF s = {} THEN 0 ELSE g[Pick(s)] + it[s \ {Pick(s)}]]

LEMMA FoldExists ==
  ASSUME NEW S, IsFiniteSet(S), NEW g, \A p \in S : g[p] \in Nat
  PROVE  Folds([s \in SUBSET S |-> Size(g, s)], g, S)
<1>. DEFINE it == [s \in SUBSET S |-> Size(g, s)]
<1>1. ASSUME NEW s \in SUBSET S
      PROVE  it[s] = IF s = {} THEN 0 ELSE g[Pick(s)] + it[s \ {Pick(s)}]
  <2>1. CASE s = {}
    BY <2>1, SizeZero
  <2>2. CASE s # {}
    <3>1. Pick(s) \in s
      BY <2>2 DEF Pick
    <3>2. IsFiniteSet(s) /\ s \ {Pick(s)} \in SUBSET S
      BY FS_Subset
    <3>. QED
      BY <2>2, <3>1, <3>2, SizeAdd
  <2>. QED
    BY <2>1, <2>2
<1>2. it = [s \in SUBSET S |-> it[s]]
  OBVIOUS
<1>. HIDE DEF it
<1>3. Folds(it, g, S)
  BY <1>1, <1>2 DEF Folds
<1>. QED
  BY <1>3 DEF it

LEMMA FoldIsSize ==
  ASSUME NEW S, IsFiniteSet(S), NEW g, \A p \in S : g[p] \in Nat, NEW it, Folds(it, g, S)
  PROVE  it[S] = Size(g, S)
<1>. DEFINE Bad(n) == \E s \in SUBSET S : Cardinality(s) = n /\ it[s] # Size(g, s)
            T == {n \in Nat : Bad(n)}
<1>0. ASSUME NEW s \in SUBSET S
      PROVE  it[s] = IF s = {} THEN 0 ELSE g[Pick(s)] + it[s \ {Pick(s)}]
  BY DEF Folds
<1>1. ASSUME T # {} PROVE FALSE
  <2>1. PICK n \in T : \A m \in T : n <= m
    <3>1. T \subseteq Nat
      OBVIOUS
    <3>. HIDE DEF T
    <3>. QED
      BY <1>1, <3>1, LeastElement
  <2>2. PICK s \in SUBSET S : Cardinality(s) = n /\ it[s] # Size(g, s)
    BY <2>1
  <2>3. IsFiniteSet(s)
    BY FS_Subset
  <2>4. s # {}
    BY <2>2, <1>0, SizeZero
  <2>5. Pick(s) \in s
    BY <2>4 DEF Pick
  <2>. DEFINE u == s \ {Pick(s)}
  <2>6. u \in SUBSET S /\ IsFiniteSet(u) /\ Cardinality(u) = n - 1 /\ Cardinality(u) \in Nat
    <3>1. IsFiniteSet(u) /\ Cardinality(u) = Cardinality(s) - 1
      BY <2>3, <2>5, FS_RemoveElement
    <3>. QED
      BY <2>2, <3>1, FS_CardinalityType
  <2>7. it[u] = Size(g, u)
    BY <2>1, <2>6
  <2>8. Size(g, s) = g[Pick(s)] + Size(g, u)
    BY <2>3, <2>5, SizeAdd
  <2>9. it[s] = g[Pick(s)] + it[u]
    BY <1>0, <2>4
  <2>. QED
    BY <2>2, <2>7, <2>8, <2>9
<1>2. Cardinality(S) \in Nat
  BY FS_CardinalityType
<1>. QED
  BY <1>1, <1>2
-----------------------------------------------------------------------------
(* The counters of the object store, in the specification that the run       *)
(* checks.                                                                   *)

LEMMA SizeChange ==
  ASSUME NEW S, IsFiniteSet(S), NEW t \in S, NEW g, NEW h,
         \A p \in S : g[p] \in Nat /\ h[p] \in Nat, \A p \in S : p # t => h[p] = g[p]
  PROVE  Size(h, S) + g[t] = Size(g, S) + h[t]
<1>1. Size(g, S) = g[t] + Size(g, S \ {t}) /\ Size(h, S) = h[t] + Size(h, S \ {t})
  BY SizeAdd
<1>2. Size(g, S \ {t}) = Size(h, S \ {t})
  BY SizeSame
<1>3. Size(g, S \ {t}) \in Nat
  BY FS_RemoveElement, SizeIs
<1>. QED
  BY <1>1, <1>2, <1>3

\* The counter c of every path, as a function of the path.
Of(f, c) == [p \in DOMAIN f |-> f[p][c]]

LEMMA SumIsSize ==
  ASSUME NEW f, IsFiniteSet(DOMAIN f), NEW c, \A p \in DOMAIN f : f[p][c] \in Nat
  PROVE  Source!SumOf(f, c) = Size(Of(f, c), DOMAIN f)
<1>. DEFINE S == DOMAIN f  g == Of(f, c)
            it == CHOOSE it : it = [s \in SUBSET S |-> IF s = {} THEN 0
                                     ELSE LET x == CHOOSE x \in s : TRUE IN f[x][c] + it[s \ {x}]]
<1>1. Source!SumOf(f, c) = it[S]
  BY DEF Source!SumOf, Source!MapThenSumSet, Source!MapThenFoldSet
<1>2. \A p \in S : g[p] = f[p][c] /\ g[p] \in Nat
  BY DEF Of
<1>. DEFINE P(h) == h = [s \in SUBSET S |-> IF s = {} THEN 0
                             ELSE LET x == CHOOSE x \in s : TRUE IN f[x][c] + h[s \ {x}]]
<1>3. ASSUME NEW h PROVE Folds(h, g, S) <=> P(h)
  <2>1. ASSUME NEW s \in SUBSET S, s # {} PROVE g[Pick(s)] = f[CHOOSE x \in s : TRUE][c]
    BY <1>2, <2>1 DEF Pick
  <2>2. [s \in SUBSET S |-> IF s = {} THEN 0 ELSE g[Pick(s)] + h[s \ {Pick(s)}]] =
        [s \in SUBSET S |-> IF s = {} THEN 0
                            ELSE LET x == CHOOSE x \in s : TRUE IN f[x][c] + h[s \ {x}]]
    <3>. HIDE DEF g, S
    <3>. QED
      BY <2>1 DEF Pick
  <2>. HIDE DEF g, S
  <2>. QED
    BY <2>2 DEF Folds
<1>4. \E h : Folds(h, g, S)
  <2>1. IsFiniteSet(S)
    OBVIOUS
  <2>. HIDE DEF g, S
  <2>. QED
    BY <1>2, <2>1, FoldExists
<1>5. Folds(it, g, S)
  <2>1. it = CHOOSE h : P(h)
    OBVIOUS
  <2>. HIDE DEF P, it, g, S
  <2>2. PICK h : Folds(h, g, S)
    BY <1>4
  <2>3. P(h)
    BY <1>3, <2>2, Zenon
  <2>4. P(it)
    BY <2>1, <2>3, Zenon
  <2>. QED
    BY <1>3, <2>4, Zenon
<1>. HIDE DEF it, g, S
<1>6. it[S] = Size(g, S)
  BY <1>2, <1>5, FoldIsSize DEF S
<1>. QED
  BY <1>1, <1>6 DEF g, S

\* What an addition, a list of them and the threads' lists still add to c: a
\* thread that has added to the total owes the same amount to the path only.
Amount(a, c) == IF a.counter = c THEN a.n ELSE 0

IsAddition(a) == a.counter \in Source!Counters /\ a.n \in Nat

Additions(s) ==
  \/ s = <<>>
  \/ \E a : IsAddition(a) /\ s = <<a>>
  \/ \E a, b : IsAddition(a) /\ IsAddition(b) /\ s = <<a, b>>

Sought(s, c) ==
  (IF Len(s) > 0 THEN Amount(s[1], c) ELSE 0) + (IF Len(s) > 1 THEN Amount(s[2], c) ELSE 0)

PathOwes(lists, c) == [t \in SourceThreads |-> Sought(lists[t], c)]

TotalOwes(lists, half, c) ==
  [t \in SourceThreads |-> Sought(IF half[t] THEN Tail(lists[t]) ELSE lists[t], c)]

\* The entries of the map, or of a snapshot of it.
Entries(f) == IsFiniteSet(DOMAIN f) /\ \A p \in DOMAIN f : f[p] \in [Source!Counters -> Nat]

Attributed(f, c) == Size(Of(f, c), DOMAIN f)

\* What the threads still have to add accounts for the difference between the
\* counters and what was moved.
Accounted ==
  \A c \in Source!Counters :
    /\ total[c] + Size(TotalOwes(additions, added, c), SourceThreads) = moved[c]
    /\ Attributed(perPath, c) + Size(PathOwes(additions, c), SourceThreads) = moved[c]

\* While a snapshot is walked its entries are not ahead of the map's.
SnapshotBehind ==
  /\ snapshot.pc # "taken" =>
       \A p \in DOMAIN snapshot.paths :
         /\ p \in DOMAIN perPath
         /\ \A c \in Source!Counters : snapshot.paths[p][c] <= perPath[p][c]
  /\ snapshot.pc = "taken" =>
       \A c \in Source!Counters : Attributed(snapshot.paths, c) <= snapshot.total[c]

SourceTypes ==
  /\ total \in [Source!Counters -> Nat] /\ moved \in [Source!Counters -> Nat]
  /\ additions = [t \in SourceThreads |-> additions[t]] /\ added \in [SourceThreads -> BOOLEAN]
  /\ \A t \in SourceThreads : Additions(additions[t]) /\ (added[t] => additions[t] # <<>>)
  /\ Entries(perPath)
  /\ snapshot = [pc |-> snapshot.pc, left |-> snapshot.left, paths |-> snapshot.paths,
                 total |-> snapshot.total]
  /\ Entries(snapshot.paths)

SourceInv == SourceTypes /\ Accounted /\ SnapshotBehind

LEMMA SoughtIs ==
  ASSUME NEW c
  PROVE  /\ Sought(<<>>, c) = 0
         /\ \A a : IsAddition(a) => Sought(<<a>>, c) = Amount(a, c)
         /\ \A a, b : IsAddition(a) /\ IsAddition(b) =>
              Sought(<<a, b>>, c) = Amount(a, c) + Amount(b, c)
BY DEF Sought, Amount, IsAddition

LEMMA AmountIs ==
  ASSUME NEW a, IsAddition(a), NEW c
  PROVE  Amount(a, c) \in Nat
BY DEF Amount, IsAddition

LEMMA SoughtNat ==
  ASSUME NEW s, Additions(s), NEW c
  PROVE  Sought(s, c) \in Nat
BY SoughtIs, AmountIs DEF Additions

\* The first addition and the others.
LEMMA SoughtSplits ==
  ASSUME NEW s, Additions(s), s # <<>>
  PROVE  /\ IsAddition(Head(s)) /\ Additions(Tail(s))
         /\ \A c : Sought(s, c) = Amount(Head(s), c) + Sought(Tail(s), c)
<1>1. CASE \E a : IsAddition(a) /\ s = <<a>>
  <2>1. PICK a : IsAddition(a) /\ s = <<a>>
    BY <1>1
  <2>2. Head(s) = a /\ Tail(s) = <<>>
    BY <2>1
  <2>. QED
    BY <2>1, <2>2, SoughtIs, AmountIs DEF Additions
<1>2. CASE \E a, b : IsAddition(a) /\ IsAddition(b) /\ s = <<a, b>>
  <2>1. PICK a, b : IsAddition(a) /\ IsAddition(b) /\ s = <<a, b>>
    BY <1>2
  <2>2. Head(s) = a /\ Tail(s) = <<b>>
    BY <2>1
  <2>. QED
    BY <2>1, <2>2, SoughtIs, AmountIs, ZenonT(60) DEF Additions
<1>. QED
  BY <1>1, <1>2 DEF Additions

LEMMA ThreadsFinite == IsFiniteSet(SourceThreads)
BY CountingAssumption DEF Source!SourceAssumption, Source!IsFiniteSet, IsFiniteSet

LEMMA PathOwesAre ==
  ASSUME NEW lists, NEW c, \A t \in SourceThreads : Additions(lists[t])
  PROVE  /\ \A t \in SourceThreads : PathOwes(lists, c)[t] = Sought(lists[t], c)
         /\ \A t \in SourceThreads : PathOwes(lists, c)[t] \in Nat
         /\ Size(PathOwes(lists, c), SourceThreads) \in Nat
<1>1. \A t \in SourceThreads : PathOwes(lists, c)[t] = Sought(lists[t], c)
                               /\ PathOwes(lists, c)[t] \in Nat
  BY SoughtNat DEF PathOwes
<1>. QED
  BY <1>1, ThreadsFinite, SizeIs

LEMMA TotalOwesAre ==
  ASSUME NEW lists, NEW half, NEW c,
         \A t \in SourceThreads : Additions(lists[t]) /\ (half[t] => lists[t] # <<>>)
  PROVE  /\ \A t \in SourceThreads : TotalOwes(lists, half, c)[t] =
                                      Sought(IF half[t] THEN Tail(lists[t]) ELSE lists[t], c)
         /\ \A t \in SourceThreads : TotalOwes(lists, half, c)[t] \in Nat
         /\ Size(TotalOwes(lists, half, c), SourceThreads) \in Nat
<1>1. ASSUME NEW t \in SourceThreads
      PROVE  Sought(IF half[t] THEN Tail(lists[t]) ELSE lists[t], c) \in Nat
  BY SoughtNat, SoughtSplits
<1>2. \A t \in SourceThreads :
        /\ TotalOwes(lists, half, c)[t] = Sought(IF half[t] THEN Tail(lists[t]) ELSE lists[t], c)
        /\ TotalOwes(lists, half, c)[t] \in Nat
  BY <1>1 DEF TotalOwes
<1>. QED
  BY <1>2, ThreadsFinite, SizeIs
\* A thread with nothing left to add gets a list of additions, all of it moved.
LEMMA ListBegun ==
  ASSUME SourceInv, NEW t \in SourceThreads, additions[t] = <<>>, NEW first, Additions(first),
         additions' = [additions EXCEPT ![t] = first],
         moved' \in [Source!Counters -> Nat],
         \A c \in Source!Counters : moved'[c] = moved[c] + Sought(first, c),
         UNCHANGED <<total, perPath, added, snapshot>>
  PROVE  SourceInv'
<1>1. ~added[t]
  BY DEF SourceInv, SourceTypes
<1>2. /\ additions' = [s \in SourceThreads |-> additions'[s]]
      /\ \A s \in SourceThreads : Additions(additions'[s]) /\ (added'[s] => additions'[s] # <<>>)
      /\ additions'[t] = first /\ \A s \in SourceThreads : s # t => additions'[s] = additions[s]
  BY <1>1 DEF SourceInv, SourceTypes
<1>3. SourceTypes'
  BY <1>2 DEF SourceInv, SourceTypes
<1>4. ASSUME NEW c \in Source!Counters
      PROVE  /\ total'[c] + Size(TotalOwes(additions', added', c), SourceThreads) = moved'[c]
             /\ Attributed(perPath', c) + Size(PathOwes(additions', c), SourceThreads) = moved'[c]
  <2>. DEFINE g == TotalOwes(additions, added, c)  g2 == TotalOwes(additions', added', c)
              h == PathOwes(additions, c)  h2 == PathOwes(additions', c)
  <2>1. \A s \in SourceThreads : Additions(additions[s]) /\ (added[s] => additions[s] # <<>>)
    BY DEF SourceInv, SourceTypes
  <2>2. /\ \A s \in SourceThreads : g[s] \in Nat
        /\ \A s \in SourceThreads : h[s] \in Nat
        /\ g[t] = Sought(<<>>, c) /\ h[t] = Sought(<<>>, c)
        /\ Size(g, SourceThreads) \in Nat /\ Size(h, SourceThreads) \in Nat
    <3>1. /\ \A s \in SourceThreads : g[s] \in Nat
          /\ g[t] = Sought(<<>>, c) /\ Size(g, SourceThreads) \in Nat
      BY <1>1, <2>1, TotalOwesAre
    <3>2. /\ \A s \in SourceThreads : h[s] \in Nat
          /\ h[t] = Sought(<<>>, c) /\ Size(h, SourceThreads) \in Nat
      BY <2>1, PathOwesAre
    <3>. QED
      BY <3>1, <3>2
  <2>3. /\ \A s \in SourceThreads : g2[s] \in Nat
        /\ \A s \in SourceThreads : h2[s] \in Nat
        /\ g2[t] = Sought(first, c) /\ h2[t] = Sought(first, c)
        /\ Size(g2, SourceThreads) \in Nat /\ Size(h2, SourceThreads) \in Nat
    <3>1. /\ \A s \in SourceThreads : g2[s] \in Nat
          /\ g2[t] = Sought(first, c) /\ Size(g2, SourceThreads) \in Nat
      BY <1>1, <1>2, TotalOwesAre
    <3>2. /\ \A s \in SourceThreads : h2[s] \in Nat
          /\ h2[t] = Sought(first, c) /\ Size(h2, SourceThreads) \in Nat
      BY <1>2, PathOwesAre
    <3>. QED
      BY <3>1, <3>2
  <2>4. \A s \in SourceThreads : s # t => g2[s] = g[s] /\ h2[s] = h[s]
    BY <1>2 DEF TotalOwes, PathOwes
  <2>5. Sought(<<>>, c) = 0 /\ Sought(first, c) \in Nat
    BY SoughtIs, SoughtNat
  <2>. HIDE DEF g, g2, h, h2
  <2>6. Size(g2, SourceThreads) + g[t] = Size(g, SourceThreads) + g2[t]
    <3>1. \A s \in SourceThreads : g[s] \in Nat /\ g2[s] \in Nat
      BY <2>2, <2>3
    <3>2. \A s \in SourceThreads : s # t => g2[s] = g[s]
      BY <2>4
    <3>. QED
      BY <3>1, <3>2, ThreadsFinite, SizeChange
  <2>7. Size(h2, SourceThreads) + h[t] = Size(h, SourceThreads) + h2[t]
    <3>1. \A s \in SourceThreads : h[s] \in Nat /\ h2[s] \in Nat
      BY <2>2, <2>3
    <3>2. \A s \in SourceThreads : s # t => h2[s] = h[s]
      BY <2>4
    <3>. QED
      BY <3>1, <3>2, ThreadsFinite, SizeChange
  <2>8. /\ total[c] + Size(g, SourceThreads) = moved[c] /\ total[c] \in Nat
        /\ Attributed(perPath, c) + Size(h, SourceThreads) = moved[c]
    BY DEF SourceInv, SourceTypes, Accounted, g, h
  <2>9. Attributed(perPath, c) \in Nat
    BY SizeIs DEF SourceInv, SourceTypes, Entries, Attributed, Of
  <2>10. Size(g2, SourceThreads) = Size(g, SourceThreads) + Sought(first, c)
         /\ Size(h2, SourceThreads) = Size(h, SourceThreads) + Sought(first, c)
    BY <2>2, <2>3, <2>5, <2>6, <2>7
  <2>11. moved'[c] = moved[c] + Sought(first, c) /\ UNCHANGED <<total, perPath>>
    OBVIOUS
  <2>12. total[c] + Size(g2, SourceThreads) = moved'[c]
         /\ Attributed(perPath, c) + Size(h2, SourceThreads) = moved'[c]
    BY <2>2, <2>5, <2>8, <2>9, <2>10, <2>11
  <2>. QED
    BY <2>11, <2>12 DEF g2, h2
<1>5. SnapshotBehind'
  BY DEF SourceInv, SnapshotBehind
<1>. QED
  BY <1>3, <1>4, <1>5 DEF SourceInv, Accounted

\* fetch_add on the total.
LEMMA TotalAdded ==
  ASSUME SourceInv, NEW t \in SourceThreads, Source!AddTotal(t)
  PROVE  SourceInv'
<1>. DEFINE a == Head(additions[t])
<1>1. /\ additions[t] # <<>> /\ ~added[t] /\ Additions(additions[t])
      /\ added' = [added EXCEPT ![t] = TRUE] /\ additions' = [additions EXCEPT ![t] = additions[t]]
      /\ total' = [total EXCEPT ![a.counter] = @ + a.n]
      /\ UNCHANGED <<perPath, op, snapshot, moved, ops>>
  BY DEF Source!AddTotal, Source!TotalsTurn, Source!Advance, Source!Change, SourceInv, SourceTypes
<1>2. IsAddition(a)
  BY <1>1, SoughtSplits
<1>3. /\ additions' = additions
      /\ total' \in [Source!Counters -> Nat]
      /\ \A s \in SourceThreads : Additions(additions'[s]) /\ (added'[s] => additions'[s] # <<>>)
      /\ added'[t] /\ \A s \in SourceThreads : s # t => added'[s] = added[s]
  <2>1. additions' = additions
    <3>1. additions = [s \in SourceThreads |-> additions[s]]
      BY DEF SourceInv, SourceTypes
    <3>2. additions' = [s \in SourceThreads |-> IF s = t THEN additions[t] ELSE additions[s]]
      BY <1>1, <3>1
    <3>. QED
      BY <3>1, <3>2
  <2>2. total' \in [Source!Counters -> Nat]
    BY <1>1, <1>2 DEF SourceInv, SourceTypes, IsAddition
  <2>. QED
    BY <1>1, <2>1, <2>2 DEF SourceInv, SourceTypes
<1>4. SourceTypes'
  BY <1>1, <1>3 DEF SourceInv, SourceTypes
<1>5. ASSUME NEW c \in Source!Counters
      PROVE  /\ total'[c] + Size(TotalOwes(additions', added', c), SourceThreads) = moved[c]
             /\ Attributed(perPath', c) + Size(PathOwes(additions', c), SourceThreads) = moved[c]
  <2>. DEFINE g == TotalOwes(additions, added, c)  g2 == TotalOwes(additions', added', c)
              h == PathOwes(additions, c)  h2 == PathOwes(additions', c)
  <2>1. \A s \in SourceThreads : Additions(additions[s]) /\ (added[s] => additions[s] # <<>>)
    BY DEF SourceInv, SourceTypes
  <2>2. /\ \A s \in SourceThreads : g[s] \in Nat
        /\ g[t] = Sought(additions[t], c)
        /\ Size(g, SourceThreads) \in Nat
    BY <1>1, <2>1, TotalOwesAre
  <2>3. /\ \A s \in SourceThreads : g2[s] \in Nat
        /\ g2[t] = Sought(Tail(additions[t]), c)
        /\ Size(g2, SourceThreads) \in Nat
    BY <1>3, TotalOwesAre
  <2>4. \A s \in SourceThreads : s # t => g2[s] = g[s]
    BY <1>3 DEF TotalOwes
  <2>5. Sought(additions[t], c) = Amount(a, c) + Sought(Tail(additions[t]), c)
        /\ Amount(a, c) \in Nat /\ Sought(Tail(additions[t]), c) \in Nat
    BY <1>1, <1>2, AmountIs, SoughtSplits, SoughtNat
  <2>. HIDE DEF g, g2, a
  <2>6. Size(g2, SourceThreads) + g[t] = Size(g, SourceThreads) + g2[t]
    <3>1. \A s \in SourceThreads : g[s] \in Nat /\ g2[s] \in Nat
      BY <2>2, <2>3
    <3>2. \A s \in SourceThreads : s # t => g2[s] = g[s]
      BY <2>4
    <3>. QED
      BY <3>1, <3>2, ThreadsFinite, SizeChange
  <2>7. total[c] + Size(g, SourceThreads) = moved[c] /\ total[c] \in Nat
    BY DEF SourceInv, SourceTypes, Accounted, g
  <2>8. total'[c] = total[c] + Amount(a, c)
    BY <1>1, <1>2 DEF SourceInv, SourceTypes, IsAddition, Amount
  <2>9. total'[c] + Size(g2, SourceThreads) = moved[c]
    BY <2>2, <2>3, <2>5, <2>6, <2>7, <2>8
  <2>10. Attributed(perPath, c) + Size(PathOwes(additions, c), SourceThreads) = moved[c]
    BY DEF SourceInv, Accounted
  <2>11. UNCHANGED <<perPath, additions>>
    BY <1>1, <1>3
  <2>. QED
    BY <2>9, <2>10, <2>11 DEF g2
<1>6. SnapshotBehind'
  BY <1>1 DEF SourceInv, SnapshotBehind
<1>. QED
  BY <1>1, <1>4, <1>5, <1>6 DEF SourceInv, Accounted

LEMMA AttributedIs ==
  ASSUME NEW f, Entries(f), NEW c \in Source!Counters
  PROVE  Attributed(f, c) \in Nat
<1>1. \A p \in DOMAIN f : Of(f, c)[p] \in Nat
  BY DEF Entries, Of
<1>. QED
  BY <1>1, SizeIs DEF Entries, Attributed

LEMMA CounterAdded ==
  ASSUME NEW e \in [Source!Counters -> Nat], NEW a, IsAddition(a)
  PROVE  /\ [e EXCEPT ![a.counter] = @ + a.n] \in [Source!Counters -> Nat]
         /\ \A c \in Source!Counters :
              [e EXCEPT ![a.counter] = @ + a.n][c] = e[c] + Amount(a, c) /\ Amount(a, c) \in Nat
<1>. DEFINE k == a.counter  n == a.n
<1>1. k \in Source!Counters /\ n \in Nat
  BY DEF IsAddition
<1>2. \A c : Amount(a, c) = IF k = c THEN n ELSE 0
  BY DEF Amount
<1>. HIDE DEF k, n
<1>3. /\ [e EXCEPT ![k] = @ + n] \in [Source!Counters -> Nat]
      /\ \A c \in Source!Counters :
           [e EXCEPT ![k] = @ + n][c] = e[c] + Amount(a, c) /\ Amount(a, c) \in Nat
  BY <1>1, <1>2
<1>. QED
  BY <1>3 DEF k, n

\* entry().or_default() and fetch_add on the counter of the path.
Raised(f, a) ==
  [q \in DOMAIN f \cup {a.path} |->
     IF q = a.path
     THEN [(IF q \in DOMAIN f THEN f[q] ELSE Source!Zero) EXCEPT ![a.counter] = @ + a.n]
     ELSE f[q]]

LEMMA EntryAdded ==
  ASSUME NEW f, Entries(f), NEW a, IsAddition(a), NEW g, g = Raised(f, a)
  PROVE  /\ Entries(g) /\ DOMAIN f \subseteq DOMAIN g
         /\ \A p \in DOMAIN f, c \in Source!Counters : f[p][c] <= g[p][c]
         /\ \A c \in Source!Counters : Attributed(g, c) = Attributed(f, c) + Amount(a, c)
<1>. DEFINE e == IF a.path \in DOMAIN f THEN f[a.path] ELSE Source!Zero
<1>1. e \in [Source!Counters -> Nat]
  BY DEF Entries, Source!Zero
<1>2. /\ DOMAIN g = DOMAIN f \cup {a.path} /\ g[a.path] = [e EXCEPT ![a.counter] = @ + a.n]
      /\ \A q \in DOMAIN f : q # a.path => g[q] = f[q]
  BY DEF Raised
<1>3. /\ g[a.path] \in [Source!Counters -> Nat]
      /\ \A c \in Source!Counters : g[a.path][c] = e[c] + Amount(a, c) /\ Amount(a, c) \in Nat
  <2>. HIDE DEF e
  <2>. QED
    BY <1>1, <1>2, CounterAdded
<1>4. Entries(g)
  <2>1. IsFiniteSet(DOMAIN g)
    BY <1>2, FS_AddElement DEF Entries
  <2>. QED
    BY <1>2, <1>3, <2>1 DEF Entries
<1>5. ASSUME NEW p \in DOMAIN f, NEW c \in Source!Counters PROVE f[p][c] <= g[p][c]
  BY <1>2, <1>3 DEF Entries
<1>6. ASSUME NEW c \in Source!Counters
      PROVE  Attributed(g, c) = Attributed(f, c) + Amount(a, c)
  <2>. DEFINE S == DOMAIN f  T == DOMAIN g  F == Of(f, c)  G == Of(g, c)  p == a.path
  <2>1. /\ IsFiniteSet(S) /\ IsFiniteSet(T) /\ p \in T /\ T = S \cup {p}
        /\ \A q \in S : F[q] \in Nat
        /\ \A q \in T : G[q] \in Nat
        /\ \A q \in S : q # p => G[q] = F[q]
        /\ G[p] = e[c] + Amount(a, c) /\ e[c] \in Nat /\ Amount(a, c) \in Nat
        /\ (p \in S => F[p] = e[c]) /\ (p \notin S => e[c] = 0)
    BY <1>1, <1>2, <1>3, <1>4 DEF Entries, Of, Source!Zero
  <2>. HIDE DEF S, T, F, G, p, e
  <2>2. Size(G, T) = G[p] + Size(G, T \ {p})
    BY <2>1, SizeAdd
  <2>3. T \ {p} = S \ {p} /\ Size(G, S \ {p}) = Size(F, S \ {p})
    BY <2>1, SizeSame
  <2>4. IsFiniteSet(S \ {p}) /\ Size(F, S \ {p}) \in Nat
    BY <2>1, FS_Subset, SizeIs
  <2>5. Size(F, S) = e[c] + Size(F, S \ {p})
    <3>1. CASE p \in S
      BY <2>1, <3>1, SizeAdd
    <3>2. CASE p \notin S
      <4>1. S \ {p} = S
        BY <3>2
      <4>2. e[c] = 0
        BY <2>1, <3>2
      <4>. QED
        BY <2>4, <4>1, <4>2
    <3>. QED
      BY <3>1, <3>2
  <2>6. Size(G, T) = Size(F, S) + Amount(a, c)
    <3>1. G[p] = e[c] + Amount(a, c) /\ e[c] \in Nat /\ Amount(a, c) \in Nat
      BY <2>1
    <3>2. Size(G, T) = G[p] + Size(F, S \ {p})
      BY <2>2, <2>3
    <3>. QED
      BY <2>4, <2>5, <3>1, <3>2
  <2>. QED
    BY <2>6 DEF Attributed, S, T, F, G
<1>. QED
  BY <1>2, <1>4, <1>5, <1>6

LEMMA PathAdded ==
  ASSUME SourceInv, NEW t \in SourceThreads, Source!AddPath(t)
  PROVE  SourceInv'
<1>. DEFINE a == Head(additions[t])
<1>1. /\ additions[t] # <<>> /\ added[t] /\ Additions(additions[t])
      /\ added' = [added EXCEPT ![t] = FALSE]
      /\ additions' = [additions EXCEPT ![t] = Tail(additions[t])]
      /\ UNCHANGED <<total, op, snapshot, moved, ops>>
  BY DEF Source!AddPath, Source!TotalsTurn, Source!Advance, SourceInv, SourceTypes
<1>2. perPath' = Raised(perPath, a)
  BY DEF Source!AddPath, Source!Change, Source!Entry, Raised
<1>3. IsAddition(a) /\ Additions(Tail(additions[t]))
  BY <1>1, SoughtSplits
<1>4. /\ Entries(perPath') /\ DOMAIN perPath \subseteq DOMAIN perPath'
      /\ \A p \in DOMAIN perPath, c \in Source!Counters : perPath[p][c] <= perPath'[p][c]
      /\ \A c \in Source!Counters : Attributed(perPath', c) = Attributed(perPath, c) + Amount(a, c)
  <2>1. Entries(perPath)
    BY DEF SourceInv, SourceTypes
  <2>. HIDE DEF a
  <2>. QED
    BY <1>2, <1>3, <2>1, EntryAdded
<1>5. /\ additions' = [s \in SourceThreads |-> additions'[s]] /\ added' \in [SourceThreads -> BOOLEAN]
      /\ \A s \in SourceThreads : Additions(additions'[s]) /\ (added'[s] => additions'[s] # <<>>)
      /\ additions'[t] = Tail(additions[t]) /\ ~added'[t]
      /\ \A s \in SourceThreads : s # t => additions'[s] = additions[s] /\ added'[s] = added[s]
  BY <1>1, <1>3 DEF SourceInv, SourceTypes
<1>6. SourceTypes'
  BY <1>1, <1>4, <1>5 DEF SourceInv, SourceTypes
<1>7. ASSUME NEW c \in Source!Counters
      PROVE  /\ total'[c] + Size(TotalOwes(additions', added', c), SourceThreads) = moved[c]
             /\ Attributed(perPath', c) + Size(PathOwes(additions', c), SourceThreads) = moved[c]
  <2>. DEFINE h == PathOwes(additions, c)  h2 == PathOwes(additions', c)
  <2>1. \A s \in SourceThreads : Additions(additions[s]) /\ (added[s] => additions[s] # <<>>)
    BY DEF SourceInv, SourceTypes
  <2>2. /\ \A s \in SourceThreads : h[s] \in Nat
        /\ h[t] = Sought(additions[t], c) /\ Size(h, SourceThreads) \in Nat
    BY <2>1, PathOwesAre
  <2>3. /\ \A s \in SourceThreads : h2[s] \in Nat
        /\ h2[t] = Sought(Tail(additions[t]), c) /\ Size(h2, SourceThreads) \in Nat
    <3>1. \A s \in SourceThreads : Additions(additions'[s])
      BY <1>5
    <3>2. additions'[t] = Tail(additions[t])
      BY <1>5
    <3>. QED
      BY <3>1, <3>2, PathOwesAre
  <2>4. \A s \in SourceThreads : s # t => h2[s] = h[s]
    BY <1>5 DEF PathOwes
  <2>5. Sought(additions[t], c) = Amount(a, c) + Sought(Tail(additions[t]), c)
        /\ Amount(a, c) \in Nat /\ Sought(Tail(additions[t]), c) \in Nat
    BY <1>1, <1>3, AmountIs, SoughtSplits, SoughtNat
  <2>6. TotalOwes(additions', added', c) = TotalOwes(additions, added, c)
    BY <1>1, <1>5 DEF TotalOwes
  <2>7. total[c] + Size(TotalOwes(additions, added, c), SourceThreads) = moved[c]
        /\ Attributed(perPath, c) + Size(h, SourceThreads) = moved[c]
    BY DEF SourceInv, Accounted
  <2>8. Attributed(perPath, c) \in Nat
    BY AttributedIs DEF SourceInv, SourceTypes
  <2>9. Attributed(perPath', c) = Attributed(perPath, c) + Amount(a, c)
    BY <1>4
  <2>. HIDE DEF h, h2, a
  <2>10. Size(h2, SourceThreads) + h[t] = Size(h, SourceThreads) + h2[t]
    <3>1. \A s \in SourceThreads : h[s] \in Nat /\ h2[s] \in Nat
      BY <2>2, <2>3
    <3>. QED
      BY <2>4, <3>1, ThreadsFinite, SizeChange
  <2>11. Attributed(perPath', c) + Size(h2, SourceThreads) = moved[c]
    BY <2>2, <2>3, <2>5, <2>7, <2>8, <2>9, <2>10
  <2>12. total' = total
    BY <1>1
  <2>. QED
    BY <2>6, <2>7, <2>11, <2>12 DEF h2
<1>8. SnapshotBehind'
  <2>1. snapshot' = snapshot
    BY <1>1
  <2>2. ASSUME snapshot.pc # "taken", NEW p \in DOMAIN snapshot.paths
        PROVE  p \in DOMAIN perPath'
               /\ \A c \in Source!Counters : snapshot.paths[p][c] <= perPath'[p][c]
    <3>1. p \in DOMAIN perPath /\ \A c \in Source!Counters : snapshot.paths[p][c] <= perPath[p][c]
      BY <2>2 DEF SourceInv, SnapshotBehind
    <3>2. \A c \in Source!Counters :
            snapshot.paths[p][c] \in Nat /\ perPath[p][c] \in Nat /\ perPath'[p][c] \in Nat
      BY <1>4, <3>1 DEF SourceInv, SourceTypes, Entries
    <3>. QED
      BY <1>4, <3>1, <3>2
  <2>. QED
    BY <2>1, <2>2 DEF SourceInv, SnapshotBehind
<1>. QED
  BY <1>1, <1>6, <1>7, <1>8 DEF SourceInv, Accounted

\* The snapshot alone changes.
LEMMA SnapshotMoved ==
  ASSUME SourceInv, UNCHANGED <<total, perPath, additions, added, moved>>,
         snapshot' = [pc |-> snapshot'.pc, left |-> snapshot'.left, paths |-> snapshot'.paths,
                      total |-> snapshot'.total],
         Entries(snapshot'.paths), SnapshotBehind'
  PROVE  SourceInv'
<1>1. SourceTypes'
  BY DEF SourceInv, SourceTypes
<1>2. Accounted'
  BY DEF SourceInv, Accounted
<1>. QED
  BY <1>1, <1>2 DEF SourceInv

LEMMA SnapshotBegun ==
  ASSUME SourceInv, Source!BeginSnapshot
  PROVE  SourceInv'
<1>1. PICK q : snapshot' = [pc |-> "walk", left |-> q, paths |-> <<>>, total |-> Source!Zero]
  BY DEF Source!BeginSnapshot, Source!NoSnap
<1>2. DOMAIN snapshot'.paths = {} /\ snapshot'.pc = "walk"
  BY <1>1
<1>3. Entries(snapshot'.paths)
  BY <1>2, FS_EmptySet DEF Entries
<1>4. SnapshotBehind'
  BY <1>2 DEF SnapshotBehind
<1>. QED
  BY <1>1, <1>3, <1>4, SnapshotMoved DEF Source!BeginSnapshot

LEMMA EntryRead ==
  ASSUME SourceInv, NEW p, Source!ReadEntry(p)
  PROVE  SourceInv'
<1>. DEFINE f == snapshot.paths
            g == IF p \in DOMAIN perPath
                 THEN [q \in DOMAIN f \cup {p} |-> IF q = p THEN perPath[p] ELSE f[q]]
                 ELSE f
<1>1. snapshot' = [pc |-> snapshot.pc, left |-> snapshot.left \ {p}, paths |-> g,
                   total |-> snapshot.total]
  <2>1. snapshot = [pc |-> snapshot.pc, left |-> snapshot.left, paths |-> snapshot.paths,
                    total |-> snapshot.total]
    BY DEF SourceInv, SourceTypes
  <2>. QED
    BY <2>1 DEF Source!ReadEntry
<1>2. Entries(f) /\ Entries(perPath)
  BY DEF SourceInv, SourceTypes
<1>3. Entries(g)
  <2>1. IsFiniteSet(DOMAIN f \cup {p})
    BY <1>2, FS_AddElement DEF Entries
  <2>. QED
    BY <1>2, <2>1 DEF Entries
<1>4. \A q \in DOMAIN f : q \in DOMAIN perPath
                          /\ \A c \in Source!Counters : f[q][c] <= perPath[q][c]
  BY DEF SourceInv, SnapshotBehind, Source!ReadEntry
<1>5. \A q \in DOMAIN g : q \in DOMAIN perPath
                          /\ \A c \in Source!Counters : g[q][c] <= perPath[q][c]
  <2>1. CASE p \in DOMAIN perPath
    <3>1. DOMAIN g = DOMAIN f \cup {p} /\ g[p] = perPath[p]
          /\ \A q \in DOMAIN f : q # p => g[q] = f[q]
      BY <2>1
    <3>2. \A c \in Source!Counters : perPath[p][c] \in Nat
      BY <1>2, <2>1 DEF Entries
    <3>. HIDE DEF f, g
    <3>. QED
      BY <1>4, <2>1, <3>1, <3>2
  <2>2. CASE p \notin DOMAIN perPath
    BY <1>4, <2>2
  <2>. QED
    BY <2>1, <2>2
<1>. HIDE DEF f, g
<1>6. /\ snapshot'.paths = g /\ snapshot'.pc # "taken"
      /\ UNCHANGED <<total, perPath, additions, added, moved>>
  <2>1. snapshot.pc = "walk" /\ UNCHANGED <<total, perPath, additions, added, moved>>
    BY DEF Source!ReadEntry
  <2>. QED
    BY <1>1, <2>1
<1>7. SnapshotBehind'
  BY <1>5, <1>6 DEF SnapshotBehind
<1>8. snapshot' = [pc |-> snapshot'.pc, left |-> snapshot'.left, paths |-> snapshot'.paths,
                   total |-> snapshot'.total]
  BY <1>1
<1>. QED
  BY <1>3, <1>6, <1>7, <1>8, SnapshotMoved

\* The entries read before the totals are not ahead of them.
LEMMA TotalsRead ==
  ASSUME SourceInv, Source!ReadTotals
  PROVE  SourceInv'
<1>1. snapshot' = [pc |-> "taken", left |-> snapshot.left, paths |-> snapshot.paths,
                   total |-> total]
  <2>1. snapshot = [pc |-> snapshot.pc, left |-> snapshot.left, paths |-> snapshot.paths,
                    total |-> snapshot.total]
    BY DEF SourceInv, SourceTypes
  <2>. QED
    BY <2>1 DEF Source!ReadTotals
<1>2. Entries(snapshot.paths) /\ Entries(perPath)
  BY DEF SourceInv, SourceTypes
<1>3. ASSUME NEW c \in Source!Counters PROVE Attributed(snapshot.paths, c) <= total[c]
  <2>. DEFINE F == Of(snapshot.paths, c)  G == Of(perPath, c)
              h == PathOwes(additions, c)  g == TotalOwes(additions, added, c)
  <2>1. DOMAIN snapshot.paths \in SUBSET DOMAIN perPath
        /\ \A p \in DOMAIN snapshot.paths : snapshot.paths[p][c] <= perPath[p][c]
    BY DEF SourceInv, SnapshotBehind, Source!ReadTotals
  <2>2. \A p \in DOMAIN perPath : G[p] \in Nat
    BY <1>2 DEF Entries, Of
  <2>3. \A p \in DOMAIN snapshot.paths : F[p] \in Nat /\ F[p] <= G[p]
    BY <1>2, <2>1 DEF Entries, Of
  <2>4. Attributed(snapshot.paths, c) <= Attributed(perPath, c)
    <3>. HIDE DEF F, G
    <3>1. Size(F, DOMAIN snapshot.paths) <= Size(G, DOMAIN perPath)
      BY <1>2, <2>1, <2>2, <2>3, SizeMonotone DEF Entries
    <3>. QED
      BY <3>1 DEF Attributed, F, G
  <2>5. \A s \in SourceThreads : Additions(additions[s]) /\ (added[s] => additions[s] # <<>>)
    BY DEF SourceInv, SourceTypes
  <2>6. /\ \A s \in SourceThreads : h[s] = Sought(additions[s], c)
        /\ \A s \in SourceThreads : h[s] \in Nat
        /\ Size(h, SourceThreads) \in Nat
    BY <2>5, PathOwesAre
  <2>7. /\ \A s \in SourceThreads :
             g[s] = Sought(IF added[s] THEN Tail(additions[s]) ELSE additions[s], c)
        /\ \A s \in SourceThreads : g[s] \in Nat
        /\ Size(g, SourceThreads) \in Nat
    BY <2>5, TotalOwesAre
  <2>8. ASSUME NEW s \in SourceThreads PROVE g[s] <= h[s]
    <3>. HIDE DEF g, h
    <3>1. CASE added[s]
      <4>1. Sought(additions[s], c) =
              Amount(Head(additions[s]), c) + Sought(Tail(additions[s]), c)
            /\ IsAddition(Head(additions[s]))
        BY <2>5, <3>1, SoughtSplits
      <4>2. Amount(Head(additions[s]), c) \in Nat
        BY <4>1, AmountIs
      <4>. QED
        BY <2>6, <2>7, <3>1, <4>1, <4>2
    <3>2. CASE ~added[s]
      BY <2>6, <2>7, <3>2
    <3>. QED
      BY <3>1, <3>2
  <2>9. Size(g, SourceThreads) <= Size(h, SourceThreads)
    <3>. HIDE DEF g, h
    <3>1. \A s \in SourceThreads : g[s] \in Nat /\ g[s] <= h[s]
      BY <2>7, <2>8
    <3>2. \A s \in SourceThreads : h[s] \in Nat
      BY <2>6
    <3>. QED
      BY <3>1, <3>2, ThreadsFinite, SizeMonotone
  <2>10. total[c] + Size(g, SourceThreads) = Attributed(perPath, c) + Size(h, SourceThreads)
         /\ total[c] \in Nat
    BY DEF SourceInv, SourceTypes, Accounted
  <2>11. Attributed(perPath, c) \in Nat /\ Attributed(snapshot.paths, c) \in Nat
    BY <1>2, AttributedIs
  <2>. HIDE DEF g, h
  <2>. QED
    BY <2>4, <2>6, <2>7, <2>9, <2>10, <2>11
<1>4. SnapshotBehind'
  BY <1>1, <1>3 DEF SnapshotBehind
<1>. QED
  BY <1>1, <1>2, <1>4, SnapshotMoved DEF Source!ReadTotals

\* Each operation counts a request, and a put its body.
Request(p) == [counter |-> "requests", path |-> p, n |-> 1]

Body(p, n) == [counter |-> "out", path |-> p, n |-> n]

LEMMA OperationBegun ==
  ASSUME SourceInv, NEW t \in SourceThreads, NEW p, NEW kind, NEW n \in Nat, NEW first,
         Source!Begin(t, kind, p, first, n),
         first = <<Request(p), Body(p, n)>> \/ (n = 0 /\ first = <<Request(p)>>)
  PROVE  SourceInv'
<1>1. first = <<Request(p), Body(p, n)>> \/ (n = 0 /\ first = <<Request(p)>>)
  OBVIOUS
<1>2. /\ additions[t] = <<>> /\ additions' = [additions EXCEPT ![t] = first]
      /\ moved' = [moved EXCEPT !["requests"] = @ + 1, !["out"] = @ + n]
      /\ UNCHANGED <<total, perPath, added, snapshot>>
  BY DEF Source!Begin, Source!Idle
<1>3. moved \in [Source!Counters -> Nat] /\ Source!Counters = {"requests", "in", "out"}
  BY DEF SourceInv, SourceTypes, Source!Counters
<1>4. /\ moved' \in [Source!Counters -> Nat]
      /\ moved'["requests"] = moved["requests"] + 1 /\ moved'["in"] = moved["in"]
      /\ moved'["out"] = moved["out"] + n
  BY <1>2, <1>3
<1>5. IsAddition(Request(p)) /\ IsAddition(Body(p, n))
  BY <1>3 DEF IsAddition, Request, Body
<1>6. \A c \in Source!Counters : /\ Amount(Request(p), c) = IF c = "requests" THEN 1 ELSE 0
                                 /\ Amount(Body(p, n), c) = IF c = "out" THEN n ELSE 0
  BY DEF Amount, Request, Body
<1>7. Additions(first)
  BY <1>1, <1>5 DEF Additions
<1>8. ASSUME NEW c \in Source!Counters PROVE moved'[c] = moved[c] + Sought(first, c)
  <2>1. Sought(first, c) = (IF c = "requests" THEN 1 ELSE 0) + (IF c = "out" THEN n ELSE 0)
    <3>0. /\ Amount(Request(p), c) = IF c = "requests" THEN 1 ELSE 0
          /\ Amount(Body(p, n), c) = IF c = "out" THEN n ELSE 0
      BY <1>6
    <3>1. CASE first = <<Request(p), Body(p, n)>>
      <4>1. Sought(first, c) = Amount(Request(p), c) + Amount(Body(p, n), c)
        BY <1>5, <3>1, SoughtIs
      <4>. QED
        BY <3>0, <4>1
    <3>2. CASE n = 0 /\ first = <<Request(p)>>
      <4>1. Sought(first, c) = Amount(Request(p), c)
        BY <1>5, <3>2, SoughtIs
      <4>. QED
        BY <3>0, <3>2, <4>1
    <3>. QED
      BY <1>1, <3>1, <3>2
  <2>2. moved[c] \in Nat
    BY <1>3
  <2>. QED
    BY <1>3, <1>4, <2>1, <2>2
<1>. QED
  BY <1>2, <1>4, <1>7, <1>8, ListBegun

LEMMA OperationsBegun ==
  ASSUME SourceInv, NEW t \in SourceThreads, NEW p
  PROVE  /\ \A n \in 1 .. SourceChunk : Source!Put(t, p, n) => SourceInv'
         /\ Source!Get(t, p) \/ Source!GetRanges(t, p) \/ Source!Other(t, p) => SourceInv'
<1>1. ASSUME NEW n \in 1 .. SourceChunk, Source!Put(t, p, n) PROVE SourceInv'
  <2>1. Source!Begin(t, "put", p, <<Request(p), Body(p, n)>>, n) /\ n \in Nat
    BY <1>1 DEF Source!Put, Source!Add, Request, Body
  <2>. QED
    BY <2>1, OperationBegun
<1>2. ASSUME Source!Get(t, p) PROVE SourceInv'
  <2>1. Source!Begin(t, "get", p, <<Request(p)>>, 0)
    BY <1>2 DEF Source!Get, Source!Add, Request
  <2>. QED
    BY <2>1, OperationBegun
<1>3. ASSUME Source!GetRanges(t, p) PROVE SourceInv'
  <2>1. Source!Begin(t, "ranges", p, <<Request(p)>>, 0)
    BY <1>3 DEF Source!GetRanges, Source!Add, Request
  <2>. QED
    BY <2>1, OperationBegun
<1>4. ASSUME Source!Other(t, p) PROVE SourceInv'
  <2>1. Source!Begin(t, "other", p, <<Request(p)>>, 0)
    BY <1>4 DEF Source!Other, Source!Add, Request
  <2>. QED
    BY <2>1, OperationBegun
<1>. QED
  BY <1>1, <1>2, <1>3, <1>4

LEMMA BytesArrived ==
  ASSUME SourceInv, NEW t \in SourceThreads, NEW n \in Nat, additions[t] = <<>>,
         Source!Received(t, n)
  PROVE  SourceInv'
<1>. DEFINE a == [counter |-> "in", path |-> op[t].path, n |-> n]
<1>1. /\ additions' = [additions EXCEPT ![t] = <<a>>]
      /\ moved' = [moved EXCEPT !["in"] = @ + n]
      /\ UNCHANGED <<total, perPath, added, snapshot>>
  BY DEF Source!Received, Source!Add
<1>2. moved \in [Source!Counters -> Nat] /\ Source!Counters = {"requests", "in", "out"}
  BY DEF SourceInv, SourceTypes, Source!Counters
<1>3. IsAddition(a) /\ \A c \in Source!Counters : Amount(a, c) = IF c = "in" THEN n ELSE 0
  BY <1>2 DEF IsAddition, Amount
<1>. HIDE DEF a
<1>4. Additions(<<a>>)
  BY <1>3 DEF Additions
<1>5. /\ moved' \in [Source!Counters -> Nat]
      /\ \A c \in Source!Counters : moved'[c] = moved[c] + Sought(<<a>>, c)
  <2>1. ASSUME NEW c \in Source!Counters PROVE Sought(<<a>>, c) = IF c = "in" THEN n ELSE 0
    BY <1>3, SoughtIs
  <2>. QED
    BY <1>1, <1>2, <2>1
<1>. QED
  BY <1>1, <1>4, <1>5, ListBegun

LEMMA SourceStep ==
  ASSUME SourceInv, Source!Next
  PROVE  SourceInv'
<1>1. CASE \E t \in SourceThreads, p \in SourcePaths :
             \/ \E n \in 1 .. SourceChunk : Source!Put(t, p, n)
             \/ p # "<root>" /\ (Source!Get(t, p) \/ Source!GetRanges(t, p))
             \/ Source!Other(t, p)
  BY <1>1, OperationsBegun
<1>2. CASE \E t \in SourceThreads : Source!AddTotal(t) \/ Source!AddPath(t)
  BY <1>2, TotalAdded, PathAdded
<1>3. CASE \E t \in SourceThreads : Source!End(t)
  BY <1>3 DEF Source!End, SourceInv, SourceTypes, Accounted, SnapshotBehind
<1>4. CASE \E t \in SourceThreads, n \in 1 .. SourceChunk :
             Source!GetChunk(t, n) \/ Source!RangesArrive(t, n)
  <2>1. PICK t \in SourceThreads, n \in 1 .. SourceChunk :
          Source!GetChunk(t, n) \/ Source!RangesArrive(t, n)
    BY <1>4
  <2>2. additions[t] = <<>> /\ Source!Received(t, n) /\ n \in Nat
    BY <2>1 DEF Source!GetChunk, Source!RangesArrive
  <2>. QED
    BY <2>2, BytesArrived
<1>5. CASE Source!BeginSnapshot \/ Source!ReadTotals \/ \E p \in SourcePaths : Source!ReadEntry(p)
  BY <1>5, SnapshotBegun, TotalsRead, EntryRead
<1>. QED
  BY <1>1, <1>2, <1>3, <1>4, <1>5 DEF Source!Next

LEMMA SourceBegins ==
  ASSUME Source!Init
  PROVE  SourceInv
<1>1. /\ total = Source!Zero /\ moved = Source!Zero /\ perPath = <<>>
      /\ additions = [t \in SourceThreads |-> <<>>] /\ added = [t \in SourceThreads |-> FALSE]
      /\ snapshot = [pc |-> "none", left |-> {}, paths |-> <<>>, total |-> Source!Zero]
  BY DEF Source!Init, Source!NoSnap
<1>2. Source!Zero \in [Source!Counters -> Nat] /\ \A c \in Source!Counters : Source!Zero[c] = 0
  BY DEF Source!Zero
<1>3. Entries(<<>>) /\ DOMAIN <<>> = {}
  BY FS_EmptySet DEF Entries
<1>4. SourceTypes
  BY <1>1, <1>2, <1>3 DEF SourceTypes, Additions
<1>5. SnapshotBehind
  BY <1>1, <1>3 DEF SnapshotBehind
<1>6. ASSUME NEW c \in Source!Counters
      PROVE  /\ total[c] + Size(TotalOwes(additions, added, c), SourceThreads) = moved[c]
             /\ Attributed(perPath, c) + Size(PathOwes(additions, c), SourceThreads) = moved[c]
  <2>1. \A t \in SourceThreads : TotalOwes(additions, added, c)[t] = 0
    BY <1>1, SoughtIs DEF TotalOwes
  <2>2. \A t \in SourceThreads : PathOwes(additions, c)[t] = 0
    BY <1>1, SoughtIs DEF PathOwes
  <2>3. Attributed(perPath, c) = 0
    BY <1>1, <1>3, SizeZero DEF Attributed
  <2>4. Size(TotalOwes(additions, added, c), SourceThreads) = 0
    BY <2>1, SizeZero
  <2>5. Size(PathOwes(additions, c), SourceThreads) = 0
    BY <2>2, SizeZero
  <2>. QED
    BY <1>1, <1>2, <2>3, <2>4, <2>5
<1>. QED
  BY <1>4, <1>5, <1>6 DEF SourceInv, Accounted

LEMMA AttributedIsTheSum ==
  ASSUME NEW f, Entries(f), NEW c \in Source!Counters
  PROVE  Source!SumOf(f, c) = Attributed(f, c)
<1>1. IsFiniteSet(DOMAIN f) /\ \A p \in DOMAIN f : f[p][c] \in Nat
  BY DEF Entries
<1>. QED
  BY <1>1, SumIsSize DEF Attributed

LEMMA SourceInvHonest ==
  ASSUME SourceInv
  PROVE  Source!CountersHonest
<1>1. Entries(snapshot.paths) /\ Entries(perPath)
  BY DEF SourceInv, SourceTypes
<1>2. Source!SnapshotNeverOvercounts
  BY <1>1, AttributedIsTheSum DEF Source!SnapshotNeverOvercounts, SourceInv, SnapshotBehind
<1>3. ASSUME \A t \in SourceThreads : additions[t] = <<>>, NEW c \in Source!Counters
      PROVE  total[c] = moved[c] /\ Source!SumOf(perPath, c) = moved[c]
  <2>1. \A t \in SourceThreads : ~added[t]
    BY <1>3 DEF SourceInv, SourceTypes
  <2>2. \A t \in SourceThreads : TotalOwes(additions, added, c)[t] = 0
    BY <1>3, <2>1, SoughtIs DEF TotalOwes
  <2>3. \A t \in SourceThreads : PathOwes(additions, c)[t] = 0
    BY <1>3, SoughtIs DEF PathOwes
  <2>4. Size(TotalOwes(additions, added, c), SourceThreads) = 0
    BY <2>2, SizeZero
  <2>5. Size(PathOwes(additions, c), SourceThreads) = 0
    BY <2>3, SizeZero
  <2>6. Attributed(perPath, c) \in Nat /\ total[c] \in Nat
    BY <1>1, AttributedIs DEF SourceInv, SourceTypes
  <2>7. Source!SumOf(perPath, c) = Attributed(perPath, c)
    BY <1>1, AttributedIsTheSum
  <2>8. /\ total[c] + Size(TotalOwes(additions, added, c), SourceThreads) = moved[c]
        /\ Attributed(perPath, c) + Size(PathOwes(additions, c), SourceThreads) = moved[c]
    BY DEF SourceInv, Accounted
  <2>. QED
    BY <2>4, <2>5, <2>6, <2>7, <2>8
<1>. QED
  BY <1>2, <1>3 DEF Source!CountersHonest, Source!QuietCountersExact, Source!Idle

\* The counters of the object store, for any number of threads, paths and
\* operations: a snapshot taken while requests are under way never attributes
\* more to the paths than it counts in total, and between operations every unit
\* moved is counted and attributed to one path (source_telemetry.rs).
THEOREM CountersHonestHolds == MCSpec => []CountersHonest
<1>. DEFINE all == <<part, vars, snaps, listing, staged, source, stages>>
            Kept == (part = "source") => SourceInv
<1>1. MCInit => Kept
  BY SourceBegins DEF MCInit
<1>2. Kept /\ [MCNext]_all => Kept'
  <2>. SUFFICES ASSUME Kept, [MCNext]_all, part' = "source" PROVE SourceInv'
    OBVIOUS
  <2>1. part = "source" /\ (Source!Next \/ UNCHANGED source)
    BY DEF MCNext
  <2>2. CASE Source!Next
    BY <2>1, <2>2, SourceStep
  <2>3. CASE UNCHANGED source
    BY <2>1, <2>3 DEF source, SourceInv, SourceTypes, Accounted, SnapshotBehind
  <2>. QED
    BY <2>1, <2>2, <2>3
<1>3. Kept => CountersHonest
  BY SourceInvHonest DEF CountersHonest
<1>. QED
  BY <1>1, <1>2, <1>3, PTL DEF MCSpec

-----------------------------------------------------------------------------
(* Sequences that are picked and joined, as the readers of snap targets do. *)

\* The operators of SnapRows, by themselves.
Picked(s, P) ==
  LET kept[n \in 0 .. Len(s)] ==
        IF n = 0 THEN <<>> ELSE IF n \in P THEN Append(kept[n - 1], s[n]) ELSE kept[n - 1]
  IN  kept[Len(s)]

Joined(s) ==
  LET glue[n \in 0 .. Len(s)] == IF n = 0 THEN <<>> ELSE glue[n - 1] \o s[n]
  IN  glue[Len(s)]

LEMMA SeqElements ==
  ASSUME NEW S, NEW s \in Seq(S)
  PROVE  Len(s) \in Nat /\ \A k \in 1 .. Len(s) : s[k] \in S
BY LenProperties, ElementOfSeq

\* f is what a loop that keeps the positions in P holds after each element.
Keeps(f, s, P, n) ==
  f = [k \in 0 .. n |->
         IF k = 0 THEN <<>> ELSE IF k \in P THEN Append(f[k - 1], s[k]) ELSE f[k - 1]]

LEMMA KeepsExists ==
  ASSUME NEW s, NEW P, NEW n \in Nat
  PROVE  \E f : Keeps(f, s, P, n)
<1>. DEFINE T == {m \in Nat : ~\E f : Keeps(f, s, P, m)}
<1>1. ASSUME T # {} PROVE FALSE
  <2>1. PICK m \in T : \A y \in T : m <= y
    BY <1>1, LeastElement
  <2>2. CASE m = 0
    <3>1. Keeps([k \in 0 .. 0 |-> <<>>], s, P, 0)
      BY DEF Keeps
    <3>. QED
      BY <2>1, <2>2, <3>1
  <2>3. CASE m # 0
    <3>1. m - 1 \in Nat /\ m - 1 \notin T
      BY <2>1, <2>3
    <3>2. PICK f : Keeps(f, s, P, m - 1)
      BY <3>1
    <3>. DEFINE g == [k \in 0 .. m |->
                        IF k = m THEN IF m \in P THEN Append(f[m - 1], s[m]) ELSE f[m - 1]
                        ELSE f[k]]
                body(h, k) == IF k = 0 THEN <<>> ELSE IF k \in P THEN Append(h[k - 1], s[k]) ELSE h[k - 1]
    <3>3. ASSUME NEW k \in 0 .. m - 1 PROVE f[k] = body(f, k)
      BY <3>1, <3>2 DEF Keeps
    <3>4. ASSUME NEW k \in 0 .. m PROVE g[k] = body(g, k)
      <4>1. CASE k = m
        BY <2>3, <4>1, <3>1
      <4>2. CASE k # m
        <5>1. k \in 0 .. m - 1 /\ g[k] = f[k]
          BY <4>2, <3>1
        <5>2. k # 0 => k - 1 \in 0 .. m /\ k - 1 # m /\ g[k - 1] = f[k - 1]
          BY <5>1, <3>1
        <5>. QED
          BY <5>1, <5>2, <3>3
      <4>. QED
        BY <4>1, <4>2
    <3>5. g = [k \in 0 .. m |-> body(g, k)]
      <4>1. g = [k \in 0 .. m |-> g[k]]
        OBVIOUS
      <4>. HIDE DEF g, body
      <4>. QED
        BY <4>1, <3>4
    <3>6. Keeps(g, s, P, m)
      BY <3>5 DEF Keeps
    <3>. QED
      BY <2>1, <3>6
  <2>. QED
    BY <2>2, <2>3
<1>. QED
  BY <1>1

LEMMA KeepsFirst ==
  ASSUME NEW s, NEW P, NEW n \in Nat, NEW f, Keeps(f, s, P, n)
  PROVE  f[0] = <<>>
<1>1. 0 \in 0 .. n
  OBVIOUS
<1>. QED
  BY <1>1 DEF Keeps

LEMMA KeepsNext ==
  ASSUME NEW s, NEW P, NEW n \in Nat, NEW f, Keeps(f, s, P, n), NEW k \in 1 .. n
  PROVE  f[k] = IF k \in P THEN Append(f[k - 1], s[k]) ELSE f[k - 1]
<1>1. k \in 0 .. n /\ k # 0
  OBVIOUS
<1>. QED
  BY <1>1 DEF Keeps

LEMMA KeepsSeq ==
  ASSUME NEW S, NEW s, NEW P, NEW n \in Nat, NEW f, Keeps(f, s, P, n), \A k \in 1 .. n : s[k] \in S
  PROVE  \A m \in 0 .. n : f[m] \in Seq(S)
<1>. DEFINE T == {m \in 0 .. n : f[m] \notin Seq(S)}
<1>1. ASSUME T # {} PROVE FALSE
  <2>0. T \subseteq Nat
    OBVIOUS
  <2>1. PICK m \in T : \A y \in T : m <= y
    BY <1>1, <2>0, LeastElement
  <2>2. CASE m = 0
    <3>1. f[0] = <<>>
      BY KeepsFirst
    <3>. QED
      BY <2>1, <2>2, <3>1, EmptySeq
  <2>3. CASE m # 0
    <3>1. m \in 1 .. n /\ m - 1 \in 0 .. n /\ m - 1 \notin T
      BY <2>1, <2>3
    <3>2. f[m - 1] \in Seq(S) /\ s[m] \in S
      BY <3>1
    <3>3. f[m] = IF m \in P THEN Append(f[m - 1], s[m]) ELSE f[m - 1]
      BY <3>1, KeepsNext
    <3>4. f[m] \in Seq(S)
      <4>1. Append(f[m - 1], s[m]) \in Seq(S)
        BY <3>2, AppendProperties
      <4>. QED
        BY <3>2, <3>3, <4>1
    <3>. QED
      BY <2>1, <3>4
  <2>. QED
    BY <2>2, <2>3
<1>. QED
  BY <1>1

SameUpTo(s, P, t, Q, m) == \A k \in 1 .. m : s[k] = t[k] /\ (k \in P <=> k \in Q)

\* The first m elements decide what is kept of them.
LEMMA KeepsAgree ==
  ASSUME NEW s, NEW P, NEW n \in Nat, NEW f, Keeps(f, s, P, n),
         NEW t, NEW Q, NEW w \in Nat, NEW h, Keeps(h, t, Q, w),
         NEW m \in Nat, m <= n, m <= w,
         SameUpTo(s, P, t, Q, m)
  PROVE  f[m] = h[m]
<1>. DEFINE T == {j \in 0 .. m : f[j] # h[j]}
<1>1. ASSUME T # {} PROVE FALSE
  <2>0. T \subseteq Nat
    OBVIOUS
  <2>1. PICK j \in T : \A y \in T : j <= y
    BY <1>1, <2>0, LeastElement
  <2>2. CASE j = 0
    <3>1. f[0] = <<>> /\ h[0] = <<>>
      BY KeepsFirst
    <3>. QED
      BY <2>1, <2>2, <3>1
  <2>3. CASE j # 0
    <3>1. j \in 1 .. n /\ j \in 1 .. w /\ j \in 1 .. m /\ j - 1 \in 0 .. m
      BY <2>1, <2>3
    <3>2. f[j] = IF j \in P THEN Append(f[j - 1], s[j]) ELSE f[j - 1]
      BY <3>1, KeepsNext
    <3>3. h[j] = IF j \in Q THEN Append(h[j - 1], t[j]) ELSE h[j - 1]
      BY <3>1, KeepsNext
    <3>4. f[j - 1] = h[j - 1]
      BY <2>1, <3>1
    <3>5. s[j] = t[j] /\ (j \in P <=> j \in Q)
      BY <3>1 DEF SameUpTo
    <3>. QED
      BY <2>1, <3>1, <3>2, <3>3, <3>4, <3>5
  <2>. QED
    BY <2>2, <2>3
<1>. QED
  BY <1>1

LEMMA PickedIs ==
  ASSUME NEW s, NEW P, NEW n \in Nat, Len(s) = n, NEW f, Keeps(f, s, P, n)
  PROVE  Picked(s, P) = f[n]
<1>1. \E h : Keeps(h, s, P, n)
  BY KeepsExists
<1>2. Picked(s, P) = (CHOOSE h : Keeps(h, s, P, n))[n]
  BY DEF Picked, Keeps
<1>3. PICK h : Keeps(h, s, P, n) /\ Picked(s, P) = h[n]
  BY <1>1, <1>2
<1>4. h[n] = f[n]
  <2>1. SameUpTo(s, P, s, P, n)
    BY DEF SameUpTo
  <2>. QED
    BY <1>3, <2>1, KeepsAgree
<1>. QED
  BY <1>3, <1>4

Cat(v, w) == v \o w

Push(v, z) == Append(v, z)

LEMMA AppendConcat ==
  ASSUME NEW S, NEW v \in Seq(S), NEW w \in Seq(S), NEW z \in S
  PROVE  Push(Cat(v, w), z) = Cat(v, Push(w, z))
<1>1. Append((v \o w), z) = (v \o (Append(w, z)))
  OBVIOUS
<1>. QED
  BY <1>1 DEF Push, Cat

\* Picking from two sequences one after the other.
Splits(s, P, a, Q, b, R) ==
  /\ Len(s) = Len(a) + Len(b)
  /\ \A k \in 1 .. Len(a) : s[k] = a[k] /\ (k \in P <=> k \in Q)
  /\ \A k \in 1 .. Len(b) : s[Len(a) + k] = b[k] /\ (Len(a) + k \in P <=> k \in R)

LEMMA PickedConcat ==
  ASSUME NEW S, NEW a \in Seq(S), NEW b \in Seq(S), NEW s \in Seq(S), NEW P, NEW Q, NEW R,
         Splits(s, P, a, Q, b, R)
  PROVE  Picked(s, P) = Picked(a, Q) \o Picked(b, R)
<1>. DEFINE la == Len(a)
            lb == Len(b)
            n == Len(s)
<1>1. la \in Nat /\ lb \in Nat /\ n = la + lb /\ n \in Nat
  BY LenProperties DEF Splits
<1>2. PICK f : Keeps(f, s, P, n)
  BY <1>1, KeepsExists
<1>3. PICK fa : Keeps(fa, a, Q, la)
  BY <1>1, KeepsExists
<1>4. PICK fb : Keeps(fb, b, R, lb)
  BY <1>1, KeepsExists
<1>5. Picked(s, P) = f[n] /\ Picked(a, Q) = fa[la] /\ Picked(b, R) = fb[lb]
  BY <1>1, <1>2, <1>3, <1>4, PickedIs
<1>6. f[la] = fa[la]
  <2>1. la <= n /\ la <= la
    BY <1>1
  <2>2. SameUpTo(s, P, a, Q, la)
    BY DEF SameUpTo, Splits
  <2>. HIDE DEF la, lb, n
  <2>3. la \in Nat /\ n \in Nat
    BY <1>1
  <2>. QED
    BY <1>2, <1>3, <2>1, <2>2, <2>3, KeepsAgree
<1>7. (\A m \in 0 .. la : fa[m] \in Seq(S)) /\ (\A m \in 0 .. lb : fb[m] \in Seq(S))
  <2>1. (\A k \in 1 .. la : a[k] \in S) /\ (\A k \in 1 .. lb : b[k] \in S)
    BY SeqElements
  <2>. HIDE DEF la, lb
  <2>. QED
    BY <1>1, <1>3, <1>4, <2>1, KeepsSeq
<1>8. \A k \in 1 .. lb : s[la + k] = b[k] /\ (la + k \in P <=> k \in R) /\ b[k] \in S
  BY SeqElements DEF Splits
<1>. HIDE DEF la, lb, n
<1>. DEFINE x == fa[la]
<1>. DEFINE T == {m \in 0 .. lb : f[la + m] # x \o fb[m]}
<1>9. x \in Seq(S)
  BY <1>1, <1>7
<1>10. ASSUME T # {} PROVE FALSE
  <2>0. T \subseteq Nat
    <3>1. T \subseteq 0 .. lb
      BY Zenon
    <3>. HIDE DEF T
    <3>. QED
      BY <1>1, <3>1
  <2>1. PICK m \in T : \A y \in T : m <= y
    BY <1>10, <2>0, LeastElement
  <2>2. CASE m = 0
    <3>1. fb[0] = <<>> /\ la + 0 = la
      BY <1>1, <1>4, KeepsFirst
    <3>2. x \o <<>> = x
      BY <1>9, ConcatEmptySeq
    <3>. QED
      BY <1>6, <2>1, <2>2, <3>1, <3>2
  <2>3. CASE m # 0
    <3>0. m \in 0 .. lb /\ m - 1 \notin T
      <4>. HIDE DEF T
      <4>1. m - 1 \in T => m <= m - 1
        BY <2>1
      <4>2. m \in 0 .. lb
        BY <2>1 DEF T
      <4>. QED
        BY <1>1, <4>1, <4>2
    <3>1. /\ m \in 1 .. lb /\ m - 1 \in 0 .. lb
          /\ la + m \in 1 .. n /\ la + m - 1 = la + (m - 1)
      BY <1>1, <2>3, <3>0
    <3>. DEFINE y == fb[m - 1]
    <3>2. y \in Seq(S) /\ b[m] \in S /\ f[la + (m - 1)] = x \o y
      BY <1>7, <1>8, <3>0, <3>1
    <3>3. f[la + m] = IF la + m \in P THEN Append(f[la + m - 1], s[la + m]) ELSE f[la + m - 1]
      BY <1>1, <1>2, <3>1, KeepsNext
    <3>4. fb[m] = IF m \in R THEN Append(y, b[m]) ELSE y
      BY <1>1, <1>4, <3>1, KeepsNext
    <3>. HIDE DEF x, y, T
    <3>5. Append(x \o y, b[m]) = x \o Append(y, b[m])
      <4>1. Push(Cat(x, y), b[m]) = Cat(x, Push(y, b[m]))
        BY <1>9, <3>2, AppendConcat
      <4>. QED
        BY <4>1 DEF Push, Cat
    <3>6. f[la + m] = x \o fb[m]
      BY <1>8, <3>1, <3>2, <3>3, <3>4, <3>5
    <3>. QED
      BY <3>0, <2>1, <3>6 DEF x, T
  <2>. QED
    BY <2>2, <2>3
<1>11. f[la + lb] = fa[la] \o fb[lb]
  <2>1. T = {}
    BY <1>10
  <2>2. lb \in 0 .. lb
    BY <1>1
  <2>. QED
    BY <2>1, <2>2
<1>. QED
  BY <1>1, <1>5, <1>11

\* Picking nothing, and picking everything.
LEMMA PickedNothing ==
  ASSUME NEW s, NEW P, Len(s) \in Nat, \A k \in 1 .. Len(s) : k \notin P
  PROVE  Picked(s, P) = <<>>
<1>. DEFINE n == Len(s)
<1>1. PICK f : Keeps(f, s, P, n)
  BY KeepsExists
<1>2. Picked(s, P) = f[n]
  BY <1>1, PickedIs
<1>. DEFINE T == {m \in 0 .. n : f[m] # <<>>}
<1>3. ASSUME T # {} PROVE FALSE
  <2>0. T \subseteq Nat
    OBVIOUS
  <2>1. PICK m \in T : \A y \in T : m <= y
    BY <1>3, <2>0, LeastElement
  <2>2. CASE m = 0
    BY <1>1, <2>1, <2>2, KeepsFirst
  <2>3. CASE m # 0
    <3>1. m \in 1 .. n /\ m - 1 \in 0 .. n /\ m - 1 \notin T
      BY <2>1, <2>3
    <3>2. f[m] = f[m - 1]
      BY <1>1, <3>1, KeepsNext
    <3>. QED
      BY <2>1, <3>1, <3>2
  <2>. QED
    BY <2>2, <2>3
<1>. QED
  BY <1>2, <1>3

LEMMA PickedEverything ==
  ASSUME NEW S, NEW s \in Seq(S), NEW P, \A k \in 1 .. Len(s) : k \in P
  PROVE  Picked(s, P) = s
<1>. DEFINE n == Len(s)
            good(l, m) == l \in Seq(S) /\ Len(l) = m /\ \A k \in 1 .. m : l[k] = s[k]
<1>0. n \in Nat /\ \A k \in 1 .. n : s[k] \in S
  BY SeqElements
<1>1. PICK f : Keeps(f, s, P, n)
  BY <1>0, KeepsExists
<1>2. Picked(s, P) = f[n]
  BY <1>0, <1>1, PickedIs
<1>. DEFINE T == {m \in 0 .. n : ~good(f[m], m)}
<1>3. ASSUME T # {} PROVE FALSE
  <2>0. T \subseteq Nat
    OBVIOUS
  <2>1. PICK m \in T : \A y \in T : m <= y
    BY <1>3, <2>0, LeastElement
  <2>2. CASE m = 0
    <3>1. f[0] = <<>>
      BY <1>0, <1>1, KeepsFirst
    <3>2. <<>> \in Seq(S) /\ Len(<<>>) = 0 /\ 1 .. 0 = {}
      BY EmptySeq
    <3>3. good(f[0], 0)
      BY <3>1, <3>2
    <3>. QED
      BY <2>1, <2>2, <3>3
  <2>3. CASE m # 0
    <3>1. m \in 1 .. n /\ m - 1 \in 0 .. n /\ m - 1 \notin T /\ m \in Nat
      BY <1>0, <2>1, <2>3
    <3>2. f[m] = Append(f[m - 1], s[m])
      <4>1. f[m] = IF m \in P THEN Append(f[m - 1], s[m]) ELSE f[m - 1]
        BY <1>0, <1>1, <3>1, KeepsNext
      <4>. QED
        BY <3>1, <4>1
    <3>3. f[m - 1] \in Seq(S) /\ Len(f[m - 1]) = m - 1 /\ \A k \in 1 .. m - 1 : f[m - 1][k] = s[k]
      BY <3>1
    <3>4. f[m] \in Seq(S) /\ Len(f[m]) = m /\ f[m][m] = s[m] /\ \A k \in 1 .. m - 1 : f[m][k] = s[k]
      BY <1>0, <3>1, <3>2, <3>3, AppendProperties
    <3>5. \A k \in 1 .. m : k = m \/ k \in 1 .. m - 1
      BY <3>1
    <3>6. good(f[m], m)
      BY <3>4, <3>5
    <3>. QED
      BY <2>1, <3>6
  <2>. QED
    BY <2>2, <2>3
<1>4. good(f[n], n)
  <2>1. n \in 0 .. n
    BY <1>0
  <2>. QED
    BY <1>3, <2>1
<1>. QED
  BY <1>0, <1>2, <1>4, SeqEqual

\* f is what a loop that glues n sequences holds after each of them.
Glues(f, s, n) ==
  f = [k \in 0 .. n |-> IF k = 0 THEN <<>> ELSE f[k - 1] \o s[k]]

LEMMA GluesExists ==
  ASSUME NEW s, NEW n \in Nat
  PROVE  \E f : Glues(f, s, n)
<1>. DEFINE T == {m \in Nat : ~\E f : Glues(f, s, m)}
<1>1. ASSUME T # {} PROVE FALSE
  <2>1. PICK m \in T : \A y \in T : m <= y
    BY <1>1, LeastElement
  <2>2. CASE m = 0
    <3>1. Glues([k \in 0 .. 0 |-> <<>>], s, 0)
      BY DEF Glues
    <3>. QED
      BY <2>1, <2>2, <3>1
  <2>3. CASE m # 0
    <3>1. m - 1 \in Nat /\ m - 1 \notin T
      BY <2>1, <2>3
    <3>2. PICK f : Glues(f, s, m - 1)
      BY <3>1
    <3>. DEFINE g == [k \in 0 .. m |-> IF k = m THEN f[m - 1] \o s[m] ELSE f[k]]
                body(h, k) == IF k = 0 THEN <<>> ELSE h[k - 1] \o s[k]
    <3>3. ASSUME NEW k \in 0 .. m - 1 PROVE f[k] = body(f, k)
      BY <3>1, <3>2 DEF Glues
    <3>4. ASSUME NEW k \in 0 .. m PROVE g[k] = body(g, k)
      <4>1. CASE k = m
        <5>1. m \in 0 .. m /\ m - 1 \in 0 .. m /\ m - 1 # m
          BY <2>3, <3>1
        <5>2. g[m] = f[m - 1] \o s[m] /\ g[m - 1] = f[m - 1]
          BY <5>1
        <5>. HIDE DEF g
        <5>3. g[m] = g[m - 1] \o s[m]
          BY <5>2
        <5>. QED
          BY <2>3, <4>1, <5>3
      <4>2. CASE k # m
        <5>1. k \in 0 .. m - 1 /\ g[k] = f[k]
          BY <4>2, <3>1
        <5>2. k # 0 => k - 1 \in 0 .. m /\ k - 1 # m /\ g[k - 1] = f[k - 1]
          BY <5>1, <3>1
        <5>. QED
          BY <5>1, <5>2, <3>3
      <4>. QED
        BY <4>1, <4>2
    <3>5. g = [k \in 0 .. m |-> body(g, k)]
      <4>1. g = [k \in 0 .. m |-> g[k]]
        OBVIOUS
      <4>. HIDE DEF g, body
      <4>. QED
        BY <4>1, <3>4
    <3>6. Glues(g, s, m)
      BY <3>5 DEF Glues
    <3>. QED
      BY <2>1, <3>6
  <2>. QED
    BY <2>2, <2>3
<1>. QED
  BY <1>1

LEMMA GlueStep ==
  ASSUME NEW s, NEW n \in Nat, NEW f, Glues(f, s, n)
  PROVE  f[0] = <<>> /\ \A k \in 1 .. n : f[k] = f[k - 1] \o s[k]
BY DEF Glues

LEMMA GlueFirst ==
  ASSUME NEW s, NEW n \in Nat, NEW f, Glues(f, s, n)
  PROVE  f[0] = <<>>
BY GlueStep

LEMMA GlueNext ==
  ASSUME NEW s, NEW n \in Nat, NEW f, Glues(f, s, n), NEW k \in 1 .. n
  PROVE  f[k] = Cat(f[k - 1], s[k])
BY GlueStep DEF Cat

\* The first m pieces decide what is glued of them.
LEMMA GluesAgree ==
  ASSUME NEW s, NEW n \in Nat, NEW f, Glues(f, s, n),
         NEW t, NEW w \in Nat, NEW h, Glues(h, t, w),
         NEW m \in Nat, m <= n, m <= w, \A k \in 1 .. m : s[k] = t[k]
  PROVE  f[m] = h[m]
<1>. DEFINE T == {j \in 0 .. m : f[j] # h[j]}
<1>1. ASSUME T # {} PROVE FALSE
  <2>0. T \subseteq Nat
    OBVIOUS
  <2>1. PICK j \in T : \A y \in T : j <= y
    BY <1>1, <2>0, LeastElement
  <2>2. CASE j = 0
    BY <2>1, <2>2, GlueStep
  <2>3. CASE j # 0
    <3>1. j \in 1 .. n /\ j \in 1 .. w /\ j \in 1 .. m /\ j - 1 \in 0 .. m
      BY <2>1, <2>3
    <3>2. f[j] = f[j - 1] \o s[j] /\ h[j] = h[j - 1] \o t[j]
      BY <3>1, GlueStep
    <3>3. f[j - 1] = h[j - 1]
      BY <2>1, <3>1
    <3>. QED
      BY <2>1, <3>1, <3>2, <3>3
  <2>. QED
    BY <2>2, <2>3
<1>. QED
  BY <1>1

LEMMA JoinedIs ==
  ASSUME NEW s, NEW n \in Nat, Len(s) = n, NEW f, Glues(f, s, n)
  PROVE  Joined(s) = f[n]
<1>1. \E h : Glues(h, s, n)
  BY GluesExists
<1>2. Joined(s) = (CHOOSE h : Glues(h, s, n))[n]
  BY DEF Joined, Glues
<1>3. PICK h : Glues(h, s, n) /\ Joined(s) = h[n]
  BY <1>1, <1>2
<1>4. h[n] = f[n]
  BY <1>3, GluesAgree
<1>. QED
  BY <1>3, <1>4

\* The pieces stand in the whole one after the other, and nothing else does.
GlueOf(f, s, m) ==
  /\ \A l \in 0 .. m : Len(f[l]) \in Nat /\ Len(f[l]) <= Len(f[m])
  /\ \A g \in 1 .. m : \A j \in 1 .. Len(s[g]) :
       Len(f[g - 1]) + j \in 1 .. Len(f[m]) /\ f[m][Len(f[g - 1]) + j] = s[g][j]
  /\ \A k \in 1 .. Len(f[m]) : \E g \in 1 .. m : \E j \in 1 .. Len(s[g]) : k = Len(f[g - 1]) + j

LEMMA GlueIs ==
  ASSUME NEW S, NEW s, NEW n \in Nat, NEW f, Glues(f, s, n), \A k \in 1 .. n : s[k] \in Seq(S)
  PROVE  \A m \in 0 .. n : f[m] \in Seq(S) /\ GlueOf(f, s, m)
<1>. DEFINE P(m) == f[m] \in Seq(S) /\ GlueOf(f, s, m)
            T == {m \in 0 .. n : ~P(m)}
<1>1. ASSUME T # {} PROVE FALSE
  <2>0. T \subseteq Nat
    OBVIOUS
  <2>1. PICK m \in T : \A y \in T : m <= y
    BY <1>1, <2>0, LeastElement
  <2>2. CASE m = 0
    <3>1. f[0] = <<>> /\ Len(<<>>) = 0 /\ <<>> \in Seq(S)
      <4>1. f[0] = <<>>
        BY GlueStep
      <4>2. Len(<<>>) = 0 /\ <<>> \in Seq(S)
        BY EmptySeq
      <4>. QED
        BY <4>1, <4>2
    <3>2. 1 .. 0 = {} /\ 0 .. 0 = {0}
      OBVIOUS
    <3>3. P(0)
      BY <3>1, <3>2 DEF GlueOf
    <3>. QED
      BY <2>1, <2>2, <3>3
  <2>3. CASE m # 0
    <3>1. m \in 1 .. n /\ m - 1 \in 0 .. n /\ m - 1 \notin T /\ m \in Nat
      BY <2>1, <2>3
    <3>. DEFINE a == f[m - 1]
                b == s[m]
    <3>2. a \in Seq(S) /\ GlueOf(f, s, m - 1) /\ b \in Seq(S) /\ f[m] = a \o b
      BY <3>1, GlueStep
    <3>3. Len(a) \in Nat /\ Len(b) \in Nat /\ \A l \in 0 .. m - 1 : Len(f[l]) \in Nat /\ Len(f[l]) <= Len(a)
      BY <3>2, LenProperties DEF GlueOf
    <3>4. \A g \in 1 .. m - 1 : \A j \in 1 .. Len(s[g]) :
            Len(f[g - 1]) + j \in 1 .. Len(a) /\ a[Len(f[g - 1]) + j] = s[g][j]
      BY <3>2 DEF GlueOf
    <3>5. \A k \in 1 .. Len(a) : \E g \in 1 .. m - 1 : \E j \in 1 .. Len(s[g]) : k = Len(f[g - 1]) + j
      BY <3>2 DEF GlueOf
    <3>. HIDE DEF a, b
    <3>6. /\ f[m] \in Seq(S) /\ Len(f[m]) = Len(a) + Len(b)
          /\ \A k \in 1 .. Len(a) + Len(b) : f[m][k] = IF k <= Len(a) THEN a[k] ELSE b[k - Len(a)]
      BY <3>2, ConcatProperties
    <3>7. \A l \in 0 .. m : Len(f[l]) \in Nat /\ Len(f[l]) <= Len(f[m])
      <4>1. ASSUME NEW l \in 0 .. m PROVE Len(f[l]) \in Nat /\ Len(f[l]) <= Len(f[m])
        <5>1. CASE l = m
          BY <3>3, <3>6, <5>1
        <5>2. CASE l # m
          <6>1. l \in 0 .. m - 1
            BY <3>1, <5>2
          <6>. QED
            BY <3>3, <3>6, <6>1
        <5>. QED
          BY <5>1, <5>2
      <4>. QED
        BY <4>1
    <3>8. ASSUME NEW g \in 1 .. m, NEW j \in 1 .. Len(s[g])
          PROVE  Len(f[g - 1]) + j \in 1 .. Len(f[m]) /\ f[m][Len(f[g - 1]) + j] = s[g][j]
      <4>1. CASE g = m
        <5>1. Len(f[g - 1]) = Len(a) /\ s[g] = b /\ j \in 1 .. Len(b)
          BY <4>1 DEF a, b
        <5>2. Len(a) + j \in 1 .. Len(a) + Len(b) /\ ~(Len(a) + j <= Len(a)) /\ Len(a) + j - Len(a) = j
          BY <3>3, <5>1
        <5>. QED
          BY <3>6, <5>1, <5>2
      <4>2. CASE g # m
        <5>1. g \in 1 .. m - 1
          BY <3>1, <4>2
        <5>2. Len(f[g - 1]) + j \in 1 .. Len(a) /\ a[Len(f[g - 1]) + j] = s[g][j]
          BY <3>4, <5>1
        <5>3. Len(f[g - 1]) + j \in 1 .. Len(a) + Len(b) /\ Len(f[g - 1]) + j <= Len(a)
          BY <3>3, <5>2
        <5>. QED
          BY <3>6, <5>2, <5>3
      <4>. QED
        BY <4>1, <4>2
    <3>9. ASSUME NEW k \in 1 .. Len(f[m])
          PROVE  \E g \in 1 .. m : \E j \in 1 .. Len(s[g]) : k = Len(f[g - 1]) + j
      <4>1. CASE k <= Len(a)
        <5>1. k \in 1 .. Len(a)
          BY <3>3, <3>6, <4>1
        <5>2. PICK g \in 1 .. m - 1 : \E j \in 1 .. Len(s[g]) : k = Len(f[g - 1]) + j
          BY <3>5, <5>1
        <5>3. g \in 1 .. m
          BY <3>1
        <5>. QED
          BY <5>2, <5>3
      <4>2. CASE ~(k <= Len(a))
        <5>1. k - Len(a) \in 1 .. Len(b) /\ k = Len(a) + (k - Len(a))
          BY <3>3, <3>6, <4>2
        <5>. QED
          BY <3>1, <5>1 DEF a, b
      <4>. QED
        BY <4>1, <4>2
    <3>10. P(m)
      BY <3>6, <3>7, <3>8, <3>9 DEF GlueOf
    <3>. QED
      BY <2>1, <3>10
  <2>. QED
    BY <2>2, <2>3
<1>. QED
  BY <1>1

\* The sequences R gives for the elements of l.
Mapped(l, R) == [p \in 1 .. Len(l) |-> R[l[p]]]

LEMMA JoinedEmpty ==
  ASSUME NEW R
  PROVE  Joined(Mapped(<<>>, R)) = <<>>
<1>. DEFINE s == Mapped(<<>>, R)
<1>1. Len(s) = 0
  BY EmptySeq DEF Mapped
<1>. HIDE DEF s
<1>2. PICK f : Glues(f, s, 0)
  BY GluesExists
<1>3. Joined(s) = f[0]
  BY <1>1, <1>2, JoinedIs
<1>4. f[0] = <<>>
  BY <1>2, GlueFirst
<1>. QED
  BY <1>3, <1>4 DEF s

LEMMA JoinedAppend ==
  ASSUME NEW X, NEW l \in Seq(X), NEW x \in X, NEW R
  PROVE  Joined(Mapped(Append(l, x), R)) = Cat(Joined(Mapped(l, R)), R[x])
<1>. DEFINE n == Len(l)
            a == Append(l, x)
            s == Mapped(l, R)
            t == Mapped(a, R)
<1>1. /\ n \in Nat /\ n + 1 \in Nat /\ Len(a) = n + 1 /\ a[n + 1] = x
      /\ \A k \in 1 .. n : a[k] = l[k]
  BY AppendProperties, LenProperties
<1>. HIDE DEF a
<1>2. Len(s) = n /\ Len(t) = n + 1 /\ t[n + 1] = R[x] /\ \A k \in 1 .. n : s[k] = t[k]
  <2>1. t = [p \in 1 .. n + 1 |-> R[a[p]]] /\ s = [p \in 1 .. n |-> R[l[p]]]
    BY <1>1 DEF Mapped
  <2>2. n + 1 \in 1 .. n + 1 /\ \A k \in 1 .. n : k \in 1 .. n + 1
    BY <1>1
  <2>. HIDE DEF n, s, t
  <2>. QED
    BY <1>1, <2>1, <2>2
<1>. HIDE DEF n, s, t
<1>3. PICK f : Glues(f, s, n)
  BY <1>1, GluesExists
<1>4. PICK h : Glues(h, t, n + 1)
  BY <1>1, GluesExists
<1>5. Joined(s) = f[n] /\ Joined(t) = h[n + 1]
  BY <1>1, <1>2, <1>3, <1>4, JoinedIs
<1>6. h[n + 1] = Cat(h[n], t[n + 1])
  <2>1. n + 1 \in 1 .. n + 1 /\ (n + 1) - 1 = n
    BY <1>1
  <2>2. h[n + 1] = Cat(h[(n + 1) - 1], t[n + 1])
    BY <1>1, <1>4, <2>1, GlueNext
  <2>. QED
    BY <2>1, <2>2
<1>7. f[n] = h[n]
  <2>1. n <= n /\ n <= n + 1
    BY <1>1
  <2>. QED
    BY <1>1, <1>2, <1>3, <1>4, <2>1, GluesAgree
<1>. QED
  BY <1>2, <1>5, <1>6, <1>7 DEF s, t, a

\* The elements of l are those of S up to n, and they grow.
Ordered(l, S, n) ==
  /\ l \in Seq(Nat)
  /\ \A p \in 1 .. Len(l) : l[p] \in S /\ l[p] \in 1 .. n
  /\ \A p, r \in 1 .. Len(l) : p < r => l[p] < l[r]
  /\ \A g \in 1 .. n : g \in S => \E p \in 1 .. Len(l) : l[p] = g

LEMMA OrderedIs ==
  ASSUME NEW n \in Nat, NEW s, \A k \in 1 .. n : s[k] = k, NEW S, NEW f, Keeps(f, s, S, n)
  PROVE  \A m \in 0 .. n : Ordered(f[m], S, m)
<1>. DEFINE T == {m \in 0 .. n : ~Ordered(f[m], S, m)}
<1>1. ASSUME T # {} PROVE FALSE
  <2>0. T \subseteq Nat
    OBVIOUS
  <2>1. PICK m \in T : \A y \in T : m <= y
    BY <1>1, <2>0, LeastElement
  <2>2. CASE m = 0
    <3>1. f[0] = <<>>
      BY KeepsFirst
    <3>2. <<>> \in Seq(Nat) /\ Len(<<>>) = 0 /\ 1 .. 0 = {}
      BY EmptySeq
    <3>3. Ordered(f[0], S, 0)
      BY <3>1, <3>2 DEF Ordered
    <3>. QED
      BY <2>1, <2>2, <3>3
  <2>3. CASE m # 0
    <3>1. m \in 1 .. n /\ m - 1 \in 0 .. n /\ m - 1 \notin T /\ m \in Nat
      BY <2>1, <2>3
    <3>2. f[m] = IF m \in S THEN Append(f[m - 1], s[m]) ELSE f[m - 1]
      BY <3>1, KeepsNext
    <3>. DEFINE l == f[m - 1]
                w == f[m]
                z == Len(l)
    <3>3. Ordered(l, S, m - 1) /\ s[m] = m
      BY <3>1
    <3>4. /\ l \in Seq(Nat) /\ z \in Nat
          /\ \A p \in 1 .. z : l[p] \in S /\ l[p] \in 1 .. m - 1
          /\ \A p, r \in 1 .. z : p < r => l[p] < l[r]
          /\ \A g \in 1 .. m - 1 : g \in S => \E p \in 1 .. z : l[p] = g
      BY <3>3, LenProperties DEF Ordered
    <3>. HIDE DEF l, w
    <3>5. CASE m \in S
      <4>1. w = Append(l, m)
        BY <3>2, <3>3, <3>5 DEF l, w
      <4>2. w \in Seq(Nat) /\ Len(w) = z + 1 /\ w[z + 1] = m /\ \A k \in 1 .. z : w[k] = l[k]
        BY <3>1, <3>4, <4>1, AppendProperties
      <4>. HIDE DEF z
      <4>3. \A p \in 1 .. z + 1 : p = z + 1 \/ p \in 1 .. z
        BY <3>4
      <4>4. \A p \in 1 .. z + 1 : w[p] \in S /\ w[p] \in 1 .. m
        <5>1. w[z + 1] \in S /\ w[z + 1] \in 1 .. m
          BY <3>1, <3>5, <4>2
        <5>2. ASSUME NEW p \in 1 .. z PROVE w[p] \in S /\ w[p] \in 1 .. m
          <6>1. w[p] = l[p] /\ l[p] \in S /\ l[p] \in 1 .. m - 1
            BY <3>4, <4>2
          <6>. QED
            BY <3>1, <6>1
        <5>. QED
          BY <4>3, <5>1, <5>2
      <4>5. ASSUME NEW p \in 1 .. z + 1, NEW r \in 1 .. z + 1, p < r PROVE w[p] < w[r]
        <5>1. p \in 1 .. z
          BY <3>4, <4>5
        <5>2. CASE r = z + 1
          BY <3>1, <3>4, <4>2, <5>1, <5>2
        <5>3. CASE r \in 1 .. z
          BY <3>4, <4>2, <4>5, <5>1, <5>3
        <5>. QED
          BY <4>3, <5>2, <5>3
      <4>6. ASSUME NEW g \in 1 .. m, g \in S PROVE \E p \in 1 .. z + 1 : w[p] = g
        <5>1. z + 1 \in 1 .. z + 1 /\ \A p \in 1 .. z : p \in 1 .. z + 1
          BY <3>4
        <5>2. CASE g = m
          BY <4>2, <5>1, <5>2
        <5>3. CASE g # m
          <6>1. g \in 1 .. m - 1
            BY <3>1, <5>3
          <6>2. PICK p \in 1 .. z : l[p] = g
            BY <3>4, <4>6, <6>1
          <6>. QED
            BY <4>2, <5>1, <6>2
        <5>. QED
          BY <5>2, <5>3
      <4>7. Ordered(w, S, m)
        BY <4>2, <4>4, <4>5, <4>6 DEF Ordered
      <4>. QED
        BY <2>1, <4>7 DEF w
    <3>6. CASE m \notin S
      <4>1. w = l
        BY <3>2, <3>6 DEF l, w
      <4>2. \A p \in 1 .. z : l[p] \in 1 .. m
        BY <3>1, <3>4
      <4>3. \A g \in 1 .. m : g \in S => g \in 1 .. m - 1
        BY <3>1, <3>6
      <4>4. Ordered(l, S, m)
        BY <3>4, <4>2, <4>3 DEF Ordered
      <4>. QED
        BY <2>1, <4>1, <4>4 DEF w
    <3>. QED
      BY <3>5, <3>6
  <2>. QED
    BY <2>2, <2>3
<1>. QED
  BY <1>1

-----------------------------------------------------------------------------
(* What is kept of rows that stand one after the other. *)

\* z is a selection of s, in order: everything in Lo and nothing outside of Hi.
Sound(s, z, Lo, Hi) ==
  \E P \in SUBSET (1 .. Len(s)) :
    /\ \A k \in 1 .. Len(s) : s[k] \in Lo => k \in P
    /\ \A k \in P : s[k] \in Hi
    /\ z = Picked(s, P)

LEMMA SoundNothing ==
  ASSUME NEW s, NEW Lo, NEW Hi, Len(s) \in Nat, \A k \in 1 .. Len(s) : s[k] \notin Lo
  PROVE  Sound(s, <<>>, Lo, Hi)
<1>1. Picked(s, {}) = <<>>
  BY PickedNothing
<1>. QED
  BY <1>1 DEF Sound

LEMMA PickedSeq ==
  ASSUME NEW S, NEW s \in Seq(S), NEW P
  PROVE  Picked(s, P) \in Seq(S)
<1>1. Len(s) \in Nat /\ \A k \in 1 .. Len(s) : s[k] \in S
  BY SeqElements
<1>2. PICK f : Keeps(f, s, P, Len(s))
  BY <1>1, KeepsExists
<1>3. Picked(s, P) = f[Len(s)]
  BY <1>1, <1>2, PickedIs
<1>4. \A m \in 0 .. Len(s) : f[m] \in Seq(S)
  BY <1>1, <1>2, KeepsSeq
<1>. QED
  BY <1>1, <1>3, <1>4

LEMMA SoundSeq ==
  ASSUME NEW S, NEW s \in Seq(S), NEW z, NEW Lo, NEW Hi, Sound(s, z, Lo, Hi)
  PROVE  z \in Seq(S)
BY PickedSeq DEF Sound

LEMMA SoundConcat ==
  ASSUME NEW S, NEW a \in Seq(S), NEW b \in Seq(S), NEW x, NEW y, NEW Lo, NEW Hi,
         Sound(a, x, Lo, Hi), Sound(b, y, Lo, Hi)
  PROVE  Sound(Cat(a, b), Cat(x, y), Lo, Hi)
<1>. DEFINE c == Cat(a, b)
<1>1. PICK P \in SUBSET (1 .. Len(a)) :
        /\ \A k \in 1 .. Len(a) : a[k] \in Lo => k \in P
        /\ \A k \in P : a[k] \in Hi
        /\ x = Picked(a, P)
  BY DEF Sound
<1>2. PICK Q \in SUBSET (1 .. Len(b)) :
        /\ \A k \in 1 .. Len(b) : b[k] \in Lo => k \in Q
        /\ \A k \in Q : b[k] \in Hi
        /\ y = Picked(b, Q)
  BY DEF Sound
<1>3. /\ c \in Seq(S) /\ Len(c) = Len(a) + Len(b) /\ Len(a) \in Nat /\ Len(b) \in Nat
      /\ \A k \in 1 .. Len(a) + Len(b) : c[k] = IF k <= Len(a) THEN a[k] ELSE b[k - Len(a)]
  BY ConcatProperties, LenProperties DEF Cat
<1>. HIDE DEF c
<1>. DEFINE W == P \cup {k \in 1 .. Len(c) : k - Len(a) \in Q}
<1>4. ASSUME NEW k \in 1 .. Len(a)
      PROVE  k \in 1 .. Len(c) /\ c[k] = a[k] /\ (k \in W <=> k \in P)
  <2>1. k - Len(a) \notin Q
    BY <1>2, <1>3
  <2>. QED
    BY <1>3, <2>1
<1>5. ASSUME NEW k \in 1 .. Len(b)
      PROVE  Len(a) + k \in 1 .. Len(c) /\ c[Len(a) + k] = b[k] /\ (Len(a) + k \in W <=> k \in Q)
  <2>1. Len(a) + k \in 1 .. Len(a) + Len(b) /\ ~(Len(a) + k <= Len(a)) /\ Len(a) + k - Len(a) = k
    BY <1>3
  <2>2. Len(a) + k \notin P
    BY <1>1, <1>3, <2>1
  <2>. QED
    BY <1>3, <2>1, <2>2
<1>6. ASSUME NEW k \in 1 .. Len(c)
      PROVE  k \in 1 .. Len(a) \/ \E j \in 1 .. Len(b) : k = Len(a) + j
  <2>1. CASE k <= Len(a)
    BY <1>3, <2>1
  <2>2. CASE ~(k <= Len(a))
    <3>1. k - Len(a) \in 1 .. Len(b) /\ k = Len(a) + (k - Len(a))
      BY <1>3, <2>2
    <3>. QED
      BY <3>1
  <2>. QED
    BY <2>1, <2>2
<1>7. W \in SUBSET (1 .. Len(c))
  <2>1. P \subseteq 1 .. Len(c)
    BY <1>1, <1>4
  <2>. QED
    BY <2>1
<1>. HIDE DEF W
<1>8. Picked(c, W) = Cat(x, y)
  <2>1. Splits(c, W, a, P, b, Q)
    BY <1>3, <1>4, <1>5 DEF Splits
  <2>2. Picked(c, W) = Picked(a, P) \o Picked(b, Q)
    BY <1>3, <2>1, PickedConcat
  <2>. QED
    BY <1>1, <1>2, <2>2 DEF Cat
<1>9. ASSUME NEW k \in 1 .. Len(c), c[k] \in Lo PROVE k \in W
  <2>1. CASE k \in 1 .. Len(a)
    BY <1>1, <1>4, <1>9, <2>1
  <2>2. CASE \E j \in 1 .. Len(b) : k = Len(a) + j
    BY <1>2, <1>5, <1>9, <2>2
  <2>. QED
    BY <1>6, <2>1, <2>2
<1>10. ASSUME NEW k \in W PROVE c[k] \in Hi
  <2>0. k \in 1 .. Len(c)
    BY <1>7
  <2>1. CASE k \in 1 .. Len(a)
    BY <1>1, <1>4, <2>1
  <2>2. CASE \E j \in 1 .. Len(b) : k = Len(a) + j
    BY <1>2, <1>5, <2>2
  <2>. QED
    BY <1>6, <2>0, <2>1, <2>2
<1>11. Sound(c, Cat(x, y), Lo, Hi)
  BY <1>7, <1>8, <1>9, <1>10 DEF Sound
<1>. QED
  BY <1>11 DEF c

\* What is kept is decided when Lo is Hi.
LEMMA SoundIsPicked ==
  ASSUME NEW S, NEW s \in Seq(S), NEW z, NEW L, Sound(s, z, L, L)
  PROVE  z = Picked(s, {k \in 1 .. Len(s) : s[k] \in L})
<1>. DEFINE W == {k \in 1 .. Len(s) : s[k] \in L}
<1>1. PICK P \in SUBSET (1 .. Len(s)) :
        /\ \A k \in 1 .. Len(s) : s[k] \in L => k \in P
        /\ \A k \in P : s[k] \in L
        /\ z = Picked(s, P)
  BY DEF Sound
<1>2. P = W
  BY <1>1
<1>. QED
  BY <1>1, <1>2

LEMMA PickedIsSound ==
  ASSUME NEW s, NEW L, NEW P, P = {k \in 1 .. Len(s) : s[k] \in L}
  PROVE  Sound(s, Picked(s, P), L, L)
BY DEF Sound

\* The numbers up to n that are in V, in order.
Numbers(V, n) == Picked([g \in 1 .. n |-> g], V)

LEMMA NumbersIs ==
  ASSUME NEW n \in Nat, NEW V, NEW f, Keeps(f, [g \in 1 .. n |-> g], V, n)
  PROVE  Numbers(V, n) = f[n]
<1>. DEFINE s == [g \in 1 .. n |-> g]
<1>1. Len(s) = n
  OBVIOUS
<1>2. Numbers(V, n) = Picked(s, V)
  BY DEF Numbers
<1>3. Keeps(f, s, V, n)
  OBVIOUS
<1>. HIDE DEF s
<1>. QED
  BY <1>1, <1>2, <1>3, PickedIs

LEMMA NumbersOrdered ==
  ASSUME NEW n \in Nat, NEW V
  PROVE  Ordered(Numbers(V, n), V, n)
<1>. DEFINE s == [g \in 1 .. n |-> g]
<1>1. \A k \in 1 .. n : s[k] = k
  OBVIOUS
<1>. HIDE DEF s
<1>2. PICK f : Keeps(f, s, V, n)
  BY KeepsExists
<1>3. \A m \in 0 .. n : Ordered(f[m], V, m)
  BY <1>1, <1>2, OrderedIs
<1>4. Numbers(V, n) = f[n]
  BY <1>2, NumbersIs DEF s
<1>. QED
  BY <1>3, <1>4

\* All of them.
LEMMA NumbersOfAll ==
  ASSUME NEW n \in Nat, NEW V, \A g \in 1 .. n : g \in V
  PROVE  Numbers(V, n) = [g \in 1 .. n |-> g]
<1>. DEFINE s == [g \in 1 .. n |-> g]
<1>1. s \in Seq(Nat) /\ Len(s) = n
  OBVIOUS
<1>2. Numbers(V, n) = Picked(s, V)
  BY DEF Numbers
<1>. HIDE DEF s
<1>3. Picked(s, V) = s
  BY <1>1, PickedEverything
<1>. QED
  BY <1>2, <1>3 DEF s

\* The groups gs that are not in V hold nothing of Lo: what is kept of the others,
\* one after the other, is a selection of them all.
LEMMA GroupsSound ==
  ASSUME NEW S, NEW n \in Nat, NEW gs, Len(gs) = n, \A g \in 1 .. n : gs[g] \in Seq(S),
         NEW Lo, NEW Hi, NEW V, NEW R,
         \A g \in 1 .. n : g \in V => Sound(gs[g], R[g], Lo, Hi),
         \A g \in 1 .. n : g \notin V => \A k \in 1 .. Len(gs[g]) : gs[g][k] \notin Lo
  PROVE  Sound(Joined(gs), Joined(Mapped(Numbers(V, n), R)), Lo, Hi)
<1>. DEFINE num == [g \in 1 .. n |-> g]
            J(l) == Joined(Mapped(l, R))
<1>1. \A k \in 1 .. n : num[k] = k
  OBVIOUS
<1>2. PICK h : Keeps(h, num, V, n)
  BY KeepsExists
<1>3. Numbers(V, n) = h[n]
  BY <1>2, NumbersIs
<1>. HIDE DEF num
<1>4. PICK f : Glues(f, gs, n)
  BY GluesExists
<1>5. Joined(gs) = f[n]
  BY <1>4, JoinedIs
<1>6. \A m \in 0 .. n : f[m] \in Seq(S)
  BY <1>4, GlueIs
<1>7. \A m \in 0 .. n : h[m] \in Seq(Nat)
  BY <1>1, <1>2, OrderedIs DEF Ordered
<1>8. h[0] = <<>> /\ f[0] = <<>>
  BY <1>2, <1>4, KeepsFirst, GlueFirst
<1>9. J(<<>>) = <<>>
  BY JoinedEmpty
<1>10. ASSUME NEW m \in 1 .. n, m \in V PROVE J(h[m]) = Cat(J(h[m - 1]), R[m])
  <2>1. h[m] = Append(h[m - 1], m)
    <3>1. h[m] = IF m \in V THEN Append(h[m - 1], num[m]) ELSE h[m - 1]
      BY <1>2, KeepsNext
    <3>. QED
      BY <1>1, <1>10, <3>1
  <2>2. h[m - 1] \in Seq(Nat) /\ m \in Nat
    BY <1>7
  <2>. QED
    BY <2>1, <2>2, JoinedAppend
<1>11. ASSUME NEW m \in 1 .. n, m \notin V PROVE h[m] = h[m - 1]
  <2>1. h[m] = IF m \in V THEN Append(h[m - 1], num[m]) ELSE h[m - 1]
    BY <1>2, KeepsNext
  <2>. QED
    BY <1>11, <2>1
<1>12. ASSUME NEW m \in 1 .. n PROVE f[m] = Cat(f[m - 1], gs[m])
  BY <1>4, GlueNext
<1>13. ASSUME NEW m \in 1 .. n, m \notin V PROVE Sound(gs[m], <<>>, Lo, Hi)
  <2>1. Len(gs[m]) \in Nat /\ \A k \in 1 .. Len(gs[m]) : gs[m][k] \notin Lo
    BY <1>13, SeqElements
  <2>. QED
    BY <2>1, SoundNothing
<1>. HIDE DEF J
<1>. DEFINE T == {m \in 0 .. n : ~Sound(f[m], J(h[m]), Lo, Hi)}
<1>14. ASSUME T # {} PROVE FALSE
  <2>0. T \subseteq Nat
    OBVIOUS
  <2>1. PICK m \in T : \A y \in T : m <= y
    BY <1>14, <2>0, LeastElement
  <2>2. CASE m = 0
    <3>1. Len(<<>>) = 0 /\ 1 .. 0 = {}
      BY EmptySeq
    <3>2. Sound(<<>>, <<>>, Lo, Hi)
      BY <3>1, SoundNothing
    <3>. QED
      BY <1>8, <1>9, <2>1, <2>2, <3>2
  <2>3. CASE m # 0
    <3>1. m \in 1 .. n /\ m - 1 \in 0 .. n /\ m - 1 \notin T
      BY <2>1, <2>3
    <3>2. Sound(f[m - 1], J(h[m - 1]), Lo, Hi) /\ f[m - 1] \in Seq(S) /\ gs[m] \in Seq(S)
      BY <1>6, <3>1
    <3>3. f[m] = Cat(f[m - 1], gs[m])
      BY <1>12, <3>1
    <3>4. CASE m \in V
      <4>1. J(h[m]) = Cat(J(h[m - 1]), R[m]) /\ Sound(gs[m], R[m], Lo, Hi)
        BY <1>10, <3>1, <3>4
      <4>2. Sound(Cat(f[m - 1], gs[m]), Cat(J(h[m - 1]), R[m]), Lo, Hi)
        BY <3>2, <4>1, SoundConcat
      <4>. QED
        BY <2>1, <3>3, <4>1, <4>2
    <3>5. CASE m \notin V
      <4>1. h[m] = h[m - 1] /\ Sound(gs[m], <<>>, Lo, Hi)
        BY <1>11, <1>13, <3>1, <3>5
      <4>2. Sound(Cat(f[m - 1], gs[m]), Cat(J(h[m - 1]), <<>>), Lo, Hi)
        BY <3>2, <4>1, SoundConcat
      <4>3. J(h[m - 1]) \in Seq(S)
        BY <3>2, SoundSeq
      <4>4. Cat(J(h[m - 1]), <<>>) = J(h[m - 1])
        BY <4>3, ConcatEmptySeq DEF Cat
      <4>. QED
        BY <2>1, <3>3, <4>1, <4>2, <4>4
    <3>. QED
      BY <3>4, <3>5
  <2>. QED
    BY <2>2, <2>3
<1>15. Sound(f[n], J(h[n]), Lo, Hi)
  <2>1. n \in 0 .. n
    OBVIOUS
  <2>. QED
    BY <1>14, <2>1
<1>. QED
  BY <1>3, <1>5, <1>15 DEF J

-----------------------------------------------------------------------------
(* Skipped row groups hold no target that is asked for. *)

LEMMA LeastOfList ==
  ASSUME NEW n \in Nat, n # 0, NEW f, \A k \in 1 .. n : f[k] \in Int
  PROVE  \E k \in 1 .. n : \A j \in 1 .. n : f[k] <= f[j]
<1>. DEFINE least(m) == \E k \in 1 .. m : \A j \in 1 .. m : f[k] <= f[j]
            T == {m \in 1 .. n : ~least(m)}
<1>1. ASSUME T # {} PROVE FALSE
  <2>0. T \subseteq Nat
    OBVIOUS
  <2>1. PICK m \in T : \A y \in T : m <= y
    BY <1>1, <2>0, LeastElement
  <2>2. CASE m = 1
    <3>1. 1 .. 1 = {1} /\ f[1] \in Int /\ f[1] <= f[1]
      BY <2>1
    <3>. QED
      BY <2>1, <2>2, <3>1
  <2>3. CASE m # 1
    <3>1. m - 1 \in 1 .. n /\ m - 1 \notin T /\ m \in 1 .. n
      <4>1. m \in 1 .. n
        BY <2>1
      <4>. HIDE DEF T
      <4>2. m - 1 \in T => m <= m - 1
        BY <2>1
      <4>. QED
        BY <2>3, <4>1, <4>2
    <3>2. PICK k \in 1 .. m - 1 : \A j \in 1 .. m - 1 : f[k] <= f[j]
      BY <3>1
    <3>3. \A j \in 1 .. m : j = m \/ j \in 1 .. m - 1
      BY <3>1
    <3>4. k \in 1 .. m /\ m \in 1 .. m /\ f[k] \in Int /\ f[m] \in Int /\ \A j \in 1 .. m : f[j] \in Int
      BY <3>1
    <3>5. CASE f[k] <= f[m]
      <4>1. \A j \in 1 .. m : f[k] <= f[j]
        BY <3>2, <3>3, <3>5
      <4>. QED
        BY <2>1, <3>4, <4>1
    <3>6. CASE f[m] <= f[k]
      <4>1. ASSUME NEW j \in 1 .. m PROVE f[m] <= f[j]
        <5>1. CASE j = m
          BY <3>4, <5>1
        <5>2. CASE j \in 1 .. m - 1
          BY <3>2, <3>4, <3>6, <5>2
        <5>. QED
          BY <3>3, <5>1, <5>2
      <4>. QED
        BY <2>1, <3>4, <4>1
    <3>. QED
      BY <3>4, <3>5, <3>6
  <2>. QED
    BY <2>2, <2>3
<1>2. n \in 1 .. n
  OBVIOUS
<1>3. least(n)
  <2>. HIDE DEF least
  <2>. QED
    BY <1>1, <1>2
<1>. QED
  BY <1>3

LEMMA MinOfList ==
  ASSUME NEW n \in Nat, n # 0, NEW f, \A k \in 1 .. n : f[k] \in Int
  PROVE  Snaps!Min({f[k] : k \in 1 .. n}) \in Int /\ \A j \in 1 .. n : Snaps!Min({f[k] : k \in 1 .. n}) <= f[j]
<1>. DEFINE S == {f[k] : k \in 1 .. n}
            Q(x) == x \in S /\ \A y \in S : x <= y
<1>1. PICK k \in 1 .. n : \A j \in 1 .. n : f[k] <= f[j]
  BY LeastOfList
<1>2. Q(f[k])
  BY <1>1
<1>3. Snaps!Min(S) = CHOOSE x : Q(x)
  BY DEF Snaps!Min
<1>. HIDE DEF Q
<1>4. Q(Snaps!Min(S))
  BY <1>2, <1>3, Zenon
<1>. QED
  BY <1>4 DEF Q

LEMMA MaxOfList ==
  ASSUME NEW n \in Nat, n # 0, NEW f, \A k \in 1 .. n : f[k] \in Int
  PROVE  Snaps!Max({f[k] : k \in 1 .. n}) \in Int /\ \A j \in 1 .. n : f[j] <= Snaps!Max({f[k] : k \in 1 .. n})
<1>. DEFINE S == {f[k] : k \in 1 .. n}
            Q(x) == x \in S /\ \A y \in S : x >= y
            h == [k \in 1 .. n |-> 0 - f[k]]
<1>1. PICK k \in 1 .. n : \A j \in 1 .. n : h[k] <= h[j]
  <2>1. \A k \in 1 .. n : h[k] \in Int
    OBVIOUS
  <2>. HIDE DEF h
  <2>. QED
    BY <2>1, LeastOfList
<1>2. Q(f[k])
  <2>1. ASSUME NEW j \in 1 .. n PROVE f[k] >= f[j]
    <3>1. h[k] <= h[j] /\ h[k] = 0 - f[k] /\ h[j] = 0 - f[j] /\ f[k] \in Int /\ f[j] \in Int
      BY <1>1
    <3>. QED
      BY <3>1
  <2>. QED
    BY <2>1
<1>3. Snaps!Max(S) = CHOOSE x : Q(x)
  BY DEF Snaps!Max
<1>. HIDE DEF Q, h
<1>4. Q(Snaps!Max(S))
  BY <1>2, <1>3, Zenon
<1>5. S \subseteq Int
  OBVIOUS
<1>6. \A j \in 1 .. n : f[j] \in S
  OBVIOUS
<1>. HIDE DEF S
<1>7. Snaps!Max(S) \in Int /\ \A j \in 1 .. n : f[j] <= Snaps!Max(S)
  BY <1>4, <1>5, <1>6 DEF Q
<1>. QED
  BY <1>7 DEF S

LEMMA SnapsMinIs ==
  ASSUME NEW S, S \subseteq Nat, S # {}
  PROVE  Snaps!Min(S) \in S /\ \A y \in S : Snaps!Min(S) <= y
<1>. DEFINE P(x) == x \in S /\ \A y \in S : x <= y
<1>1. \E x : P(x)
  BY LeastElement
<1>2. P(CHOOSE x : P(x))
  <2>. HIDE DEF P
  <2>. QED
    BY <1>1, Zenon
<1>. QED
  BY <1>2 DEF Snaps!Min

LEMMA RectIs ==
  ASSUME NEW r \in Snaps!Rect
  PROVE  r.x0 \in Int /\ r.y0 \in Int /\ r.x1 \in Int /\ r.y1 \in Int
<1>1. r \in [x0 : Int, y0 : Int, x1 : Int, y1 : Int]
  BY DEF Snaps!Rect
<1>. QED
  BY <1>1

LEMMA SnapFileIs ==
  ASSUME NEW f \in Snaps!SnapFile
  PROVE  /\ Len(f.groups) \in Nat
         /\ \A g \in 1 .. Len(f.groups) : f.groups[g].rows \in Seq(Snaps!Row)
<1>. DEFINE G == [rows : Seq(Snaps!Row), stats : BOOLEAN]
<1>1. f.groups \in Seq(G)
  <2>. HIDE DEF G
  <2>1. f \in [schema : BOOLEAN, bbox : BOOLEAN, groups : Seq(G)]
    BY DEF Snaps!SnapFile, G
  <2>. QED
    BY <2>1
<1>2. Len(f.groups) \in Nat /\ \A g \in 1 .. Len(f.groups) : f.groups[g] \in G
  <2>. HIDE DEF G
  <2>. QED
    BY <1>1, SeqElements
<1>3. ASSUME NEW x \in G PROVE x.rows \in Seq(Snaps!Row)
  OBVIOUS
<1>. HIDE DEF G
<1>. QED
  BY <1>2, <1>3

\* Whether the row group has a box, and what its statistics are then.
Bounded(f, g) ==
  LET s == f.groups[g].rows
  IN  /\ f.bbox /\ f.groups[g].stats /\ Len(s) # 0
      /\ \A k \in 1 .. Len(s) : s[k].bbox # None

Extremes(s) ==
  LET n == Len(s)
  IN  [x0 |-> Snaps!Min({[l \in 1 .. n |-> s[l].bbox.x0][k] : k \in 1 .. n}),
       y0 |-> Snaps!Min({[l \in 1 .. n |-> s[l].bbox.y0][k] : k \in 1 .. n}),
       x1 |-> Snaps!Max({[l \in 1 .. n |-> s[l].bbox.x1][k] : k \in 1 .. n}),
       y1 |-> Snaps!Max({[l \in 1 .. n |-> s[l].bbox.y1][k] : k \in 1 .. n})]

LEMMA GroupBoxIs ==
  ASSUME NEW f \in Snaps!SnapFile, NEW g \in 1 .. Len(f.groups), Snaps!GroupBox(f, g) # None
  PROVE  Bounded(f, g) /\ Snaps!GroupBox(f, g) = Extremes(f.groups[g].rows)
<1>. DEFINE s == f.groups[g].rows
            n == Len(s)
            R == {s[k].bbox : k \in 1 .. n}
            e == [x0 |-> Snaps!Min({r.x0 : r \in R}), y0 |-> Snaps!Min({r.y0 : r \in R}),
                  x1 |-> Snaps!Max({r.x1 : r \in R}), y1 |-> Snaps!Max({r.y1 : r \in R})]
<1>1. Snaps!GroupBox(f, g) =
        IF f.bbox /\ f.groups[g].stats /\ R # {} /\ None \notin R
           /\ \A k \in 1 .. n : "leaves" \notin s[k].bad
          THEN IF e.x0 < e.x1 /\ e.y0 < e.y1 THEN e ELSE None
          ELSE None
  BY DEF Snaps!GroupBox
<1>2. n \in Nat
  BY SnapFileIs, SeqElements
<1>. HIDE DEF e
<1>3. f.bbox /\ f.groups[g].stats /\ R # {} /\ None \notin R /\ Snaps!GroupBox(f, g) = e
  <2>. HIDE DEF R, n, s
  <2>. QED
    BY <1>1
<1>4. n # 0 /\ \A k \in 1 .. n : s[k].bbox # None
  BY <1>2, <1>3
<1>5. /\ {r.x0 : r \in R} = {[l \in 1 .. n |-> s[l].bbox.x0][k] : k \in 1 .. n}
      /\ {r.y0 : r \in R} = {[l \in 1 .. n |-> s[l].bbox.y0][k] : k \in 1 .. n}
      /\ {r.x1 : r \in R} = {[l \in 1 .. n |-> s[l].bbox.x1][k] : k \in 1 .. n}
      /\ {r.y1 : r \in R} = {[l \in 1 .. n |-> s[l].bbox.y1][k] : k \in 1 .. n}
  <2>. HIDE DEF n, s
  <2>. QED
    OBVIOUS
<1>6. e = Extremes(s)
  <2>. HIDE DEF R, n
  <2>1. Extremes(s) =
          [x0 |-> Snaps!Min({[l \in 1 .. n |-> s[l].bbox.x0][k] : k \in 1 .. n}),
           y0 |-> Snaps!Min({[l \in 1 .. n |-> s[l].bbox.y0][k] : k \in 1 .. n}),
           x1 |-> Snaps!Max({[l \in 1 .. n |-> s[l].bbox.x1][k] : k \in 1 .. n}),
           y1 |-> Snaps!Max({[l \in 1 .. n |-> s[l].bbox.y1][k] : k \in 1 .. n})]
    BY DEF Extremes, n
  <2>. QED
    BY <1>5, <2>1 DEF e
<1>. QED
  BY <1>3, <1>4, <1>6 DEF Bounded

\* The bounds of a row lie in the box of its group.
LEMMA BoundsHold ==
  ASSUME NEW f \in Snaps!SnapFile, NEW g \in 1 .. Len(f.groups), Snaps!GroupBox(f, g) # None,
         NEW j \in 1 .. Len(f.groups[g].rows)
  PROVE  LET e == Snaps!GroupBox(f, g)
             b == f.groups[g].rows[j].bbox
         IN  /\ f.bbox /\ b # None
             /\ e.x0 \in Int /\ e.y0 \in Int /\ e.x1 \in Int /\ e.y1 \in Int
             /\ b.x0 \in Int /\ b.y0 \in Int /\ b.x1 \in Int /\ b.y1 \in Int
             /\ e.x0 <= b.x0 /\ e.y0 <= b.y0 /\ b.x1 <= e.x1 /\ b.y1 <= e.y1
<1>. DEFINE s == f.groups[g].rows
            n == Len(s)
            fx0 == [k \in 1 .. n |-> s[k].bbox.x0]
            fy0 == [k \in 1 .. n |-> s[k].bbox.y0]
            fx1 == [k \in 1 .. n |-> s[k].bbox.x1]
            fy1 == [k \in 1 .. n |-> s[k].bbox.y1]
<1>1. Bounded(f, g) /\ Snaps!GroupBox(f, g) = Extremes(s)
  BY GroupBoxIs
<1>2. n \in Nat /\ n # 0 /\ \A k \in 1 .. n : s[k] \in Snaps!Row /\ s[k].bbox # None
  BY <1>1, SnapFileIs, SeqElements DEF Bounded
<1>3. ASSUME NEW k \in 1 .. n
      PROVE  s[k].bbox.x0 \in Int /\ s[k].bbox.y0 \in Int /\ s[k].bbox.x1 \in Int /\ s[k].bbox.y1 \in Int
  <2>1. s[k].bbox \in Snaps!Rect
    BY <1>2 DEF Snaps!Row
  <2>. QED
    BY <2>1, RectIs
<1>4. /\ \A k \in 1 .. n : fx0[k] \in Int /\ fx0[k] = s[k].bbox.x0
      /\ \A k \in 1 .. n : fy0[k] \in Int /\ fy0[k] = s[k].bbox.y0
      /\ \A k \in 1 .. n : fx1[k] \in Int /\ fx1[k] = s[k].bbox.x1
      /\ \A k \in 1 .. n : fy1[k] \in Int /\ fy1[k] = s[k].bbox.y1
  BY <1>3
<1>5. Extremes(s) =
        [x0 |-> Snaps!Min({fx0[k] : k \in 1 .. n}), y0 |-> Snaps!Min({fy0[k] : k \in 1 .. n}),
         x1 |-> Snaps!Max({fx1[k] : k \in 1 .. n}), y1 |-> Snaps!Max({fy1[k] : k \in 1 .. n})]
  BY DEF Extremes
<1>. HIDE DEF fx0, fy0, fx1, fy1, n, s
<1>6. Snaps!Min({fx0[k] : k \in 1 .. n}) \in Int /\ \A l \in 1 .. n : Snaps!Min({fx0[v] : v \in 1 .. n}) <= fx0[l]
  BY <1>2, <1>4, MinOfList
<1>7. Snaps!Min({fy0[k] : k \in 1 .. n}) \in Int /\ \A l \in 1 .. n : Snaps!Min({fy0[v] : v \in 1 .. n}) <= fy0[l]
  BY <1>2, <1>4, MinOfList
<1>8. Snaps!Max({fx1[k] : k \in 1 .. n}) \in Int /\ \A l \in 1 .. n : fx1[l] <= Snaps!Max({fx1[v] : v \in 1 .. n})
  <2>1. \A k \in 1 .. n : fx1[k] \in Int
    BY <1>4
  <2>. QED
    BY <1>2, <2>1, MaxOfList, Zenon
<1>9. Snaps!Max({fy1[k] : k \in 1 .. n}) \in Int /\ \A l \in 1 .. n : fy1[l] <= Snaps!Max({fy1[v] : v \in 1 .. n})
  <2>1. \A k \in 1 .. n : fy1[k] \in Int
    BY <1>4
  <2>. QED
    BY <1>2, <2>1, MaxOfList, Zenon
<1>. DEFINE ex0 == Snaps!Min({fx0[k] : k \in 1 .. n})
            ey0 == Snaps!Min({fy0[k] : k \in 1 .. n})
            ex1 == Snaps!Max({fx1[k] : k \in 1 .. n})
            ey1 == Snaps!Max({fy1[k] : k \in 1 .. n})
<1>10. j \in 1 .. n
  BY DEF n, s
<1>11. /\ ex0 \in Int /\ ey0 \in Int /\ ex1 \in Int /\ ey1 \in Int
       /\ ex0 <= fx0[j] /\ ey0 <= fy0[j] /\ fx1[j] <= ex1 /\ fy1[j] <= ey1
  BY <1>6, <1>7, <1>8, <1>9, <1>10
<1>12. Snaps!GroupBox(f, g) = [x0 |-> ex0, y0 |-> ey0, x1 |-> ex1, y1 |-> ey1]
  BY <1>1, <1>5
<1>. HIDE DEF ex0, ey0, ex1, ey1
<1>13. /\ Snaps!GroupBox(f, g).x0 = ex0 /\ Snaps!GroupBox(f, g).y0 = ey0
       /\ Snaps!GroupBox(f, g).x1 = ex1 /\ Snaps!GroupBox(f, g).y1 = ey1
  BY <1>12
<1>14. f.bbox
  BY <1>1 DEF Bounded
<1>. QED
  BY <1>2, <1>4, <1>10, <1>11, <1>13, <1>14 DEF s

-----------------------------------------------------------------------------
(* The rows of a file of snap targets, and what a query reads of them. *)

\* The rows of each row group.
Pieces(f) == [g \in 1 .. Len(f.groups) |-> f.groups[g].rows]

\* The rows that a query must return, and those it may.
Due(f, q) == {r \in Snaps!Row : Snaps!Intersects(Snaps!RawBbox(f, r), q)}

Fit(f, q) == {r \in Snaps!Row : Snaps!Intersects(Snaps!RowBbox(f, r), q)}

LEMMA PiecesAre ==
  ASSUME NEW f \in Snaps!SnapFile
  PROVE  /\ Len(f.groups) \in Nat /\ Len(Pieces(f)) = Len(f.groups)
         /\ \A g \in 1 .. Len(f.groups) : Pieces(f)[g] = f.groups[g].rows /\ Pieces(f)[g] \in Seq(Snaps!Row)
<1>. DEFINE n == Len(f.groups)
            s == Pieces(f)
<1>1. n \in Nat /\ \A g \in 1 .. n : f.groups[g].rows \in Seq(Snaps!Row)
  BY SnapFileIs
<1>2. s = [g \in 1 .. n |-> f.groups[g].rows]
  BY DEF Pieces
<1>. HIDE DEF n, s
<1>3. Len(s) = n /\ \A g \in 1 .. n : s[g] = f.groups[g].rows
  BY <1>1, <1>2
<1>. QED
  BY <1>1, <1>3 DEF n, s

\* The operators of the store are those above.
LEMMA SnapsPicked ==
  ASSUME NEW s, NEW P
  PROVE  Snaps!Picked(s, P) = Picked(s, P)
BY DEF Snaps!Picked, Picked

LEMMA SnapsJoined ==
  ASSUME NEW s
  PROVE  Snaps!Joined(s) = Joined(s)
BY DEF Snaps!Joined, Joined

LEMMA SnapsInOrder ==
  ASSUME NEW V, NEW n
  PROVE  Snaps!InOrder(V, n) = Numbers(V, n)
BY SnapsPicked DEF Snaps!InOrder, Numbers

LEMMA AllRowsAre ==
  ASSUME NEW f \in Snaps!SnapFile
  PROVE  Snaps!AllRows(f) = Joined(Pieces(f)) /\ Snaps!AllRows(f) \in Seq(Snaps!Row)
<1>1. Snaps!AllRows(f) = Joined(Pieces(f))
  BY SnapsJoined DEF Snaps!AllRows, Pieces
<1>. DEFINE n == Len(f.groups)
            s == Pieces(f)
<1>2. n \in Nat /\ Len(s) = n /\ \A g \in 1 .. n : s[g] \in Seq(Snaps!Row)
  BY PiecesAre
<1>. HIDE DEF n, s
<1>3. PICK h : Glues(h, s, n)
  BY <1>2, GluesExists
<1>4. Joined(s) = h[n] /\ n \in 0 .. n
  BY <1>2, <1>3, JoinedIs
<1>5. h[n] \in Seq(Snaps!Row)
  BY <1>2, <1>3, <1>4, GlueIs
<1>. QED
  BY <1>1, <1>4, <1>5 DEF s

LEMMA RawIs ==
  ASSUME NEW f \in Snaps!SnapFile, NEW r \in Snaps!Row
  PROVE  LET b == Snaps!RawBbox(f, r)
         IN  b.x0 \in Int /\ b.y0 \in Int /\ b.x1 \in Int /\ b.y1 \in Int
<1>1. CASE f.bbox /\ r.bbox # None
  <2>1. r.bbox \in Snaps!Rect /\ Snaps!RawBbox(f, r) = r.bbox
    BY <1>1 DEF Snaps!Row, Snaps!RawBbox
  <2>. QED
    BY <2>1, RectIs
<1>2. CASE ~(f.bbox /\ r.bbox # None)
  <2>. DEFINE b == Snaps!RawBbox(f, r)
              e == r.geometry
  <2>1. e \in [x0 : Int, y0 : Int, x1 : Int, y1 : Int]
    BY DEF Snaps!Row, Snaps!Rect
  <2>2. DOMAIN e = {"x0", "y0", "x1", "y1"} /\ e.x0 \in Int /\ e.y0 \in Int /\ e.x1 \in Int /\ e.y1 \in Int
    BY <2>1
  <2>3. b = [c \in DOMAIN e |-> Snaps!RoundSingle(e[c])]
    BY <1>2 DEF Snaps!RawBbox
  <2>4. ASSUME NEW c \in Int PROVE Snaps!RoundSingle(c) \in Int
    BY DEF Snaps!RoundSingle
  <2>. HIDE DEF b, e
  <2>5. /\ b.x0 = Snaps!RoundSingle(e.x0) /\ b.y0 = Snaps!RoundSingle(e.y0)
        /\ b.x1 = Snaps!RoundSingle(e.x1) /\ b.y1 = Snaps!RoundSingle(e.y1)
    BY <2>2, <2>3
  <2>6. b.x0 \in Int /\ b.y0 \in Int /\ b.x1 \in Int /\ b.y1 \in Int
    BY <2>2, <2>4, <2>5
  <2>. QED
    BY <2>6 DEF b
<1>. QED
  BY <1>1, <1>2

\* Padding never hides a row.
LEMMA DueFits ==
  ASSUME NEW f \in Snaps!SnapFile, NEW q \in Snaps!Rect
  PROVE  Due(f, q) \subseteq Fit(f, q)
<1>. SUFFICES ASSUME NEW r \in Snaps!Row, Snaps!Intersects(Snaps!RawBbox(f, r), q)
              PROVE  Snaps!Intersects(Snaps!RowBbox(f, r), q)
  BY DEF Due, Fit
<1>. DEFINE b == Snaps!RawBbox(f, r)
            e == Snaps!RowBbox(f, r)
<1>1. b.x0 \in Int /\ b.y0 \in Int /\ b.x1 \in Int /\ b.y1 \in Int
  BY RawIs
<1>2. q.x0 \in Int /\ q.y0 \in Int /\ q.x1 \in Int /\ q.y1 \in Int
  BY RectIs
<1>3. e = [x0 |-> Snaps!PadLow(b.x0, b.x1, LimitX), y0 |-> Snaps!PadLow(b.y0, b.y1, LimitY),
           x1 |-> Snaps!PadHigh(b.x0, b.x1, LimitX), y1 |-> Snaps!PadHigh(b.y0, b.y1, LimitY)]
  BY DEF Snaps!RowBbox, Snaps!SnapBbox
<1>4. Snaps!Intersects(b, q)
  OBVIOUS
<1>. HIDE DEF b, e
<1>5. ASSUME NEW lo \in Int, NEW hi \in Int, NEW z
      PROVE  /\ Snaps!PadLow(lo, hi, z) \in Int /\ Snaps!PadLow(lo, hi, z) <= lo
             /\ Snaps!PadHigh(lo, hi, z) \in Int /\ hi <= Snaps!PadHigh(lo, hi, z)
  BY DEF Snaps!PadLow, Snaps!PadHigh
<1>6. /\ e.x0 \in Int /\ e.x0 <= b.x0 /\ e.y0 \in Int /\ e.y0 <= b.y0
      /\ e.x1 \in Int /\ b.x1 <= e.x1 /\ e.y1 \in Int /\ b.y1 <= e.y1
  BY <1>1, <1>3, <1>5
<1>7. Snaps!Intersects(e, q)
  BY <1>1, <1>2, <1>4, <1>6 DEF Snaps!Intersects
<1>. QED
  BY <1>7 DEF e

Whole(b) == b.x0 \in Int /\ b.y0 \in Int /\ b.x1 \in Int /\ b.y1 \in Int

LEMMA WiderMeets ==
  ASSUME NEW e, NEW b, NEW q, Whole(e), Whole(b), Whole(q),
         e.x0 <= b.x0, e.y0 <= b.y0, b.x1 <= e.x1, b.y1 <= e.y1, Snaps!Intersects(b, q)
  PROVE  Snaps!Intersects(e, q)
BY DEF Whole, Snaps!Intersects

\* A group that is skipped holds no row that is due.
LEMMA SkippedRightly ==
  ASSUME NEW f \in Snaps!SnapFile, NEW q \in Snaps!Rect, NEW g \in 1 .. Len(f.groups),
         g \notin Snaps!Matching(Snaps!GroupBoxes(f), q), NEW j \in 1 .. Len(f.groups[g].rows)
  PROVE  f.groups[g].rows[j] \notin Due(f, q)
<1>. DEFINE e == Snaps!GroupBox(f, g)
            r == f.groups[g].rows[j]
            b == r.bbox
<1>1. Snaps!GroupBoxes(f)[g] = e /\ g \in DOMAIN Snaps!GroupBoxes(f)
  BY DEF Snaps!GroupBoxes
<1>2. e # None /\ ~Snaps!Intersects(e, q)
  <2>. HIDE DEF e
  <2>. QED
    BY <1>1 DEF Snaps!Matching
<1>3. /\ f.bbox /\ b # None
      /\ e.x0 \in Int /\ e.y0 \in Int /\ e.x1 \in Int /\ e.y1 \in Int
      /\ b.x0 \in Int /\ b.y0 \in Int /\ b.x1 \in Int /\ b.y1 \in Int
      /\ e.x0 <= b.x0 /\ e.y0 <= b.y0 /\ b.x1 <= e.x1 /\ b.y1 <= e.y1
  BY <1>2, BoundsHold
<1>4. Snaps!RawBbox(f, r) = b
  BY <1>3 DEF Snaps!RawBbox
<1>5. q.x0 \in Int /\ q.y0 \in Int /\ q.x1 \in Int /\ q.y1 \in Int
  BY RectIs
<1>. HIDE DEF e, b
<1>6. Whole(e) /\ Whole(b) /\ Whole(q) /\ e.x0 <= b.x0 /\ e.y0 <= b.y0 /\ b.x1 <= e.x1 /\ b.y1 <= e.y1
  BY <1>3, <1>5 DEF Whole
<1>7. ~Snaps!Intersects(b, q)
  BY <1>2, <1>6, WiderMeets
<1>. QED
  BY <1>4, <1>7 DEF Due

\* absolute_row_starts counts the rows before a group.
CountsFrom(h, f, n) == h = [k \in 0 .. n |-> IF k = 0 THEN 0 ELSE h[k - 1] + Len(f.groups[k].rows)]

LEMMA RowStartIs ==
  ASSUME NEW f \in Snaps!SnapFile, NEW h, Glues(h, Pieces(f), Len(f.groups)), NEW g \in 1 .. Len(f.groups)
  PROVE  Snaps!AbsoluteRowStart(f, g) = Len(h[g - 1]) /\ Snaps!AbsoluteRowStart(f, g) \in Nat
<1>. DEFINE N == Len(f.groups)
            n == g - 1
            s == Pieces(f)
            w == [k \in 0 .. n |-> Len(h[k])]
            body(v, k) == IF k = 0 THEN 0 ELSE v[k - 1] + Len(s[k])
<1>0. N \in Nat /\ n \in 0 .. N /\ n \in Nat /\ Len(s) = N
  BY PiecesAre
<1>1. \A k \in 1 .. N : s[k] \in Seq(Snaps!Row) /\ s[k] = f.groups[k].rows
  BY PiecesAre
<1>. HIDE DEF s, N
<1>2. Glues(h, s, N)
  BY DEF s, N
<1>3. \A k \in 0 .. N : h[k] \in Seq(Snaps!Row)
  BY <1>0, <1>1, <1>2, GlueIs
<1>4. ASSUME NEW k \in 0 .. n PROVE Len(h[k]) = IF k = 0 THEN 0 ELSE Len(h[k - 1]) + Len(s[k])
  <2>1. CASE k = 0
    <3>1. h[0] = <<>>
      BY <1>0, <1>2, GlueFirst
    <3>. QED
      BY <2>1, <3>1, EmptySeq
  <2>2. CASE k # 0
    <3>1. k \in 1 .. N /\ k - 1 \in 0 .. N
      BY <1>0, <2>2
    <3>2. h[k] = h[k - 1] \o s[k]
      BY <1>0, <1>2, <3>1, GlueStep
    <3>3. h[k - 1] \in Seq(Snaps!Row) /\ s[k] \in Seq(Snaps!Row)
      BY <1>1, <1>3, <3>1
    <3>4. Len(h[k]) = Len(h[k - 1]) + Len(s[k])
      BY <3>2, <3>3, ConcatProperties
    <3>. QED
      BY <2>2, <3>4
  <2>. QED
    BY <2>1, <2>2
<1>5. w = [k \in 0 .. n |-> body(w, k)]
  <2>1. ASSUME NEW k \in 0 .. n PROVE w[k] = body(w, k)
    <3>1. w[k] = Len(h[k]) /\ (k # 0 => k - 1 \in 0 .. n /\ w[k - 1] = Len(h[k - 1]))
      BY <1>0
    <3>. HIDE DEF w
    <3>. QED
      BY <1>4, <3>1
  <2>2. w = [k \in 0 .. n |-> w[k]]
    OBVIOUS
  <2>. HIDE DEF w, body
  <2>. QED
    BY <2>1, <2>2
<1>6. CountsFrom(w, f, n)
  <2>1. ASSUME NEW k \in 0 .. n PROVE body(w, k) = IF k = 0 THEN 0 ELSE w[k - 1] + Len(f.groups[k].rows)
    <3>1. k # 0 => k \in 1 .. N
      BY <1>0
    <3>. HIDE DEF w
    <3>. QED
      BY <1>1, <3>1
  <2>. HIDE DEF w, body
  <2>. QED
    BY <1>5, <2>1 DEF CountsFrom
<1>7. Snaps!AbsoluteRowStart(f, g) = (CHOOSE v : CountsFrom(v, f, n))[n]
  BY DEF Snaps!AbsoluteRowStart, CountsFrom
<1>. HIDE DEF w, n
<1>8. PICK v : CountsFrom(v, f, n) /\ Snaps!AbsoluteRowStart(f, g) = v[n]
  BY <1>6, <1>7
<1>9. ASSUME NEW k \in 0 .. n PROVE v[k] = IF k = 0 THEN 0 ELSE v[k - 1] + Len(f.groups[k].rows)
  BY <1>8 DEF CountsFrom
<1>. DEFINE T == {k \in 0 .. n : v[k] # Len(h[k])}
<1>10. ASSUME T # {} PROVE FALSE
  <2>0. T \subseteq Nat
    BY <1>0
  <2>1. PICK k \in T : \A y \in T : k <= y
    BY <1>10, <2>0, LeastElement
  <2>2. CASE k = 0
    BY <1>4, <1>9, <2>1, <2>2
  <2>3. CASE k # 0
    <3>1. k \in 0 .. n /\ k - 1 \in 0 .. n /\ k - 1 \notin T /\ k \in 1 .. N
      BY <1>0, <2>1, <2>3
    <3>2. v[k] = v[k - 1] + Len(f.groups[k].rows) /\ Len(h[k]) = Len(h[k - 1]) + Len(s[k])
      BY <1>4, <1>9, <2>3, <3>1
    <3>3. v[k - 1] = Len(h[k - 1]) /\ s[k] = f.groups[k].rows
      BY <1>1, <3>1
    <3>. QED
      BY <2>1, <3>2, <3>3
  <2>. QED
    BY <2>2, <2>3
<1>11. n \in 0 .. n /\ v[n] = Len(h[n])
  BY <1>0, <1>10
<1>12. Len(h[n]) \in Nat
  BY <1>0, <1>3, LenProperties
<1>. QED
  BY <1>8, <1>11, <1>12 DEF n

-----------------------------------------------------------------------------
(* The read of one row group, and what the reads give together. *)

QueryRead(f, q, g) ==
  Snaps!Extract(f, [by |-> "bbox", box |-> q], f.groups[g].rows, Snaps!AbsoluteRowStart(f, g))

Refused(r) == r.bad \cap {"null", "id", "unit"} # {}

RefusedIn(f, g) == {k \in 1 .. Len(f.groups[g].rows) : Refused(f.groups[g].rows[k])}

MemberRead(f, g) ==
  IF RefusedIn(f, g) = {} THEN [err |-> None, rows |-> f.groups[g].rows]
  ELSE [err |-> [kind |-> "invalid_row", at |-> Snaps!AbsoluteRowStart(f, g) + Snaps!Min(RefusedIn(f, g)) - 1],
        rows |-> <<>>]

ReadFailure(g) == [err |-> [kind |-> "read", at |-> g], rows |-> <<>>]

ReadAs(f, q, g) == IF q = None THEN MemberRead(f, g) ELSE QueryRead(f, q, g)

LEMMA ErrorsDiffer ==
  ASSUME NEW kind \in Snaps!Kinds, NEW at \in Nat \cup {None}
  PROVE  [kind |-> kind, at |-> at] # None
<1>1. None \notin [kind : Snaps!Kinds, at : Nat \cup {None}]
  BY SnapsAssumption DEF Snaps!SnapStoreAssumption, Snaps!NoneIsNoError
<1>. QED
  BY <1>1

LEMMA RowStartExists ==
  ASSUME NEW f \in Snaps!SnapFile, NEW g \in 1 .. Len(f.groups)
  PROVE  Snaps!AbsoluteRowStart(f, g) \in Nat
<1>1. Len(f.groups) \in Nat
  BY PiecesAre
<1>2. PICK h : Glues(h, Pieces(f), Len(f.groups))
  BY <1>1, GluesExists
<1>. QED
  BY <1>2, RowStartIs

\* A read that succeeds returns the rows of its group that fit.
LEMMA QueryReadIs ==
  ASSUME NEW f \in Snaps!SnapFile, NEW q \in Snaps!Rect, NEW g \in 1 .. Len(f.groups),
         QueryRead(f, q, g).err = None
  PROVE  Sound(f.groups[g].rows, QueryRead(f, q, g).rows, Due(f, q), Fit(f, q))
<1>. DEFINE s == f.groups[g].rows
            n == Snaps!AbsoluteRowStart(f, g)
            fl == [by |-> "bbox", box |-> q]
            E == {k \in 1 .. Len(s) : Snaps!FaultOf(f, fl, s[k]) # None}
            m == Snaps!Min(E)
            e == [kind |-> Snaps!FaultOf(f, fl, s[m]), at |-> n + m - 1]
            P == {k \in 1 .. Len(s) : Snaps!Matches(f, fl, s[k])}
<1>1. s \in Seq(Snaps!Row) /\ Len(s) \in Nat /\ \A k \in 1 .. Len(s) : s[k] \in Snaps!Row
  BY SnapFileIs, SeqElements
<1>2. n \in Nat
  BY RowStartExists
<1>3. QueryRead(f, q, g) = IF E = {} THEN [err |-> None, rows |-> Picked(s, P)] ELSE [err |-> e, rows |-> <<>>]
  BY SnapsPicked DEF QueryRead, Snaps!Extract, Snaps!Kept
<1>4. ASSUME E # {} PROVE e # None
  <2>0. E \subseteq Nat /\ \A k \in E : k >= 1
    BY <1>1
  <2>1. m \in E
    <3>. HIDE DEF E
    <3>. QED
      BY <1>4, <2>0, SnapsMinIs
  <2>2. m \in Nat /\ m >= 1
    BY <2>0, <2>1
  <2>3. n + m - 1 \in Nat
    <3>. HIDE DEF n, m
    <3>. QED
      BY <1>2, <2>2
  <2>4. Snaps!FaultOf(f, fl, s[m]) \in Snaps!Kinds
    <3>1. Snaps!FaultOf(f, fl, s[m]) # None
      BY <2>1
    <3>2. Snaps!FaultOf(f, fl, s[m]) \in {"invalid_row", "geometry_invalid", "invalid_stem_role", None}
      <4>. HIDE DEF m, s, fl
      <4>. QED
        BY DEF Snaps!FaultOf
    <3>. HIDE DEF m, s, fl
    <3>. QED
      BY <3>1, <3>2 DEF Snaps!Kinds
  <2>. HIDE DEF m, s, fl, n
  <2>. QED
    BY <2>3, <2>4, ErrorsDiffer
<1>. HIDE DEF E, e
<1>5. QueryRead(f, q, g).rows = Picked(s, P)
  <2>1. E = {}
    <3>1. E # {} => QueryRead(f, q, g).err = e
      BY <1>3
    <3>. QED
      BY <1>4, <3>1
  <2>. QED
    BY <1>3, <2>1
<1>6. \A k \in 1 .. Len(s) : s[k] \in Fit(f, q) <=> k \in P
  <2>1. ASSUME NEW r PROVE Snaps!Matches(f, fl, r) <=> Snaps!Intersects(Snaps!RowBbox(f, r), q)
    BY DEF Snaps!Matches
  <2>. HIDE DEF s, fl
  <2>. QED
    BY <1>1, <2>1 DEF Fit
<1>7. Due(f, q) \subseteq Fit(f, q)
  BY DueFits
<1>. HIDE DEF s
<1>8. P \in SUBSET (1 .. Len(s))
  OBVIOUS
<1>. HIDE DEF P
<1>9. Sound(s, Picked(s, P), Due(f, q), Fit(f, q))
  BY <1>6, <1>7, <1>8 DEF Sound
<1>. QED
  BY <1>5, <1>9 DEF s

\* The row groups of a query, read without an error, give its targets.
LEMMA QueryGathers ==
  ASSUME NEW f \in Snaps!SnapFile, NEW q \in Snaps!Rect, NEW t,
         t = Numbers(Snaps!Matching(Snaps!GroupBoxes(f), q), Len(Snaps!GroupBoxes(f))),
         NEW d, \A p \in 1 .. Len(t) : d[p] = QueryRead(f, q, t[p]) /\ d[p].err = None
  PROVE  Sound(Snaps!AllRows(f), Joined([p \in 1 .. Len(t) |-> d[p].rows]), Due(f, q), Fit(f, q))
<1>. DEFINE n == Len(f.groups)
            V == Snaps!Matching(Snaps!GroupBoxes(f), q)
            R == [g \in 1 .. n |-> QueryRead(f, q, g).rows]
            gs == Pieces(f)
            OK == {g \in 1 .. n : QueryRead(f, q, g).err = None}
<1>1. /\ n \in Nat /\ Len(gs) = n
      /\ \A g \in 1 .. n : gs[g] = f.groups[g].rows /\ gs[g] \in Seq(Snaps!Row)
  BY PiecesAre
<1>2. Len(Snaps!GroupBoxes(f)) = n
  <2>1. Snaps!GroupBoxes(f) = [g \in 1 .. n |-> Snaps!GroupBox(f, g)]
    BY DEF Snaps!GroupBoxes
  <2>. HIDE DEF n
  <2>. QED
    BY <1>1, <2>1
<1>. HIDE DEF n, V, gs
<1>3. t = Numbers(V, n) /\ Ordered(t, V, n)
  BY <1>1, <1>2, NumbersOrdered DEF V
<1>4. \A p \in 1 .. Len(t) : t[p] \in V /\ t[p] \in 1 .. n
  BY <1>3 DEF Ordered
<1>5. \A g \in 1 .. n : g \in V => \E p \in 1 .. Len(t) : t[p] = g
  BY <1>3 DEF Ordered
<1>6. ASSUME NEW g \in 1 .. n, g \in V PROVE Sound(gs[g], R[g], Due(f, q), Fit(f, q))
  <2>1. PICK p \in 1 .. Len(t) : t[p] = g
    BY <1>5, <1>6
  <2>2. QueryRead(f, q, g).err = None
    BY <2>1
  <2>3. Sound(f.groups[g].rows, QueryRead(f, q, g).rows, Due(f, q), Fit(f, q))
    BY <2>2, QueryReadIs DEF n
  <2>4. R[g] = QueryRead(f, q, g).rows
    OBVIOUS
  <2>. HIDE DEF R
  <2>. QED
    BY <1>1, <2>3, <2>4
<1>7. ASSUME NEW g \in 1 .. n, g \notin V, NEW k \in 1 .. Len(gs[g]) PROVE gs[g][k] \notin Due(f, q)
  BY <1>1, <1>7, SkippedRightly DEF n, V
<1>8. [p \in 1 .. Len(t) |-> d[p].rows] = Mapped(t, R)
  <2>1. ASSUME NEW p \in 1 .. Len(t) PROVE d[p].rows = R[t[p]]
    BY <1>4
  <2>. HIDE DEF R
  <2>. QED
    BY <2>1 DEF Mapped
<1>. HIDE DEF R
<1>9. Sound(Joined(gs), Joined(Mapped(t, R)), Due(f, q), Fit(f, q))
  <2>1. \A g \in 1 .. n : gs[g] \in Seq(Snaps!Row)
    BY <1>1
  <2>2. \A g \in 1 .. n : g \in V => Sound(gs[g], R[g], Due(f, q), Fit(f, q))
    BY <1>6
  <2>3. \A g \in 1 .. n : g \notin V => \A k \in 1 .. Len(gs[g]) : gs[g][k] \notin Due(f, q)
    BY <1>7
  <2>. QED
    BY <1>1, <1>3, <2>1, <2>2, <2>3, GroupsSound
<1>. QED
  BY <1>8, <1>9, AllRowsAre DEF gs

\* Where a row stands in the file.
LEMMA RowAt ==
  ASSUME NEW f \in Snaps!SnapFile, NEW h, Glues(h, Pieces(f), Len(f.groups)),
         NEW g \in 1 .. Len(f.groups), NEW j \in 1 .. Len(f.groups[g].rows)
  PROVE  /\ Len(h[g - 1]) \in Nat /\ Len(h[g]) \in Nat /\ j \in Nat
         /\ Len(h[g - 1]) + j \in 1 .. Len(Snaps!AllRows(f))
         /\ Len(h[g - 1]) + j <= Len(h[g])
         /\ Snaps!AllRows(f)[Len(h[g - 1]) + j] = f.groups[g].rows[j]
<1>. DEFINE n == Len(f.groups)
            s == Pieces(f)
<1>1. /\ n \in Nat /\ Len(s) = n
      /\ \A v \in 1 .. n : s[v] = f.groups[v].rows /\ s[v] \in Seq(Snaps!Row)
  BY PiecesAre
<1>. HIDE DEF n, s
<1>2. g \in 1 .. n /\ Glues(h, s, n)
  BY DEF n, s
<1>3. n \in 0 .. n /\ g \in 0 .. n /\ g - 1 \in 0 .. g /\ g \in 0 .. g /\ g \in 1 .. g
  BY <1>1, <1>2
<1>4. GlueOf(h, s, n) /\ GlueOf(h, s, g)
  BY <1>1, <1>2, <1>3, GlueIs
<1>5. Snaps!AllRows(f) = h[n]
  BY <1>1, <1>2, AllRowsAre, JoinedIs DEF s
<1>6. j \in 1 .. Len(s[g]) /\ s[g] = f.groups[g].rows
  BY <1>1, <1>2
<1>7. Len(h[g - 1]) \in Nat /\ Len(h[g]) \in Nat
  BY <1>3, <1>4 DEF GlueOf
<1>8. Len(h[g - 1]) + j \in 1 .. Len(h[g])
  BY <1>3, <1>4, <1>6 DEF GlueOf
<1>9. Len(h[g - 1]) + j \in 1 .. Len(h[n]) /\ h[n][Len(h[g - 1]) + j] = s[g][j]
  BY <1>2, <1>4, <1>6 DEF GlueOf
<1>10. j \in Nat
  OBVIOUS
<1>. QED
  BY <1>5, <1>6, <1>7, <1>8, <1>9, <1>10

Placed(f, h, k) == \E g \in 1 .. Len(f.groups) : \E j \in 1 .. Len(f.groups[g].rows) : k = Len(h[g - 1]) + j

LEMMA RowFrom ==
  ASSUME NEW f \in Snaps!SnapFile, NEW h, Glues(h, Pieces(f), Len(f.groups)),
         NEW k \in 1 .. Len(Snaps!AllRows(f))
  PROVE  Placed(f, h, k)
<1>. DEFINE n == Len(f.groups)
            s == Pieces(f)
<1>1. /\ n \in Nat /\ Len(s) = n
      /\ \A v \in 1 .. n : s[v] = f.groups[v].rows /\ s[v] \in Seq(Snaps!Row)
  BY PiecesAre
<1>. HIDE DEF n, s
<1>2. Glues(h, s, n) /\ n \in 0 .. n
  BY <1>1 DEF n, s
<1>3. GlueOf(h, s, n)
  BY <1>1, <1>2, GlueIs
<1>4. Snaps!AllRows(f) = h[n]
  BY <1>1, <1>2, AllRowsAre, JoinedIs DEF s
<1>5. \E g \in 1 .. n : \E j \in 1 .. Len(s[g]) : k = Len(h[g - 1]) + j
  BY <1>3, <1>4 DEF GlueOf
<1>. QED
  BY <1>1, <1>5 DEF n, Placed

LEMMA PlacesOrdered ==
  ASSUME NEW f \in Snaps!SnapFile, NEW h, Glues(h, Pieces(f), Len(f.groups)),
         NEW g \in 1 .. Len(f.groups), NEW j \in 1 .. Len(f.groups[g].rows),
         NEW v \in 1 .. Len(f.groups), NEW k \in 1 .. Len(f.groups[v].rows),
         Len(h[g - 1]) + j <= Len(h[v - 1]) + k
  PROVE  g <= v /\ (g = v => j <= k)
<1>. DEFINE n == Len(f.groups)
            s == Pieces(f)
<1>0. n \in Nat /\ Len(s) = n /\ \A z \in 1 .. n : s[z] \in Seq(Snaps!Row)
  BY PiecesAre
<1>1. Len(h[g - 1]) \in Nat /\ j \in Nat /\ Len(h[g - 1]) + j <= Len(h[g])
  BY RowAt
<1>2. Len(h[v - 1]) \in Nat /\ k \in Nat /\ Len(h[v - 1]) + k <= Len(h[v]) /\ Len(h[v]) \in Nat
  BY RowAt
<1>3. g \in 1 .. n /\ v \in 1 .. n /\ Glues(h, s, n) /\ j >= 1
  OBVIOUS
<1>. HIDE DEF n, s
<1>4. ASSUME v < g PROVE FALSE
  <2>1. g - 1 \in 0 .. n /\ v \in 0 .. g - 1
    BY <1>0, <1>3, <1>4
  <2>2. GlueOf(h, s, g - 1)
    BY <1>0, <1>3, <2>1, GlueIs
  <2>3. Len(h[v]) <= Len(h[g - 1])
    BY <2>1, <2>2 DEF GlueOf
  <2>. QED
    BY <1>1, <1>2, <1>3, <2>3
<1>5. g = v => j <= k
  BY <1>1, <1>2
<1>. QED
  BY <1>0, <1>3, <1>4, <1>5

-----------------------------------------------------------------------------
(* The membership scan. *)

SnapsAnswer(t, d) ==
  LET E == {p \in DOMAIN d : d[p].err # None}
  IN  IF E # {} THEN d[Snaps!Min(E)]
      ELSE [err |-> None, rows |-> Joined([p \in 1 .. Len(t) |-> d[p].rows])]

\* Every read that ended returned its group, or failed.
ReadsTrue(f, q, t, d) ==
  /\ DOMAIN d \subseteq 1 .. Len(t)
  /\ \A p \in DOMAIN d : d[p] \in {ReadAs(f, q, t[p]), ReadFailure(t[p])}

\* The row the scan blames is the first of the file that it must refuse.
BlamedRight(f, st, a) ==
  st = "failed" /\ a.err.kind = "invalid_row" =>
    /\ a.err.at < Len(Snaps!AllRows(f))
    /\ Refused(Snaps!AllRows(f)[a.err.at + 1])
    /\ \A k \in 1 .. a.err.at : ~Refused(Snaps!AllRows(f)[k])

LEMMA ReadFailureIs ==
  ASSUME NEW g \in Nat
  PROVE  ReadFailure(g).err # None /\ ReadFailure(g).err.kind = "read"
<1>1. [kind |-> "read", at |-> g] # None
  BY ErrorsDiffer DEF Snaps!Kinds
<1>. QED
  BY <1>1 DEF ReadFailure

LEMMA MemberReadIs ==
  ASSUME NEW f \in Snaps!SnapFile, NEW g \in 1 .. Len(f.groups)
  PROVE  \/ RefusedIn(f, g) = {} /\ MemberRead(f, g) = [err |-> None, rows |-> f.groups[g].rows]
         \/ \E m \in RefusedIn(f, g) :
              /\ \A k \in RefusedIn(f, g) : m <= k
              /\ MemberRead(f, g).err = [kind |-> "invalid_row", at |-> Snaps!AbsoluteRowStart(f, g) + m - 1]
              /\ MemberRead(f, g).err # None
<1>1. CASE RefusedIn(f, g) = {}
  BY <1>1 DEF MemberRead
<1>2. CASE RefusedIn(f, g) # {}
  <2>. DEFINE E == RefusedIn(f, g)
              m == Snaps!Min(E)
              n == Snaps!AbsoluteRowStart(f, g)
  <2>1. n \in Nat
    BY RowStartExists
  <2>2. E \subseteq Nat /\ \A k \in E : k \in Nat /\ k >= 1
    BY DEF RefusedIn
  <2>3. MemberRead(f, g).err = [kind |-> "invalid_row", at |-> n + m - 1]
    BY <1>2 DEF MemberRead
  <2>. HIDE DEF E
  <2>4. m \in E /\ \A k \in E : m <= k
    BY <1>2, <2>2, SnapsMinIs DEF E
  <2>. HIDE DEF m, n
  <2>5. n + m - 1 \in Nat
    BY <2>1, <2>2, <2>4
  <2>6. [kind |-> "invalid_row", at |-> n + m - 1] # None
    BY <2>5, ErrorsDiffer DEF Snaps!Kinds
  <2>. QED
    BY <2>3, <2>4, <2>6 DEF E, n
<1>. QED
  BY <1>1, <1>2

Scanned(f, t, d) ==
  /\ t = Numbers(1 .. Len(f.groups), Len(f.groups))
  /\ ReadsTrue(f, None, t, d) /\ DOMAIN d = 1 .. Len(t)

LEMMA ScannedIs ==
  ASSUME NEW f \in Snaps!SnapFile, NEW t, NEW d, Scanned(f, t, d)
  PROVE  /\ Len(f.groups) \in Nat /\ Len(t) = Len(f.groups)
         /\ DOMAIN d = 1 .. Len(f.groups)
         /\ \A p \in 1 .. Len(f.groups) : d[p] \in {MemberRead(f, p), ReadFailure(p)}
         /\ \A p \in 1 .. Len(f.groups) :
              d[p].err = None => RefusedIn(f, p) = {} /\ d[p].rows = f.groups[p].rows
<1>. DEFINE n == Len(f.groups)
<1>1. n \in Nat
  BY PiecesAre
<1>2. t = Numbers(1 .. n, n)
  BY DEF Scanned
<1>3. t = [g \in 1 .. n |-> g]
  <2>. HIDE DEF n
  <2>. QED
    BY <1>1, <1>2, NumbersOfAll
<1>. HIDE DEF n
<1>4. Len(t) = n /\ \A p \in 1 .. n : t[p] = p
  BY <1>1, <1>3
<1>5. DOMAIN d = 1 .. n /\ \A p \in 1 .. n : d[p] \in {ReadAs(f, None, t[p]), ReadFailure(t[p])}
  BY <1>4 DEF Scanned, ReadsTrue
<1>6. ASSUME NEW p \in 1 .. n PROVE d[p] \in {MemberRead(f, p), ReadFailure(p)}
  BY <1>4, <1>5 DEF ReadAs
<1>7. ASSUME NEW p \in 1 .. n, d[p].err = None
      PROVE  RefusedIn(f, p) = {} /\ d[p].rows = f.groups[p].rows
  <2>1. p \in Nat
    OBVIOUS
  <2>2. d[p] = MemberRead(f, p)
    BY <1>6, <1>7, <2>1, ReadFailureIs
  <2>3. p \in 1 .. Len(f.groups)
    BY DEF n
  <2>4. RefusedIn(f, p) = {} /\ MemberRead(f, p) = [err |-> None, rows |-> f.groups[p].rows]
    <3>1. MemberRead(f, p).err = None
      BY <1>7, <2>2
    <3>. QED
      BY <2>3, <3>1, MemberReadIs, Zenon
  <2>. QED
    BY <2>2, <2>4
<1>. QED
  BY <1>1, <1>4, <1>5, <1>6, <1>7 DEF n

LEMMA MembersGather ==
  ASSUME NEW f \in Snaps!SnapFile, NEW t, NEW d, Scanned(f, t, d), SnapsAnswer(t, d).err = None
  PROVE  /\ SnapsAnswer(t, d).rows = Snaps!AllRows(f)
         /\ \A k \in 1 .. Len(Snaps!AllRows(f)) : ~Refused(Snaps!AllRows(f)[k])
<1>. DEFINE n == Len(f.groups)
            E == {p \in DOMAIN d : d[p].err # None}
            w == [p \in 1 .. Len(t) |-> d[p].rows]
<1>1. /\ n \in Nat /\ Len(t) = n /\ DOMAIN d = 1 .. n
      /\ \A p \in 1 .. n : d[p].err = None => RefusedIn(f, p) = {} /\ d[p].rows = f.groups[p].rows
  BY ScannedIs
<1>2. SnapsAnswer(t, d) = IF E # {} THEN d[Snaps!Min(E)] ELSE [err |-> None, rows |-> Joined(w)]
  BY DEF SnapsAnswer
<1>3. E = {}
  <2>1. ASSUME E # {} PROVE FALSE
    <3>1. E \subseteq Nat
      BY <1>1
    <3>2. Snaps!Min(E) \in E
      <4>. HIDE DEF E
      <4>. QED
        BY <2>1, <3>1, SnapsMinIs
    <3>3. SnapsAnswer(t, d) = d[Snaps!Min(E)]
      <4>. HIDE DEF E
      <4>. QED
        BY <1>2, <2>1
    <3>. QED
      BY <3>2, <3>3
  <2>. QED
    BY <2>1
<1>4. SnapsAnswer(t, d).rows = Joined(w)
  <2>. HIDE DEF w
  <2>. QED
    BY <1>2, <1>3
<1>5. \A p \in 1 .. n : d[p].err = None
  BY <1>1, <1>3
<1>6. w = Pieces(f)
  <2>. HIDE DEF n
  <2>1. Pieces(f) = [g \in 1 .. n |-> f.groups[g].rows]
    BY DEF Pieces, n
  <2>. QED
    BY <1>1, <1>5, <2>1
<1>7. ASSUME NEW k \in 1 .. Len(Snaps!AllRows(f)) PROVE ~Refused(Snaps!AllRows(f)[k])
  <2>1. PICK h : Glues(h, Pieces(f), n)
    BY <1>1, GluesExists
  <2>2. PICK g \in 1 .. n : \E j \in 1 .. Len(f.groups[g].rows) : k = Len(h[g - 1]) + j
    <3>1. Placed(f, h, k)
      BY <2>1, RowFrom
    <3>. QED
      BY <3>1 DEF Placed
  <2>3. PICK j \in 1 .. Len(f.groups[g].rows) : k = Len(h[g - 1]) + j
    BY <2>2
  <2>4. Snaps!AllRows(f)[k] = f.groups[g].rows[j]
    BY <2>1, <2>3, RowAt
  <2>5. RefusedIn(f, g) = {}
    BY <1>1, <1>5
  <2>. QED
    BY <2>4, <2>5 DEF RefusedIn
<1>. QED
  BY <1>4, <1>6, <1>7, AllRowsAre

LEMMA MembersBlame ==
  ASSUME NEW f \in Snaps!SnapFile, NEW t, NEW d, Scanned(f, t, d), SnapsAnswer(t, d).err # None
  PROVE  BlamedRight(f, "failed", SnapsAnswer(t, d))
<1>. DEFINE n == Len(f.groups)
            E == {p \in DOMAIN d : d[p].err # None}
            u == Snaps!Min(E)
            A == Snaps!AllRows(f)
            bad(e) == /\ e.at < Len(A) /\ Refused(A[e.at + 1])
                      /\ \A k \in 1 .. e.at : ~Refused(A[k])
<1>1. /\ n \in Nat /\ Len(t) = n /\ DOMAIN d = 1 .. n
      /\ \A p \in 1 .. n : d[p] \in {MemberRead(f, p), ReadFailure(p)}
      /\ \A p \in 1 .. n : d[p].err = None => RefusedIn(f, p) = {} /\ d[p].rows = f.groups[p].rows
  BY ScannedIs
<1>2. E # {} /\ SnapsAnswer(t, d) = d[u]
  BY DEF SnapsAnswer
<1>3. E \subseteq 1 .. n /\ E \subseteq Nat
  BY <1>1
<1>4. u \in E /\ \A p \in E : u <= p
  <2>. HIDE DEF E
  <2>. QED
    BY <1>2, <1>3, SnapsMinIs
<1>5. u \in 1 .. n /\ d[u].err # None /\ \A p \in 1 .. n : p < u => d[p].err = None
  <2>1. ASSUME NEW p \in 1 .. n, p < u PROVE d[p].err = None
    <3>1. u \in Nat /\ p \in Nat /\ (p \in E => u <= p)
      BY <1>3, <1>4
    <3>2. p \notin E
      <4>. HIDE DEF E, u
      <4>. QED
        BY <2>1, <3>1
    <3>. QED
      BY <1>1, <3>2
  <2>. QED
    BY <1>3, <1>4, <2>1
<1>. HIDE DEF u, E
<1>6. SUFFICES ASSUME d[u].err.kind = "invalid_row" PROVE bad(d[u].err)
  BY <1>2 DEF BlamedRight
<1>7. d[u] = MemberRead(f, u)
  <2>1. u \in Nat
    BY <1>5
  <2>. QED
    BY <1>1, <1>5, <1>6, <2>1, ReadFailureIs
<1>8. PICK m \in RefusedIn(f, u) :
        /\ \A k \in RefusedIn(f, u) : m <= k
        /\ d[u].err = [kind |-> "invalid_row", at |-> Snaps!AbsoluteRowStart(f, u) + m - 1]
  BY <1>5, <1>7, MemberReadIs
<1>9. PICK h : Glues(h, Pieces(f), n)
  BY <1>1, GluesExists
<1>10. m \in 1 .. Len(f.groups[u].rows) /\ Refused(f.groups[u].rows[m])
  BY DEF RefusedIn
<1>. DEFINE b == Len(h[u - 1])
            x == d[u].err.at
<1>11. /\ b \in Nat /\ m \in Nat /\ m >= 1 /\ b + m \in 1 .. Len(A)
       /\ A[b + m] = f.groups[u].rows[m]
  <2>1. m \in Nat /\ m >= 1
    BY <1>10
  <2>2. /\ Len(h[u - 1]) \in Nat /\ Len(h[u - 1]) + m \in 1 .. Len(Snaps!AllRows(f))
        /\ Snaps!AllRows(f)[Len(h[u - 1]) + m] = f.groups[u].rows[m]
    BY <1>5, <1>9, <1>10, RowAt, Zenon
  <2>. QED
    BY <2>1, <2>2
<1>12. x = b + m - 1
  BY <1>5, <1>8, <1>9, RowStartIs
<1>13. Len(A) \in Nat
  BY AllRowsAre, LenProperties
<1>. HIDE DEF x, A
<1>14. x \in Nat /\ x + 1 = b + m /\ x < Len(A)
  <2>. HIDE DEF b
  <2>. QED
    BY <1>11, <1>12, <1>13
<1>15. Refused(A[x + 1])
  BY <1>10, <1>11, <1>14
<1>16. ASSUME NEW k \in 1 .. x, Refused(A[k]) PROVE FALSE
  <2>1. k \in 1 .. Len(A) /\ k <= x
    BY <1>13, <1>14
  <2>2. PICK g \in 1 .. n : \E j \in 1 .. Len(f.groups[g].rows) : k = Len(h[g - 1]) + j
    <3>1. Placed(f, h, k)
      BY <1>9, <2>1, RowFrom DEF A
    <3>. QED
      BY <3>1 DEF Placed
  <2>3. PICK j \in 1 .. Len(f.groups[g].rows) : k = Len(h[g - 1]) + j
    BY <2>2
  <2>4. Len(h[g - 1]) \in Nat /\ j \in Nat /\ A[k] = f.groups[g].rows[j]
    BY <1>9, <2>3, RowAt DEF A
  <2>5. Len(h[g - 1]) + j <= Len(h[u - 1]) + m
    <3>1. k <= b + m
      <4>. HIDE DEF b
      <4>. QED
        BY <1>11, <1>14, <2>1
    <3>. QED
      BY <2>3, <3>1
  <2>6. g <= u /\ (g = u => j <= m)
    BY <1>5, <1>9, <1>10, <2>5, PlacesOrdered
  <2>7. j \in RefusedIn(f, g)
    BY <1>16, <2>4 DEF RefusedIn
  <2>8. CASE g = u
    <3>1. j = m
      BY <1>8, <1>11, <2>4, <2>6, <2>7, <2>8
    <3>2. k = b + m
      BY <2>3, <2>8, <3>1
    <3>. HIDE DEF b
    <3>. QED
      BY <1>11, <1>14, <2>1, <3>2
  <2>9. CASE g # u
    <3>1. g < u
      BY <1>5, <2>6, <2>9
    <3>2. RefusedIn(f, g) = {}
      BY <1>1, <1>5, <3>1
    <3>. QED
      BY <2>7, <3>2
  <2>. QED
    BY <2>8, <2>9
<1>. QED
  BY <1>14, <1>15, <1>16 DEF x

-----------------------------------------------------------------------------
(***************************************************************************)
(* The inductive invariant of the snap store: where the open and the query *)
(* are, the reads in flight, and what was answered.  The reads of a query  *)
(* are of the groups that match its box (Asked), each of them that ended   *)
(* gave the rows of its group or failed (ReadsTrue), and a membership      *)
(* store answers no query before its scan has ended (Loaded).              *)
(***************************************************************************)
Asked(f, bx, q) ==
  IF q = None THEN Numbers(1 .. Len(f.groups), Len(f.groups))
  ELSE Numbers(Snaps!Matching(bx, q), Len(bx))

TargetsRight(f, st, q, a) ==
  st = "open" /\ q # None /\ a.err = None => Sound(Snaps!AllRows(f), a.rows, Due(f, q), Fit(f, q))

RefsOf(s) == [k \in 1 .. Len(s) |-> [id |-> s[k].id, unit |-> s[k].unit]]

RefsRight(f, m, rf) ==
  rf # None =>
    /\ m = "membership" /\ rf = RefsOf(Snaps!AllRows(f))
    /\ \A k \in 1 .. Len(Snaps!AllRows(f)) : ~Refused(Snaps!AllRows(f)[k])

Loaded(m, st, rf, q) ==
  /\ (st = "open" \/ q # None) /\ m = "membership" => rf # None
  /\ st = "head" => rf = None /\ q = None
  /\ st = "failed" => q = None
  /\ st = "reading" /\ q = None => m = "membership"

SnapsSo(f, m, st, bx, rf, q, t, d, a) ==
  /\ f \in SnapFiles /\ m \in {"lazy", "membership"} /\ (q # None => q \in SnapBoxes)
  /\ Loaded(m, st, rf, q)
  /\ st = "head" => d = <<>>
  /\ st \in {"reading", "open"} => bx = Snaps!GroupBoxes(f)
  /\ st = "reading" => t = Asked(f, bx, q) /\ ReadsTrue(f, q, t, d)
  /\ RefsRight(f, m, rf) /\ TargetsRight(f, st, q, a) /\ BlamedRight(f, st, a)

SnapsInv == SnapsSo(file, mode, stage, boxes, refs, query, todo, done, answer)

LEMMA SnapsTypes ==
  /\ \A f \in SnapFiles : f \in Snaps!SnapFile
  /\ \A b \in SnapBoxes : b \in Snaps!Rect /\ b # None
  /\ \A w \in Seq([id : Nat, unit : Nat]) : w # None
<1>1. /\ \A f \in SnapFiles : f \in Snaps!SnapFile
      /\ \A b \in SnapBoxes : b \in Snaps!Rect
      /\ None \notin Snaps!Rect /\ None \notin Seq([id : Nat, unit : Nat])
  BY SnapsAssumption DEF Snaps!SnapStoreAssumption
<1>. QED
  BY <1>1

LEMMA RefsOfIs ==
  ASSUME NEW s \in Seq(Snaps!Row)
  PROVE  RefsOf(s) # None
<1>1. Len(s) \in Nat /\ \A k \in 1 .. Len(s) : s[k].id \in Nat /\ s[k].unit \in Nat
  <2>1. Len(s) \in Nat /\ \A k \in 1 .. Len(s) : s[k] \in Snaps!Row
    BY SeqElements
  <2>2. ASSUME NEW r \in Snaps!Row PROVE r.id \in Nat /\ r.unit \in Nat
    BY DEF Snaps!Row
  <2>. QED
    BY <2>1, <2>2
<1>2. RefsOf(s) \in [1 .. Len(s) -> [id : Nat, unit : Nat]]
  BY <1>1 DEF RefsOf
<1>. DEFINE X == [id : Nat, unit : Nat]
            w == RefsOf(s)
            n == Len(s)
<1>3. w \in Seq(X)
  <2>1. w \in [1 .. n -> X] /\ n \in Nat
    BY <1>1, <1>2
  <2>. HIDE DEF X, w, n
  <2>. QED
    BY <2>1, SeqDef
<1>. QED
  BY <1>3, SnapsTypes

LEMMA ErrorIs ==
  ASSUME NEW kind \in Snaps!Kinds
  PROVE  Snaps!Error(kind).err # None /\ Snaps!Error(kind).err.kind = kind
<1>1. [kind |-> kind, at |-> None] # None
  BY ErrorsDiffer
<1>. QED
  BY <1>1 DEF Snaps!Error

LEMMA SnapsMembership ==
  ASSUME NEW g
  PROVE  Snaps!Membership(g) = MemberRead(file, g)
BY DEF Snaps!Membership, MemberRead, RefusedIn, Refused

LEMMA SnapsCollected == Snaps!Collected = SnapsAnswer(todo, done)
BY SnapsJoined DEF Snaps!Collected, SnapsAnswer

LEMMA SnapsBegin ==
  ASSUME Snaps!Init
  PROVE  SnapsInv
<1>1. /\ file \in SnapFiles /\ mode \in {"lazy", "membership"} /\ stage = "head"
      /\ refs = None /\ query = None /\ done = <<>>
  BY DEF Snaps!Init
<1>. QED
  BY <1>1 DEF SnapsInv, SnapsSo, Loaded, RefsRight, TargetsRight, BlamedRight

LEMMA SnapsOpen ==
  ASSUME SnapsInv, Snaps!OpenFails \/ Snaps!OpenObject
  PROVE  SnapsInv'
<1>1. CASE Snaps!OpenFails
  <2>1. /\ stage = "head" /\ stage' = "failed" /\ file' = file /\ mode' = mode /\ boxes' = boxes
        /\ refs' = refs /\ query' = query /\ todo' = todo /\ done' = done
    BY <1>1 DEF Snaps!OpenFails
  <2>2. \E kind \in {"io", "parse", "schema"} : answer' = Snaps!Error(kind)
    BY <1>1 DEF Snaps!OpenFails
  <2>3. answer'.err.kind # "invalid_row"
    <3>1. PICK kind \in {"io", "parse", "schema"} : answer' = Snaps!Error(kind)
      BY <2>2
    <3>2. kind \in Snaps!Kinds
      BY DEF Snaps!Kinds
    <3>. QED
      BY <3>1, <3>2, ErrorIs
  <2>4. refs = None /\ query = None
    BY <2>1 DEF SnapsInv, SnapsSo, Loaded
  <2>5. SnapsSo(file', mode', stage', boxes', refs', query', todo', done', answer')
    BY <2>1, <2>3, <2>4 DEF SnapsInv, SnapsSo, Loaded, RefsRight, TargetsRight, BlamedRight
  <2>. QED
    BY <2>5 DEF SnapsInv
<1>2. CASE Snaps!OpenObject
  <2>1. /\ stage = "head" /\ file' = file /\ mode' = mode /\ boxes' = Snaps!GroupBoxes(file)
        /\ refs' = refs /\ query' = query /\ done' = done /\ answer' = answer
    BY <1>2 DEF Snaps!OpenObject
  <2>2. refs = None /\ query = None /\ done = <<>> /\ mode \in {"lazy", "membership"}
    BY <2>1 DEF SnapsInv, SnapsSo, Loaded
  <2>3. CASE mode = "lazy"
    <3>1. stage' = "open"
      BY <1>2, <2>3 DEF Snaps!OpenObject
    <3>2. SnapsSo(file', mode', stage', boxes', refs', query', todo', done', answer')
      BY <2>1, <2>2, <2>3, <3>1 DEF SnapsInv, SnapsSo, Loaded, RefsRight, TargetsRight, BlamedRight
    <3>. QED
      BY <3>2 DEF SnapsInv
  <2>4. CASE mode = "membership"
    <3>1. stage' = "reading" /\ todo' = Snaps!InOrder(1 .. Len(file.groups), Len(file.groups))
      BY <1>2, <2>4 DEF Snaps!OpenObject
    <3>2. todo' = Asked(file', boxes', query')
      BY <2>1, <2>2, <3>1, SnapsInOrder DEF Asked
    <3>3. ReadsTrue(file', query', todo', done')
      <4>1. DOMAIN <<>> = {}
        OBVIOUS
      <4>. QED
        BY <2>1, <2>2, <4>1 DEF ReadsTrue
    <3>4. SnapsSo(file', mode', stage', boxes', refs', query', todo', done', answer')
      BY <2>1, <2>2, <2>4, <3>1, <3>2, <3>3 DEF SnapsInv, SnapsSo, Loaded, RefsRight, TargetsRight, BlamedRight
    <3>. QED
      BY <3>4 DEF SnapsInv
  <2>. QED
    BY <2>2, <2>3, <2>4
<1>. QED
  BY <1>1, <1>2

LEMMA SnapsQuery ==
  ASSUME SnapsInv, NEW b \in SnapBoxes, Snaps!Query(b)
  PROVE  SnapsInv'
<1>1. /\ stage = "open" /\ query' = b /\ done' = <<>> /\ file' = file /\ mode' = mode
      /\ boxes' = boxes /\ refs' = refs
      /\ todo' = Snaps!InOrder(Snaps!Matching(boxes, b), Len(boxes))
  BY DEF Snaps!Query
<1>2. \/ stage' = "reading"
      \/ stage' = "open" /\ answer' = Snaps!Error("parse")
      \/ stage' = "open" /\ answer' = Snaps!NoAnswer /\ Snaps!Matching(boxes, b) = {}
  BY DEF Snaps!Query
<1>3. /\ file \in Snaps!SnapFile /\ b \in Snaps!Rect /\ b # None /\ boxes = Snaps!GroupBoxes(file)
      /\ mode = "membership" => refs # None
  BY <1>1, SnapsTypes DEF SnapsInv, SnapsSo, Loaded
<1>4. todo' = Asked(file', boxes', query')
  BY <1>1, <1>3, SnapsInOrder DEF Asked
<1>5. ReadsTrue(file', query', todo', done')
  <2>1. DOMAIN <<>> = {}
    OBVIOUS
  <2>. QED
    BY <1>1, <2>1 DEF ReadsTrue
<1>6. TargetsRight(file', stage', query', answer')
  <2>1. CASE stage' = "reading"
    BY <2>1 DEF TargetsRight
  <2>2. CASE answer' = Snaps!Error("parse")
    <3>1. answer'.err # None
      BY <2>2, ErrorIs DEF Snaps!Kinds
    <3>. QED
      BY <3>1 DEF TargetsRight
  <2>3. CASE answer' = Snaps!NoAnswer /\ Snaps!Matching(boxes, b) = {}
    <3>. DEFINE V == Snaps!Matching(Snaps!GroupBoxes(file), b)
                n == Len(Snaps!GroupBoxes(file))
                t == Numbers(V, n)
                d == [p \in {} |-> 0]
    <3>1. V = {} /\ answer'.rows = <<>>
      BY <1>3, <2>3 DEF Snaps!NoAnswer
    <3>2. n \in Nat
      <4>1. Len(file.groups) \in Nat
        BY <1>3, PiecesAre
      <4>. QED
        BY <4>1 DEF Snaps!GroupBoxes
    <3>. HIDE DEF V, n
    <3>3. t \in Seq(Nat) /\ \A p \in 1 .. Len(t) : t[p] \in V
      BY <3>2, NumbersOrdered DEF Ordered
    <3>. HIDE DEF t
    <3>4. 1 .. Len(t) = {} /\ Len(t) = 0
      <4>1. Len(t) \in Nat /\ 1 .. Len(t) = {}
        BY <3>1, <3>3, LenProperties
      <4>. QED
        BY <4>1
    <3>5. Sound(Snaps!AllRows(file), Joined([p \in 1 .. Len(t) |-> d[p].rows]), Due(file, b), Fit(file, b))
      BY <1>3, <3>4, QueryGathers DEF t, V, n
    <3>6. Joined([p \in 1 .. Len(t) |-> d[p].rows]) = <<>>
      <4>1. Mapped(<<>>, d) = [p \in 1 .. Len(t) |-> d[p].rows]
        <5>1. 1 .. Len(<<>>) = {}
          BY EmptySeq
        <5>. QED
          BY <3>4, <5>1 DEF Mapped
      <4>. QED
        BY <4>1, JoinedEmpty
    <3>7. Sound(Snaps!AllRows(file), answer'.rows, Due(file, b), Fit(file, b))
      BY <3>1, <3>5, <3>6
    <3>. QED
      BY <1>1, <3>7 DEF TargetsRight
  <2>. QED
    BY <1>2, <2>1, <2>2, <2>3
<1>7. SnapsSo(file', mode', stage', boxes', refs', query', todo', done', answer')
  BY <1>1, <1>2, <1>3, <1>4, <1>5, <1>6 DEF SnapsInv, SnapsSo, Loaded, RefsRight, BlamedRight
<1>. QED
  BY <1>7 DEF SnapsInv

LEMMA SnapsRead ==
  ASSUME SnapsInv, NEW p \in 1 .. Len(todo), Snaps!ReadGroup(p)
  PROVE  SnapsInv'
<1>1. /\ stage = "reading" /\ stage' = stage /\ file' = file /\ mode' = mode /\ boxes' = boxes
      /\ refs' = refs /\ query' = query /\ todo' = todo /\ answer' = answer
  BY DEF Snaps!ReadGroup
<1>. DEFINE A == IF query = None THEN Snaps!Membership(todo[p])
                 ELSE Snaps!Extract(file, [by |-> "bbox", box |-> query],
                            file.groups[todo[p]].rows, Snaps!AbsoluteRowStart(file, todo[p]))
            B == [err |-> [kind |-> "read", at |-> todo[p]], rows |-> <<>>]
<1>2. \E r \in {A, B} : done' = [k \in DOMAIN done \cup {p} |-> IF k = p THEN r ELSE done[k]]
  BY DEF Snaps!ReadGroup, Snaps!Scanning
<1>3. A = ReadAs(file, query, todo[p]) /\ B = ReadFailure(todo[p])
  BY SnapsMembership DEF ReadAs, QueryRead, ReadFailure
<1>. HIDE DEF A, B
<1>4. PICK r \in {A, B} : done' = [k \in DOMAIN done \cup {p} |-> IF k = p THEN r ELSE done[k]]
  BY <1>2
<1>5. ReadsTrue(file, query, todo, done)
  BY <1>1 DEF SnapsInv, SnapsSo
<1>6. ReadsTrue(file', query', todo', done')
  <2>1. DOMAIN done' = DOMAIN done \cup {p} /\ DOMAIN done' \subseteq 1 .. Len(todo)
    BY <1>4, <1>5 DEF ReadsTrue
  <2>2. ASSUME NEW k \in DOMAIN done'
        PROVE  done'[k] \in {ReadAs(file, query, todo[k]), ReadFailure(todo[k])}
    <3>1. CASE k = p
      BY <1>3, <1>4, <3>1
    <3>2. CASE k # p
      BY <1>4, <1>5, <2>1, <3>2 DEF ReadsTrue
    <3>. QED
      BY <3>1, <3>2
  <2>3. ReadsTrue(file, query, todo, done')
    BY <2>1, <2>2 DEF ReadsTrue
  <2>. QED
    BY <1>1, <2>3
<1>7. SnapsSo(file', mode', stage', boxes', refs', query', todo', done', answer')
  BY <1>1, <1>6 DEF SnapsInv, SnapsSo, BlamedRight, TargetsRight
<1>. QED
  BY <1>7 DEF SnapsInv

LEMMA SnapsCollectMembership ==
  ASSUME SnapsInv, Snaps!CollectMembership
  PROVE  SnapsInv'
<1>. DEFINE a == SnapsAnswer(todo, done)
<1>1. /\ stage = "reading" /\ query = None /\ DOMAIN done = 1 .. Len(todo)
      /\ file' = file /\ mode' = mode /\ boxes' = boxes /\ query' = query /\ done' = <<>>
  BY DEF Snaps!CollectMembership, Snaps!Scanning
<1>2. IF a.err = None
        THEN /\ refs' = [k \in 1 .. Len(a.rows) |-> [id |-> a.rows[k].id, unit |-> a.rows[k].unit]]
             /\ stage' = "open" /\ answer' = answer
        ELSE stage' = "failed" /\ answer' = a /\ refs' = refs
  BY SnapsCollected DEF Snaps!CollectMembership
<1>3. /\ file \in SnapFiles /\ file \in Snaps!SnapFile /\ mode = "membership"
      /\ boxes = Snaps!GroupBoxes(file) /\ RefsRight(file, mode, refs)
  BY <1>1, SnapsTypes DEF SnapsInv, SnapsSo, Loaded
<1>4. Scanned(file, todo, done)
  BY <1>1 DEF SnapsInv, SnapsSo, Asked, Scanned
<1>. HIDE DEF a
<1>5. CASE a.err = None
  <2>1. a.rows = Snaps!AllRows(file) /\ \A k \in 1 .. Len(Snaps!AllRows(file)) : ~Refused(Snaps!AllRows(file)[k])
    BY <1>3, <1>4, <1>5, MembersGather DEF a
  <2>2. refs' = RefsOf(Snaps!AllRows(file)) /\ stage' = "open" /\ answer' = answer
    BY <1>2, <1>5, <2>1 DEF RefsOf
  <2>3. refs' # None
    BY <1>3, <2>2, AllRowsAre, RefsOfIs
  <2>4. RefsRight(file', mode', refs')
    BY <1>1, <1>3, <2>1, <2>2 DEF RefsRight
  <2>5. SnapsSo(file', mode', stage', boxes', refs', query', todo', done', answer')
    BY <1>1, <1>3, <2>2, <2>3, <2>4 DEF SnapsSo, Loaded, TargetsRight, BlamedRight
  <2>. QED
    BY <2>5 DEF SnapsInv
<1>6. CASE a.err # None
  <2>1. stage' = "failed" /\ answer' = a /\ refs' = refs
    BY <1>2, <1>6
  <2>2. BlamedRight(file, "failed", a)
    BY <1>3, <1>4, <1>6, MembersBlame DEF a
  <2>3. SnapsSo(file', mode', stage', boxes', refs', query', todo', done', answer')
    BY <1>1, <1>3, <2>1, <2>2 DEF SnapsSo, Loaded, TargetsRight
  <2>. QED
    BY <2>3 DEF SnapsInv
<1>. QED
  BY <1>5, <1>6

LEMMA SnapsCollectRows ==
  ASSUME SnapsInv, Snaps!CollectRows
  PROVE  SnapsInv'
<1>. DEFINE a == SnapsAnswer(todo, done)
            E == {p \in DOMAIN done : done[p].err # None}
<1>1. /\ stage = "reading" /\ query # None /\ DOMAIN done = 1 .. Len(todo) /\ stage' = "open"
      /\ file' = file /\ mode' = mode /\ boxes' = boxes /\ query' = query /\ refs' = refs
      /\ answer' = a
  BY SnapsCollected DEF Snaps!CollectRows, Snaps!Scanning
<1>2. /\ file \in SnapFiles /\ file \in Snaps!SnapFile /\ query \in Snaps!Rect
      /\ boxes = Snaps!GroupBoxes(file) /\ todo = Asked(file, boxes, query)
      /\ ReadsTrue(file, query, todo, done)
  BY <1>1, SnapsTypes DEF SnapsInv, SnapsSo
<1>3. todo = Numbers(Snaps!Matching(Snaps!GroupBoxes(file), query), Len(Snaps!GroupBoxes(file)))
  BY <1>1, <1>2 DEF Asked
<1>4. ASSUME a.err = None
      PROVE  Sound(Snaps!AllRows(file), a.rows, Due(file, query), Fit(file, query))
  <2>0. E \subseteq Nat
    BY <1>1
  <2>1. a = IF E # {} THEN done[Snaps!Min(E)]
            ELSE [err |-> None, rows |-> Joined([p \in 1 .. Len(todo) |-> done[p].rows])]
    BY DEF SnapsAnswer
  <2>2. ASSUME E # {} PROVE FALSE
    <3>1. Snaps!Min(E) \in E
      <4>. HIDE DEF E
      <4>. QED
        BY <2>0, <2>2, SnapsMinIs
    <3>2. a = done[Snaps!Min(E)]
      <4>. HIDE DEF E, a
      <4>. QED
        BY <2>1, <2>2
    <3>. HIDE DEF a
    <3>. QED
      BY <1>4, <3>1, <3>2
  <2>3. \A p \in 1 .. Len(todo) : done[p].err = None
    BY <1>1, <2>2
  <2>4. ASSUME NEW p \in 1 .. Len(todo) PROVE done[p] = QueryRead(file, query, todo[p])
    <3>1. done[p] \in {QueryRead(file, query, todo[p]), ReadFailure(todo[p])}
      BY <1>1, <1>2 DEF ReadsTrue, ReadAs
    <3>2. todo[p] \in Nat
      <4>1. Len(Snaps!GroupBoxes(file)) \in Nat
        <5>1. Len(file.groups) \in Nat
          BY <1>2, PiecesAre
        <5>. QED
          BY <5>1 DEF Snaps!GroupBoxes
      <4>2. todo \in Seq(Nat)
        BY <1>3, <4>1, NumbersOrdered DEF Ordered
      <4>. QED
        BY <4>2, SeqElements
    <3>. QED
      BY <2>3, <3>1, <3>2, ReadFailureIs
  <2>5. a.rows = Joined([p \in 1 .. Len(todo) |-> done[p].rows])
    <3>. HIDE DEF E, a
    <3>. QED
      BY <2>1, <2>2
  <2>6. \A p \in 1 .. Len(todo) : done[p] = QueryRead(file, query, todo[p]) /\ done[p].err = None
    BY <2>3, <2>4
  <2>7. Sound(Snaps!AllRows(file), Joined([p \in 1 .. Len(todo) |-> done[p].rows]), Due(file, query), Fit(file, query))
    BY <1>2, <1>3, <2>6, QueryGathers
  <2>. HIDE DEF a
  <2>. QED
    BY <2>5, <2>7
<1>. HIDE DEF a
<1>5. TargetsRight(file', stage', query', answer')
  BY <1>1, <1>4 DEF TargetsRight
<1>6. SnapsSo(file', mode', stage', boxes', refs', query', todo', done', answer')
  BY <1>1, <1>2, <1>5 DEF SnapsInv, SnapsSo, Loaded, BlamedRight
<1>. QED
  BY <1>6 DEF SnapsInv

LEMMA SnapsRefs ==
  ASSUME SnapsInv, Snaps!ReadRefs
  PROVE  SnapsInv'
<1>1. /\ stage = "open" /\ query = None /\ stage' = stage /\ file' = file /\ mode' = mode
      /\ boxes' = boxes /\ refs' = refs /\ query' = query /\ todo' = todo /\ done' = done
  BY DEF Snaps!ReadRefs
<1>2. SnapsSo(file', mode', stage', boxes', refs', query', todo', done', answer')
  BY <1>1 DEF SnapsInv, SnapsSo, TargetsRight, BlamedRight
<1>. QED
  BY <1>2 DEF SnapsInv

LEMMA SnapsStep ==
  ASSUME SnapsInv, Snaps!Next
  PROVE  SnapsInv'
<1>1. \/ Snaps!OpenFails \/ Snaps!OpenObject
      \/ \E b \in SnapBoxes : Snaps!Query(b)
      \/ \E p \in 1 .. Len(todo) : Snaps!ReadGroup(p)
      \/ Snaps!CollectMembership \/ Snaps!CollectRows \/ Snaps!ReadRefs
  BY DEF Snaps!Next
<1>. QED
  BY <1>1, SnapsOpen, SnapsQuery, SnapsRead, SnapsCollectMembership, SnapsCollectRows, SnapsRefs

LEMMA SnapsInvExact ==
  ASSUME SnapsInv
  PROVE  Snaps!SnapAnswersExact
<1>1. file \in Snaps!SnapFile /\ TargetsRight(file, stage, query, answer)
      /\ RefsRight(file, mode, refs) /\ Loaded(mode, stage, refs, query) /\ BlamedRight(file, stage, answer)
  BY SnapsTypes DEF SnapsInv, SnapsSo
<1>. DEFINE rows == Snaps!AllRows(file)
            H == {k \in 1 .. Len(rows) : Snaps!Intersects(Snaps!RowBbox(file, rows[k]), query)}
            W == {k \in 1 .. Len(rows) : Snaps!Intersects(Snaps!RawBbox(file, rows[k]), query)}
<1>2. Snaps!NoTargetMissed <=>
        (stage = "open" /\ query # None /\ answer.err = None =>
           \E P \in SUBSET H : W \subseteq P /\ answer.rows = Picked(rows, P))
  BY SnapsPicked DEF Snaps!NoTargetMissed, Snaps!Answered
<1>3. \A k \in 1 .. Len(rows) : rows[k] \in Snaps!Row
  BY <1>1, AllRowsAre, SeqElements
<1>4. ASSUME stage = "open", query # None, answer.err = None
      PROVE  \E P \in SUBSET H : W \subseteq P /\ answer.rows = Picked(rows, P)
  <2>1. Sound(rows, answer.rows, Due(file, query), Fit(file, query))
    BY <1>1, <1>4 DEF TargetsRight
  <2>. HIDE DEF rows
  <2>2. PICK P \in SUBSET (1 .. Len(rows)) :
          /\ \A k \in 1 .. Len(rows) : rows[k] \in Due(file, query) => k \in P
          /\ \A k \in P : rows[k] \in Fit(file, query)
          /\ answer.rows = Picked(rows, P)
    BY <2>1 DEF Sound
  <2>3. P \in SUBSET H
    BY <2>2 DEF Fit
  <2>4. W \subseteq P
    BY <1>3, <2>2 DEF Due
  <2>. QED
    BY <2>2, <2>3, <2>4
<1>5. Snaps!NoTargetMissed
  <2>. HIDE DEF H, W, rows
  <2>. QED
    BY <1>2, <1>4
<1>6. Snaps!MembershipExact
  <2>1. ASSUME refs # None
        PROVE  /\ mode = "membership"
               /\ refs = [k \in 1 .. Len(Snaps!AllRows(file)) |->
                            [id |-> Snaps!AllRows(file)[k].id, unit |-> Snaps!AllRows(file)[k].unit]]
               /\ \A k \in 1 .. Len(Snaps!AllRows(file)) : Snaps!AllRows(file)[k].bad \cap {"null", "id", "unit"} = {}
    BY <1>1, <2>1 DEF RefsRight, RefsOf, Refused
  <2>2. stage = "open" /\ mode = "membership" => refs # None
    BY <1>1 DEF Loaded
  <2>3. ASSUME stage = "failed", answer.err.kind = "invalid_row"
        PROVE  /\ answer.err.at < Len(Snaps!AllRows(file))
               /\ Snaps!AllRows(file)[answer.err.at + 1].bad \cap {"null", "id", "unit"} # {}
               /\ \A k \in 1 .. answer.err.at : Snaps!AllRows(file)[k].bad \cap {"null", "id", "unit"} = {}
    BY <1>1, <2>3 DEF BlamedRight, Refused
  <2>. HIDE DEF rows
  <2>. QED
    BY <2>1, <2>2, <2>3 DEF Snaps!MembershipExact
<1>. QED
  BY <1>5, <1>6 DEF Snaps!SnapAnswersExact

\* The store over snap.parquet, for any file, any boxes and any number of reads
\* in flight: a query that succeeds returns, in file order and once each, rows
\* whose box meets the query, and every row whose box meets it before padding;
\* the membership of a store is that of every row in file order, and a scan that
\* refuses a file blames its first bad row (query_by_bbox and
\* read_all_snap_membership_refs, snap_store.rs).
THEOREM SnapAnswersExactHolds == MCSpec => []SnapAnswersExact
<1>. DEFINE all == <<part, vars, snaps, listing, staged, source, stages>>
            Kept == (part = "snaps") => SnapsInv
<1>1. MCInit => Kept
  BY SnapsBegin DEF MCInit
<1>2. Kept /\ [MCNext]_all => Kept'
  <2>. SUFFICES ASSUME Kept, [MCNext]_all, part' = "snaps" PROVE SnapsInv'
    OBVIOUS
  <2>1. part = "snaps" /\ (Snaps!Next \/ UNCHANGED snaps)
    BY DEF MCNext
  <2>2. CASE Snaps!Next
    BY <2>1, <2>2, SnapsStep
  <2>3. CASE UNCHANGED snaps
    BY <2>1, <2>3 DEF snaps, SnapsInv
  <2>. QED
    BY <2>1, <2>2, <2>3
<1>3. Kept => SnapAnswersExact
  BY SnapsInvExact DEF SnapAnswersExact
<1>. QED
  BY <1>1, <1>2, <1>3, PTL DEF MCSpec

-----------------------------------------------------------------------------
(* What is kept of a sequence, element by element and piece by piece. *)

\* The elements of s that are in A, in order.
Only(s, A) == Picked(s, {k \in 1 .. Len(s) : s[k] \in A})

\* The first m elements of s.
FirstOf(s, m) == [k \in 1 .. m |-> s[k]]

LEMMA FirstOfIs ==
  ASSUME NEW S, NEW s \in Seq(S), NEW m \in 0 .. Len(s)
  PROVE  FirstOf(s, m) \in Seq(S) /\ Len(FirstOf(s, m)) = m /\ \A k \in 1 .. m : FirstOf(s, m)[k] = s[k]
<1>1. Len(s) \in Nat /\ \A k \in 1 .. Len(s) : s[k] \in S
  BY SeqElements
<1>2. m \in Nat /\ \A k \in 1 .. m : k \in 1 .. Len(s)
  BY <1>1
<1>3. FirstOf(s, m) \in [1 .. m -> S]
  BY <1>1, <1>2 DEF FirstOf
<1>4. FirstOf(s, m) \in Seq(S)
  BY <1>2, <1>3, SeqDef
<1>5. Len(FirstOf(s, m)) = m
  BY <1>2 DEF FirstOf
<1>. QED
  BY <1>4, <1>5 DEF FirstOf

LEMMA FirstOfAll ==
  ASSUME NEW S, NEW s \in Seq(S)
  PROVE  FirstOf(s, Len(s)) = s
<1>1. s = [k \in 1 .. Len(s) |-> s[k]]
  BY LenProperties
<1>. QED
  BY <1>1 DEF FirstOf

LEMMA OnlySeq ==
  ASSUME NEW S, NEW s \in Seq(S), NEW A
  PROVE  Only(s, A) \in Seq(S)
BY PickedSeq DEF Only

LEMMA OnlyNothing ==
  ASSUME NEW A
  PROVE  Only(<<>>, A) = <<>>
<1>1. Len(<<>>) = 0 /\ 1 .. 0 = {}
  BY EmptySeq
<1>. QED
  BY <1>1, PickedNothing DEF Only

LEMMA OnlyConcat ==
  ASSUME NEW S, NEW a \in Seq(S), NEW b \in Seq(S), NEW A
  PROVE  Only(Cat(a, b), A) = Cat(Only(a, A), Only(b, A))
<1>. DEFINE c == Cat(a, b)
            P == {k \in 1 .. Len(c) : c[k] \in A}
            Q == {k \in 1 .. Len(a) : a[k] \in A}
            R == {k \in 1 .. Len(b) : b[k] \in A}
<1>1. /\ c \in Seq(S) /\ Len(c) = Len(a) + Len(b) /\ Len(a) \in Nat /\ Len(b) \in Nat
      /\ \A k \in 1 .. Len(a) + Len(b) : c[k] = IF k <= Len(a) THEN a[k] ELSE b[k - Len(a)]
  BY ConcatProperties, LenProperties DEF Cat
<1>. HIDE DEF c
<1>2. ASSUME NEW k \in 1 .. Len(a) PROVE k \in 1 .. Len(c) /\ c[k] = a[k]
  BY <1>1
<1>3. ASSUME NEW k \in 1 .. Len(b) PROVE Len(a) + k \in 1 .. Len(c) /\ c[Len(a) + k] = b[k]
  <2>1. Len(a) + k \in 1 .. Len(a) + Len(b) /\ ~(Len(a) + k <= Len(a)) /\ Len(a) + k - Len(a) = k
    BY <1>1
  <2>. QED
    BY <1>1, <2>1
<1>4. Splits(c, P, a, Q, b, R)
  BY <1>1, <1>2, <1>3 DEF Splits
<1>. HIDE DEF P, Q, R
<1>5. Picked(c, P) = Cat(Picked(a, Q), Picked(b, R))
  BY <1>1, <1>4, PickedConcat DEF Cat
<1>. QED
  BY <1>5 DEF Only, c, P, Q, R

LEMMA OnlyOne ==
  ASSUME NEW S, NEW x \in S, NEW A
  PROVE  Only(<<x>>, A) = IF x \in A THEN <<x>> ELSE <<>>
<1>1. <<x>> \in Seq(S) /\ Len(<<x>>) = 1 /\ <<x>>[1] = x /\ 1 .. 1 = {1}
  OBVIOUS
<1>. DEFINE s == <<x>>
<1>. HIDE DEF s
<1>2. s \in Seq(S) /\ Len(s) = 1 /\ s[1] = x /\ 1 .. 1 = {1}
  BY <1>1 DEF s
<1>3. CASE x \in A
  <2>1. \A k \in 1 .. Len(s) : k \in {j \in 1 .. Len(s) : s[j] \in A}
    BY <1>2, <1>3
  <2>2. Only(s, A) = s
    BY <1>2, <2>1, PickedEverything DEF Only
  <2>. QED
    BY <1>3, <2>2 DEF s
<1>4. CASE x \notin A
  <2>1. \A k \in 1 .. Len(s) : k \notin {j \in 1 .. Len(s) : s[j] \in A}
    BY <1>2, <1>4
  <2>2. Only(s, A) = <<>>
    BY <1>2, <2>1, PickedNothing DEF Only
  <2>. QED
    BY <1>4, <2>2 DEF s
<1>. QED
  BY <1>3, <1>4

LEMMA OnlyAppend ==
  ASSUME NEW S, NEW s \in Seq(S), NEW x \in S, NEW A
  PROVE  Only(Append(s, x), A) = IF x \in A THEN Append(Only(s, A), x) ELSE Only(s, A)
<1>. DEFINE z == <<x>>
<1>1. Append(s, x) = Cat(s, z) /\ z \in Seq(S)
  BY DEF Cat
<1>2. Only(Append(s, x), A) = Cat(Only(s, A), Only(z, A))
  <2>. HIDE DEF z
  <2>1. Only(Cat(s, z), A) = Cat(Only(s, A), Only(z, A))
    BY <1>1, OnlyConcat
  <2>. QED
    BY <1>1, <2>1
<1>3. Only(s, A) \in Seq(S)
  BY OnlySeq
<1>. DEFINE o == Only(s, A)
<1>. HIDE DEF o
<1>4. o \in Seq(S) /\ Only(Append(s, x), A) = Cat(o, Only(<<x>>, A))
  BY <1>2, <1>3 DEF o
<1>5. Cat(o, <<x>>) = Append(o, x) /\ Cat(o, <<>>) = o
  BY <1>4 DEF Cat
<1>. QED
  BY <1>4, <1>5, OnlyOne DEF o

LEMMA FirstOfNext ==
  ASSUME NEW S, NEW s \in Seq(S), NEW m \in 1 .. Len(s)
  PROVE  FirstOf(s, m) = Append(FirstOf(s, m - 1), s[m])
<1>. DEFINE a == FirstOf(s, m - 1)
            b == FirstOf(s, m)
            c == Append(a, s[m])
<1>0. Len(s) \in Nat /\ m - 1 \in 0 .. Len(s) /\ m \in 0 .. Len(s) /\ s[m] \in S
  BY SeqElements
<1>1. a \in Seq(S) /\ Len(a) = m - 1 /\ \A k \in 1 .. m - 1 : a[k] = s[k]
  BY <1>0, FirstOfIs
<1>2. b \in Seq(S) /\ Len(b) = m /\ \A k \in 1 .. m : b[k] = s[k]
  BY <1>0, FirstOfIs
<1>. HIDE DEF a, b
<1>3. c \in Seq(S) /\ Len(c) = m /\ \A k \in 1 .. m : c[k] = s[k]
  <2>1. c \in Seq(S) /\ Len(c) = Len(a) + 1 /\ (\A k \in 1 .. Len(a) : c[k] = a[k]) /\ c[Len(a) + 1] = s[m]
    BY <1>0, <1>1, AppendProperties
  <2>2. Len(a) + 1 = m
    BY <1>0, <1>1
  <2>3. \A k \in 1 .. m : k = m \/ k \in 1 .. m - 1
    BY <1>0
  <2>. HIDE DEF c
  <2>. QED
    BY <1>1, <2>1, <2>2, <2>3
<1>. HIDE DEF c
<1>4. b = c
  BY <1>2, <1>3, SeqEqual
<1>. QED
  BY <1>4 DEF a, b, c

\* Keeping twice keeps what is in both.
LEMMA OnlyTwice ==
  ASSUME NEW S, NEW s \in Seq(S), NEW A, NEW B
  PROVE  Only(Only(s, A), B) = Only(s, A \cap B)
<1>. DEFINE P(m) == Only(Only(FirstOf(s, m), A), B) = Only(FirstOf(s, m), A \cap B)
            T == {m \in 0 .. Len(s) : ~P(m)}
<1>1. ASSUME T # {} PROVE FALSE
  <2>0. T \subseteq Nat
    OBVIOUS
  <2>1. PICK m \in T : \A y \in T : m <= y
    BY <1>1, <2>0, LeastElement
  <2>2. CASE m = 0
    <3>1. FirstOf(s, 0) = <<>>
      BY DEF FirstOf
    <3>. QED
      BY <2>1, <2>2, <3>1, OnlyNothing
  <2>3. CASE m # 0
    <3>1. m \in 1 .. Len(s) /\ m - 1 \in 0 .. Len(s) /\ m - 1 \notin T /\ s[m] \in S
      <4>1. m \in 1 .. Len(s) /\ m - 1 \in 0 .. Len(s) /\ m \in Nat
        BY <2>1, <2>3
      <4>2. s[m] \in S
        BY <4>1, SeqElements
      <4>. HIDE DEF T
      <4>3. m - 1 \in T => m <= m - 1
        BY <2>1
      <4>. QED
        BY <4>1, <4>2, <4>3
    <3>2. P(m - 1)
      <4>. HIDE DEF P
      <4>. QED
        BY <3>1
    <3>. DEFINE a == FirstOf(s, m - 1)
                x == s[m]
                o == Only(a, A)
    <3>3. a \in Seq(S) /\ FirstOf(s, m) = Append(a, x)
      BY <3>1, FirstOfIs, FirstOfNext
    <3>. HIDE DEF a, x
    <3>4. o \in Seq(S) /\ x \in S
      BY <3>1, <3>3, OnlySeq DEF x
    <3>5. Only(Append(a, x), A) = IF x \in A THEN Append(o, x) ELSE o
      BY <3>3, <3>4, OnlyAppend
    <3>6. Only(Append(o, x), B) = IF x \in B THEN Append(Only(o, B), x) ELSE Only(o, B)
      BY <3>4, OnlyAppend
    <3>7. Only(Append(a, x), A \cap B) = IF x \in A \cap B THEN Append(Only(a, A \cap B), x) ELSE Only(a, A \cap B)
      BY <3>3, <3>4, OnlyAppend
    <3>8. Only(o, B) = Only(a, A \cap B)
      BY <3>2 DEF a
    <3>. HIDE DEF o
    <3>9. Only(Only(Append(a, x), A), B) = Only(Append(a, x), A \cap B)
      BY <3>5, <3>6, <3>7, <3>8
    <3>. QED
      BY <2>1, <3>3, <3>9
  <2>. QED
    BY <2>2, <2>3
<1>2. Len(s) \in 0 .. Len(s) /\ FirstOf(s, Len(s)) = s
  BY FirstOfAll, LenProperties
<1>3. P(Len(s))
  <2>. HIDE DEF P
  <2>. QED
    BY <1>1, <1>2
<1>. QED
  BY <1>2, <1>3

\* Joining one piece more.
LEMMA JoinedNone ==
  ASSUME NEW s
  PROVE  Joined(FirstOf(s, 0)) = <<>>
<1>. DEFINE a == FirstOf(s, 0)
<1>1. Len(a) = 0
  BY DEF FirstOf
<1>. HIDE DEF a
<1>2. PICK f : Glues(f, a, 0)
  BY GluesExists
<1>3. Joined(a) = f[0] /\ f[0] = <<>>
  BY <1>1, <1>2, JoinedIs, GlueFirst
<1>. QED
  BY <1>3 DEF a

LEMMA JoinedNext ==
  ASSUME NEW s, NEW n \in Nat \ {0}
  PROVE  Joined(FirstOf(s, n)) = Cat(Joined(FirstOf(s, n - 1)), s[n])
<1>. DEFINE a == FirstOf(s, n - 1)
            b == FirstOf(s, n)
            m == n - 1
<1>1. m \in Nat /\ Len(a) = m /\ Len(b) = n /\ b[n] = s[n] /\ \A k \in 1 .. m : a[k] = b[k]
  BY DEF FirstOf
<1>2. m <= m /\ m <= n /\ n \in Nat /\ n \in 1 .. n
  OBVIOUS
<1>. HIDE DEF a, b
<1>3. PICK f : Glues(f, a, m)
  BY <1>1, GluesExists
<1>4. PICK h : Glues(h, b, n)
  BY GluesExists
<1>5. Joined(a) = f[m] /\ Joined(b) = h[n]
  BY <1>1, <1>3, <1>4, JoinedIs
<1>6. h[n] = Cat(h[n - 1], b[n])
  BY <1>2, <1>4, GlueNext
<1>7. f[m] = h[m]
  BY <1>1, <1>2, <1>3, <1>4, GluesAgree
<1>. QED
  BY <1>1, <1>5, <1>6, <1>7 DEF a, b

-----------------------------------------------------------------------------
(* The export of snap targets: the same rows and files as the store's. *)

LEMMA ListingSame ==
  /\ Listing!Rect = Snaps!Rect /\ Listing!Row = Snaps!Row /\ Listing!SnapFile = Snaps!SnapFile
  /\ \A a, b : Listing!Intersects(a, b) <=> Snaps!Intersects(a, b)
<1>1. Listing!Rect = Snaps!Rect
  BY DEF Listing!Rect, Snaps!Rect
<1>2. Listing!Row = Snaps!Row
  BY <1>1 DEF Listing!Row, Snaps!Row, Listing!Single, Snaps!Single, Listing!Fault, Snaps!Fault
<1>3. Listing!SnapFile = Snaps!SnapFile
  BY <1>2 DEF Listing!SnapFile, Snaps!SnapFile
<1>4. \A a, b : Listing!Intersects(a, b) <=> Snaps!Intersects(a, b)
  BY DEF Listing!Intersects, Snaps!Intersects
<1>. QED
  BY <1>1, <1>2, <1>3, <1>4

LEMMA ListingPicked ==
  ASSUME NEW s, NEW P
  PROVE  Listing!Picked(s, P) = Picked(s, P)
BY DEF Listing!Picked, Picked

LEMMA ListingJoined ==
  ASSUME NEW s
  PROVE  Listing!Joined(s) = Joined(s)
BY DEF Listing!Joined, Joined

LEMMA ListingInOrder ==
  ASSUME NEW V, NEW n
  PROVE  Listing!InOrder(V, n) = Numbers(V, n)
BY ListingPicked DEF Listing!InOrder, Numbers

LEMMA ListingAllRows ==
  ASSUME NEW f
  PROVE  Listing!AllRows(f) = Snaps!AllRows(f)
BY ListingJoined, SnapsJoined DEF Listing!AllRows, Snaps!AllRows

LEMMA ListingRowStart ==
  ASSUME NEW f, NEW g
  PROVE  Listing!AbsoluteRowStart(f, g) = Snaps!AbsoluteRowStart(f, g)
BY DEF Listing!AbsoluteRowStart, Snaps!AbsoluteRowStart

LEMMA ListingMin ==
  ASSUME NEW S
  PROVE  Listing!Min(S) = Snaps!Min(S) /\ Listing!Max(S) = Snaps!Max(S)
BY DEF Listing!Min, Snaps!Min, Listing!Max, Snaps!Max

LEMMA ListingGroupBox ==
  ASSUME NEW f, NEW g
  PROVE  Listing!GroupBox(f, g) = Snaps!GroupBox(f, g)
BY DEF Listing!GroupBox, Snaps!GroupBox, Listing!Min, Snaps!Min, Listing!Max, Snaps!Max

-----------------------------------------------------------------------------
(* The targets in the extent. *)

Reach(sc) == {r \in Snaps!Row : Listing!InScope(sc, r)}

CursorOf(f, sc) == Numbers(Listing!Visited(Listing!GroupBoxes(f), sc), Len(Listing!GroupBoxes(f)))

KeptOf(f, sc) == [g \in 1 .. Len(f.groups) |-> Only(f.groups[g].rows, Reach(sc))]

HonestFile(f) ==
  \A g \in 1 .. Len(f.groups) : \A k \in 1 .. Len(f.groups[g].rows) : Listing!Honest(f.groups[g].rows[k])

IsScope(sc) == sc = Listing!All \/ sc \in Snaps!Rect

\* Two boxes that differ by one at most on each side.
Near(b, m) ==
  b.x0 - m.x0 \in -1 .. 1 /\ b.y0 - m.y0 \in -1 .. 1 /\ b.x1 - m.x1 \in -1 .. 1 /\ b.y1 - m.y1 \in -1 .. 1

LEMMA NearMeets ==
  ASSUME NEW e, NEW b, NEW m, NEW sc, Whole(e), Whole(b), Whole(m), Whole(sc), Near(b, m),
         e.x0 <= b.x0, e.y0 <= b.y0, b.x1 <= e.x1, b.y1 <= e.y1, Snaps!Intersects(m, sc)
  PROVE  Listing!MayIntersect(sc, e)
<1>1. m.x0 <= sc.x1 /\ sc.x0 <= m.x1 /\ m.y0 <= sc.y1 /\ sc.y0 <= m.y1
  BY DEF Snaps!Intersects
<1>2. /\ e.x0 - 2 <= sc.x1 /\ e.x1 + 2 >= sc.x0
      /\ e.y0 - 2 <= sc.y1 /\ e.y1 + 2 >= sc.y0
  BY <1>1 DEF Whole, Near
<1>. QED
  BY <1>2 DEF Listing!MayIntersect

\* A row group that the extent lets the reader skip has no target in it: the
\* statistics are off by at most half of what may_intersect allows for.
LEMMA UnvisitedRightly ==
  ASSUME NEW f \in Snaps!SnapFile, HonestFile(f), NEW sc, IsScope(sc), NEW g \in 1 .. Len(f.groups),
         g \notin Listing!Visited(Listing!GroupBoxes(f), sc), NEW j \in 1 .. Len(f.groups[g].rows)
  PROVE  f.groups[g].rows[j] \notin Reach(sc)
<1>. DEFINE e == Snaps!GroupBox(f, g)
            r == f.groups[g].rows[j]
            b == r.bbox
            m == r.geometry
<1>1. Listing!GroupBoxes(f)[g] = e /\ g \in DOMAIN Listing!GroupBoxes(f)
  BY ListingGroupBox DEF Listing!GroupBoxes
<1>2. e # None /\ ~Listing!MayIntersect(sc, e)
  <2>. HIDE DEF e
  <2>. QED
    BY <1>1 DEF Listing!Visited
<1>3. /\ f.bbox /\ b # None
      /\ e.x0 \in Int /\ e.y0 \in Int /\ e.x1 \in Int /\ e.y1 \in Int
      /\ b.x0 \in Int /\ b.y0 \in Int /\ b.x1 \in Int /\ b.y1 \in Int
      /\ e.x0 <= b.x0 /\ e.y0 <= b.y0 /\ b.x1 <= e.x1 /\ b.y1 <= e.y1
  BY <1>2, BoundsHold
<1>4. Whole(e) /\ Whole(b) /\ e.x0 <= b.x0 /\ e.y0 <= b.y0 /\ b.x1 <= e.x1 /\ b.y1 <= e.y1
  BY <1>3 DEF Whole
<1>5. sc # Listing!All /\ sc \in Snaps!Rect /\ Whole(sc)
  <2>1. sc # Listing!All
    BY <1>2 DEF Listing!MayIntersect
  <2>2. sc \in Snaps!Rect
    BY <2>1 DEF IsScope
  <2>. QED
    BY <2>1, <2>2, RectIs DEF Whole
<1>6. ASSUME r \in Snaps!Row PROVE Whole(m)
  <2>1. m \in Snaps!Rect
    BY <1>6 DEF Snaps!Row
  <2>. QED
    BY <2>1, RectIs DEF Whole
<1>7. Near(b, m)
  <2>1. Listing!Honest(r)
    BY DEF HonestFile
  <2>2. \A c \in {"x0", "y0", "x1", "y1"} : b[c] - m[c] \in -1 .. 1
    BY <1>3, <2>1 DEF Listing!Honest
  <2>. HIDE DEF b, m
  <2>. QED
    BY <2>2 DEF Near
<1>8. ASSUME Snaps!Intersects(m, sc), Whole(m) PROVE FALSE
  <2>. HIDE DEF e, b, m
  <2>1. Listing!MayIntersect(sc, e)
    BY <1>4, <1>5, <1>7, <1>8, NearMeets
  <2>. QED
    BY <1>2, <2>1
<1>9. r \in Reach(sc) => r \in Snaps!Row /\ Snaps!Intersects(m, sc)
  BY <1>5, ListingSame DEF Reach, Listing!InScope
<1>. QED
  BY <1>6, <1>8, <1>9

\* The targets of a file that are in the extent are those of the row groups visited.
LEMMA VisitedGather ==
  ASSUME NEW f \in Snaps!SnapFile, HonestFile(f), NEW sc, IsScope(sc)
  PROVE  Joined(Mapped(CursorOf(f, sc), KeptOf(f, sc))) = Only(Snaps!AllRows(f), Reach(sc))
<1>. DEFINE n == Len(f.groups)
            V == Listing!Visited(Listing!GroupBoxes(f), sc)
            R == KeptOf(f, sc)
            gs == Pieces(f)
            L == Reach(sc)
<1>1. /\ n \in Nat /\ Len(gs) = n
      /\ \A g \in 1 .. n : gs[g] = f.groups[g].rows /\ gs[g] \in Seq(Snaps!Row)
  BY PiecesAre
<1>2. Len(Listing!GroupBoxes(f)) = n
  <2>1. Listing!GroupBoxes(f) = [g \in 1 .. n |-> Listing!GroupBox(f, g)]
    BY DEF Listing!GroupBoxes
  <2>. HIDE DEF n
  <2>. QED
    BY <1>1, <2>1
<1>3. CursorOf(f, sc) = Numbers(V, n)
  BY <1>2 DEF CursorOf
<1>4. ASSUME NEW g \in 1 .. n PROVE Sound(gs[g], R[g], L, L)
  <2>1. R[g] = Only(f.groups[g].rows, L)
    BY DEF KeptOf
  <2>2. gs[g] = f.groups[g].rows
    BY <1>1
  <2>. HIDE DEF R, gs, L
  <2>3. R[g] = Picked(gs[g], {k \in 1 .. Len(gs[g]) : gs[g][k] \in L})
    BY <2>1, <2>2 DEF Only
  <2>. QED
    BY <2>3, PickedIsSound
<1>5. ASSUME NEW g \in 1 .. n, g \notin V, NEW k \in 1 .. Len(gs[g]) PROVE gs[g][k] \notin L
  BY <1>1, <1>5, UnvisitedRightly
<1>. HIDE DEF R, gs, L, V, n
<1>6. Sound(Joined(gs), Joined(Mapped(Numbers(V, n), R)), L, L)
  <2>1. \A g \in 1 .. n : gs[g] \in Seq(Snaps!Row)
    BY <1>1
  <2>2. \A g \in 1 .. n : g \in V => Sound(gs[g], R[g], L, L)
    BY <1>4
  <2>3. \A g \in 1 .. n : g \notin V => \A k \in 1 .. Len(gs[g]) : gs[g][k] \notin L
    BY <1>5
  <2>. QED
    BY <1>1, <2>1, <2>2, <2>3, GroupsSound
<1>7. Joined(gs) = Snaps!AllRows(f) /\ Snaps!AllRows(f) \in Seq(Snaps!Row)
  BY AllRowsAre DEF gs
<1>8. Joined(Mapped(Numbers(V, n), R)) = Only(Snaps!AllRows(f), L)
  BY <1>6, <1>7, SoundIsPicked DEF Only
<1>. QED
  BY <1>3, <1>8 DEF R, L

-----------------------------------------------------------------------------
(* The declarations selected. *)

\* What is picked stands where the numbers picked say.
LEMMA PickedEmbeds ==
  ASSUME NEW S, NEW s \in Seq(S), NEW P
  PROVE  LET l == Numbers(P, Len(s))
         IN  Len(Picked(s, P)) = Len(l) /\ \A p \in 1 .. Len(l) : Picked(s, P)[p] = s[l[p]]
<1>. DEFINE n == Len(s)
            num == [g \in 1 .. n |-> g]
            good(a, l) == Len(a) = Len(l) /\ \A p \in 1 .. Len(l) : a[p] = s[l[p]]
<1>1. n \in Nat /\ \A k \in 1 .. n : s[k] \in S
  BY SeqElements
<1>2. \A k \in 1 .. n : num[k] = k
  OBVIOUS
<1>3. PICK f : Keeps(f, s, P, n)
  BY <1>1, KeepsExists
<1>4. PICK h : Keeps(h, num, P, n)
  BY <1>1, KeepsExists
<1>5. Picked(s, P) = f[n]
  BY <1>1, <1>3, PickedIs
<1>6. Numbers(P, n) = h[n]
  <2>. HIDE DEF n
  <2>. QED
    BY <1>1, <1>4, NumbersIs
<1>. HIDE DEF num, n
<1>7. \A m \in 0 .. n : f[m] \in Seq(S)
  BY <1>1, <1>3, KeepsSeq
<1>8. \A m \in 0 .. n : h[m] \in Seq(Nat)
  BY <1>1, <1>2, <1>4, OrderedIs DEF Ordered
<1>. DEFINE T == {m \in 0 .. n : ~good(f[m], h[m])}
<1>9. ASSUME T # {} PROVE FALSE
  <2>0. T \subseteq Nat
    BY <1>1
  <2>1. PICK m \in T : \A y \in T : m <= y
    BY <1>9, <2>0, LeastElement
  <2>2. CASE m = 0
    <3>1. f[0] = <<>> /\ h[0] = <<>>
      BY <1>1, <1>3, <1>4, KeepsFirst
    <3>2. Len(<<>>) = 0 /\ 1 .. 0 = {}
      BY EmptySeq
    <3>. QED
      BY <2>1, <2>2, <3>1, <3>2
  <2>3. CASE m # 0
    <3>1. m \in 1 .. n /\ m - 1 \in 0 .. n /\ m \in Nat
      BY <1>1, <2>1, <2>3
    <3>2. m - 1 \notin T
      <4>. HIDE DEF T
      <4>1. m - 1 \in T => m <= m - 1
        BY <2>1
      <4>. QED
        BY <3>1, <4>1
    <3>. DEFINE a == f[m - 1]
                l == h[m - 1]
                z == Len(l)
    <3>3. a \in Seq(S) /\ l \in Seq(Nat) /\ z \in Nat /\ Len(a) = z /\ \A p \in 1 .. z : a[p] = s[l[p]]
      BY <1>7, <1>8, <3>1, <3>2, LenProperties
    <3>4. f[m] = (IF m \in P THEN Append(a, s[m]) ELSE a) /\ h[m] = IF m \in P THEN Append(l, num[m]) ELSE l
      BY <1>1, <1>3, <1>4, <3>1, KeepsNext
    <3>5. num[m] = m /\ s[m] \in S
      BY <1>1, <1>2, <3>1
    <3>. HIDE DEF a, l
    <3>6. good(f[m], h[m])
      <4>1. CASE m \in P
        <5>. DEFINE x == Append(a, s[m])
                    y == Append(l, m)
        <5>1. /\ Len(x) = z + 1 /\ x[z + 1] = s[m] /\ (\A p \in 1 .. z : x[p] = a[p])
              /\ Len(y) = z + 1 /\ y[z + 1] = m /\ \A p \in 1 .. z : y[p] = l[p]
          BY <3>1, <3>3, <3>5, AppendProperties
        <5>. HIDE DEF x, y, z
        <5>2. \A p \in 1 .. z + 1 : p = z + 1 \/ p \in 1 .. z
          BY <3>3
        <5>3. good(x, y)
          BY <3>3, <5>1, <5>2
        <5>4. f[m] = x /\ h[m] = y
          BY <3>4, <3>5, <4>1 DEF x, y
        <5>. QED
          BY <5>3, <5>4
      <4>2. CASE m \notin P
        BY <3>3, <3>4, <4>2
      <4>. QED
        BY <4>1, <4>2
    <3>. QED
      BY <2>1, <3>6
  <2>. QED
    BY <2>2, <2>3
<1>10. n \in 0 .. n
  BY <1>1
<1>11. good(f[n], h[n])
  BY <1>9, <1>10
<1>. QED
  BY <1>5, <1>6, <1>11 DEF n

ReadableOf(c) == Picked(c.decls, {k \in 1 .. Len(c.decls) : c.decls[k].readable})

SelectedOf(c) ==
  LET s == ReadableOf(c)
  IN  Picked(s, {k \in 1 .. Len(s) : c.set = None \/ c.set = s[k].name})

Declared == {d \in Listing!Decl : HonestFile(d.file)}

\* No two of the sets selected have the same name.
NamesApart(c) ==
  \A j, k \in 1 .. Len(SelectedOf(c)) : SelectedOf(c)[j].name = SelectedOf(c)[k].name => j = k

LEMMA ListingReadable == Listing!Readable = ReadableOf(job)
BY ListingPicked DEF Listing!Readable, ReadableOf

LEMMA ListingSelected == Listing!Selected = SelectedOf(job)
<1>. DEFINE s == ReadableOf(job)
            P == {k \in 1 .. Len(s) : job.set = None \/ job.set = s[k].name}
<1>1. Listing!Selected = Listing!Picked(s, P)
  BY ListingReadable DEF Listing!Selected, Listing!Requested
<1>2. Listing!Picked(s, P) = Picked(s, P)
  BY ListingPicked
<1>. QED
  BY <1>1, <1>2 DEF SelectedOf

LEMMA CaseDeclared ==
  ASSUME NEW c \in ListingCases
  PROVE  /\ c.sink \in {"package", "frame"} /\ IsScope(c.scope)
         /\ ReadableOf(c) \in Seq(Declared) /\ SelectedOf(c) \in Seq(Declared)
<1>1. Listing!IsExportCase(c)
  BY ListingAssumption DEF Listing!SnapExportAssumption
<1>2. c.sink \in {"package", "frame"} /\ IsScope(c.scope)
  BY <1>1, ListingSame DEF Listing!IsExportCase, IsScope
<1>. DEFINE s == c.decls
<1>3. s \in Seq(Listing!Decl) /\ \A k \in 1 .. Len(s) : HonestFile(s[k].file)
  BY <1>1 DEF Listing!IsExportCase, HonestFile
<1>. HIDE DEF s
<1>4. Len(s) \in Nat /\ s = [k \in 1 .. Len(s) |-> s[k]] /\ \A k \in 1 .. Len(s) : s[k] \in Listing!Decl
  BY <1>3, SeqElements, LenProperties
<1>5. \A k \in 1 .. Len(s) : s[k] \in Declared
  BY <1>3, <1>4 DEF Declared
<1>6. s \in Seq(Declared)
  <2>1. s \in [1 .. Len(s) -> Declared]
    BY <1>4, <1>5
  <2>. QED
    BY <1>4, <2>1, SeqDef
<1>7. ReadableOf(c) \in Seq(Declared)
  BY <1>6, PickedSeq DEF ReadableOf, s
<1>8. SelectedOf(c) \in Seq(Declared)
  BY <1>7, PickedSeq DEF SelectedOf
<1>. QED
  BY <1>2, <1>7, <1>8

\* SnapTargets::open refuses a manifest that names a set twice.
OneNameEach(s) == Cardinality({s[k].name : k \in 1 .. Len(s)}) = Len(s)

LEMMA SelectApart ==
  ASSUME NEW c \in ListingCases, NEW s, s = ReadableOf(c), OneNameEach(s)
  PROVE  NamesApart(c)
<1>. DEFINE n == Len(s)
            N == {s[k].name : k \in 1 .. n}
            F == [k \in 1 .. n |-> s[k].name]
            P == {k \in 1 .. n : c.set = None \/ c.set = s[k].name}
            l == Numbers(P, n)
            z == SelectedOf(c)
<1>1. s \in Seq(Declared) /\ n \in Nat
  BY CaseDeclared, LenProperties
<1>2. z = Picked(s, P)
  BY DEF SelectedOf
<1>. HIDE DEF z, n
<1>3. F \in Surjection(1 .. n, N)
  BY DEF Surjection
<1>4. IsFiniteSet(1 .. n) /\ Cardinality(1 .. n) = n
  <2>1. 1 \in Int /\ n \in Int
    BY <1>1
  <2>. QED
    BY <1>1, <2>1, FS_Interval
<1>5. Cardinality(1 .. n) = Cardinality(N)
  BY <1>4 DEF n, OneNameEach
<1>6. F \in Injection(1 .. n, N)
  <2>. HIDE DEF F, N
  <2>. QED
    BY <1>3, <1>4, <1>5, FS_SurjSameCardinalityImpliesInj
<1>7. \A j, k \in 1 .. n : s[j].name = s[k].name => j = k
  <2>1. \A j, k \in 1 .. n : F[j] = F[k] => j = k
    <3>. HIDE DEF F, N
    <3>. QED
      BY <1>6 DEF Injection, IsInjective
  <2>. QED
    BY <2>1
<1>. HIDE DEF P
<1>8. Len(z) = Len(l) /\ \A p \in 1 .. Len(l) : z[p] = s[l[p]]
  BY <1>1, <1>2, PickedEmbeds DEF n
<1>9. Ordered(l, P, n)
  BY <1>1, NumbersOrdered
<1>. HIDE DEF l
<1>10. /\ Len(l) \in Nat /\ \A p \in 1 .. Len(l) : l[p] \in 1 .. n
       /\ \A p, r \in 1 .. Len(l) : p < r => l[p] < l[r]
  BY <1>9, LenProperties DEF Ordered
<1>11. ASSUME NEW j \in 1 .. Len(z), NEW k \in 1 .. Len(z), z[j].name = z[k].name PROVE j = k
  <2>1. l[j] = l[k] /\ l[j] \in 1 .. n
    BY <1>7, <1>8, <1>10, <1>11
  <2>2. ~(j < k) /\ ~(k < j)
    BY <1>1, <1>8, <1>10, <2>1
  <2>. QED
    BY <1>8, <1>10, <2>2
<1>. QED
  BY <1>11 DEF NamesApart, z

-----------------------------------------------------------------------------
(* A visit: what is left of the declarations and of the row groups. *)

\* What is left of s after its first m elements.
Rest(s, m) == [k \in 1 .. Len(s) - m |-> s[m + k]]

LEMMA RestIs ==
  ASSUME NEW S, NEW s \in Seq(S), NEW m \in 0 .. Len(s)
  PROVE  /\ Rest(s, m) \in Seq(S) /\ Len(Rest(s, m)) = Len(s) - m
         /\ Rest(s, m) = <<>> <=> m = Len(s)
         /\ \A k \in 1 .. Len(s) - m : Rest(s, m)[k] = s[m + k]
<1>. DEFINE n == Len(s) - m
            a == Rest(s, m)
<1>1. Len(s) \in Nat /\ \A k \in 1 .. Len(s) : s[k] \in S
  BY SeqElements
<1>2. n \in Nat /\ \A k \in 1 .. n : m + k \in 1 .. Len(s)
  BY <1>1
<1>3. a = [k \in 1 .. n |-> s[m + k]]
  BY DEF Rest
<1>. HIDE DEF a, n
<1>4. a \in [1 .. n -> S]
  BY <1>1, <1>2, <1>3
<1>5. a \in Seq(S) /\ Len(a) = n
  BY <1>2, <1>4, SeqDef
<1>6. \A k \in 1 .. n : a[k] = s[m + k]
  BY <1>3
<1>7. a = <<>> <=> n = 0
  BY <1>5, EmptySeq
<1>8. n = 0 <=> m = Len(s)
  BY <1>1 DEF n
<1>. QED
  BY <1>5, <1>6, <1>7, <1>8 DEF a, n

LEMMA RestNext ==
  ASSUME NEW S, NEW s \in Seq(S), NEW m \in 0 .. Len(s), Rest(s, m) # <<>>
  PROVE  /\ m + 1 \in 1 .. Len(s) /\ m + 1 \in 0 .. Len(s)
         /\ Head(Rest(s, m)) = s[m + 1] /\ Rest(s, m)[1] = s[m + 1]
         /\ Tail(Rest(s, m)) = Rest(s, m + 1)
         /\ Len(Rest(s, m)) > 1 <=> m + 1 # Len(s)
         /\ Len(Rest(s, m)) > 1 => Rest(s, m)[2] = s[m + 2]
<1>. DEFINE a == Rest(s, m)
            b == Rest(s, m + 1)
            N == Len(s)
<1>1. N \in Nat
  BY LenProperties
<1>2. /\ a \in Seq(S) /\ Len(a) = N - m /\ m # N
      /\ \A k \in 1 .. N - m : a[k] = s[m + k]
  BY RestIs
<1>. HIDE DEF a, N
<1>3. m \in 0 .. N /\ m + 1 \in 1 .. N /\ m + 1 \in 0 .. N /\ N - m \in Nat /\ N - m >= 1
  BY <1>1, <1>2 DEF N
<1>4. b \in Seq(S) /\ Len(b) = N - (m + 1) /\ \A k \in 1 .. N - (m + 1) : b[k] = s[m + 1 + k]
  BY <1>3, RestIs DEF N
<1>. HIDE DEF b
<1>5. a # <<>>
  BY DEF a
<1>6. /\ Tail(a) \in Seq(S) /\ Len(Tail(a)) = Len(a) - 1
      /\ \A k \in 1 .. Len(Tail(a)) : Tail(a)[k] = a[k + 1]
  BY <1>2, <1>5, HeadTailProperties
<1>7. Head(a) = a[1] /\ a[1] = s[m + 1]
  <2>1. 1 \in 1 .. N - m
    BY <1>3
  <2>2. a[1] = s[m + 1]
    BY <1>2, <2>1
  <2>3. Head(a) = a[1]
    BY <1>2, <1>5
  <2>. QED
    BY <2>2, <2>3
<1>8. Tail(a) = b
  <2>0. Len(Tail(a)) = (N - m) - 1
    BY <1>2, <1>6
  <2>1. Len(Tail(a)) = N - (m + 1)
    <3>1. m \in Int /\ N \in Int
      BY <1>1, <1>3
    <3>. QED
      BY <2>0, <3>1
  <2>2. ASSUME NEW k \in 1 .. N - (m + 1) PROVE Tail(a)[k] = b[k]
    <3>1. k + 1 \in 1 .. N - m /\ m + (k + 1) = m + 1 + k /\ k \in 1 .. Len(Tail(a))
      BY <1>1, <1>3, <2>1
    <3>. QED
      BY <1>2, <1>4, <1>6, <3>1
  <2>. QED
    BY <1>4, <1>6, <2>1, <2>2, SeqEqual
<1>9. Len(a) > 1 <=> m + 1 # N
  BY <1>1, <1>2, <1>3
<1>10. ASSUME Len(a) > 1 PROVE a[2] = s[m + 2]
  <2>1. 2 \in 1 .. N - m
    BY <1>2, <1>3, <1>10
  <2>. QED
    BY <1>2, <2>1
<1>. QED
  BY <1>3, <1>7, <1>8, <1>9, <1>10 DEF a, b, N

LEMMA CatAssociative ==
  ASSUME NEW S, NEW a \in Seq(S), NEW b \in Seq(S), NEW c \in Seq(S)
  PROVE  Cat(Cat(a, b), c) = Cat(a, Cat(b, c))
BY ConcatAssociative DEF Cat

LEMMA CatIs ==
  ASSUME NEW S, NEW a \in Seq(S), NEW b \in Seq(S)
  PROVE  Cat(a, b) \in Seq(S) /\ Cat(a, <<>>) = a /\ Cat(<<>>, a) = a
BY ConcatProperties, ConcatEmptySeq DEF Cat

\* Handing over the first element of b.
LEMMA CatHead ==
  ASSUME NEW S, NEW a \in Seq(S), NEW b \in Seq(S), b # <<>>
  PROVE  /\ Head(b) \in S /\ Tail(b) \in Seq(S) /\ Append(a, Head(b)) \in Seq(S)
         /\ Cat(Append(a, Head(b)), Tail(b)) = Cat(a, b)
<1>. DEFINE x == Head(b)
            t == Tail(b)
            z == <<x>>
<1>1. x \in S /\ t \in Seq(S) /\ Len(b) # 0
  BY HeadTailProperties, EmptySeq
<1>2. b = z \o t
  OBVIOUS
<1>3. Append(a, x) = a \o z /\ z \in Seq(S) /\ Append(a, x) \in Seq(S)
  <2>. HIDE DEF x, t
  <2>. QED
    BY <1>1
<1>. HIDE DEF x, t, z
<1>4. Cat(Cat(a, z), t) = Cat(a, Cat(z, t))
  BY <1>1, <1>3, CatAssociative
<1>5. Cat(a, z) = Append(a, x) /\ Cat(z, t) = b
  BY <1>2, <1>3 DEF Cat
<1>. QED
  BY <1>1, <1>3, <1>4, <1>5 DEF x, t

\* The first rows of a group, and the rows of the next batch.
LEMMA FirstAndNext ==
  ASSUME NEW S, NEW s \in Seq(S), NEW o \in 0 .. Len(s), NEW w \in o .. Len(s)
  PROVE  /\ SubSeq(s, o + 1, w) \in Seq(S)
         /\ FirstOf(s, w) = Cat(FirstOf(s, o), SubSeq(s, o + 1, w))
<1>. DEFINE a == FirstOf(s, o)
            b == SubSeq(s, o + 1, w)
            c == FirstOf(s, w)
            d == Cat(a, b)
<1>0. Len(s) \in Nat /\ \A k \in 1 .. Len(s) : s[k] \in S
  BY SeqElements
<1>1. o \in Nat /\ w \in Nat /\ o <= w /\ w <= Len(s) /\ w \in 0 .. Len(s)
  BY <1>0
<1>2. a \in Seq(S) /\ Len(a) = o /\ \A k \in 1 .. o : a[k] = s[k]
  BY FirstOfIs
<1>3. c \in Seq(S) /\ Len(c) = w /\ \A k \in 1 .. w : c[k] = s[k]
  BY <1>1, FirstOfIs
<1>4. b \in Seq(S) /\ Len(b) = w - o /\ \A k \in 1 .. w - o : b[k] = s[o + k]
  <2>1. o + 1 \in Int /\ w \in Int /\ \A k \in o + 1 .. w : s[k] \in S
    BY <1>0, <1>1
  <2>2. /\ b \in Seq(S) /\ Len(b) = (IF o + 1 <= w THEN w - (o + 1) + 1 ELSE 0)
        /\ \A k \in 1 .. w - (o + 1) + 1 : b[k] = s[o + 1 + k - 1]
    BY <2>1, SubSeqProperties
  <2>3. w - (o + 1) + 1 = w - o /\ (~(o + 1 <= w) => w - o = 0) /\ \A k \in 1 .. w - o : o + 1 + k - 1 = o + k
    BY <1>1
  <2>. HIDE DEF b
  <2>. QED
    BY <2>2, <2>3
<1>. HIDE DEF a, b, c
<1>5. /\ d \in Seq(S) /\ Len(d) = Len(a) + Len(b)
      /\ \A k \in 1 .. Len(a) + Len(b) : d[k] = IF k <= Len(a) THEN a[k] ELSE b[k - Len(a)]
  BY <1>2, <1>4, ConcatProperties DEF Cat
<1>. HIDE DEF d
<1>6. Len(d) = w
  BY <1>1, <1>2, <1>4, <1>5
<1>7. ASSUME NEW k \in 1 .. w PROVE d[k] = c[k]
  <2>0. d[k] = IF k <= o THEN a[k] ELSE b[k - o]
    BY <1>2, <1>5, <1>6
  <2>1. CASE k <= o
    BY <1>1, <1>2, <1>3, <2>0, <2>1
  <2>2. CASE ~(k <= o)
    <3>1. k - o \in 1 .. w - o /\ o + (k - o) = k
      BY <1>1, <2>2
    <3>. QED
      BY <1>3, <1>4, <2>0, <2>2, <3>1
  <2>. QED
    BY <2>1, <2>2
<1>8. c = d
  BY <1>3, <1>5, <1>6, <1>7, SeqEqual
<1>. QED
  BY <1>4, <1>8 DEF a, b, c, d

\* A batch that is read without an error gives its rows in the extent.
LEMMA BatchReadIs ==
  ASSUME NEW f, NEW sc, NEW s \in Seq(Snaps!Row), NEW n \in Nat,
         NEW got, got = Listing!Extract(f, [by |-> "geometry", scope |-> sc], s, n), got.err = None
  PROVE  got.rows = Only(s, Reach(sc))
<1>. DEFINE fl == [by |-> "geometry", scope |-> sc]
            E == {k \in 1 .. Len(s) : Listing!FaultOf(f, fl, s[k]) # None}
            m == Listing!Min(E)
            e == [kind |-> Listing!FaultOf(f, fl, s[m]), at |-> n + m - 1]
            P == {k \in 1 .. Len(s) : Listing!Matches(f, fl, s[k])}
<1>1. Len(s) \in Nat /\ \A k \in 1 .. Len(s) : s[k] \in Snaps!Row
  BY SeqElements
<1>2. got = IF E = {} THEN [err |-> None, rows |-> Picked(s, P)] ELSE [err |-> e, rows |-> <<>>]
  BY ListingPicked DEF Listing!Extract, Listing!Kept
<1>3. ASSUME E # {} PROVE e # None
  <2>0. E \subseteq Nat /\ \A k \in E : k >= 1
    BY <1>1
  <2>1. m \in E
    <3>. HIDE DEF E
    <3>. QED
      BY <1>3, <2>0, SnapsMinIs, ListingMin
  <2>2. m \in Nat /\ m >= 1
    BY <2>0, <2>1
  <2>3. n + m - 1 \in Nat
    <3>. HIDE DEF m
    <3>. QED
      BY <2>2
  <2>4. Listing!FaultOf(f, fl, s[m]) \in Snaps!Kinds
    <3>1. Listing!FaultOf(f, fl, s[m]) # None
      BY <2>1
    <3>2. Listing!FaultOf(f, fl, s[m]) \in {"invalid_row", "geometry_invalid", "invalid_stem_role", None}
      <4>. HIDE DEF m, fl
      <4>. QED
        BY DEF Listing!FaultOf
    <3>. HIDE DEF m, fl
    <3>. QED
      BY <3>1, <3>2 DEF Snaps!Kinds
  <2>. HIDE DEF m, fl
  <2>. QED
    BY <2>3, <2>4, ErrorsDiffer
<1>. HIDE DEF E, e
<1>4. got.rows = Picked(s, P)
  <2>1. E = {}
    <3>1. E # {} => got.err = e
      BY <1>2
    <3>. QED
      BY <1>3, <3>1
  <2>. QED
    BY <1>2, <2>1
<1>5. P = {k \in 1 .. Len(s) : s[k] \in Reach(sc)}
  <2>1. ASSUME NEW r PROVE Listing!Matches(f, fl, r) <=> Listing!InScope(sc, r)
    BY DEF Listing!Matches
  <2>. HIDE DEF fl
  <2>. QED
    BY <1>1, <2>1 DEF Reach
<1>. HIDE DEF P
<1>. QED
  BY <1>4, <1>5 DEF Only

\* Rows with the name of their set.
Tag(x, u) == [k \in 1 .. Len(u) |-> [set |-> x, row |-> u[k]]]

LEMMA TagIs ==
  ASSUME NEW x, NEW S, NEW u \in Seq(S), NEW r \in S
  PROVE  /\ Tag(x, u) \in Seq([set : {x}, row : S]) /\ Tag(x, <<>>) = <<>>
         /\ Tag(x, Append(u, r)) = Append(Tag(x, u), [set |-> x, row |-> r])
<1>. DEFINE X == [set : {x}, row : S]
            n == Len(u)
            w == Append(u, r)
            a == Tag(x, u)
            e == [set |-> x, row |-> r]
            b == Append(a, e)
            c == Tag(x, w)
<1>1. n \in Nat /\ \A k \in 1 .. n : u[k] \in S
  BY SeqElements
<1>2. a \in [1 .. n -> X]
  BY <1>1 DEF Tag
<1>3. a \in Seq(X) /\ Len(a) = n /\ \A k \in 1 .. n : a[k] = [set |-> x, row |-> u[k]]
  <2>1. \A k \in 1 .. n : a[k] = [set |-> x, row |-> u[k]]
    BY DEF Tag
  <2>. HIDE DEF a, X, n
  <2>. QED
    BY <1>1, <1>2, <2>1, SeqDef
<1>4. Tag(x, <<>>) = <<>>
  BY EmptySeq DEF Tag
<1>5. /\ w \in Seq(S) /\ Len(w) = n + 1 /\ w[n + 1] = r /\ \A k \in 1 .. n : w[k] = u[k]
  BY AppendProperties
<1>6. e \in X
  OBVIOUS
<1>. HIDE DEF a, X, n, w, e
<1>7. b \in Seq(X) /\ Len(b) = n + 1 /\ b[n + 1] = e /\ \A k \in 1 .. n : b[k] = a[k]
  BY <1>3, <1>6, AppendProperties
<1>. HIDE DEF b
<1>8. \A k \in 1 .. n + 1 : k = n + 1 \/ k \in 1 .. n
  BY <1>1
<1>9. c = [k \in 1 .. n + 1 |-> [set |-> x, row |-> w[k]]]
  BY <1>5 DEF Tag
<1>10. \A k \in 1 .. n + 1 : b[k] = [set |-> x, row |-> w[k]]
  BY <1>3, <1>5, <1>7, <1>8 DEF e
<1>11. b = [k \in 1 .. n + 1 |-> b[k]]
  BY <1>1, <1>7
<1>12. c = b
  BY <1>9, <1>10, <1>11
<1>. QED
  BY <1>3, <1>4, <1>12 DEF a, b, c, e, w, X

-----------------------------------------------------------------------------
(* How far a visit has come. *)

StoreOf(d) == [name |-> d.name, file |-> d.file, boxes |-> Listing!GroupBoxes(d.file)]

StoresOf(c) == [n \in 1 .. Len(SelectedOf(c)) |-> StoreOf(SelectedOf(c)[n])]

Opened == {StoreOf(d) : d \in Declared}

LEMMA DeclaredIs ==
  ASSUME NEW d \in Declared
  PROVE  d.file \in Snaps!SnapFile /\ HonestFile(d.file) /\ d.name \in STRING
BY ListingSame DEF Declared, Listing!Decl

LEMMA StoresAre ==
  ASSUME NEW c \in ListingCases
  PROVE  /\ Len(SelectedOf(c)) \in Nat /\ StoresOf(c) \in Seq(Opened)
         /\ Len(StoresOf(c)) = Len(SelectedOf(c))
         /\ \A n \in 1 .. Len(SelectedOf(c)) :
              SelectedOf(c)[n] \in Declared /\ StoresOf(c)[n] = StoreOf(SelectedOf(c)[n])
<1>. DEFINE s == SelectedOf(c)
            n == Len(s)
            z == StoresOf(c)
<1>1. n \in Nat /\ \A k \in 1 .. n : s[k] \in Declared
  BY CaseDeclared, SeqElements
<1>2. z = [k \in 1 .. n |-> StoreOf(s[k])]
  BY DEF StoresOf
<1>. HIDE DEF s, n, z
<1>3. z \in [1 .. n -> Opened]
  BY <1>1, <1>2 DEF Opened
<1>4. z \in Seq(Opened) /\ Len(z) = n
  <2>. DEFINE O == Opened
  <2>. HIDE DEF O
  <2>1. z \in [1 .. n -> O]
    BY <1>3 DEF O
  <2>2. z \in Seq(O) /\ Len(z) = n
    BY <1>1, <2>1, SeqDef
  <2>. QED
    BY <2>2 DEF O
<1>5. \A k \in 1 .. n : z[k] = StoreOf(s[k])
  BY <1>2
<1>. QED
  BY <1>1, <1>4, <1>5 DEF s, n, z

LEMMA CursorIs ==
  ASSUME NEW f \in Snaps!SnapFile, NEW sc
  PROVE  /\ CursorOf(f, sc) \in Seq(Nat) /\ Len(CursorOf(f, sc)) \in Nat
         /\ \A p \in 1 .. Len(CursorOf(f, sc)) : CursorOf(f, sc)[p] \in 1 .. Len(f.groups)
<1>. DEFINE n == Len(f.groups)
            V == Listing!Visited(Listing!GroupBoxes(f), sc)
<1>1. n \in Nat
  BY PiecesAre
<1>2. Len(Listing!GroupBoxes(f)) = n
  BY <1>1 DEF Listing!GroupBoxes
<1>3. CursorOf(f, sc) = Numbers(V, n)
  BY <1>2 DEF CursorOf
<1>. HIDE DEF n, V
<1>4. Ordered(CursorOf(f, sc), V, n)
  BY <1>1, <1>3, NumbersOrdered
<1>. QED
  BY <1>4, LenProperties DEF Ordered, n

\* A sequence of sequences, glued up to its n-th.
LEMMA JoinedIsSeq ==
  ASSUME NEW S, NEW s, NEW n \in Nat, \A k \in 1 .. n : s[k] \in Seq(S)
  PROVE  Joined(FirstOf(s, n)) \in Seq(S)
<1>. DEFINE b == FirstOf(s, n)
<1>1. Len(b) = n /\ \A k \in 1 .. n : b[k] = s[k]
  BY DEF FirstOf
<1>. HIDE DEF b
<1>2. PICK f : Glues(f, b, n)
  BY GluesExists
<1>3. Joined(b) = f[n]
  BY <1>1, <1>2, JoinedIs
<1>4. \A k \in 1 .. n : b[k] \in Seq(S)
  BY <1>1
<1>5. f[n] \in Seq(S)
  <2>1. n \in 0 .. n
    OBVIOUS
  <2>2. \A m \in 0 .. n : f[m] \in Seq(S)
    BY <1>2, <1>4, GlueIs
  <2>. QED
    BY <2>1, <2>2
<1>. QED
  BY <1>3, <1>5 DEF b

RowsAt(f, sc, p) == f.groups[CursorOf(f, sc)[p]].rows

UpToGroup(f, sc, v) == Joined(FirstOf(Mapped(CursorOf(f, sc), KeptOf(f, sc)), v))

\* The targets of v row groups of the cursor, and of the first o rows of the next.
Progress(f, sc, v, o) ==
  IF v < Len(CursorOf(f, sc))
    THEN Cat(UpToGroup(f, sc, v), Only(FirstOf(RowsAt(f, sc, v + 1), o), Reach(sc)))
    ELSE UpToGroup(f, sc, v)

LEMMA RowsAtAre ==
  ASSUME NEW f \in Snaps!SnapFile, NEW sc, NEW p \in 1 .. Len(CursorOf(f, sc))
  PROVE  /\ RowsAt(f, sc, p) \in Seq(Snaps!Row) /\ Len(RowsAt(f, sc, p)) \in Nat
         /\ Mapped(CursorOf(f, sc), KeptOf(f, sc))[p] = Only(RowsAt(f, sc, p), Reach(sc))
         /\ Mapped(CursorOf(f, sc), KeptOf(f, sc))[p] \in Seq(Snaps!Row)
<1>. DEFINE g == CursorOf(f, sc)[p]
<1>1. g \in 1 .. Len(f.groups)
  BY CursorIs
<1>2. Mapped(CursorOf(f, sc), KeptOf(f, sc))[p] = KeptOf(f, sc)[g]
  BY DEF Mapped
<1>. HIDE DEF g
<1>3. KeptOf(f, sc)[g] = Only(f.groups[g].rows, Reach(sc))
  BY <1>1 DEF KeptOf
<1>4. f.groups[g].rows \in Seq(Snaps!Row)
  BY <1>1, PiecesAre
<1>5. RowsAt(f, sc, p) = f.groups[g].rows
  BY DEF RowsAt, g
<1>6. Only(f.groups[g].rows, Reach(sc)) \in Seq(Snaps!Row)
  BY <1>4, OnlySeq
<1>. QED
  BY <1>2, <1>3, <1>4, <1>5, <1>6, LenProperties

LEMMA UpToGroupIs ==
  ASSUME NEW f \in Snaps!SnapFile, NEW sc, NEW v \in 0 .. Len(CursorOf(f, sc))
  PROVE  UpToGroup(f, sc, v) \in Seq(Snaps!Row) /\ UpToGroup(f, sc, 0) = <<>>
<1>. DEFINE s == Mapped(CursorOf(f, sc), KeptOf(f, sc))
            N == Len(CursorOf(f, sc))
<1>1. N \in Nat /\ \A k \in 1 .. N : s[k] \in Seq(Snaps!Row)
  BY CursorIs, RowsAtAre
<1>2. v \in 0 .. N
  OBVIOUS
<1>. HIDE DEF s, N
<1>3. v \in Nat /\ \A k \in 1 .. v : s[k] \in Seq(Snaps!Row)
  BY <1>1, <1>2
<1>4. Joined(FirstOf(s, v)) \in Seq(Snaps!Row) /\ Joined(FirstOf(s, 0)) = <<>>
  BY <1>3, JoinedIsSeq, JoinedNone
<1>. QED
  BY <1>4 DEF UpToGroup, s

LEMMA UpToGroupNext ==
  ASSUME NEW f \in Snaps!SnapFile, NEW sc, NEW v \in Nat, v < Len(CursorOf(f, sc))
  PROVE  UpToGroup(f, sc, v + 1) = Cat(UpToGroup(f, sc, v), Only(RowsAt(f, sc, v + 1), Reach(sc)))
<1>. DEFINE s == Mapped(CursorOf(f, sc), KeptOf(f, sc))
            p == v + 1
<1>1. p \in 1 .. Len(CursorOf(f, sc)) /\ p \in Nat \ {0} /\ p - 1 = v
  BY CursorIs
<1>. HIDE DEF p
<1>2. s[p] = Only(RowsAt(f, sc, p), Reach(sc))
  BY <1>1, RowsAtAre
<1>. HIDE DEF s
<1>3. Joined(FirstOf(s, p)) = Cat(Joined(FirstOf(s, v)), s[p])
  BY <1>1, JoinedNext
<1>. QED
  BY <1>2, <1>3 DEF UpToGroup, s, p

LEMMA UpToGroupAll ==
  ASSUME NEW f \in Snaps!SnapFile, HonestFile(f), NEW sc, IsScope(sc)
  PROVE  UpToGroup(f, sc, Len(CursorOf(f, sc))) = Only(Snaps!AllRows(f), Reach(sc))
<1>. DEFINE s == Mapped(CursorOf(f, sc), KeptOf(f, sc))
            N == Len(CursorOf(f, sc))
<1>1. s = FirstOf(s, N)
  BY DEF Mapped, FirstOf
<1>. QED
  BY <1>1, VisitedGather DEF UpToGroup

LEMMA ProgressNone ==
  ASSUME NEW f \in Snaps!SnapFile, NEW sc
  PROVE  Progress(f, sc, 0, 0) = <<>>
<1>. DEFINE N == Len(CursorOf(f, sc))
            A == FirstOf(RowsAt(f, sc, 1), 0)
<1>1. N \in Nat /\ 0 \in 0 .. N
  BY CursorIs
<1>2. UpToGroup(f, sc, 0) = <<>>
  BY <1>1, UpToGroupIs
<1>3. ASSUME 0 < N PROVE Progress(f, sc, 0, 0) = <<>>
  <2>1. A = <<>>
    BY EmptySeq DEF FirstOf
  <2>2. Only(A, Reach(sc)) = <<>>
    BY <2>1, OnlyNothing
  <2>3. Progress(f, sc, 0, 0) = Cat(<<>>, Only(A, Reach(sc)))
    BY <1>2, <1>3 DEF Progress
  <2>4. Cat(<<>>, <<>>) = <<>>
    BY CatIs, EmptySeq
  <2>. QED
    BY <2>2, <2>3, <2>4
<1>4. ASSUME ~(0 < N) PROVE Progress(f, sc, 0, 0) = <<>>
  BY <1>2, <1>4 DEF Progress
<1>. QED
  BY <1>3, <1>4

LEMMA ProgressRead ==
  ASSUME NEW f \in Snaps!SnapFile, NEW sc, NEW v \in Nat, v < Len(CursorOf(f, sc)),
         NEW s, s = RowsAt(f, sc, v + 1), NEW o \in 0 .. Len(s), NEW w \in o .. Len(s)
  PROVE  Progress(f, sc, v, w) = Cat(Progress(f, sc, v, o), Only(SubSeq(s, o + 1, w), Reach(sc)))
<1>. DEFINE R == Reach(sc)
            a == UpToGroup(f, sc, v)
            x == FirstOf(s, o)
            y == SubSeq(s, o + 1, w)
<1>1. v + 1 \in 1 .. Len(CursorOf(f, sc)) /\ v \in 0 .. Len(CursorOf(f, sc))
  BY CursorIs
<1>2. s \in Seq(Snaps!Row) /\ a \in Seq(Snaps!Row)
  BY <1>1, RowsAtAre, UpToGroupIs
<1>3. Progress(f, sc, v, w) = Cat(a, Only(FirstOf(s, w), R)) /\ Progress(f, sc, v, o) = Cat(a, Only(x, R))
  BY DEF Progress
<1>4. x \in Seq(Snaps!Row) /\ y \in Seq(Snaps!Row) /\ FirstOf(s, w) = Cat(x, y)
  BY <1>2, FirstOfIs, FirstAndNext
<1>. HIDE DEF R, a, x, y
<1>5. Only(FirstOf(s, w), R) = Cat(Only(x, R), Only(y, R))
  BY <1>4, OnlyConcat
<1>6. Only(x, R) \in Seq(Snaps!Row) /\ Only(y, R) \in Seq(Snaps!Row)
  BY <1>4, OnlySeq
<1>7. Cat(Cat(a, Only(x, R)), Only(y, R)) = Cat(a, Cat(Only(x, R), Only(y, R)))
  BY <1>2, <1>6, CatAssociative
<1>. QED
  BY <1>3, <1>5, <1>7 DEF R, y

LEMMA ProgressGroup ==
  ASSUME NEW f \in Snaps!SnapFile, NEW sc, NEW v \in Nat, v < Len(CursorOf(f, sc)),
         NEW s, s = RowsAt(f, sc, v + 1)
  PROVE  Progress(f, sc, v, Len(s)) = Progress(f, sc, v + 1, 0)
<1>. DEFINE N == Len(CursorOf(f, sc))
            a == UpToGroup(f, sc, v + 1)
            A == FirstOf(RowsAt(f, sc, v + 1 + 1), 0)
<1>1. v + 1 \in 1 .. N /\ v + 1 \in 0 .. N
  BY CursorIs
<1>2. s \in Seq(Snaps!Row) /\ a \in Seq(Snaps!Row)
  BY <1>1, RowsAtAre, UpToGroupIs
<1>3. FirstOf(s, Len(s)) = s
  BY <1>2, FirstOfAll
<1>4. Progress(f, sc, v, Len(s)) = a
  BY <1>3, UpToGroupNext DEF Progress
<1>5. A = <<>>
  BY EmptySeq DEF FirstOf
<1>6. Only(A, Reach(sc)) = <<>>
  BY <1>5, OnlyNothing
<1>7. Cat(a, <<>>) = a
  BY <1>2, CatIs
<1>8. Progress(f, sc, v + 1, 0) = IF v + 1 < N THEN Cat(a, Only(A, Reach(sc))) ELSE a
  BY DEF Progress
<1>. HIDE DEF a, A, N
<1>. QED
  BY <1>4, <1>6, <1>7, <1>8

LEMMA ProgressAll ==
  ASSUME NEW f \in Snaps!SnapFile, HonestFile(f), NEW sc, IsScope(sc)
  PROVE  Progress(f, sc, Len(CursorOf(f, sc)), 0) = Only(Snaps!AllRows(f), Reach(sc))
<1>1. Len(CursorOf(f, sc)) \in Nat
  BY CursorIs
<1>. QED
  BY <1>1, UpToGroupAll DEF Progress

-----------------------------------------------------------------------------
(* What a sink has received. *)

SetRows(c, n) == Only(Snaps!AllRows(SelectedOf(c)[n].file), Reach(c.scope))

FrameParts(c) == [n \in 1 .. Len(SelectedOf(c)) |-> Tag(SelectedOf(c)[n].name, SetRows(c, n))]

FrameUpTo(c, m) == Joined(FirstOf(FrameParts(c), m))

Tagged == [set : STRING, row : Snaps!Row]

\* After m sets, and u rows of the next.
FrameHas(c, m, u, z) ==
  IF m = Len(SelectedOf(c)) THEN z = FrameUpTo(c, m)
  ELSE z = Cat(FrameUpTo(c, m), Tag(SelectedOf(c)[m + 1].name, u))

LEMMA SetRowsAre ==
  ASSUME NEW c \in ListingCases, NEW n \in 1 .. Len(SelectedOf(c))
  PROVE  SetRows(c, n) \in Seq(Snaps!Row)
<1>1. SelectedOf(c)[n].file \in Snaps!SnapFile
  BY StoresAre, DeclaredIs
<1>2. Snaps!AllRows(SelectedOf(c)[n].file) \in Seq(Snaps!Row)
  BY <1>1, AllRowsAre
<1>. QED
  BY <1>2, OnlySeq DEF SetRows

LEMMA TagSeq ==
  ASSUME NEW x \in STRING, NEW u \in Seq(Snaps!Row)
  PROVE  Tag(x, u) \in Seq(Tagged)
<1>. DEFINE S == Snaps!Row
            n == Len(u)
            a == Tag(x, u)
<1>1. n \in Nat /\ \A k \in 1 .. n : u[k] \in S
  BY SeqElements
<1>2. a = [k \in 1 .. n |-> [set |-> x, row |-> u[k]]]
  BY DEF Tag
<1>. HIDE DEF S, n, a
<1>3. \A k \in 1 .. n : [set |-> x, row |-> u[k]] \in Tagged
  BY <1>1 DEF Tagged, S
<1>. DEFINE T == Tagged
<1>. HIDE DEF T
<1>4. a \in [1 .. n -> T]
  BY <1>2, <1>3 DEF T
<1>5. a \in Seq(T)
  BY <1>1, <1>4, SeqDef
<1>. QED
  BY <1>5 DEF a, T

LEMMA FrameUpToIs ==
  ASSUME NEW c \in ListingCases, NEW m \in 0 .. Len(SelectedOf(c))
  PROVE  FrameUpTo(c, m) \in Seq(Tagged) /\ FrameUpTo(c, 0) = <<>>
<1>. DEFINE s == FrameParts(c)
            N == Len(SelectedOf(c))
<1>1. N \in Nat
  BY StoresAre
<1>2. ASSUME NEW k \in 1 .. N PROVE s[k] \in Seq(Tagged)
  <2>1. SelectedOf(c)[k].name \in STRING /\ SetRows(c, k) \in Seq(Snaps!Row)
    BY StoresAre, DeclaredIs, SetRowsAre
  <2>2. s[k] = Tag(SelectedOf(c)[k].name, SetRows(c, k))
    BY DEF FrameParts
  <2>. QED
    BY <2>1, <2>2, TagSeq
<1>3. m \in 0 .. N
  OBVIOUS
<1>. HIDE DEF s, N
<1>4. m \in Nat /\ \A k \in 1 .. m : s[k] \in Seq(Tagged)
  BY <1>1, <1>2, <1>3
<1>5. Joined(FirstOf(s, m)) \in Seq(Tagged) /\ Joined(FirstOf(s, 0)) = <<>>
  BY <1>4, JoinedIsSeq, JoinedNone
<1>. QED
  BY <1>5 DEF FrameUpTo, s

LEMMA FrameNext ==
  ASSUME NEW c \in ListingCases, NEW m \in Nat, m < Len(SelectedOf(c)), NEW z,
         FrameHas(c, m, SetRows(c, m + 1), z)
  PROVE  FrameHas(c, m + 1, <<>>, z)
<1>. DEFINE s == FrameParts(c)
            N == Len(SelectedOf(c))
            p == m + 1
<1>1. N \in Nat
  BY StoresAre
<1>2. p \in 1 .. N /\ p \in 0 .. N /\ p \in Nat \ {0} /\ p - 1 = m /\ m # N
  BY <1>1
<1>. HIDE DEF p
<1>3. s[p] = Tag(SelectedOf(c)[p].name, SetRows(c, p))
  BY <1>2 DEF FrameParts
<1>4. z = Cat(FrameUpTo(c, m), s[p])
  BY <1>2, <1>3 DEF FrameHas, p
<1>. HIDE DEF s, N
<1>5. Joined(FirstOf(s, p)) = Cat(Joined(FirstOf(s, m)), s[p])
  BY <1>2, JoinedNext
<1>6. z = FrameUpTo(c, p)
  BY <1>4, <1>5 DEF FrameUpTo, s
<1>7. FrameUpTo(c, p) \in Seq(Tagged)
  BY <1>2, FrameUpToIs DEF N
<1>8. Cat(z, <<>>) = z
  BY <1>6, <1>7, CatIs
<1>9. Tag(SelectedOf(c)[p + 1].name, <<>>) = <<>>
  BY EmptySeq DEF Tag
<1>. QED
  BY <1>6, <1>8, <1>9 DEF FrameHas, p, N

LEMMA FramePush ==
  ASSUME NEW c \in ListingCases, NEW m \in Nat, m < Len(SelectedOf(c)), NEW u \in Seq(Snaps!Row),
         NEW r \in Snaps!Row, NEW z, FrameHas(c, m, u, z)
  PROVE  FrameHas(c, m, Append(u, r), Append(z, [set |-> SelectedOf(c)[m + 1].name, row |-> r]))
<1>. DEFINE x == SelectedOf(c)[m + 1].name
            e == [set |-> x, row |-> r]
            a == FrameUpTo(c, m)
            b == Tag(x, u)
<1>1. /\ Len(SelectedOf(c)) \in Nat /\ m # Len(SelectedOf(c)) /\ m \in 0 .. Len(SelectedOf(c))
      /\ m + 1 \in 1 .. Len(SelectedOf(c))
  BY StoresAre
<1>2. x \in STRING
  BY <1>1, StoresAre, DeclaredIs
<1>3. a \in Seq(Tagged) /\ b \in Seq(Tagged)
  BY <1>1, <1>2, FrameUpToIs, TagSeq
<1>4. e \in Tagged
  BY <1>2 DEF Tagged
<1>5. z = Cat(a, b)
  BY <1>1 DEF FrameHas
<1>6. Tag(x, Append(u, r)) = Append(b, e)
  BY TagIs
<1>. HIDE DEF a, b, e, x
<1>7. Append(Cat(a, b), e) = Cat(a, Append(b, e))
  BY <1>3, <1>4, AppendConcat DEF Push
<1>. QED
  BY <1>1, <1>5, <1>6, <1>7 DEF FrameHas, a, x, e

OfKind(u, kd) == Only(u, {r \in Snaps!Row : r.kind = kd})

LayerKeys(c) == {SelectedOf(c)[n].name : n \in 1 .. Len(SelectedOf(c))} \X {"point", "line"}

Given(c, m, u, n) == IF n <= m THEN SetRows(c, n) ELSE IF n = m + 1 THEN u ELSE <<>>

LayersHave(c, m, u, z) ==
  /\ DOMAIN z = LayerKeys(c)
  /\ \A n \in 1 .. Len(SelectedOf(c)), kd \in {"point", "line"} :
       z[<<SelectedOf(c)[n].name, kd>>] = OfKind(Given(c, m, u, n), kd)

LEMMA LayersNone ==
  ASSUME NEW c \in ListingCases
  PROVE  LayersHave(c, 0, <<>>, [k \in LayerKeys(c) |-> <<>>])
<1>. DEFINE z == [k \in LayerKeys(c) |-> <<>>]
<1>1. ASSUME NEW n \in 1 .. Len(SelectedOf(c)), NEW kd \in {"point", "line"}
      PROVE  z[<<SelectedOf(c)[n].name, kd>>] = OfKind(Given(c, 0, <<>>, n), kd)
  <2>1. <<SelectedOf(c)[n].name, kd>> \in LayerKeys(c)
    BY DEF LayerKeys
  <2>2. Given(c, 0, <<>>, n) = <<>>
    <3>1. ~(n <= 0)
      BY StoresAre
    <3>. QED
      BY <3>1 DEF Given
  <2>3. OfKind(<<>>, kd) = <<>>
    BY OnlyNothing DEF OfKind
  <2>. QED
    BY <2>1, <2>2, <2>3
<1>. QED
  BY <1>1 DEF LayersHave

LEMMA LayersNext ==
  ASSUME NEW c \in ListingCases, NEW m \in Nat, NEW z, LayersHave(c, m, SetRows(c, m + 1), z)
  PROVE  LayersHave(c, m + 1, <<>>, z)
<1>1. ASSUME NEW n \in 1 .. Len(SelectedOf(c))
      PROVE  Given(c, m, SetRows(c, m + 1), n) = Given(c, m + 1, <<>>, n)
  <2>1. n \in Nat /\ (n <= m + 1 <=> n <= m \/ n = m + 1)
    BY StoresAre
  <2>2. CASE n <= m
    BY <2>1, <2>2 DEF Given
  <2>3. CASE n = m + 1
    <3>1. ~(n <= m)
      BY <2>3
    <3>. QED
      BY <2>1, <2>3, <3>1 DEF Given
  <2>4. CASE ~(n <= m) /\ n # m + 1
    BY <2>1, <2>4 DEF Given
  <2>. QED
    BY <2>2, <2>3, <2>4
<1>. QED
  BY <1>1 DEF LayersHave

LEMMA LayersWrite ==
  ASSUME NEW c \in ListingCases, NamesApart(c), NEW m \in Nat, m < Len(SelectedOf(c)),
         NEW u \in Seq(Snaps!Row), NEW r \in Snaps!Row, NEW z, LayersHave(c, m, u, z)
  PROVE  LayersHave(c, m, Append(u, r), [z EXCEPT ![<<SelectedOf(c)[m + 1].name, r.kind>>] = Append(@, r)])
<1>. DEFINE p == m + 1
            N == Len(SelectedOf(c))
            x(n) == SelectedOf(c)[n].name
            K == <<x(p), r.kind>>
            w == Append(u, r)
            y == [z EXCEPT ![K] = Append(@, r)]
<1>1. N \in Nat /\ p \in 1 .. N /\ ~(p <= m)
  BY StoresAre
<1>2. r.kind \in {"point", "line"}
  BY DEF Snaps!Row
<1>3. DOMAIN z = LayerKeys(c) /\ DOMAIN y = LayerKeys(c)
  BY DEF LayersHave
<1>4. ASSUME NEW n \in 1 .. N, NEW kd \in {"point", "line"}
      PROVE  y[<<x(n), kd>>] = OfKind(Given(c, m, w, n), kd)
  <2>1. <<x(n), kd>> \in LayerKeys(c)
    BY DEF LayerKeys
  <2>2. z[<<x(n), kd>>] = OfKind(Given(c, m, u, n), kd)
    BY DEF LayersHave
  <2>3. CASE n = p /\ kd = r.kind
    <3>1. Given(c, m, u, n) = u /\ Given(c, m, w, n) = w
      BY <1>1, <2>3 DEF Given
    <3>2. y[<<x(n), kd>>] = Append(z[<<x(n), kd>>], r)
      BY <1>3, <2>1, <2>3
    <3>3. OfKind(w, kd) = Append(OfKind(u, kd), r)
      <4>. DEFINE A == {t \in Snaps!Row : t.kind = kd}
      <4>1. r \in A
        BY <2>3
      <4>. HIDE DEF A
      <4>2. Only(w, A) = Append(Only(u, A), r)
        BY <4>1, OnlyAppend
      <4>. QED
        BY <4>2 DEF OfKind, A
    <3>. QED
      BY <2>2, <3>1, <3>2, <3>3
  <2>4. CASE n = p /\ kd # r.kind
    <3>1. Given(c, m, u, n) = u /\ Given(c, m, w, n) = w
      BY <1>1, <2>4 DEF Given
    <3>2. <<x(n), kd>> # K
      BY <2>4
    <3>3. y[<<x(n), kd>>] = z[<<x(n), kd>>]
      <4>. HIDE DEF K
      <4>. QED
        BY <1>3, <2>1, <3>2
    <3>4. OfKind(w, kd) = OfKind(u, kd)
      <4>. DEFINE A == {t \in Snaps!Row : t.kind = kd}
      <4>1. r \notin A
        BY <2>4
      <4>. HIDE DEF A
      <4>2. Only(w, A) = Only(u, A)
        BY <4>1, OnlyAppend
      <4>. QED
        BY <4>2 DEF OfKind, A
    <3>. QED
      BY <2>2, <3>1, <3>3, <3>4
  <2>5. CASE n # p
    <3>1. Given(c, m, u, n) = Given(c, m, w, n)
      BY <2>5 DEF Given
    <3>2. x(n) # x(p)
      BY <1>1, <2>5 DEF NamesApart
    <3>3. <<x(n), kd>> # K
      <4>. HIDE DEF x
      <4>. QED
        BY <3>2
    <3>4. y[<<x(n), kd>>] = z[<<x(n), kd>>]
      <4>. HIDE DEF K
      <4>. QED
        BY <1>3, <2>1, <3>3
    <3>. QED
      BY <2>2, <3>1, <3>4
  <2>. QED
    BY <2>3, <2>4, <2>5
<1>. QED
  BY <1>3, <1>4 DEF LayersHave

Handed(c, m, u, ly, z) == IF c.sink = "frame" THEN FrameHas(c, m, u, z) ELSE LayersHave(c, m, u, ly)

LEMMA HandedNext ==
  ASSUME NEW c \in ListingCases, NEW m \in Nat, m < Len(SelectedOf(c)), NEW ly, NEW z,
         Handed(c, m, SetRows(c, m + 1), ly, z)
  PROVE  Handed(c, m + 1, <<>>, ly, z)
BY FrameNext, LayersNext DEF Handed

LEMMA HandedAll ==
  ASSUME NEW c \in ListingCases, NEW u, NEW ly, NEW z, Handed(c, Len(SelectedOf(c)), u, ly, z)
  PROVE  Handed(c, Len(SelectedOf(c)), <<>>, ly, z)
<1>. DEFINE m == Len(SelectedOf(c))
<1>1. \A n \in 1 .. m : n <= m
  BY StoresAre
<1>2. \A n \in 1 .. m : Given(c, m, u, n) = Given(c, m, <<>>, n)
  BY <1>1 DEF Given
<1>. QED
  BY <1>2 DEF Handed, FrameHas, LayersHave

-----------------------------------------------------------------------------
(* A visit: m sets and v row groups of the next are done, u is handed over. *)

VisitAt(c, m, v, u, ss, td, o, b) ==
  /\ m \in 0 .. Len(SelectedOf(c)) /\ u \in Seq(Snaps!Row) /\ b \in Seq(Snaps!Row)
  /\ ss = Rest(StoresOf(c), m)
  /\ m = Len(SelectedOf(c)) => b = <<>>
  /\ m # Len(SelectedOf(c)) =>
       LET f == SelectedOf(c)[m + 1].file
           s == CursorOf(f, c.scope)
       IN  /\ v \in 0 .. Len(s) /\ td = Rest(s, v)
           /\ IF v = Len(s) THEN o = 0 ELSE o \in 0 .. Len(RowsAt(f, c.scope, v + 1))
           /\ Cat(u, b) = Progress(f, c.scope, v, o)

LEMMA RestAll ==
  ASSUME NEW S, NEW s \in Seq(S)
  PROVE  Rest(s, 0) = s
<1>. DEFINE n == Len(s)
<1>1. n \in Nat /\ s = [k \in 1 .. n |-> s[k]]
  BY SeqElements
<1>. HIDE DEF n
<1>2. \A k \in 1 .. n : 0 + k = k
  OBVIOUS
<1>3. n - 0 = n
  BY <1>1
<1>4. Rest(s, 0) = [k \in 1 .. n |-> s[k]]
  BY <1>2, <1>3 DEF Rest, n
<1>. QED
  BY <1>1, <1>4

LEMMA VisitBegins ==
  ASSUME NEW c \in ListingCases, NEW m \in 0 .. Len(SelectedOf(c)), NEW td,
         m # Len(SelectedOf(c)) => td = CursorOf(SelectedOf(c)[m + 1].file, c.scope)
  PROVE  VisitAt(c, m, 0, <<>>, Rest(StoresOf(c), m), td, 0, <<>>)
<1>1. <<>> \in Seq(Snaps!Row) /\ Cat(<<>>, <<>>) = <<>>
  BY CatIs, EmptySeq
<1>2. ASSUME m # Len(SelectedOf(c))
      PROVE  LET f == SelectedOf(c)[m + 1].file
                 s == CursorOf(f, c.scope)
             IN  /\ 0 \in 0 .. Len(s) /\ td = Rest(s, 0)
                 /\ IF 0 = Len(s) THEN 0 = 0 ELSE 0 \in 0 .. Len(RowsAt(f, c.scope, 0 + 1))
                 /\ Cat(<<>>, <<>>) = Progress(f, c.scope, 0, 0)
  <2>. DEFINE f == SelectedOf(c)[m + 1].file
              s == CursorOf(f, c.scope)
  <2>1. m + 1 \in 1 .. Len(SelectedOf(c))
    BY <1>2, StoresAre
  <2>2. f \in Snaps!SnapFile
    BY <2>1, StoresAre, DeclaredIs
  <2>3. td = s
    BY <1>2
  <2>. HIDE DEF f
  <2>4. s \in Seq(Nat) /\ Len(s) \in Nat
    BY <2>2, CursorIs
  <2>5. td = Rest(s, 0)
    BY <2>3, <2>4, RestAll
  <2>6. ASSUME 0 # Len(s) PROVE 0 \in 0 .. Len(RowsAt(f, c.scope, 0 + 1))
    <3>1. 1 \in 1 .. Len(s) /\ 0 + 1 = 1
      BY <2>4, <2>6
    <3>2. Len(RowsAt(f, c.scope, 1)) \in Nat
      BY <2>2, <3>1, RowsAtAre
    <3>. QED
      BY <3>1, <3>2
  <2>7. Progress(f, c.scope, 0, 0) = <<>>
    BY <2>2, ProgressNone
  <2>8. 0 \in 0 .. Len(s)
    BY <2>4
  <2>. QED
    BY <1>1, <2>5, <2>6, <2>7, <2>8 DEF f
<1>. QED
  BY <1>1, <1>2 DEF VisitAt

LEMMA VisitIn ==
  ASSUME NEW c \in ListingCases, NEW m, NEW v, NEW u, NEW ss, NEW td, NEW o, NEW b,
         VisitAt(c, m, v, u, ss, td, o, b), ss # <<>>
  PROVE  /\ m \in Nat /\ m < Len(SelectedOf(c)) /\ m # Len(SelectedOf(c))
         /\ m + 1 \in 0 .. Len(SelectedOf(c))
         /\ SelectedOf(c)[m + 1].file \in Snaps!SnapFile /\ HonestFile(SelectedOf(c)[m + 1].file)
         /\ Head(ss) = StoreOf(SelectedOf(c)[m + 1]) /\ Tail(ss) = Rest(StoresOf(c), m + 1)
         /\ Len(ss) > 1 <=> m + 1 # Len(SelectedOf(c))
         /\ Len(ss) > 1 => ss[2] = StoreOf(SelectedOf(c)[m + 2])
<1>. DEFINE N == Len(SelectedOf(c))
            s == StoresOf(c)
<1>1. /\ N \in Nat /\ s \in Seq(Opened) /\ Len(s) = N
      /\ \A n \in 1 .. N : SelectedOf(c)[n] \in Declared /\ s[n] = StoreOf(SelectedOf(c)[n])
  BY StoresAre
<1>2. m \in 0 .. N /\ ss = Rest(s, m)
  BY DEF VisitAt
<1>. HIDE DEF N, s
<1>3. m \in 0 .. Len(s) /\ Rest(s, m) # <<>>
  BY <1>1, <1>2
<1>4. /\ m + 1 \in 1 .. N /\ m + 1 \in 0 .. N /\ Head(ss) = s[m + 1] /\ Tail(ss) = Rest(s, m + 1)
      /\ Len(ss) > 1 <=> m + 1 # N
      /\ Len(ss) > 1 => ss[2] = s[m + 2]
  BY <1>1, <1>2, <1>3, RestNext
<1>5. m \in Nat /\ m < N /\ m # N
  BY <1>1, <1>2, <1>4
<1>6. m + 1 # N => m + 2 \in 1 .. N
  BY <1>1, <1>5
<1>7. SelectedOf(c)[m + 1] \in Declared
  BY <1>1, <1>4
<1>. QED
  BY <1>1, <1>4, <1>5, <1>6, <1>7, DeclaredIs DEF N, s

LEMMA VisitGroupIn ==
  ASSUME NEW c \in ListingCases, NEW m, NEW v, NEW u, NEW ss, NEW td, NEW o, NEW b,
         VisitAt(c, m, v, u, ss, td, o, b), ss # <<>>, td # <<>>,
         NEW f, f = SelectedOf(c)[m + 1].file
  PROVE  /\ f \in Snaps!SnapFile /\ v \in Nat /\ v < Len(CursorOf(f, c.scope))
         /\ Head(td) = CursorOf(f, c.scope)[v + 1] /\ Tail(td) = Rest(CursorOf(f, c.scope), v + 1)
         /\ v + 1 \in 0 .. Len(CursorOf(f, c.scope)) /\ v + 1 \in 1 .. Len(CursorOf(f, c.scope))
         /\ o \in 0 .. Len(RowsAt(f, c.scope, v + 1))
         /\ RowsAt(f, c.scope, v + 1) \in Seq(Snaps!Row) /\ Len(RowsAt(f, c.scope, v + 1)) \in Nat
         /\ Head(td) \in 1 .. Len(f.groups)
         /\ Cat(u, b) = Progress(f, c.scope, v, o)
<1>. DEFINE s == CursorOf(f, c.scope)
<1>1. f \in Snaps!SnapFile /\ m # Len(SelectedOf(c))
  BY VisitIn
<1>2. /\ v \in 0 .. Len(s) /\ td = Rest(s, v)
      /\ IF v = Len(s) THEN o = 0 ELSE o \in 0 .. Len(RowsAt(f, c.scope, v + 1))
      /\ Cat(u, b) = Progress(f, c.scope, v, o)
  BY <1>1 DEF VisitAt
<1>3. s \in Seq(Nat) /\ Len(s) \in Nat /\ \A p \in 1 .. Len(s) : s[p] \in 1 .. Len(f.groups)
  BY <1>1, CursorIs
<1>. HIDE DEF s
<1>4. Rest(s, v) # <<>>
  BY <1>2
<1>5. v + 1 \in 1 .. Len(s) /\ v + 1 \in 0 .. Len(s) /\ Head(td) = s[v + 1] /\ Tail(td) = Rest(s, v + 1)
  BY <1>2, <1>3, <1>4, RestNext
<1>6. v \in Nat /\ v < Len(s) /\ v # Len(s)
  BY <1>2, <1>3, <1>5
<1>7. RowsAt(f, c.scope, v + 1) \in Seq(Snaps!Row) /\ Len(RowsAt(f, c.scope, v + 1)) \in Nat
  BY <1>1, <1>5, RowsAtAre DEF s
<1>. QED
  BY <1>1, <1>2, <1>3, <1>5, <1>6, <1>7 DEF s

LEMMA VisitReads ==
  ASSUME NEW c \in ListingCases, NEW m, NEW v, NEW u, NEW ss, NEW td, NEW o,
         VisitAt(c, m, v, u, ss, td, o, <<>>), ss # <<>>, td # <<>>,
         NEW f, f = SelectedOf(c)[m + 1].file, NEW s, s = RowsAt(f, c.scope, v + 1),
         NEW w \in o .. Len(s)
  PROVE  VisitAt(c, m, v, u, ss, td, w, Only(SubSeq(s, o + 1, w), Reach(c.scope)))
<1>. DEFINE b == Only(SubSeq(s, o + 1, w), Reach(c.scope))
            N == Len(CursorOf(f, c.scope))
<1>1. /\ f \in Snaps!SnapFile /\ v \in Nat /\ v < N /\ o \in 0 .. Len(s) /\ s \in Seq(Snaps!Row)
      /\ Len(s) \in Nat /\ Cat(u, <<>>) = Progress(f, c.scope, v, o)
  BY VisitGroupIn
<1>2. m # Len(SelectedOf(c))
  BY VisitIn
<1>3. u \in Seq(Snaps!Row)
  BY DEF VisitAt
<1>4. w \in 0 .. Len(s) /\ v # N
  <2>1. N \in Nat
    BY <1>1, CursorIs
  <2>. HIDE DEF N
  <2>. QED
    BY <1>1, <2>1
<1>5. b \in Seq(Snaps!Row)
  <2>1. SubSeq(s, o + 1, w) \in Seq(Snaps!Row)
    BY <1>1, FirstAndNext
  <2>. QED
    BY <2>1, OnlySeq
<1>6. Progress(f, c.scope, v, w) = Cat(u, b)
  <2>1. Progress(f, c.scope, v, w) = Cat(Progress(f, c.scope, v, o), b)
    BY <1>1, ProgressRead
  <2>2. Cat(u, <<>>) = u
    BY <1>3, CatIs
  <2>. QED
    BY <1>1, <2>1, <2>2
<1>. HIDE DEF b
<1>7. VisitAt(c, m, v, u, ss, td, w, b)
  BY <1>2, <1>4, <1>5, <1>6 DEF VisitAt, N
<1>. QED
  BY <1>7 DEF b

LEMMA VisitLeavesGroup ==
  ASSUME NEW c \in ListingCases, NEW m, NEW v, NEW u, NEW ss, NEW td, NEW o,
         VisitAt(c, m, v, u, ss, td, o, <<>>), ss # <<>>, td # <<>>,
         NEW f, f = SelectedOf(c)[m + 1].file, o = Len(RowsAt(f, c.scope, v + 1))
  PROVE  VisitAt(c, m, v + 1, u, ss, Tail(td), 0, <<>>)
<1>. DEFINE N == Len(CursorOf(f, c.scope))
<1>1. /\ f \in Snaps!SnapFile /\ v \in Nat /\ v < N /\ v + 1 \in 0 .. N /\ v + 1 \in 1 .. N
      /\ Cat(u, <<>>) = Progress(f, c.scope, v, o) /\ Tail(td) = Rest(CursorOf(f, c.scope), v + 1)
  BY VisitGroupIn
<1>2. m # Len(SelectedOf(c))
  BY VisitIn
<1>3. Progress(f, c.scope, v, o) = Progress(f, c.scope, v + 1, 0)
  BY <1>1, ProgressGroup
<1>4. ASSUME v + 1 # N PROVE 0 \in 0 .. Len(RowsAt(f, c.scope, v + 1 + 1))
  <2>0. N \in Nat
    BY <1>1, CursorIs
  <2>1. v + 1 + 1 \in 1 .. N
    <3>. HIDE DEF N
    <3>. QED
      BY <1>1, <1>4, <2>0
  <2>2. Len(RowsAt(f, c.scope, v + 1 + 1)) \in Nat
    BY <1>1, <2>1, RowsAtAre
  <2>. QED
    BY <2>2
<1>. QED
  BY <1>1, <1>2, <1>3, <1>4 DEF VisitAt, N

LEMMA VisitLeavesStore ==
  ASSUME NEW c \in ListingCases, NEW m, NEW v, NEW u, NEW ss, NEW td, NEW o,
         VisitAt(c, m, v, u, ss, td, o, <<>>), ss # <<>>, td = <<>>
  PROVE  u = SetRows(c, m + 1) /\ o = 0
<1>. DEFINE f == SelectedOf(c)[m + 1].file
            s == CursorOf(f, c.scope)
<1>1. m # Len(SelectedOf(c)) /\ f \in Snaps!SnapFile /\ HonestFile(f)
  BY VisitIn
<1>2. /\ v \in 0 .. Len(s) /\ td = Rest(s, v) /\ (v = Len(s) => o = 0)
      /\ Cat(u, <<>>) = Progress(f, c.scope, v, o)
  BY <1>1 DEF VisitAt
<1>3. u \in Seq(Snaps!Row)
  BY DEF VisitAt
<1>4. s \in Seq(Nat)
  BY <1>1, CursorIs
<1>5. v = Len(s)
  <2>. HIDE DEF s
  <2>. QED
    BY <1>2, <1>4, RestIs
<1>6. Cat(u, <<>>) = u
  BY <1>3, CatIs
<1>7. IsScope(c.scope)
  BY CaseDeclared
<1>8. Progress(f, c.scope, Len(s), 0) = Only(Snaps!AllRows(f), Reach(c.scope))
  BY <1>1, <1>7, ProgressAll
<1>. QED
  BY <1>2, <1>5, <1>6, <1>8 DEF SetRows

LEMMA VisitHands ==
  ASSUME NEW c \in ListingCases, NEW m, NEW v, NEW u, NEW ss, NEW td, NEW o, NEW b,
         VisitAt(c, m, v, u, ss, td, o, b), b # <<>>
  PROVE  /\ ss # <<>> /\ Head(b) \in Snaps!Row
         /\ VisitAt(c, m, v, Append(u, Head(b)), ss, td, o, Tail(b))
<1>1. /\ m # Len(SelectedOf(c)) /\ m \in 0 .. Len(SelectedOf(c)) /\ ss = Rest(StoresOf(c), m)
      /\ u \in Seq(Snaps!Row) /\ b \in Seq(Snaps!Row)
  BY DEF VisitAt
<1>2. ss # <<>>
  BY <1>1, StoresAre, RestIs
<1>3. /\ Head(b) \in Snaps!Row /\ Tail(b) \in Seq(Snaps!Row) /\ Append(u, Head(b)) \in Seq(Snaps!Row)
      /\ Cat(Append(u, Head(b)), Tail(b)) = Cat(u, b)
  BY <1>1, CatHead
<1>. DEFINE x == Append(u, Head(b))
            t == Tail(b)
<1>. HIDE DEF x, t
<1>4. x \in Seq(Snaps!Row) /\ t \in Seq(Snaps!Row) /\ Cat(x, t) = Cat(u, b)
  BY <1>3 DEF x, t
<1>5. VisitAt(c, m, v, x, ss, td, o, t)
  BY <1>1, <1>4 DEF VisitAt
<1>. QED
  BY <1>2, <1>3, <1>5 DEF x, t

LEMMA VisitEnds ==
  ASSUME NEW c \in ListingCases, NEW m, NEW v, NEW u, NEW td, NEW o, NEW b,
         VisitAt(c, m, v, u, <<>>, td, o, b)
  PROVE  m = Len(SelectedOf(c))
<1>1. m \in 0 .. Len(SelectedOf(c)) /\ <<>> = Rest(StoresOf(c), m)
  BY DEF VisitAt
<1>. QED
  BY <1>1, StoresAre, RestIs

-----------------------------------------------------------------------------
(* The export keeps its invariant. *)

Visiting(c, ss, td, o, b, ly, z) ==
  \E m, v, u : VisitAt(c, m, v, u, ss, td, o, b) /\ Handed(c, m, u, ly, z)

ListingSo(c, st, ss, td, o, b, ly, z, w) ==
  /\ c \in ListingCases
  /\ st # "done" => w = Old
  /\ st \in {"select", "opening"} => z = <<>>
  /\ st = "select" => ss = <<>>
  /\ st \in {"opening", "visiting", "publish", "done"} => NamesApart(c)
  /\ st = "opening" => Len(ss) \in 0 .. Len(SelectedOf(c)) /\ ss = FirstOf(StoresOf(c), Len(ss))
  /\ st = "visiting" => Visiting(c, ss, td, o, b, ly, z)
  /\ st = "publish" => c.sink # "frame" /\ Handed(c, Len(SelectedOf(c)), <<>>, ly, z)
  /\ st = "done" => Handed(c, Len(SelectedOf(c)), <<>>, w, w)

ListingInv == ListingSo(job, exporting, stores, groups, offset, batch, layers, frame, output)

\* An error, or the end of the process.
Stopped == exporting' \in {"failed", "crashed"} /\ job' = job /\ output' = output

LEMMA ListingFails ==
  ASSUME NEW kind, NEW at, Listing!FailAt(kind, at)
  PROVE  Stopped
BY DEF Listing!FailAt, Stopped

LEMMA ListingFailsSo ==
  ASSUME NEW kind, Listing!Fail(kind)
  PROVE  Stopped
BY ListingFails DEF Listing!Fail

LEMMA ListingStops ==
  ASSUME ListingInv, exporting # "done", Stopped
  PROVE  ListingInv'
<1>1. ListingSo(job', exporting', stores', groups', offset', batch', layers', frame', output')
  BY DEF ListingInv, ListingSo, Stopped
<1>. QED
  BY <1>1 DEF ListingInv

LEMMA ListingBegin ==
  ASSUME Listing!Init
  PROVE  ListingInv
BY DEF Listing!Init, ListingInv, ListingSo

LEMMA ListingSelect ==
  ASSUME ListingInv, Listing!Select
  PROVE  ListingInv'
<1>1. /\ exporting = "select" /\ exporting' = "opening" /\ job' = job /\ stores' = stores
      /\ frame' = frame /\ output' = output
  BY DEF Listing!Select
<1>. DEFINE s == ReadableOf(job)
<1>2. Listing!Cardinality(Listing!Names) = Len(Listing!Readable)
  BY DEF Listing!Select
<1>3. Listing!Names = {s[k].name : k \in 1 .. Len(s)}
  BY ListingReadable DEF Listing!Names
<1>4. OneNameEach(s)
  <2>1. Listing!Cardinality(Listing!Names) = Cardinality(Listing!Names)
    BY DEF Listing!Cardinality, Cardinality
  <2>. QED
    BY <1>2, <1>3, <2>1, ListingReadable DEF OneNameEach
<1>5. job \in ListingCases /\ stores = <<>> /\ frame = <<>> /\ output = Old
  BY <1>1 DEF ListingInv, ListingSo
<1>6. NamesApart(job)
  BY <1>4, <1>5, SelectApart
<1>7. Len(<<>>) = 0 /\ FirstOf(StoresOf(job), 0) = <<>>
  BY EmptySeq DEF FirstOf
<1>8. 0 \in 0 .. Len(SelectedOf(job))
  BY <1>5, StoresAre
<1>9. ListingSo(job', exporting', stores', groups', offset', batch', layers', frame', output')
  BY <1>1, <1>5, <1>6, <1>7, <1>8 DEF ListingSo
<1>. QED
  BY <1>9 DEF ListingInv

LEMMA ListingOpens ==
  ASSUME ListingInv, Listing!OpenStore
  PROVE  ListingInv'
<1>. DEFINE n == Len(stores) + 1
            d == SelectedOf(job)[n]
<1>1. exporting = "opening" /\ Len(stores) < Len(SelectedOf(job))
  BY ListingSelected DEF Listing!OpenStore
<1>2. \/ Stopped
      \/ /\ exporting' = exporting /\ job' = job /\ output' = output /\ frame' = frame
         /\ stores' = Append(stores, StoreOf(d))
  <2>1. \/ Listing!Fail("path_escape") \/ Listing!Fail("artifact_read")
        \/ /\ exporting' = exporting /\ job' = job /\ output' = output /\ frame' = frame
           /\ stores' = Append(stores, StoreOf(d))
    BY ListingSelected DEF Listing!OpenStore, StoreOf
  <2>. HIDE DEF d
  <2>. QED
    BY <2>1, ListingFailsSo
<1>3. CASE Stopped
  BY <1>1, <1>3, ListingStops
<1>4. CASE /\ exporting' = exporting /\ job' = job /\ output' = output /\ frame' = frame
           /\ stores' = Append(stores, StoreOf(d))
  <2>. DEFINE z == StoresOf(job)
              N == Len(SelectedOf(job))
  <2>1. /\ job \in ListingCases /\ frame = <<>> /\ output = Old /\ NamesApart(job)
        /\ Len(stores) \in 0 .. N /\ stores = FirstOf(z, Len(stores))
    BY <1>1 DEF ListingInv, ListingSo
  <2>2. N \in Nat /\ z \in Seq(Opened) /\ Len(z) = N /\ \A k \in 1 .. N : z[k] = StoreOf(SelectedOf(job)[k])
    BY <2>1, StoresAre
  <2>3. n \in 1 .. N /\ n \in 0 .. N /\ n - 1 = Len(stores)
    BY <1>1, <2>1, <2>2
  <2>. HIDE DEF z, N, n
  <2>4. stores' = Append(stores, z[n])
    BY <1>4, <2>2, <2>3
  <2>5. FirstOf(z, n) = Append(FirstOf(z, n - 1), z[n])
    BY <2>2, <2>3, FirstOfNext
  <2>6. stores' = FirstOf(z, n)
    BY <2>1, <2>3, <2>4, <2>5
  <2>7. Len(stores') = n
    BY <2>2, <2>3, <2>6, FirstOfIs
  <2>8. ListingSo(job', exporting', stores', groups', offset', batch', layers', frame', output')
    BY <1>1, <1>4, <2>1, <2>3, <2>6, <2>7 DEF ListingSo, N, z
  <2>. QED
    BY <2>8 DEF ListingInv
<1>. QED
  BY <1>2, <1>3, <1>4

LEMMA ListingCursor ==
  ASSUME NEW d
  PROVE  Listing!Cursor(StoreOf(d)) = CursorOf(d.file, job.scope)
BY ListingInOrder DEF Listing!Cursor, StoreOf, CursorOf

\* A sink that is ready, before the first row.
LEMMA ListingStarts ==
  ASSUME ListingInv, exporting = "opening", exporting' = "visiting", Len(stores) = Len(Listing!Selected),
         groups' = Listing!Cursor(stores[1]), offset' = 0, batch' = <<>>,
         job' = job, stores' = stores, output' = output, Handed(job, 0, <<>>, layers', frame')
  PROVE  ListingInv'
<1>. DEFINE z == StoresOf(job)
            N == Len(SelectedOf(job))
<1>1. /\ job \in ListingCases /\ output = Old /\ NamesApart(job) /\ Len(stores) = N /\ stores = FirstOf(z, N)
  BY ListingSelected DEF ListingInv, ListingSo
<1>2. N \in Nat /\ z \in Seq(Opened) /\ Len(z) = N /\ \A k \in 1 .. N : z[k] = StoreOf(SelectedOf(job)[k])
  BY <1>1, StoresAre
<1>3. stores = z /\ stores = Rest(z, 0)
  <2>. HIDE DEF z, N
  <2>. QED
    BY <1>1, <1>2, FirstOfAll, RestAll
<1>4. ASSUME 0 # N PROVE groups' = CursorOf(SelectedOf(job)[0 + 1].file, job.scope)
  <2>1. 1 \in 1 .. N /\ 0 + 1 = 1
    BY <1>2, <1>4
  <2>2. stores[1] = StoreOf(SelectedOf(job)[1])
    BY <1>2, <1>3, <2>1
  <2>. QED
    BY <2>1, <2>2, ListingCursor
<1>5. VisitAt(job, 0, 0, <<>>, Rest(z, 0), groups', 0, <<>>)
  <2>1. 0 \in 0 .. N
    BY <1>2
  <2>. QED
    BY <1>1, <1>4, <2>1, VisitBegins
<1>6. Visiting(job, stores', groups', offset', batch', layers', frame')
  BY <1>3, <1>5 DEF Visiting
<1>7. ListingSo(job', exporting', stores', groups', offset', batch', layers', frame', output')
  BY <1>1, <1>6 DEF ListingSo
<1>. QED
  BY <1>7 DEF ListingInv

LEMMA ListingCreate ==
  ASSUME ListingInv, Listing!Create
  PROVE  ListingInv'
<1>1. /\ exporting = "opening" /\ exporting' = "visiting" /\ Len(stores) = Len(Listing!Selected)
      /\ groups' = Listing!Cursor(stores[1]) /\ offset' = 0 /\ batch' = <<>>
      /\ job' = job /\ stores' = stores /\ output' = output /\ job.sink = "package"
      /\ layers' = [k \in Listing!Layers |-> <<>>]
  BY DEF Listing!Create
<1>2. Listing!Layers = LayerKeys(job)
  BY ListingSelected DEF Listing!Layers, LayerKeys
<1>3. job \in ListingCases
  BY DEF ListingInv, ListingSo
<1>4. Handed(job, 0, <<>>, layers', frame')
  BY <1>1, <1>2, <1>3, LayersNone DEF Handed
<1>. QED
  BY <1>1, <1>4, ListingStarts

LEMMA ListingStartsFrame ==
  ASSUME ListingInv, Listing!StartFrame
  PROVE  ListingInv'
<1>1. /\ exporting = "opening" /\ exporting' = "visiting" /\ Len(stores) = Len(Listing!Selected)
      /\ groups' = Listing!Cursor(stores[1]) /\ offset' = 0 /\ batch' = <<>>
      /\ job' = job /\ stores' = stores /\ output' = output /\ job.sink = "frame" /\ frame' = frame
  BY DEF Listing!StartFrame
<1>2. job \in ListingCases /\ frame = <<>>
  BY <1>1 DEF ListingInv, ListingSo
<1>3. FrameUpTo(job, 0) = <<>>
  <2>1. 0 \in 0 .. Len(SelectedOf(job))
    BY <1>2, StoresAre
  <2>. QED
    BY <1>2, <2>1, FrameUpToIs
<1>4. Tag(SelectedOf(job)[0 + 1].name, <<>>) = <<>>
  BY EmptySeq DEF Tag
<1>5. Cat(<<>>, <<>>) = <<>>
  BY CatIs, EmptySeq
<1>6. Handed(job, 0, <<>>, layers', frame')
  BY <1>1, <1>2, <1>3, <1>4, <1>5 DEF Handed, FrameHas
<1>. QED
  BY <1>1, <1>6, ListingStarts

LEMMA ListingVisits ==
  ASSUME ListingInv, exporting = "visiting", exporting' = exporting, job' = job, output' = output,
         Visiting(job, stores', groups', offset', batch', layers', frame')
  PROVE  ListingInv'
<1>1. ListingSo(job', exporting', stores', groups', offset', batch', layers', frame', output')
  BY DEF ListingInv, ListingSo
<1>. QED
  BY <1>1 DEF ListingInv

LEMMA ListingVisiting ==
  ASSUME ListingInv, exporting = "visiting"
  PROVE  /\ job \in ListingCases /\ NamesApart(job)
         /\ \E m, v, u : VisitAt(job, m, v, u, stores, groups, offset, batch) /\ Handed(job, m, u, layers, frame)
BY DEF ListingInv, ListingSo, Visiting

LEMMA ListingReads ==
  ASSUME ListingInv, Listing!ReadBatch
  PROVE  ListingInv'
<1>. DEFINE s == Listing!GroupRows
            last == Listing!Min({offset + ListingRows, Len(s)})
            n == Listing!AbsoluteRowStart(Listing!Current.file, Head(groups)) + offset
            got == Listing!Extract(Listing!Current.file, [by |-> "geometry", scope |-> job.scope],
                                   SubSeq(s, offset + 1, last), n)
<1>1. exporting = "visiting" /\ stores # <<>> /\ groups # <<>> /\ batch = <<>> /\ offset < Len(s)
  BY DEF Listing!ReadBatch, Listing!InGroup
<1>2. IF got.err # None THEN Listing!FailAt(got.err.kind, got.err.at)
      ELSE /\ batch' = got.rows /\ offset' = last /\ exporting' = exporting /\ job' = job
           /\ output' = output /\ stores' = stores /\ groups' = groups /\ layers' = layers /\ frame' = frame
  BY DEF Listing!ReadBatch
<1>3. CASE got.err # None
  <2>1. Stopped
    <3>. HIDE DEF got
    <3>. QED
      BY <1>2, <1>3, ListingFails
  <2>. QED
    BY <1>1, <2>1, ListingStops
<1>4. CASE got.err = None
  <2>1. job \in ListingCases
    BY <1>1, ListingVisiting
  <2>2. PICK m, v, u : VisitAt(job, m, v, u, stores, groups, offset, <<>>) /\ Handed(job, m, u, layers, frame)
    BY <1>1, ListingVisiting
  <2>. DEFINE f == SelectedOf(job)[m + 1].file
              sc == job.scope
  <2>3. Head(stores) = StoreOf(SelectedOf(job)[m + 1])
    BY <1>1, <2>1, <2>2, VisitIn
  <2>4. Listing!Current.file = f
    BY <2>3 DEF Listing!Current, StoreOf
  <2>5. /\ f \in Snaps!SnapFile /\ Head(groups) = CursorOf(f, sc)[v + 1] /\ offset \in 0 .. Len(RowsAt(f, sc, v + 1))
        /\ RowsAt(f, sc, v + 1) \in Seq(Snaps!Row) /\ Len(RowsAt(f, sc, v + 1)) \in Nat
        /\ Head(groups) \in 1 .. Len(f.groups)
    BY <1>1, <2>1, <2>2, VisitGroupIn
  <2>6. s = RowsAt(f, sc, v + 1)
    BY <2>4, <2>5 DEF Listing!GroupRows, RowsAt
  <2>7. last \in offset .. Len(s)
    <3>. DEFINE M == {offset + ListingRows, Len(s)}
    <3>0. ListingRows \in Nat
      BY ListingAssumption DEF Listing!SnapExportAssumption
    <3>1. offset \in Nat /\ Len(s) \in Nat /\ offset <= Len(s)
      BY <2>5, <2>6
    <3>2. M \subseteq Nat /\ M # {}
      BY <3>0, <3>1
    <3>3. last = Snaps!Min(M)
      BY ListingMin
    <3>. DEFINE y == Snaps!Min(M)
    <3>4. y \in M /\ \A x \in M : y <= x
      <4>. HIDE DEF M
      <4>. QED
        BY <3>2, SnapsMinIs
    <3>. HIDE DEF y, last, s
    <3>5. y \in offset .. Len(s)
      BY <3>0, <3>1, <3>4
    <3>. QED
      BY <3>3, <3>5 DEF y
  <2>8. n \in Nat
    <3>1. Listing!AbsoluteRowStart(f, Head(groups)) \in Nat
      BY <2>5, ListingRowStart, RowStartExists
    <3>2. offset \in Nat
      BY <2>5
    <3>. QED
      BY <2>4, <3>1, <3>2
  <2>9. SubSeq(s, offset + 1, last) \in Seq(Snaps!Row)
    <3>. HIDE DEF s, last
    <3>. QED
      BY <2>5, <2>6, <2>7, FirstAndNext
  <2>. HIDE DEF s, last, n
  <2>10. got.rows = Only(SubSeq(s, offset + 1, last), Reach(sc))
    <3>. DEFINE t == SubSeq(s, offset + 1, last)
                fl == Listing!Current.file
    <3>1. t \in Seq(Snaps!Row)
      BY <2>9
    <3>2. got = Listing!Extract(fl, [by |-> "geometry", scope |-> sc], t, n)
      OBVIOUS
    <3>. HIDE DEF t, got, fl, sc
    <3>3. got.rows = Only(t, Reach(sc))
      BY <1>4, <2>8, <3>1, <3>2, BatchReadIs
    <3>. QED
      BY <3>3 DEF t
  <2>11. /\ batch' = Only(SubSeq(s, offset + 1, last), Reach(sc)) /\ offset' = last /\ exporting' = exporting
         /\ job' = job /\ output' = output /\ stores' = stores /\ groups' = groups /\ layers' = layers
         /\ frame' = frame
    <3>. HIDE DEF got
    <3>. QED
      BY <1>2, <1>4, <2>10
  <2>12. VisitAt(job, m, v, u, stores, groups, last, Only(SubSeq(s, offset + 1, last), Reach(sc)))
    BY <1>1, <2>1, <2>2, <2>6, <2>7, VisitReads
  <2>13. Visiting(job, stores', groups', offset', batch', layers', frame')
    BY <2>2, <2>11, <2>12 DEF Visiting
  <2>. QED
    BY <1>1, <2>11, <2>13, ListingVisits
<1>. QED
  BY <1>3, <1>4

LEMMA ListingNextGroup ==
  ASSUME ListingInv, Listing!NextGroup
  PROVE  ListingInv'
<1>1. /\ exporting = "visiting" /\ stores # <<>> /\ groups # <<>> /\ batch = <<>>
      /\ offset = Len(Listing!GroupRows) /\ groups' = Tail(groups) /\ offset' = 0
      /\ exporting' = exporting /\ job' = job /\ output' = output /\ stores' = stores
      /\ batch' = batch /\ layers' = layers /\ frame' = frame
  BY DEF Listing!NextGroup, Listing!InGroup
<1>2. job \in ListingCases
  BY <1>1, ListingVisiting
<1>3. PICK m, v, u : VisitAt(job, m, v, u, stores, groups, offset, <<>>) /\ Handed(job, m, u, layers, frame)
  BY <1>1, ListingVisiting
<1>. DEFINE f == SelectedOf(job)[m + 1].file
            sc == job.scope
<1>4. Head(stores) = StoreOf(SelectedOf(job)[m + 1])
  BY <1>1, <1>2, <1>3, VisitIn
<1>5. Listing!Current.file = f
  BY <1>4 DEF Listing!Current, StoreOf
<1>6. Head(groups) = CursorOf(f, sc)[v + 1]
  BY <1>1, <1>2, <1>3, VisitGroupIn
<1>7. Listing!GroupRows = RowsAt(f, sc, v + 1)
  BY <1>5, <1>6 DEF Listing!GroupRows, RowsAt
<1>8. VisitAt(job, m, v + 1, u, stores, Tail(groups), 0, <<>>)
  BY <1>1, <1>2, <1>3, <1>7, VisitLeavesGroup
<1>9. Visiting(job, stores', groups', offset', batch', layers', frame')
  BY <1>1, <1>3, <1>8 DEF Visiting
<1>. QED
  BY <1>1, <1>9, ListingVisits

LEMMA ListingNextStore ==
  ASSUME ListingInv, Listing!NextStore
  PROVE  ListingInv'
<1>1. /\ exporting = "visiting" /\ stores # <<>> /\ groups = <<>> /\ batch = <<>>
      /\ stores' = Tail(stores) /\ (Len(stores) > 1 => groups' = Listing!Cursor(stores[2]))
      /\ offset' = offset /\ exporting' = exporting /\ job' = job /\ output' = output
      /\ batch' = batch /\ layers' = layers /\ frame' = frame
  BY DEF Listing!NextStore
<1>2. job \in ListingCases
  BY <1>1, ListingVisiting
<1>3. PICK m, v, u : VisitAt(job, m, v, u, stores, groups, offset, <<>>) /\ Handed(job, m, u, layers, frame)
  BY <1>1, ListingVisiting
<1>. DEFINE N == Len(SelectedOf(job))
<1>4. /\ m \in Nat /\ m < N /\ m + 1 \in 0 .. N /\ Tail(stores) = Rest(StoresOf(job), m + 1)
      /\ Len(stores) > 1 <=> m + 1 # N
      /\ Len(stores) > 1 => stores[2] = StoreOf(SelectedOf(job)[m + 2])
  BY <1>1, <1>2, <1>3, VisitIn
<1>5. u = SetRows(job, m + 1) /\ offset = 0
  BY <1>1, <1>2, <1>3, VisitLeavesStore
<1>6. m + 1 # N => groups' = CursorOf(SelectedOf(job)[m + 1 + 1].file, job.scope)
  <2>1. m + 1 + 1 = m + 2
    BY <1>4
  <2>. QED
    BY <1>1, <1>4, <2>1, ListingCursor
<1>7. VisitAt(job, m + 1, 0, <<>>, Rest(StoresOf(job), m + 1), groups', 0, <<>>)
  BY <1>2, <1>4, <1>6, VisitBegins
<1>8. Handed(job, m + 1, <<>>, layers, frame)
  BY <1>2, <1>3, <1>4, <1>5, HandedNext
<1>9. Visiting(job, stores', groups', offset', batch', layers', frame')
  BY <1>1, <1>4, <1>5, <1>7, <1>8 DEF Visiting
<1>. QED
  BY <1>1, <1>9, ListingVisits

LEMMA ListingWrites ==
  ASSUME ListingInv, Listing!Write
  PROVE  ListingInv'
<1>1. exporting = "visiting" /\ batch # <<>> /\ job.sink = "package"
  BY DEF Listing!Write
<1>. DEFINE r == Head(batch)
<1>2. \/ Listing!Fail("gdal")
      \/ /\ layers' = [layers EXCEPT ![<<Listing!Current.name, r.kind>>] = Append(@, r)]
         /\ batch' = Tail(batch) /\ exporting' = exporting /\ job' = job /\ output' = output
         /\ stores' = stores /\ groups' = groups /\ offset' = offset /\ frame' = frame
  BY DEF Listing!Write
<1>3. CASE Listing!Fail("gdal")
  BY <1>1, <1>3, ListingFailsSo, ListingStops
<1>4. CASE /\ layers' = [layers EXCEPT ![<<Listing!Current.name, r.kind>>] = Append(@, r)]
           /\ batch' = Tail(batch) /\ exporting' = exporting /\ job' = job /\ output' = output
           /\ stores' = stores /\ groups' = groups /\ offset' = offset /\ frame' = frame
  <2>1. job \in ListingCases /\ NamesApart(job)
    BY <1>1, ListingVisiting
  <2>2. PICK m, v, u : VisitAt(job, m, v, u, stores, groups, offset, batch) /\ Handed(job, m, u, layers, frame)
    BY <1>1, ListingVisiting
  <2>3. stores # <<>> /\ r \in Snaps!Row /\ VisitAt(job, m, v, Append(u, r), stores, groups, offset, Tail(batch))
    BY <1>1, <2>1, <2>2, VisitHands
  <2>4. m \in Nat /\ m < Len(SelectedOf(job)) /\ Head(stores) = StoreOf(SelectedOf(job)[m + 1])
    BY <2>1, <2>2, <2>3, VisitIn
  <2>5. Listing!Current.name = SelectedOf(job)[m + 1].name
    BY <2>4 DEF Listing!Current, StoreOf
  <2>6. u \in Seq(Snaps!Row)
    BY <2>2 DEF VisitAt
  <2>. HIDE DEF r
  <2>7. LayersHave(job, m, Append(u, r), layers')
    <3>1. LayersHave(job, m, u, layers)
      BY <1>1, <2>2 DEF Handed
    <3>. QED
      BY <1>4, <2>1, <2>3, <2>4, <2>5, <2>6, <3>1, LayersWrite
  <2>8. Handed(job, m, Append(u, r), layers', frame')
    BY <1>1, <2>7 DEF Handed
  <2>9. Visiting(job, stores', groups', offset', batch', layers', frame')
    BY <1>4, <2>3, <2>8 DEF Visiting
  <2>. QED
    BY <1>1, <1>4, <2>9, ListingVisits
<1>. QED
  BY <1>2, <1>3, <1>4

LEMMA ListingPushes ==
  ASSUME ListingInv, Listing!PushRow
  PROVE  ListingInv'
<1>. DEFINE r == Head(batch)
<1>1. /\ exporting = "visiting" /\ batch # <<>> /\ job.sink = "frame"
      /\ frame' = Append(frame, [set |-> Listing!Current.name, row |-> r])
      /\ batch' = Tail(batch) /\ exporting' = exporting /\ job' = job /\ output' = output
      /\ stores' = stores /\ groups' = groups /\ offset' = offset /\ layers' = layers
  BY DEF Listing!PushRow
<1>2. job \in ListingCases
  BY <1>1, ListingVisiting
<1>3. PICK m, v, u : VisitAt(job, m, v, u, stores, groups, offset, batch) /\ Handed(job, m, u, layers, frame)
  BY <1>1, ListingVisiting
<1>4. stores # <<>> /\ r \in Snaps!Row /\ VisitAt(job, m, v, Append(u, r), stores, groups, offset, Tail(batch))
  BY <1>1, <1>2, <1>3, VisitHands
<1>5. m \in Nat /\ m < Len(SelectedOf(job)) /\ Head(stores) = StoreOf(SelectedOf(job)[m + 1])
  BY <1>2, <1>3, <1>4, VisitIn
<1>6. Listing!Current.name = SelectedOf(job)[m + 1].name
  BY <1>5 DEF Listing!Current, StoreOf
<1>7. u \in Seq(Snaps!Row)
  BY <1>3 DEF VisitAt
<1>. HIDE DEF r
<1>8. FrameHas(job, m, Append(u, r), frame')
  <2>1. FrameHas(job, m, u, frame)
    BY <1>1, <1>3 DEF Handed
  <2>. QED
    BY <1>1, <1>2, <1>4, <1>5, <1>6, <1>7, <2>1, FramePush
<1>9. Handed(job, m, Append(u, r), layers', frame')
  BY <1>1, <1>8 DEF Handed
<1>10. Visiting(job, stores', groups', offset', batch', layers', frame')
  BY <1>1, <1>4, <1>9 DEF Visiting
<1>. QED
  BY <1>1, <1>10, ListingVisits

LEMMA ListingFinishes ==
  ASSUME ListingInv, Listing!Finish \/ Listing!FinishFrame
  PROVE  ListingInv'
<1>1. exporting = "visiting" /\ stores = <<>>
  BY DEF Listing!Finish, Listing!FinishFrame
<1>2. \/ Stopped
      \/ /\ exporting' = "publish" /\ job.sink = "package" /\ job' = job /\ output' = output
         /\ layers' = layers /\ frame' = frame
      \/ exporting' = "done" /\ job.sink = "frame" /\ job' = job /\ output' = frame
  BY ListingFailsSo DEF Listing!Finish, Listing!FinishFrame
<1>3. job \in ListingCases /\ NamesApart(job) /\ output = Old
  BY <1>1 DEF ListingInv, ListingSo
<1>4. PICK m, v, u : VisitAt(job, m, v, u, stores, groups, offset, batch) /\ Handed(job, m, u, layers, frame)
  BY <1>1, ListingVisiting
<1>5. m = Len(SelectedOf(job))
  BY <1>1, <1>3, <1>4, VisitEnds
<1>6. Handed(job, Len(SelectedOf(job)), <<>>, layers, frame)
  BY <1>3, <1>4, <1>5, HandedAll
<1>7. CASE Stopped
  BY <1>1, <1>7, ListingStops
<1>8. CASE /\ exporting' = "publish" /\ job.sink = "package" /\ job' = job /\ output' = output
           /\ layers' = layers /\ frame' = frame
  <2>1. ListingSo(job', exporting', stores', groups', offset', batch', layers', frame', output')
    BY <1>3, <1>6, <1>8 DEF ListingSo
  <2>. QED
    BY <2>1 DEF ListingInv
<1>9. CASE exporting' = "done" /\ job.sink = "frame" /\ job' = job /\ output' = frame
  <2>1. Handed(job, Len(SelectedOf(job)), <<>>, frame, frame)
    BY <1>6, <1>9 DEF Handed
  <2>2. ListingSo(job', exporting', stores', groups', offset', batch', layers', frame', output')
    BY <1>3, <1>9, <2>1 DEF ListingSo
  <2>. QED
    BY <2>2 DEF ListingInv
<1>. QED
  BY <1>2, <1>7, <1>8, <1>9

LEMMA ListingPublishes ==
  ASSUME ListingInv, Listing!Publish
  PROVE  ListingInv'
<1>1. exporting = "publish"
  BY DEF Listing!Publish
<1>2. Stopped \/ (exporting' = "done" /\ job' = job /\ output' = layers)
  BY ListingFailsSo DEF Listing!Publish
<1>3. CASE Stopped
  BY <1>1, <1>3, ListingStops
<1>4. CASE exporting' = "done" /\ job' = job /\ output' = layers
  <2>1. /\ job \in ListingCases /\ NamesApart(job) /\ job.sink # "frame"
        /\ Handed(job, Len(SelectedOf(job)), <<>>, layers, frame)
    BY <1>1 DEF ListingInv, ListingSo
  <2>2. Handed(job, Len(SelectedOf(job)), <<>>, layers, layers)
    BY <2>1 DEF Handed
  <2>3. ListingSo(job', exporting', stores', groups', offset', batch', layers', frame', output')
    BY <1>4, <2>1, <2>2 DEF ListingSo
  <2>. QED
    BY <2>3 DEF ListingInv
<1>. QED
  BY <1>2, <1>3, <1>4

LEMMA ListingEnds ==
  ASSUME ListingInv,
         Listing!SelectFails \/ Listing!CreateFails \/ Listing!VisitFails \/ Listing!Crash
  PROVE  ListingInv'
<1>1. CASE Listing!SelectFails
  <2>1. exporting = "select" /\ Stopped
    BY <1>1, ListingFailsSo DEF Listing!SelectFails
  <2>. QED
    BY <2>1, ListingStops
<1>2. CASE Listing!CreateFails
  <2>1. exporting = "opening" /\ Stopped
    BY <1>2, ListingFailsSo DEF Listing!CreateFails
  <2>. QED
    BY <2>1, ListingStops
<1>3. CASE Listing!VisitFails
  <2>1. exporting = "visiting" /\ Stopped
    BY <1>3, ListingFailsSo DEF Listing!VisitFails, Listing!InGroup
  <2>. QED
    BY <2>1, ListingStops
<1>4. CASE Listing!Crash
  <2>1. exporting # "done" /\ Stopped
    BY <1>4 DEF Listing!Crash, Stopped
  <2>. QED
    BY <2>1, ListingStops
<1>. QED
  BY <1>1, <1>2, <1>3, <1>4

LEMMA ListingStep ==
  ASSUME ListingInv, Listing!Next
  PROVE  ListingInv'
<1>1. \/ Listing!SelectFails \/ Listing!CreateFails \/ Listing!VisitFails \/ Listing!Crash
      \/ Listing!Select \/ Listing!OpenStore \/ Listing!Create \/ Listing!StartFrame
      \/ Listing!ReadBatch \/ Listing!NextGroup \/ Listing!NextStore \/ Listing!Write \/ Listing!PushRow
      \/ Listing!Finish \/ Listing!FinishFrame \/ Listing!Publish
  BY DEF Listing!Next
<1>. QED
  BY <1>1, ListingEnds, ListingSelect, ListingOpens, ListingCreate, ListingStartsFrame, ListingReads,
     ListingNextGroup, ListingNextStore, ListingWrites, ListingPushes, ListingFinishes, ListingPublishes

-----------------------------------------------------------------------------
(* What the export has published is what was asked for. *)

LEMMA ScopedRows ==
  ASSUME NEW f \in Snaps!SnapFile, NEW sc, NEW z, z = Listing!AllRows(f)
  PROVE  /\ z = Snaps!AllRows(f) /\ z \in Seq(Snaps!Row)
         /\ Listing!Picked(z, {k \in 1 .. Len(z) : Listing!InScope(sc, z[k])}) = Only(z, Reach(sc))
<1>1. z = Snaps!AllRows(f) /\ z \in Seq(Snaps!Row)
  BY ListingAllRows, AllRowsAre
<1>2. \A k \in 1 .. Len(z) : z[k] \in Snaps!Row
  BY <1>1, SeqElements
<1>3. {k \in 1 .. Len(z) : Listing!InScope(sc, z[k])} = {k \in 1 .. Len(z) : z[k] \in Reach(sc)}
  BY <1>2 DEF Reach
<1>. QED
  BY <1>1, <1>3, ListingPicked DEF Only

LEMMA KindRows ==
  ASSUME NEW f \in Snaps!SnapFile, NEW sc, NEW kd, NEW z, z = Listing!AllRows(f)
  PROVE  Listing!Picked(z, {k \in 1 .. Len(z) : z[k].kind = kd /\ Listing!InScope(sc, z[k])})
           = OfKind(Only(z, Reach(sc)), kd)
<1>. DEFINE A == Reach(sc)
            B == {r \in Snaps!Row : r.kind = kd}
<1>1. z \in Seq(Snaps!Row) /\ \A k \in 1 .. Len(z) : z[k] \in Snaps!Row
  BY ScopedRows, SeqElements
<1>2. {k \in 1 .. Len(z) : z[k].kind = kd /\ Listing!InScope(sc, z[k])} = {k \in 1 .. Len(z) : z[k] \in A \cap B}
  BY <1>1 DEF Reach
<1>3. Listing!Picked(z, {k \in 1 .. Len(z) : z[k] \in A \cap B}) = Only(z, A \cap B)
  BY ListingPicked DEF Only
<1>4. Only(Only(z, A), B) = Only(z, A \cap B)
  <2>. HIDE DEF A, B
  <2>. QED
    BY <1>1, OnlyTwice
<1>. QED
  BY <1>2, <1>3, <1>4 DEF OfKind

LEMMA ExpectedIs ==
  ASSUME job \in ListingCases, NamesApart(job), NEW n \in 1 .. Len(SelectedOf(job)), NEW kd
  PROVE  Listing!Expected(SelectedOf(job)[n].name, kd) = OfKind(SetRows(job, n), kd)
<1>. DEFINE s == SelectedOf(job)
            x == s[n].name
            p == CHOOSE k \in 1 .. Len(s) : s[k].name = x
            f == s[n].file
            z == Listing!AllRows(f)
<1>1. p = n
  <2>1. \A k \in 1 .. Len(s) : s[k].name = x => k = n
    BY DEF NamesApart
  <2>2. \E k \in 1 .. Len(s) : s[k].name = x
    OBVIOUS
  <2>. HIDE DEF s
  <2>3. p \in 1 .. Len(s) /\ s[p].name = x
    BY <2>2
  <2>. HIDE DEF p
  <2>. QED
    BY <2>1, <2>3
<1>2. Listing!Expected(x, kd) =
        LET y == Listing!AllRows(s[p].file)
        IN  Listing!Picked(y, {k \in 1 .. Len(y) : y[k].kind = kd /\ Listing!InScope(job.scope, y[k])})
  BY ListingSelected DEF Listing!Expected
<1>3. Listing!Expected(x, kd) =
        Listing!Picked(z, {k \in 1 .. Len(z) : z[k].kind = kd /\ Listing!InScope(job.scope, z[k])})
  <2>. HIDE DEF p
  <2>. QED
    BY <1>1, <1>2
<1>4. f \in Snaps!SnapFile
  BY StoresAre, DeclaredIs
<1>5. SetRows(job, n) = Only(z, Reach(job.scope))
  BY <1>4, ListingAllRows DEF SetRows
<1>. HIDE DEF z
<1>6. Listing!Picked(z, {k \in 1 .. Len(z) : z[k].kind = kd /\ Listing!InScope(job.scope, z[k])})
        = OfKind(Only(z, Reach(job.scope)), kd)
  BY <1>4, KindRows DEF z
<1>. QED
  BY <1>3, <1>5, <1>6

LEMMA ExpectedFrameIs ==
  ASSUME job \in ListingCases
  PROVE  Listing!ExpectedFrame = FrameUpTo(job, Len(SelectedOf(job)))
<1>. DEFINE s == SelectedOf(job)
            N == Len(s)
            E(n) == LET all == Listing!AllRows(s[n].file)
                        rows == Listing!Picked(all, {k \in 1 .. Len(all) : Listing!InScope(job.scope, all[k])})
                    IN  [j \in 1 .. Len(rows) |-> [set |-> s[n].name, row |-> rows[j]]]
<1>1. Listing!ExpectedFrame = Joined([n \in 1 .. N |-> E(n)])
  <2>1. Listing!ExpectedFrame = Listing!Joined([n \in 1 .. N |-> E(n)])
    BY ListingSelected DEF Listing!ExpectedFrame
  <2>. QED
    BY <2>1, ListingJoined
<1>2. ASSUME NEW n \in 1 .. N PROVE E(n) = Tag(s[n].name, SetRows(job, n))
  <2>. DEFINE z == Listing!AllRows(s[n].file)
              y == Listing!Picked(z, {k \in 1 .. Len(z) : Listing!InScope(job.scope, z[k])})
  <2>1. s[n].file \in Snaps!SnapFile
    BY StoresAre, DeclaredIs
  <2>2. y = SetRows(job, n)
    BY <2>1, ScopedRows DEF SetRows
  <2>3. E(n) = [j \in 1 .. Len(y) |-> [set |-> s[n].name, row |-> y[j]]]
    OBVIOUS
  <2>. HIDE DEF y, E
  <2>. QED
    BY <2>2, <2>3 DEF Tag
<1>. HIDE DEF E
<1>3. [n \in 1 .. N |-> E(n)] = FrameParts(job)
  BY <1>2 DEF FrameParts
<1>4. FirstOf(FrameParts(job), N) = FrameParts(job)
  BY DEF FirstOf, FrameParts
<1>. QED
  BY <1>1, <1>3, <1>4 DEF FrameUpTo

LEMMA ListingInvComplete ==
  ASSUME ListingInv
  PROVE  Listing!ExportComplete
<1>. SUFFICES ASSUME output # Old
              PROVE  IF job.sink = "frame" THEN output = Listing!ExpectedFrame
                     ELSE /\ DOMAIN output = Listing!Layers
                          /\ \A k \in Listing!Layers : output[k] = Listing!Expected(k[1], k[2])
  BY DEF Listing!ExportComplete
<1>1. job \in ListingCases /\ NamesApart(job) /\ Handed(job, Len(SelectedOf(job)), <<>>, output, output)
  BY DEF ListingInv, ListingSo
<1>2. CASE job.sink = "frame"
  BY <1>1, <1>2, ExpectedFrameIs DEF Handed, FrameHas
<1>3. CASE job.sink # "frame"
  <2>. DEFINE N == Len(SelectedOf(job))
  <2>1. LayersHave(job, N, <<>>, output)
    BY <1>1, <1>3 DEF Handed
  <2>2. Listing!Layers = LayerKeys(job)
    BY ListingSelected DEF Listing!Layers, LayerKeys
  <2>3. DOMAIN output = Listing!Layers
    BY <2>1, <2>2 DEF LayersHave
  <2>4. ASSUME NEW k \in LayerKeys(job) PROVE output[k] = Listing!Expected(k[1], k[2])
    <3>1. PICK n \in 1 .. N, kd \in {"point", "line"} : k = <<SelectedOf(job)[n].name, kd>>
      BY DEF LayerKeys
    <3>2. k[1] = SelectedOf(job)[n].name /\ k[2] = kd
      BY <3>1
    <3>3. Given(job, N, <<>>, n) = SetRows(job, n)
      <4>1. n <= N
        BY <1>1, StoresAre
      <4>. QED
        BY <4>1 DEF Given
    <3>4. output[k] = OfKind(SetRows(job, n), kd)
      BY <2>1, <3>1, <3>3 DEF LayersHave
    <3>. QED
      BY <1>1, <3>2, <3>4, ExpectedIs
  <2>. QED
    BY <1>3, <2>2, <2>3, <2>4
<1>. QED
  BY <1>2, <1>3

\* An export of snap targets, for any declarations, files, extent and size of
\* batch: the output path holds what it held, or exactly the targets of the
\* selected sets whose geometry meets the extent, in file order, each in the layer
\* of its set and kind, every layer there.  No error, kill, invalid row or row
\* group skipped by its rounded statistics publishes less (SnapStore::visit and
\* may_intersect, snap_store.rs; SnapGeoPackage, snap_export.rs; main.rs).
THEOREM ExportCompleteHolds == MCSpec => []ExportComplete
<1>. DEFINE all == <<part, vars, snaps, listing, staged, source, stages>>
            Kept == (part = "listing") => ListingInv
<1>1. MCInit => Kept
  BY ListingBegin DEF MCInit
<1>2. Kept /\ [MCNext]_all => Kept'
  <2>. SUFFICES ASSUME Kept, [MCNext]_all, part' = "listing" PROVE ListingInv'
    OBVIOUS
  <2>1. part = "listing" /\ (Listing!Next \/ UNCHANGED listing)
    BY DEF MCNext
  <2>2. CASE Listing!Next
    BY <2>1, <2>2, ListingStep
  <2>3. CASE UNCHANGED listing
    BY <2>1, <2>3 DEF listing, ListingInv
  <2>. QED
    BY <2>1, <2>2, <2>3
<1>3. Kept => ExportComplete
  BY ListingInvComplete DEF ExportComplete
<1>. QED
  BY <1>1, <1>2, <1>3, PTL DEF MCSpec

=============================================================================
