-------------------------- MODULE TraversalProofs --------------------------
(***************************************************************************)
(* Proofs about the traversal, for every graph the readers can deliver:    *)
(* any number of units and levels, cycles, repeated and dangling           *)
(* upstream_ids.  Then proofs about the open of a dataset, for any set of  *)
(* datasets.                                                               *)
(***************************************************************************)
EXTENDS MCTraversal, SequenceTheorems, FiniteSetTheorems, WellFoundedInduction, TLAPS

(***************************************************************************)
(* The strengthening that is inductive.  UpstreamExact speaks of the end   *)
(* of the walk only; what carries it there is that visited lies between    *)
(* "listed in units or queue" (VisitedListed, NoRepeat) and "upstream of   *)
(* the terminal" (VisitedUpstream), and that what a popped unit names is   *)
(* visited up to the position of the scan (ScannedVisited).                *)
(***************************************************************************)
BeforeWalk == {"open", "select", "resolve", "start", "refused", "no_level",
               "unresolved", "no_terminal"}

AfterWalk == {"levels", "query", "produce", "wrong_level", "read_failed",
              "missing_record", "ok"}

InWalk == {"scan", "dangling"}

NotStarted ==
  pc \in BeforeWalk => visited = {} /\ units = <<>> /\ queue = <<>>

VisitedListed ==
  \A u \in data.rows :
    u \in visited <=> \/ \E i \in 1 .. Len(units) : units[i] = u
                      \/ \E i \in 1 .. Len(queue) : queue[i] = u

NoRepeat ==
  /\ Distinct(units)
  /\ Distinct(queue)
  /\ \A i \in 1 .. Len(units), j \in 1 .. Len(queue) : units[i] # queue[j]

TerminalFirst ==
  pc \notin BeforeWalk =>
    \/ Len(units) > 0 /\ units[1] = terminal
    \/ pc = "next" /\ Len(units) = 0 /\ Len(queue) > 0 /\ queue[1] = terminal

VisitedUpstream == visited \subseteq Upstream(data, terminal)

ScannedVisited ==
  \A i \in 1 .. Len(units) : \A j \in 1 .. Len(data.up[units[i]]) :
    \/ pc \in InWalk /\ i = Len(units) /\ j >= k
    \/ data.up[units[i]][j] \in visited

Drained == pc \in AfterWalk => queue = <<>>

DanglingAt ==
  pc = "dangling" => k <= Len(Ups) /\ Ups[k] \notin data.rows

WalkInv == /\ NotStarted
           /\ VisitedListed
           /\ NoRepeat
           /\ TerminalFirst
           /\ VisitedUpstream
           /\ ScannedVisited
           /\ Drained
           /\ DanglingAt

\* What the checks of the open establish, carried along the walk.
CheckedValid == checked => pc # "open" /\ (pc # "refused" => Valid(data))

TerminalAtLevel ==
  pc \notin {"open", "select", "resolve", "refused", "no_level", "unresolved"} =>
    \/ terminal \in data.rows /\ data.level[terminal] = level
    \/ terminal \in data.catchments /\ data.unitLevel[terminal] = level

VisitedAtLevel == checked => \A u \in visited : data.level[u] = level

\* The records made so far, and the geometries still to be handed out.
RecordsSoFar ==
  /\ pc \in BeforeWalk \cup InWalk \cup {"next", "levels", "query"} =>
       records = <<>>
  /\ pc = "produce" =>
       /\ Len(records) = k - 1
       /\ k <= Len(units) + 1
       /\ \A i \in 1 .. Len(records) :
            /\ records[i] = units[i]
            /\ data.unitLevel[records[i]] = level
       /\ \A i \in 1 .. Len(units) :
            i >= k /\ units[i] \in data.catchments => units[i] \in geometry

ProduceInv == /\ CheckedValid
              /\ TerminalAtLevel
              /\ VisitedAtLevel
              /\ RecordsSoFar
              /\ CheckedDataSucceeds
              /\ RecordsFollowUnits

-----------------------------------------------------------------------------
(* Upstream is a least closed set. *)

\* The terminal is among its own upstream units.
LEMMA UpstreamSelf ==
  ASSUME NEW d, NEW t \in Unit
  PROVE  t \in Upstream(d, t)
BY DEF Upstream

\* What an upstream unit names in its upstream_ids is upstream too.
LEMMA UpstreamStep ==
  ASSUME NEW d, IsDataset(d), NEW t \in Unit,
         NEW u \in Upstream(d, t), u \in d.rows,
         NEW i \in 1 .. Len(d.up[u])
  PROVE  d.up[u][i] \in Upstream(d, t)
<1>1. d.up[u][i] \in Unit
  BY DEF IsDataset
<1>2. ASSUME NEW S \in SUBSET Unit, t \in S /\ Closed(d, S)
      PROVE  d.up[u][i] \in S
  <2>1. u \in S
    BY <1>2 DEF Upstream
  <2> QED
    BY <2>1, <1>2 DEF Closed
<1> QED
  BY <1>1, <1>2 DEF Upstream

\* A closed set of units with the terminal in it holds every upstream unit.
LEMMA UpstreamLeast ==
  ASSUME NEW d, NEW t, NEW S \in SUBSET Unit, t \in S, Closed(d, S)
  PROVE  Upstream(d, t) \subseteq S
BY DEF Upstream

\* Sequences of one more element, and of one.
LEMMA AppendSeq ==
  ASSUME NEW R, NEW s \in Seq(R), NEW e \in R
  PROVE  Append(s, e) \in Seq(R)
OBVIOUS

LEMMA SingletonSeq ==
  ASSUME NEW R, NEW e \in R
  PROVE  <<e>> \in Seq(R)
OBVIOUS

-----------------------------------------------------------------------------

\* Type correctness: no step of a call leaves its variables outside their
\* types; only units with a row are visited, queued or collected.
THEOREM TraversalTypeCorrect == Spec => []TypeOK
<1>1. Init => TypeOK
  <2> SUFFICES ASSUME Init PROVE TypeOK
    OBVIOUS
  <2>1. IsDataset(data)
    BY DatasetAssumption DEF Init
  <2>2. terminal \in Unit
    BY DatasetAssumption DEF Init
  <2>3. visited = {} /\ geometry = {} /\ units = <<>> /\ queue = <<>> /\ records = <<>>
    BY DEF Init
  <2>4. <<>> \in Seq(data.rows) /\ <<>> \in Seq(data.catchments)
    OBVIOUS
  <2>5. pc \in Stage /\ level \in Nat /\ k \in Nat \ {0}
    BY DEF Init, Stage
  <2>6. checked \in BOOLEAN
    BY DEF Init
  <2> QED
    BY <2>1, <2>2, <2>3, <2>4, <2>5, <2>6 DEF TypeOK
<1>2. TypeOK /\ [Next]_vars => TypeOK'
  <2> SUFFICES ASSUME TypeOK, [Next]_vars PROVE TypeOK'
    OBVIOUS
  <2> USE DEF TypeOK, Stage, Ended, Goto, walk
  <2>1. CASE OpenChecked \/ OpenTrusted
    BY <2>1 DEF OpenChecked, OpenTrusted
  <2>2. CASE SelectLevel
    BY <2>2, DatasetAssumption DEF SelectLevel, IsDataset
  <2>3. CASE (\E u \in Unit : Resolve(u)) \/ ResolveFails
    BY <2>3 DEF Resolve, ResolveFails
  <2>4. CASE Start
    <3>1. CASE terminal \in data.rows
      <4>1. visited' \subseteq data.rows /\ queue' = <<terminal>>
        BY <2>4, <3>1 DEF Start
      <4>2. <<terminal>> \in Seq(data.rows)
        BY <3>1, SingletonSeq
      <4> QED
        BY <2>4, <3>1, <4>1, <4>2 DEF Start
    <3>2. CASE terminal \notin data.rows
      BY <2>4, <3>2 DEF Start
    <3> QED
      BY <3>1, <3>2
  <2>5. CASE PopFront
    BY <2>5 DEF PopFront
  <2>6. CASE SkipVisited \/ Dangling
    BY <2>6 DEF SkipVisited, Dangling, Scanning
  <2>7. CASE Push
    <3>1. Ups[k] \in data.rows /\ queue' = Append(queue, Ups[k])
          /\ visited' = visited \cup {Ups[k]}
      BY <2>7 DEF Push
    <3>2. queue' \in Seq(data.rows) /\ visited' \subseteq data.rows
      BY <3>1, AppendSeq
    <3> QED
      BY <2>7, <3>2 DEF Push
  <2>8. CASE ScanDone \/ Collected
    BY <2>8 DEF ScanDone, Collected
  <2>9. CASE CheckLevel
    BY <2>9 DEF CheckLevel
  <2>10. CASE QueryByIds \/ QueryFails
    BY <2>10 DEF QueryByIds, QueryFails
  <2>11. CASE Produce
    <3>1. records' \in Seq(data.catchments)
      <4>1. CASE records' = records
        BY <4>1
      <4>2. CASE units[k] \in geometry /\ records' = Append(records, units[k])
        BY <4>2, AppendSeq
      <4> QED
        BY <2>11, <4>1, <4>2 DEF Produce
    <3>2. geometry' \subseteq data.catchments
      BY <2>11 DEF Produce
    <3>3. pc' \in Stage \cup Ended /\ k' \in Nat \ {0}
      BY <2>11 DEF Produce
    <3> QED
      BY <2>11, <3>1, <3>2, <3>3 DEF Produce
  <2>12. CASE UNCHANGED vars
    BY <2>12 DEF vars
  <2> QED
    BY <2>1, <2>2, <2>3, <2>4, <2>5, <2>6, <2>7, <2>8, <2>9, <2>10, <2>11,
       <2>12 DEF Next
<1> QED
  BY <1>1, <1>2, PTL DEF Spec

-----------------------------------------------------------------------------
(* The walk. *)

\* The upstream_ids of a row are a list of units.
LEMMA UpsAreSeqs ==
  ASSUME NEW d, IsDataset(d), NEW u \in d.rows
  PROVE  d.up[u] \in Seq(Unit) /\ Len(d.up[u]) \in Nat
BY LenProperties DEF IsDataset

\* A step outside the walk keeps its invariant: nothing was collected yet.
LEMMA WalkBefore ==
  ASSUME TypeOK', pc' \in BeforeWalk, visited' = {}, units' = <<>>, queue' = <<>>
  PROVE  WalkInv'
<1>1. Len(units') = 0 /\ Len(queue') = 0
  OBVIOUS
<1>2. NotStarted' /\ VisitedListed' /\ NoRepeat' /\ ScannedVisited'
  BY <1>1 DEF NotStarted, VisitedListed, NoRepeat, Distinct, ScannedVisited
<1>3. TerminalFirst' /\ VisitedUpstream' /\ Drained' /\ DanglingAt'
  BY DEF TerminalFirst, VisitedUpstream, Drained, DanglingAt, BeforeWalk
<1> QED
  BY <1>2, <1>3 DEF WalkInv

\* A step after the walk keeps its invariant: what was collected stays.
LEMMA WalkAfter ==
  ASSUME WalkInv, pc \in AfterWalk, pc' \in AfterWalk,
         UNCHANGED <<data, terminal, visited, units, queue>>
  PROVE  WalkInv'
<1>1. NotStarted' /\ DanglingAt'
  BY DEF NotStarted, DanglingAt, AfterWalk, BeforeWalk
<1>2. VisitedListed' /\ NoRepeat' /\ VisitedUpstream' /\ Drained'
  BY DEF WalkInv, VisitedListed, NoRepeat, VisitedUpstream, Drained
<1>3. TerminalFirst'
  BY DEF WalkInv, TerminalFirst, AfterWalk, BeforeWalk
<1>4. ScannedVisited'
  BY DEF WalkInv, ScannedVisited, AfterWalk, InWalk
<1> QED
  BY <1>1, <1>2, <1>3, <1>4 DEF WalkInv

\* The first pop: the queue is the terminal.
LEMMA WalkStart ==
  ASSUME TypeOK, TypeOK', WalkInv, Start
  PROVE  WalkInv'
<1> USE DEF Start, Goto
<1>0. visited = {} /\ units = <<>> /\ queue = <<>> /\ units' = units
  BY DEF WalkInv, NotStarted, BeforeWalk
<1>1. CASE terminal \notin data.rows
  BY <1>0, <1>1, WalkBefore DEF BeforeWalk
<1>2. CASE terminal \in data.rows
  <2>1. /\ pc' = "next" /\ visited' = {terminal}
        /\ Len(units') = 0 /\ Len(queue') = 1 /\ queue'[1] = terminal
        /\ data' = data /\ terminal' = terminal
    BY <1>0, <1>2
  <2>2. NotStarted' /\ TerminalFirst' /\ Drained' /\ DanglingAt'
    BY <2>1 DEF NotStarted, TerminalFirst, Drained, DanglingAt, BeforeWalk, AfterWalk
  <2>3. VisitedListed' /\ NoRepeat' /\ ScannedVisited'
    BY <2>1 DEF VisitedListed, NoRepeat, Distinct, ScannedVisited
  <2>4. VisitedUpstream'
    BY <2>1, UpstreamSelf DEF VisitedUpstream, TypeOK
  <2> QED
    BY <2>2, <2>3, <2>4 DEF WalkInv
<1> QED
  BY <1>1, <1>2

\* A pop moves the head of the queue to the end of units, to be scanned.
LEMMA WalkPop ==
  ASSUME TypeOK, TypeOK', WalkInv, PopFront
  PROVE  WalkInv'
<1>1. /\ pc = "next" /\ pc' = "scan" /\ k' = 1
      /\ UNCHANGED <<data, terminal, visited>>
  BY DEF PopFront, Goto
<1>2. /\ Len(units) \in Nat
      /\ Len(units') = Len(units) + 1
      /\ units'[Len(units) + 1] = queue[1]
      /\ \A i \in 1 .. Len(units) : units'[i] = units[i]
  BY AppendProperties DEF PopFront, TypeOK
<1>3. /\ Len(queue) \in Nat \ {0}
      /\ Len(queue') = Len(queue) - 1
      /\ \A i \in 1 .. Len(queue') : queue'[i] = queue[i + 1]
  BY HeadTailProperties, EmptySeq DEF PopFront, TypeOK
<1>4. NotStarted' /\ Drained' /\ DanglingAt'
  BY <1>1 DEF NotStarted, Drained, DanglingAt, BeforeWalk, AfterWalk
<1>5. VisitedListed'
  <2> SUFFICES ASSUME NEW u \in data.rows
               PROVE  u \in visited <=> \/ \E i \in 1 .. Len(units') : units'[i] = u
                                      \/ \E i \in 1 .. Len(queue') : queue'[i] = u
    BY <1>1 DEF VisitedListed
  <2>1. u \in visited <=> \/ \E i \in 1 .. Len(units) : units[i] = u
                          \/ \E i \in 1 .. Len(queue) : queue[i] = u
    BY DEF WalkInv, VisitedListed
  <2>2. (\E i \in 1 .. Len(units') : units'[i] = u)
          <=> (queue[1] = u \/ \E i \in 1 .. Len(units) : units[i] = u)
    BY <1>2
  <2>3. (\E i \in 1 .. Len(queue) : queue[i] = u)
          <=> (queue[1] = u \/ \E i \in 1 .. Len(queue') : queue'[i] = u)
    <3>1. ASSUME NEW i \in 1 .. Len(queue), queue[i] = u, i # 1
          PROVE  \E j \in 1 .. Len(queue') : queue'[j] = u
      <4>1. i - 1 \in 1 .. Len(queue') /\ queue'[i - 1] = u
        BY <1>3, <3>1
      <4> QED
        BY <4>1
    <3>2. ASSUME NEW i \in 1 .. Len(queue'), queue'[i] = u
          PROVE  \E j \in 1 .. Len(queue) : queue[j] = u
      BY <1>3, <3>2
    <3> QED
      BY <1>3, <3>1, <3>2
  <2> QED
    BY <2>1, <2>2, <2>3
<1>6. NoRepeat'
  <2> USE DEF WalkInv, NoRepeat, Distinct
  <2>1. Distinct(units')
    BY <1>2, <1>3, SMTT(40)
  <2>2. Distinct(queue')
    BY <1>3
  <2>3. \A i \in 1 .. Len(units'), j \in 1 .. Len(queue') : units'[i] # queue'[j]
    BY <1>2, <1>3
  <2> QED
    BY <2>1, <2>2, <2>3
<1>7. TerminalFirst'
  BY <1>1, <1>2 DEF WalkInv, TerminalFirst, BeforeWalk
<1>8. VisitedUpstream'
  BY <1>1 DEF WalkInv, VisitedUpstream
<1>9. ScannedVisited'
  <2>0. \A i \in 1 .. Len(units') : Len(data.up[units'[i]]) \in Nat
    BY <1>1, UpsAreSeqs, ElementOfSeq DEF TypeOK
  <2> SUFFICES ASSUME NEW i \in 1 .. Len(units'),
                      NEW j \in 1 .. Len(data.up[units'[i]])
               PROVE  i = Len(units') \/ data.up[units'[i]][j] \in visited
    BY <1>1, <2>0 DEF ScannedVisited, InWalk
  <2>1. i = Len(units') \/ (i \in 1 .. Len(units) /\ units'[i] = units[i])
    BY <1>2
  <2> QED
    BY <1>1, <2>1 DEF WalkInv, ScannedVisited, InWalk
<1> QED
  BY <1>4, <1>5, <1>6, <1>7, <1>8, <1>9 DEF WalkInv

\* While a unit is scanned it is the last of units, it was visited, and its
\* upstream_ids are a list.
LEMMA ScanFacts ==
  ASSUME TypeOK, WalkInv, pc \in InWalk
  PROVE  /\ Len(units) \in Nat \ {0}
         /\ Current \in data.rows
         /\ Current \in visited
         /\ Current \in Upstream(data, terminal)
         /\ Len(Ups) \in Nat
<1>1. Len(units) \in Nat /\ Len(units) > 0
  BY LenProperties DEF TypeOK, WalkInv, TerminalFirst, InWalk, BeforeWalk
<1>2. Current \in data.rows
  BY <1>1, ElementOfSeq DEF TypeOK, Current
<1>3. Current \in visited
  BY <1>1, <1>2 DEF WalkInv, VisitedListed, Current
<1>4. Len(Ups) \in Nat
  BY <1>2, UpsAreSeqs DEF TypeOK, Ups
<1> QED
  BY <1>1, <1>2, <1>3, <1>4 DEF WalkInv, VisitedUpstream

\* What the scanned unit names is upstream of the terminal.
LEMMA NamedIsUpstream ==
  ASSUME TypeOK, WalkInv, pc \in InWalk, k <= Len(Ups)
  PROVE  Ups[k] \in Upstream(data, terminal)
<1>1. k \in 1 .. Len(Ups)
  BY ScanFacts DEF TypeOK
<1> QED
  BY <1>1, ScanFacts, UpstreamStep DEF TypeOK, Ups

\* Going past a visited unit.
LEMMA WalkSkip ==
  ASSUME TypeOK, TypeOK', WalkInv, SkipVisited
  PROVE  WalkInv'
<1>1. /\ pc = "scan" /\ pc' = "scan" /\ k' = k + 1 /\ Ups[k] \in visited
      /\ UNCHANGED <<data, terminal, visited, units, queue>>
  BY DEF SkipVisited, Scanning
<1>2. NotStarted' /\ Drained' /\ DanglingAt'
  BY <1>1 DEF NotStarted, Drained, DanglingAt, BeforeWalk, AfterWalk
<1>3. VisitedListed' /\ NoRepeat' /\ TerminalFirst' /\ VisitedUpstream'
  BY <1>1 DEF WalkInv, VisitedListed, NoRepeat, TerminalFirst, VisitedUpstream
<1>4. ScannedVisited'
  <2> SUFFICES ASSUME NEW i \in 1 .. Len(units), NEW j \in 1 .. Len(data.up[units[i]])
               PROVE  \/ i = Len(units) /\ j >= k + 1
                      \/ data.up[units[i]][j] \in visited
    BY <1>1 DEF ScannedVisited, InWalk
  <2>1. \/ i = Len(units) /\ j >= k
        \/ data.up[units[i]][j] \in visited
    BY DEF WalkInv, ScannedVisited
  <2>2. CASE i = Len(units) /\ j = k
    BY <1>1, <2>2 DEF Ups, Current
  <2>3. CASE i = Len(units) /\ j > k
    <3>1. Len(data.up[units[i]]) \in Nat
      BY <1>1, <2>3, ScanFacts DEF InWalk, Ups, Current
    <3> QED
      BY <2>3, <3>1 DEF TypeOK
  <2>4. CASE data.up[units[i]][j] \in visited
    BY <2>4
  <2>5. ASSUME i = Len(units), j >= k PROVE j = k \/ j > k
    <3>1. Len(data.up[units[i]]) \in Nat
      BY <1>1, <2>5, ScanFacts DEF InWalk, Ups, Current
    <3> QED
      BY <2>5, <3>1 DEF TypeOK
  <2> QED
    BY <2>1, <2>2, <2>3, <2>4, <2>5
<1> QED
  BY <1>2, <1>3, <1>4 DEF WalkInv

\* The walk ends at a unit that has no row.
LEMMA WalkDangling ==
  ASSUME TypeOK, TypeOK', WalkInv, Dangling
  PROVE  WalkInv'
<1>1. /\ pc = "scan" /\ pc' = "dangling" /\ k <= Len(Ups) /\ Ups[k] \notin data.rows
      /\ UNCHANGED <<data, terminal, visited, units, queue, k>>
  BY DEF Dangling, Scanning, walk
<1>2. NotStarted' /\ Drained' /\ DanglingAt'
  BY <1>1 DEF NotStarted, Drained, DanglingAt, BeforeWalk, AfterWalk, Ups, Current
<1>3. VisitedListed' /\ NoRepeat' /\ VisitedUpstream'
  BY <1>1 DEF WalkInv, VisitedListed, NoRepeat, VisitedUpstream
<1>4. TerminalFirst'
  BY <1>1 DEF WalkInv, TerminalFirst, BeforeWalk
<1>5. ScannedVisited'
  BY <1>1 DEF WalkInv, ScannedVisited, InWalk
<1> QED
  BY <1>2, <1>3, <1>4, <1>5 DEF WalkInv

\* A unit met for the first time joins visited and the queue together.
LEMMA WalkPush ==
  ASSUME TypeOK, TypeOK', WalkInv, Push
  PROVE  WalkInv'
<1> DEFINE n == Ups[k]
<1>1. /\ pc = "scan" /\ pc' = "scan" /\ k' = k + 1 /\ k <= Len(Ups)
      /\ n \notin visited /\ n \in data.rows /\ visited' = visited \cup {n}
      /\ UNCHANGED <<data, terminal, units>>
  BY DEF Push, Scanning
<1>2. /\ Len(queue) \in Nat
      /\ Len(queue') = Len(queue) + 1
      /\ queue'[Len(queue) + 1] = n
      /\ \A i \in 1 .. Len(queue) : queue'[i] = queue[i]
  BY <1>1, AppendProperties, LenProperties DEF Push, TypeOK
<1>3. n \in Upstream(data, terminal)
  BY <1>1, NamedIsUpstream DEF InWalk
<1>4. /\ \A i \in 1 .. Len(units) : units[i] # n
      /\ \A i \in 1 .. Len(queue) : queue[i] # n
  BY <1>1 DEF WalkInv, VisitedListed
<1> HIDE DEF n
<1>5. NotStarted' /\ Drained' /\ DanglingAt'
  BY <1>1 DEF NotStarted, Drained, DanglingAt, BeforeWalk, AfterWalk
<1>6. VisitedListed'
  <2> SUFFICES ASSUME NEW u \in data.rows
               PROVE  u \in visited' <=> \/ \E i \in 1 .. Len(units) : units[i] = u
                                       \/ \E i \in 1 .. Len(queue') : queue'[i] = u
    BY <1>1 DEF VisitedListed
  <2>1. u \in visited <=> \/ \E i \in 1 .. Len(units) : units[i] = u
                          \/ \E i \in 1 .. Len(queue) : queue[i] = u
    BY DEF WalkInv, VisitedListed
  <2>2. (\E i \in 1 .. Len(queue') : queue'[i] = u)
          <=> (u = n \/ \E i \in 1 .. Len(queue) : queue[i] = u)
    BY <1>2
  <2> QED
    BY <1>1, <2>1, <2>2
<1>7. NoRepeat'
  <2> USE DEF WalkInv, NoRepeat, Distinct
  <2>1. Distinct(queue')
    BY <1>2, <1>4
  <2>2. \A i \in 1 .. Len(units'), j \in 1 .. Len(queue') : units'[i] # queue'[j]
    BY <1>1, <1>2, <1>4, SMTT(40)
  <2> QED
    BY <1>1, <2>1, <2>2
<1>8. TerminalFirst'
  BY <1>1 DEF WalkInv, TerminalFirst, BeforeWalk
<1>9. VisitedUpstream'
  BY <1>1, <1>3 DEF WalkInv, VisitedUpstream
<1>10. ScannedVisited'
  <2> SUFFICES ASSUME NEW i \in 1 .. Len(units), NEW j \in 1 .. Len(data.up[units[i]])
               PROVE  \/ i = Len(units) /\ j >= k + 1
                      \/ data.up[units[i]][j] \in visited'
    BY <1>1 DEF ScannedVisited, InWalk
  <2>1. \/ i = Len(units) /\ j >= k
        \/ data.up[units[i]][j] \in visited
    BY DEF WalkInv, ScannedVisited
  <2>2. CASE i = Len(units) /\ j >= k
    <3>1. Len(data.up[units[i]]) \in Nat
      BY <1>1, <2>2, ScanFacts DEF InWalk, Ups, Current
    <3>2. j = k \/ j >= k + 1
      BY <2>2, <3>1 DEF TypeOK
    <3>3. j = k => data.up[units[i]][j] = n
      BY <2>2 DEF n, Ups, Current
    <3> QED
      BY <1>1, <2>2, <3>2, <3>3
  <2> QED
    BY <1>1, <2>1, <2>2
<1> QED
  BY <1>5, <1>6, <1>7, <1>8, <1>9, <1>10 DEF WalkInv

\* The scan of a unit ends when all it names was visited.
LEMMA WalkScanDone ==
  ASSUME TypeOK, TypeOK', WalkInv, ScanDone
  PROVE  WalkInv'
<1>1. /\ pc = "scan" /\ pc' = "next" /\ k > Len(Ups)
      /\ UNCHANGED <<data, terminal, visited, units, queue, k>>
  BY DEF ScanDone, Goto, walk
<1>2. NotStarted' /\ Drained' /\ DanglingAt'
  BY <1>1 DEF NotStarted, Drained, DanglingAt, BeforeWalk, AfterWalk
<1>3. VisitedListed' /\ NoRepeat' /\ VisitedUpstream'
  BY <1>1 DEF WalkInv, VisitedListed, NoRepeat, VisitedUpstream
<1>4. TerminalFirst'
  BY <1>1 DEF WalkInv, TerminalFirst, BeforeWalk
<1>5. ScannedVisited'
  <2> SUFFICES ASSUME NEW i \in 1 .. Len(units), NEW j \in 1 .. Len(data.up[units[i]])
               PROVE  data.up[units[i]][j] \in visited
    BY <1>1 DEF ScannedVisited
  <2>1. CASE i = Len(units)
    <3>1. Len(data.up[units[i]]) \in Nat /\ k > Len(data.up[units[i]])
      BY <1>1, <2>1, ScanFacts DEF InWalk, Ups, Current
    <3>2. ~(j >= k)
      BY <3>1 DEF TypeOK
    <3> QED
      BY <3>2 DEF WalkInv, ScannedVisited
  <2>2. CASE i # Len(units)
    BY <2>2 DEF WalkInv, ScannedVisited
  <2> QED
    BY <2>1, <2>2
<1> QED
  BY <1>2, <1>3, <1>4, <1>5 DEF WalkInv

\* The walk ends when the queue is empty.
LEMMA WalkCollected ==
  ASSUME TypeOK, TypeOK', WalkInv, Collected
  PROVE  WalkInv'
<1>1. /\ pc = "next" /\ pc' = "levels" /\ queue = <<>>
      /\ UNCHANGED <<data, terminal, visited, units, queue>>
  BY DEF Collected, Goto
<1>2. NotStarted' /\ Drained' /\ DanglingAt'
  BY <1>1 DEF NotStarted, Drained, DanglingAt, BeforeWalk, AfterWalk
<1>3. VisitedListed' /\ NoRepeat' /\ VisitedUpstream'
  BY <1>1 DEF WalkInv, VisitedListed, NoRepeat, VisitedUpstream
<1>4. TerminalFirst'
  <2>1. ~(Len(queue) > 0)
    BY <1>1
  <2> QED
    BY <1>1, <2>1 DEF WalkInv, TerminalFirst, BeforeWalk
<1>5. ScannedVisited'
  BY <1>1 DEF WalkInv, ScannedVisited, InWalk
<1> QED
  BY <1>2, <1>3, <1>4, <1>5 DEF WalkInv

\* Every step of a call keeps the invariant of the walk.
LEMMA WalkInvariant == Spec => []WalkInv
<1>1. Init /\ TypeOK => WalkInv
  <2> SUFFICES ASSUME Init, TypeOK PROVE WalkInv
    OBVIOUS
  <2>1. pc = "open" /\ visited = {} /\ Len(units) = 0 /\ Len(queue) = 0
        /\ units = <<>> /\ queue = <<>>
    BY DEF Init
  <2> QED
    BY <2>1 DEF WalkInv, NotStarted, VisitedListed, NoRepeat, Distinct,
                TerminalFirst, VisitedUpstream, ScannedVisited, Drained,
                DanglingAt, BeforeWalk, AfterWalk
<1>2. TypeOK /\ TypeOK' /\ WalkInv /\ [Next]_vars => WalkInv'
  <2> SUFFICES ASSUME TypeOK, TypeOK', WalkInv, [Next]_vars PROVE WalkInv'
    OBVIOUS
  <2>1. CASE OpenChecked \/ OpenTrusted \/ SelectLevel
              \/ (\E u \in Unit : Resolve(u)) \/ ResolveFails
    <3>1. pc \in BeforeWalk /\ pc' \in BeforeWalk
          /\ UNCHANGED <<visited, units, queue>>
      BY <2>1 DEF OpenChecked, OpenTrusted, SelectLevel, Resolve, ResolveFails,
                  Goto, BeforeWalk, walk
    <3> QED
      BY <3>1, WalkBefore DEF WalkInv, NotStarted
  <2>2. CASE CheckLevel \/ QueryByIds \/ QueryFails \/ Produce
    <3>1. pc \in AfterWalk /\ pc' \in AfterWalk
      BY <2>2 DEF CheckLevel, QueryByIds, QueryFails, Produce, Goto, AfterWalk
    <3>2. UNCHANGED <<data, terminal, visited, units, queue>>
      BY <2>2 DEF CheckLevel, QueryByIds, QueryFails, Produce, walk
    <3> QED
      BY <3>1, <3>2, WalkAfter
  <2>3. CASE UNCHANGED vars
    BY <2>3 DEF vars, WalkInv, NotStarted, VisitedListed, NoRepeat,
                TerminalFirst, VisitedUpstream, ScannedVisited, Drained,
                DanglingAt, Ups, Current
  <2> QED
    BY <2>1, <2>2, <2>3, WalkStart, WalkPop, WalkSkip, WalkDangling, WalkPush,
       WalkScanDone, WalkCollected DEF Next
<1> QED
  BY <1>1, <1>2, TraversalTypeCorrect, PTL DEF Spec

\* collect_upstream answers with exactly the units upstream of the terminal,
\* each once and the terminal first, whatever cycles and repetitions the
\* upstream_ids hold.
THEOREM UpstreamExactHolds == Spec => []UpstreamExact
<1>1. TypeOK /\ WalkInv => UpstreamExact
  <2> SUFFICES ASSUME TypeOK, WalkInv,
                      pc \in {"levels", "query", "produce", "ok"}
               PROVE  /\ Elements(units) = Upstream(data, terminal)
                      /\ Distinct(units)
                      /\ units[1] = terminal
    BY DEF UpstreamExact
  <2>1. pc \in AfterWalk /\ pc \notin InWalk /\ pc \notin BeforeWalk /\ pc # "next"
    BY DEF AfterWalk, InWalk, BeforeWalk
  <2>2. Distinct(units)
    BY DEF WalkInv, NoRepeat
  <2>3. units[1] = terminal /\ Len(units) \in Nat \ {0}
    BY <2>1, LenProperties DEF WalkInv, TerminalFirst, TypeOK
  <2>4. Elements(units) = visited
    <3>1. Len(queue) = 0
      BY <2>1 DEF WalkInv, Drained
    <3>2. \A i \in 1 .. Len(units) : units[i] \in data.rows
      BY ElementOfSeq DEF TypeOK
    <3> QED
      BY <3>1, <3>2 DEF WalkInv, VisitedListed, Elements, TypeOK
  <2>5. Closed(data, visited)
    <3> SUFFICES ASSUME NEW u \in visited, u \in data.rows,
                        NEW j \in 1 .. Len(data.up[u])
                 PROVE  data.up[u][j] \in visited
      BY DEF Closed
    <3>1. PICK i \in 1 .. Len(units) : units[i] = u
      BY <2>4 DEF Elements
    <3> QED
      BY <2>1, <3>1 DEF WalkInv, ScannedVisited
  <2>6. terminal \in visited
    BY <2>3, <2>4 DEF Elements
  <2>7. visited \in SUBSET Unit
    BY DEF TypeOK, IsDataset
  <2>8. Upstream(data, terminal) = visited
    BY <2>5, <2>6, <2>7, UpstreamLeast DEF WalkInv, VisitedUpstream
  <2> QED
    BY <2>2, <2>3, <2>4, <2>8
<1> QED
  BY <1>1, TraversalTypeCorrect, WalkInvariant, PTL

\* A DanglingUpstreamRef error is never spurious: some unit upstream of the
\* terminal has no row in the graph.
THEOREM DanglingIsRealHolds == Spec => []DanglingIsReal
<1>1. TypeOK /\ WalkInv => DanglingIsReal
  <2> SUFFICES ASSUME TypeOK, WalkInv, pc = "dangling"
               PROVE  ~(Upstream(data, terminal) \subseteq data.rows)
    BY DEF DanglingIsReal
  <2>1. k <= Len(Ups) /\ Ups[k] \notin data.rows
    BY DEF WalkInv, DanglingAt
  <2>2. Ups[k] \in Upstream(data, terminal)
    BY <2>1, NamedIsUpstream DEF InWalk
  <2> QED
    BY <2>1, <2>2
<1> QED
  BY <1>1, TraversalTypeCorrect, WalkInvariant, PTL

-----------------------------------------------------------------------------
(* From the checks of the open to the records. *)

\* On a dataset that passed the checks every unit with a row has a catchment
\* of its level, and so has every unit it names.
LEMMA ValidRows ==
  ASSUME NEW d, IsDataset(d), Valid(d)
  PROVE  /\ d.rows = d.catchments
         /\ \A u \in d.rows : d.level[u] = d.unitLevel[u]
         /\ \A u \in d.rows : \A i \in 1 .. Len(d.up[u]) :
              d.up[u][i] \in d.rows /\ d.level[d.up[u][i]] = d.level[u]
<1>1. d.rows = d.catchments
  BY DEF Valid, RowAgrees
<1> QED
  BY <1>1 DEF Valid, RowAgrees

\* The steps that make no record keep RecordsSoFar.
LEMMA RecordsIdle ==
  ASSUME RecordsSoFar, records' = records,
         pc \in BeforeWalk \cup InWalk \cup {"next", "levels", "query"},
         pc' # "produce", pc' # "ok"
  PROVE  RecordsSoFar' /\ RecordsFollowUnits'
BY DEF RecordsSoFar, RecordsFollowUnits

\* The steps of the open, of the level selection and of the resolver.
LEMMA ProduceBefore ==
  ASSUME TypeOK, TypeOK', WalkInv, WalkInv', ProduceInv,
         OpenChecked \/ OpenTrusted \/ SelectLevel
           \/ (\E u \in Unit : Resolve(u)) \/ ResolveFails
  PROVE  ProduceInv'
<1>1. /\ pc \in BeforeWalk /\ pc' \in BeforeWalk
      /\ UNCHANGED <<data, records>>
  BY DEF OpenChecked, OpenTrusted, SelectLevel, Resolve, ResolveFails, Goto, BeforeWalk
<1>2. visited' = {}
  BY <1>1 DEF WalkInv, NotStarted
<1>3. VisitedAtLevel'
  BY <1>2 DEF VisitedAtLevel
<1>4. RecordsSoFar' /\ RecordsFollowUnits'
  BY <1>1, RecordsIdle DEF ProduceInv, BeforeWalk
<1>5. CheckedValid'
  BY DEF ProduceInv, CheckedValid, OpenChecked, OpenTrusted, SelectLevel, Resolve,
         ResolveFails, Goto
<1>6. TerminalAtLevel'
  BY DEF TerminalAtLevel, OpenChecked, OpenTrusted, SelectLevel, Resolve,
         ResolveFails, Goto
<1>7. CheckedDataSucceeds'
  BY DEF CheckedDataSucceeds, OpenChecked, OpenTrusted, SelectLevel, Resolve,
         ResolveFails, Goto
<1> QED
  BY <1>3, <1>4, <1>5, <1>6, <1>7 DEF ProduceInv

\* The steps of the walk.
LEMMA ProduceWalk ==
  ASSUME TypeOK, TypeOK', WalkInv, WalkInv', ProduceInv,
         Start \/ PopFront \/ SkipVisited \/ Dangling \/ Push \/ ScanDone \/ Collected
  PROVE  ProduceInv'
<1>1. /\ pc \in {"start", "next", "scan"}
      /\ pc' \in {"no_terminal", "next", "scan", "dangling", "levels"}
      /\ UNCHANGED <<data, checked, level, terminal, records>>
  BY DEF Start, PopFront, SkipVisited, Dangling, Push, ScanDone, Collected, Scanning, Goto
<1>2. CheckedValid' /\ TerminalAtLevel'
  BY <1>1 DEF ProduceInv, CheckedValid, TerminalAtLevel
<1>3. RecordsSoFar' /\ RecordsFollowUnits'
  BY <1>1, RecordsIdle DEF ProduceInv, BeforeWalk, InWalk
<1>4. checked => Valid(data)
  BY <1>1 DEF ProduceInv, CheckedValid
<1>5. checked => terminal \in data.rows /\ data.level[terminal] = level
  BY <1>1, <1>4, ValidRows DEF ProduceInv, TerminalAtLevel, TypeOK
<1>6. ASSUME checked, pc = "scan", k <= Len(Ups)
      PROVE  Ups[k] \in data.rows /\ data.level[Ups[k]] = level
  <2>1. k \in 1 .. Len(Ups) /\ Current \in data.rows /\ Current \in visited
    BY <1>6, ScanFacts DEF TypeOK, InWalk
  <2>2. data.level[Current] = level
    BY <1>6, <2>1 DEF ProduceInv, VisitedAtLevel
  <2> QED
    BY <1>4, <1>6, <2>1, <2>2, ValidRows DEF TypeOK, Ups
<1>7. VisitedAtLevel'
  <2>1. CASE Start
    BY <1>1, <1>5, <2>1 DEF Start, ProduceInv, VisitedAtLevel
  <2>2. CASE Push
    BY <1>1, <1>6, <2>2 DEF Push, Scanning, ProduceInv, VisitedAtLevel
  <2>3. CASE UNCHANGED visited
    BY <1>1, <2>3 DEF ProduceInv, VisitedAtLevel
  <2> QED
    BY <2>1, <2>2, <2>3 DEF PopFront, SkipVisited, Dangling, ScanDone, Collected, walk
<1>8. CheckedDataSucceeds'
  <2> SUFFICES ASSUME checked PROVE pc' \notin {"no_terminal", "dangling"}
    BY <1>1 DEF CheckedDataSucceeds
  <2>1. ~Dangling
    BY <1>6 DEF Dangling, Scanning
  <2>2. Start => pc' = "next"
    BY <1>5 DEF Start, Goto
  <2> QED
    BY <2>1, <2>2 DEF PopFront, SkipVisited, Push, ScanDone, Collected, Scanning, Goto
<1> QED
  BY <1>2, <1>3, <1>7, <1>8 DEF ProduceInv

\* The level check, the query and the production of the records.
LEMMA ProduceAfter ==
  ASSUME TypeOK, TypeOK', WalkInv, WalkInv', ProduceInv,
         CheckLevel \/ QueryByIds \/ QueryFails \/ Produce
  PROVE  ProduceInv'
<1>1. /\ pc \in {"levels", "query", "produce"}
      /\ pc' \in {"levels", "query", "produce", "wrong_level", "read_failed",
                  "missing_record", "ok"}
  BY DEF CheckLevel, QueryByIds, QueryFails, Produce, Goto
<1>2. UNCHANGED <<data, checked, level, terminal, visited, units>>
  BY DEF CheckLevel, QueryByIds, QueryFails, Produce, walk
<1>3. CheckedValid' /\ TerminalAtLevel' /\ VisitedAtLevel'
  BY <1>1, <1>2 DEF ProduceInv, CheckedValid, TerminalAtLevel, VisitedAtLevel
<1>4. Len(units) \in Nat /\ \A i \in 1 .. Len(units) : units[i] \in data.rows
  BY LenProperties, ElementOfSeq DEF TypeOK
<1>5. ASSUME checked, NEW i \in 1 .. Len(units)
      PROVE  /\ data.level[units[i]] = level
             /\ units[i] \in data.catchments
             /\ data.unitLevel[units[i]] = level
  <2>1. Valid(data)
    BY <1>1, <1>5 DEF ProduceInv, CheckedValid
  <2>2. units[i] \in visited
    BY <1>4 DEF WalkInv, VisitedListed
  <2>3. data.level[units[i]] = level
    BY <1>5, <2>2 DEF ProduceInv, VisitedAtLevel
  <2> QED
    BY <1>4, <2>1, <2>3, ValidRows DEF TypeOK
<1>6. CheckedDataSucceeds'
  <2> SUFFICES ASSUME checked PROVE pc' \notin {"wrong_level", "missing_record"}
    BY <1>1, <1>2 DEF CheckedDataSucceeds
  <2>1. k <= Len(units) => k \in 1 .. Len(units)
    BY <1>4 DEF TypeOK
  <2>2. CASE CheckLevel
    BY <1>5, <2>1, <2>2 DEF CheckLevel
  <2>3. CASE QueryByIds \/ QueryFails
    BY <2>3 DEF QueryByIds, QueryFails, Goto
  <2>4. CASE Produce
    <3>1. k <= Len(units) => units[k] \in geometry
      BY <1>5, <2>1, <2>4 DEF Produce, ProduceInv, RecordsSoFar, TypeOK
    <3> QED
      BY <1>5, <2>1, <2>4, <3>1 DEF Produce
  <2> QED
    BY <2>2, <2>3, <2>4
<1>7. RecordsSoFar' /\ RecordsFollowUnits'
  <2>1. CASE CheckLevel \/ QueryFails
    <3>1. records' = records /\ pc \in {"levels", "query"}
          /\ pc' # "produce" /\ pc' # "ok"
      BY <2>1 DEF CheckLevel, QueryFails, Goto
    <3> QED
      BY <3>1, RecordsIdle DEF ProduceInv
  <2>2. CASE QueryByIds
    <3>1. /\ pc' = "produce" /\ k' = 1 /\ records' = <<>>
          /\ geometry' = {u \in data.catchments : \E i \in 1 .. Len(units) : units[i] = u}
      BY <2>2 DEF QueryByIds, Goto, ProduceInv, RecordsSoFar
    <3>2. Len(records') = 0
      BY <3>1
    <3> QED
      BY <1>2, <1>4, <3>1, <3>2 DEF RecordsSoFar, RecordsFollowUnits, BeforeWalk, InWalk
  <2>3. CASE Produce
    <3>1. /\ Len(records) = k - 1 /\ k <= Len(units) + 1 /\ k \in Nat \ {0}
          /\ \A i \in 1 .. Len(records) :
               records[i] = units[i] /\ data.unitLevel[records[i]] = level
          /\ \A i \in 1 .. Len(units) :
               i >= k /\ units[i] \in data.catchments => units[i] \in geometry
      BY <2>3 DEF Produce, ProduceInv, RecordsSoFar, TypeOK
    <3>2. CASE pc' \in {"missing_record", "wrong_level"}
      BY <3>2 DEF RecordsSoFar, RecordsFollowUnits, BeforeWalk, InWalk
    <3>3. CASE pc' = "ok"
      <4>1. k > Len(units) /\ records' = records
        BY <2>3, <3>3 DEF Produce
      <4>2. Len(records) = Len(units)
        BY <1>4, <3>1, <4>1
      <4>3. records \in Seq(Unit) /\ units \in Seq(Unit)
        BY SeqMonotonic DEF TypeOK, IsDataset
      <4>4. records = units
        BY <3>1, <4>2, <4>3, SeqEqual
      <4> QED
        BY <1>2, <3>1, <3>3, <4>1, <4>4 DEF RecordsSoFar, RecordsFollowUnits,
                                            BeforeWalk, InWalk
    <3>4. CASE pc' = "produce"
      <4>1. /\ k <= Len(units) /\ k' = k + 1 /\ units[k] \in geometry
            /\ data.unitLevel[units[k]] = level
            /\ records' = Append(records, units[k])
            /\ geometry' = geometry \ {units[k]}
        BY <2>3, <3>4 DEF Produce
      <4>2. /\ Len(records') = Len(records) + 1
            /\ \A i \in 1 .. Len(records) : records'[i] = records[i]
            /\ records'[Len(records) + 1] = units[k]
        BY <4>1, AppendProperties DEF TypeOK
      <4>3. \A i \in 1 .. Len(units) : i >= k + 1 => units[i] # units[k]
        BY <1>4, <3>1, <4>1 DEF WalkInv, NoRepeat, Distinct
      <4>4. \A i \in 1 .. Len(units) :
              i >= k' /\ units[i] \in data.catchments => units[i] \in geometry'
        BY <1>4, <3>1, <4>1, <4>3
      <4>5. Len(records') = k' - 1 /\ k' <= Len(units) + 1
        BY <1>4, <3>1, <4>1, <4>2
      <4>6. \A i \in 1 .. Len(records') :
              records'[i] = units[i] /\ data.unitLevel[records'[i]] = level
        BY <1>4, <3>1, <4>1, <4>2
      <4> QED
        BY <1>2, <3>4, <4>4, <4>5, <4>6 DEF RecordsSoFar, RecordsFollowUnits,
                                            BeforeWalk, InWalk
    <3> QED
      BY <2>3, <3>2, <3>3, <3>4 DEF Produce
  <2> QED
    BY <2>1, <2>2, <2>3
<1> QED
  BY <1>3, <1>6, <1>7 DEF ProduceInv

\* Every step of a call keeps the invariant of the records.
LEMMA ProduceInvariant == Spec => []ProduceInv
<1>1. Init => ProduceInv
  BY DEF Init, ProduceInv, CheckedValid, TerminalAtLevel, VisitedAtLevel,
         RecordsSoFar, CheckedDataSucceeds, RecordsFollowUnits, InWalk
<1>2. TypeOK /\ TypeOK' /\ WalkInv /\ WalkInv' /\ ProduceInv /\ [Next]_vars
        => ProduceInv'
  <2> SUFFICES ASSUME TypeOK, TypeOK', WalkInv, WalkInv', ProduceInv, [Next]_vars
               PROVE  ProduceInv'
    OBVIOUS
  <2>1. CASE UNCHANGED vars
    BY <2>1 DEF vars, ProduceInv, CheckedValid, TerminalAtLevel, VisitedAtLevel,
                RecordsSoFar, CheckedDataSucceeds, RecordsFollowUnits
  <2> QED
    BY <2>1, ProduceBefore, ProduceWalk, ProduceAfter DEF Next
<1> QED
  BY <1>1, <1>2, TraversalTypeCorrect, WalkInvariant, PTL DEF Spec

\* On a dataset that passed validate_graph_catchments no later stage fails with
\* a missing terminal, a dangling reference, a missing record or a wrong level.
THEOREM CheckedDataSucceedsHolds == Spec => []CheckedDataSucceeds
BY ProduceInvariant, PTL DEF ProduceInv

\* The pre-merge units are the upstream units in the order of the walk, all of
\* the selected level, also when the checks of the open were skipped.
THEOREM RecordsFollowUnitsHolds == Spec => []RecordsFollowUnits
BY ProduceInvariant, PTL DEF ProduceInv

\* The walk's units, the records of the pre-merge loop and the dangling
\* references reported are those of the dataset.
THEOREM TraversalExactHolds == Spec => []TraversalExact
BY UpstreamExactHolds, DanglingIsRealHolds, RecordsFollowUnitsHolds, PTL
   DEF TraversalExact

-----------------------------------------------------------------------------
(* Lists, least elements and sequences of checks. *)

LEMMA LessWellFounded == IsWellFoundedOn({p \in Nat \X Nat : p[1] < p[2]}, Nat)
BY NatLessThanWellFounded, Zenon DEF OpToRel

LEMMA LeastElement ==
  ASSUME NEW T, T \subseteq Nat, T # {}
  PROVE  \E x \in T : \A y \in T : x <= y
<1>. DEFINE R == {p \in Nat \X Nat : p[1] < p[2]}
<1>1. \E x \in T : \A y \in T : <<y, x>> \notin R
  <2>1. IsWellFoundedOn(R, Nat)
    BY LessWellFounded
  <2>. HIDE DEF R
  <2>. QED
    BY <2>1, WFMin
<1>2. PICK x \in T : \A y \in T : <<y, x>> \notin R
  BY <1>1
<1>3. ASSUME NEW y \in T, y < x PROVE FALSE
  <2>1. <<y, x>> \in R
    BY <1>3
  <2>. QED
    BY <1>2, <2>1
<1>. QED
  BY <1>3

LEMMA MinIs ==
  ASSUME NEW S, S \subseteq Nat, S # {}
  PROVE  Local!Min(S) \in S /\ \A y \in S : Local!Min(S) <= y
<1>. DEFINE P(x) == x \in S /\ \A y \in S : x <= y
<1>1. \E x : P(x)
  BY LeastElement
<1>2. P(CHOOSE x : P(x))
  <2>. HIDE DEF P
  <2>. QED
    BY <1>1, Zenon
<1>3. Local!Min(S) = CHOOSE x : P(x)
  BY DEF Local!Min
<1>. QED
  BY <1>2, <1>3

LEMMA MaxIs ==
  ASSUME NEW m \in Nat, NEW S, S \subseteq 0 .. m, S # {}
  PROVE  Local!Max(S) \in S /\ \A y \in S : y <= Local!Max(S)
<1>. DEFINE P(x) == x \in S /\ \A y \in S : x >= y
            T == {t \in Nat : m - t \in S}
<1>0. T # {}
  <2>1. PICK y \in S : TRUE
    OBVIOUS
  <2>2. m - y \in Nat /\ m - (m - y) = y
    BY <2>1
  <2>. QED
    BY <2>1, <2>2
<1>1. PICK t \in T : \A j \in T : t <= j
  BY <1>0, LeastElement
<1>2. P(m - t)
  <2>1. m - t \in S
    BY <1>1
  <2>2. ASSUME NEW y \in S PROVE m - t >= y
    <3>1. m - y \in Nat /\ m - (m - y) = y
      OBVIOUS
    <3>2. m - y \in T
      BY <3>1
    <3>. QED
      BY <1>1, <3>1, <3>2
  <2>. QED
    BY <2>1, <2>2
<1>3. P(CHOOSE x : P(x))
  <2>. HIDE DEF P
  <2>. QED
    BY <1>2, Zenon
<1>4. Local!Max(S) = CHOOSE x : P(x)
  BY DEF Local!Max
<1>. QED
  BY <1>3, <1>4

\* A sequence of checks finds no error exactly when each of them finds none.
LEMMA FirstErrorIs ==
  ASSUME NEW e, Len(e) \in Nat
  PROVE  /\ Local!FirstError(e) = None <=> \A i \in 1 .. Len(e) : e[i] = None
         /\ Local!FirstError(e) # None => \E i \in 1 .. Len(e) : Local!FirstError(e) = e[i]
<1>. DEFINE bad == {i \in 1 .. Len(e) : e[i] # None}
<1>1. Local!FirstError(e) = IF bad = {} THEN None ELSE e[Local!Min(bad)]
  BY DEF Local!FirstError
<1>2. bad # {} => Local!Min(bad) \in bad
  <2>1. bad \subseteq Nat
    OBVIOUS
  <2>. HIDE DEF bad
  <2>. QED
    BY <2>1, MinIs
<1>. QED
  BY <1>1, <1>2

\* f is what a loop over the first n elements has kept after each of them.
Keeps(f, s, P, n) ==
  f = [i \in 0 .. n |->
         IF i = 0 THEN <<>> ELSE IF i \in P THEN Append(f[i - 1], s[i]) ELSE f[i - 1]]

LEMMA KeepsExists ==
  ASSUME NEW s, NEW P, NEW n \in Nat
  PROVE  \E f : Keeps(f, s, P, n)
<1>. DEFINE T == {m \in Nat : ~\E f : Keeps(f, s, P, m)}
<1>1. ASSUME T # {} PROVE FALSE
  <2>1. PICK m \in T : \A y \in T : m <= y
    BY <1>1, LeastElement
  <2>2. CASE m = 0
    <3>1. Keeps([i \in 0 .. 0 |-> <<>>], s, P, 0)
      BY DEF Keeps
    <3>. QED
      BY <2>1, <2>2, <3>1
  <2>3. CASE m # 0
    <3>1. m - 1 \in Nat /\ m - 1 \notin T
      BY <2>1, <2>3
    <3>2. PICK f : Keeps(f, s, P, m - 1)
      BY <3>1
    <3>. DEFINE g == [i \in 0 .. m |->
                        IF i = m THEN IF m \in P THEN Append(f[m - 1], s[m]) ELSE f[m - 1]
                        ELSE f[i]]
                body(h, i) == IF i = 0 THEN <<>> ELSE IF i \in P THEN Append(h[i - 1], s[i]) ELSE h[i - 1]
    <3>3. ASSUME NEW i \in 0 .. m - 1 PROVE f[i] = body(f, i)
      BY <3>1, <3>2 DEF Keeps
    <3>4. ASSUME NEW i \in 0 .. m PROVE g[i] = body(g, i)
      <4>1. CASE i = m
        BY <2>3, <4>1, <3>1
      <4>2. CASE i # m
        <5>1. i \in 0 .. m - 1 /\ g[i] = f[i]
          BY <4>2, <3>1
        <5>2. i # 0 => i - 1 \in 0 .. m /\ i - 1 # m /\ g[i - 1] = f[i - 1]
          BY <5>1, <3>1
        <5>. QED
          BY <5>1, <5>2, <3>3
      <4>. QED
        BY <4>1, <4>2
    <3>5. g = [i \in 0 .. m |-> body(g, i)]
      <4>1. g = [i \in 0 .. m |-> g[i]]
        OBVIOUS
      <4>. HIDE DEF g, body
      <4>. QED
        BY <4>1, <3>4
    <3>6. Keeps(g, s, P, m)
      BY <3>5 DEF Keeps
    <3>. QED
      BY <2>1, <3>6
  <2>. QED
    BY <2>2, <2>3
<1>. QED
  BY <1>1

\* What is kept of the first n elements.
IsKept(l, s, P, n) ==
  /\ l \in Seq({s[i] : i \in 1 .. n})
  /\ \A t \in 1 .. Len(l) : \E i \in 1 .. n : i \in P /\ l[t] = s[i]
  /\ \A i \in 1 .. n : i \in P => \E t \in 1 .. Len(l) : l[t] = s[i]

LEMMA KeepsIs ==
  ASSUME NEW s, NEW P, NEW n \in Nat, NEW f, Keeps(f, s, P, n)
  PROVE  IsKept(f[n], s, P, n)
<1>. DEFINE T == {m \in 0 .. n : ~IsKept(f[m], s, P, m)}
<1>0. ASSUME NEW m \in 0 .. n
      PROVE  f[m] = IF m = 0 THEN <<>> ELSE IF m \in P THEN Append(f[m - 1], s[m]) ELSE f[m - 1]
  BY DEF Keeps
<1>1. ASSUME T # {} PROVE FALSE
  <2>0. T \subseteq Nat
    OBVIOUS
  <2>1. PICK m \in T : \A y \in T : m <= y
    BY <1>1, <2>0, LeastElement
  <2>2. CASE m = 0
    <3>1. f[0] = <<>> /\ Len(<<>>) = 0 /\ \A S : <<>> \in Seq(S)
      BY <1>0
    <3>2. IsKept(f[0], s, P, 0)
      BY <3>1 DEF IsKept
    <3>. QED
      BY <2>1, <2>2, <3>2
  <2>3. CASE m # 0
    <3>1. m - 1 \in 0 .. n /\ m \in Nat \ {0} /\ m \in 0 .. n /\ m - 1 \notin T
      BY <2>1, <2>3
    <3>2. IsKept(f[m - 1], s, P, m - 1)
      BY <3>1
    <3>. DEFINE l == f[m - 1]
                S == {s[i] : i \in 1 .. m}
    <3>3. l \in Seq(S) /\ Len(l) \in Nat
      <4>. DEFINE before == {s[i] : i \in 1 .. m - 1}
      <4>1. before \subseteq S
        BY <3>1
      <4>2. l \in Seq(before)
        BY <3>2 DEF IsKept
      <4>. HIDE DEF S, before, l
      <4>. QED
        BY <4>1, <4>2, SeqMonotonic, LenProperties
    <3>4. CASE m \in P
      <4>1. f[m] = Append(l, s[m])
        BY <1>0, <2>3, <3>1, <3>4
      <4>2. s[m] \in S
        BY <3>1
      <4>. HIDE DEF l, S
      <4>3. /\ f[m] \in Seq(S) /\ Len(f[m]) = Len(l) + 1
            /\ \A t \in 1 .. Len(l) : f[m][t] = l[t]
            /\ f[m][Len(l) + 1] = s[m]
        BY <3>3, <4>1, <4>2, AppendProperties
      <4>4. \A t \in 1 .. Len(f[m]) : \E i \in 1 .. m : i \in P /\ f[m][t] = s[i]
        <5>. SUFFICES ASSUME NEW t \in 1 .. Len(f[m]) PROVE \E i \in 1 .. m : i \in P /\ f[m][t] = s[i]
          OBVIOUS
        <5>1. CASE t = Len(l) + 1
          BY <3>1, <3>4, <4>3, <5>1
        <5>2. CASE t # Len(l) + 1
          <6>1. t \in 1 .. Len(l) /\ f[m][t] = l[t]
            BY <3>3, <4>3, <5>2
          <6>2. PICK i \in 1 .. m - 1 : i \in P /\ l[t] = s[i]
            BY <3>2, <6>1 DEF IsKept, l
          <6>. QED
            BY <3>1, <6>1, <6>2
        <5>. QED
          BY <5>1, <5>2
      <4>5. \A i \in 1 .. m : i \in P => \E t \in 1 .. Len(f[m]) : f[m][t] = s[i]
        <5>. SUFFICES ASSUME NEW i \in 1 .. m, i \in P PROVE \E t \in 1 .. Len(f[m]) : f[m][t] = s[i]
          OBVIOUS
        <5>1. CASE i = m
          BY <3>3, <4>3, <5>1
        <5>2. CASE i # m
          <6>1. i \in 1 .. m - 1
            BY <3>1, <5>2
          <6>2. PICK t \in 1 .. Len(l) : l[t] = s[i]
            BY <3>2, <6>1 DEF IsKept, l
          <6>3. t \in 1 .. Len(f[m])
            BY <3>3, <4>3
          <6>. QED
            BY <4>3, <6>2, <6>3
        <5>. QED
          BY <5>1, <5>2
      <4>6. IsKept(f[m], s, P, m)
        BY <4>3, <4>4, <4>5 DEF IsKept, S
      <4>. QED
        BY <2>1, <4>6
    <3>5. CASE m \notin P
      <4>1. f[m] = l
        BY <1>0, <2>3, <3>1, <3>5
      <4>2. \A t \in 1 .. Len(l) : \E i \in 1 .. m : i \in P /\ l[t] = s[i]
        BY <3>1, <3>2 DEF IsKept
      <4>3. \A i \in 1 .. m : i \in P => i \in 1 .. m - 1
        BY <3>1, <3>5
      <4>4. \A i \in 1 .. m : i \in P => \E t \in 1 .. Len(l) : l[t] = s[i]
        BY <3>2, <4>3 DEF IsKept
      <4>5. IsKept(f[m], s, P, m)
        BY <3>3, <4>1, <4>2, <4>4 DEF IsKept
      <4>. QED
        BY <2>1, <4>5
    <3>. QED
      BY <3>4, <3>5
  <2>. QED
    BY <2>2, <2>3
<1>. QED
  BY <1>1

\* The elements picked are those at the positions given.
LEMMA PickedIs ==
  ASSUME NEW s, Len(s) \in Nat, NEW P
  PROVE  IsKept(Local!Picked(s, P), s, P, Len(s))
<1>. DEFINE n == Len(s)
<1>1. \E f : Keeps(f, s, P, n)
  BY KeepsExists
<1>2. Local!Picked(s, P) = (CHOOSE f : Keeps(f, s, P, n))[n]
  BY DEF Local!Picked, Keeps
<1>3. PICK f : Keeps(f, s, P, n) /\ Local!Picked(s, P) = f[n]
  BY <1>1, <1>2
<1>. QED
  BY <1>3, KeepsIs

-----------------------------------------------------------------------------
(* Part open: LocalOpen. *)

LEMMA FabricIs ==
  ASSUME ds \in OpenDataset
  PROVE  /\ Local!IsSource(ds.source) /\ ds.dir \in BOOLEAN
         /\ Local!IsManifest(ds.manifest) /\ Local!IsGraph(ds.graph) /\ Local!IsList(ds.catchments)
BY FabricAssumption DEF Local!OpenAssumption, Local!IsDataset

LEMMA NoneIs == None \notin Local!Errors /\ Null \notin Nat /\ OpenMaxLevel \in Nat
BY FabricAssumption DEF Local!OpenAssumption

\* DatasetSource::parse tells local paths from object stores.
LEMMA ParseIs ==
  ASSUME ds \in OpenDataset
  PROVE  /\ Local!Parse(ds.source) = "Local" <=> Local!NamesLocal(ds.source)
         /\ Local!Parse(ds.source) = "Remote" <=> Local!NamesRemote(ds.source)
<1>. DEFINE s == ds.source
<1>1. /\ s.form \in {"plain", "drive", "unc", "url", "broken"}
      /\ s.path \in BOOLEAN /\ s.config \in BOOLEAN /\ s.bucket \in BOOLEAN
  BY FabricIs DEF Local!IsSource
<1>. HIDE DEF s
<1>2. Local!RemoteSource(s) \in {"DatasetSourcePath", "ObjectStoreConfig", "Remote"}
      /\ (Local!RemoteSource(s) = "Remote" <=> s.path /\ s.config)
  BY <1>1 DEF Local!RemoteSource
<1>3. Local!HttpSource(s) # "Local"
      /\ (Local!HttpSource(s) = "Remote" <=>
            (s.path /\ s.config /\ (s.host = "public" \/ (s.host = "account" /\ s.bucket))))
  BY <1>1, <1>2 DEF Local!HttpSource, Local!PublicSource, Local!AccountSource
<1>4. /\ Local!UrlSource(s) = "Local" <=> s.scheme = "file" /\ s.path
      /\ Local!UrlSource(s) = "Remote" <=>
           \/ s.scheme = "s3" /\ s.path /\ s.config
           \/ s.scheme = "http" /\ Local!HttpSource(s) = "Remote"
  BY <1>1, <1>2, <1>3 DEF Local!UrlSource
<1>5. /\ Local!Parse(s) = "Local" <=> Local!NamesLocal(s)
      /\ Local!Parse(s) = "Remote" <=> Local!NamesRemote(s)
  BY <1>1, <1>3, <1>4 DEF Local!Parse, Local!NamesLocal, Local!NamesRemote
<1>. QED
  BY <1>5 DEF s

LEMMA FirstOfThree ==
  ASSUME NEW a, NEW b, NEW c
  PROVE  Local!FirstError(<<a, b, c>>) = None <=> a = None /\ b = None /\ c = None
<1>. DEFINE e == <<a, b, c>>
<1>1. Len(e) \in Nat /\ Len(e) = 3 /\ e[1] = a /\ e[2] = b /\ e[3] = c
  OBVIOUS
<1>2. 1 .. 3 = {1, 2, 3}
  OBVIOUS
<1>. HIDE DEF e
<1>3. Local!FirstError(e) = None <=> \A i \in {1, 2, 3} : e[i] = None
  BY <1>1, <1>2, FirstErrorIs
<1>4. Local!FirstError(e) = None <=> a = None /\ b = None /\ c = None
  BY <1>1, <1>3
<1>. QED
  BY <1>4 DEF e

\* parse_auxiliary accepts exactly the entries that are sound.
LEMMA EntryIs ==
  ASSUME NEW e, Local!IsEntry(e)
  PROVE  Local!AuxError(e) = None <=> Local!SoundEntry(e)
<1>1. /\ e.schema \in {"missing", "malformed", "unreadable", "d8", "snap", "generic"}
      /\ e.meta.object \in BOOLEAN /\ e.meta.good \in BOOLEAN
  BY DEF Local!IsEntry, Local!Schemas
<1>2. "AuxiliaryDeclParse" # None /\ "SnapAuxMetadataInvalid" # None
  BY NoneIs DEF Local!Errors
<1>3. CASE e.schema = "d8"
  BY <1>1, <1>2, <1>3 DEF Local!AuxError, Local!D8Error, Local!SoundEntry
<1>4. CASE e.schema = "snap"
  BY <1>1, <1>2, <1>4 DEF Local!AuxError, Local!SnapError, Local!SoundEntry
<1>5. CASE e.schema \in {"missing", "malformed", "unreadable", "generic"}
  BY <1>1, <1>2, <1>5 DEF Local!AuxError, Local!SoundEntry
<1>. QED
  BY <1>1, <1>3, <1>4, <1>5

\* What build_manifest accepts.
ManifestReads(m) ==
  /\ m.shape
  /\ \A i \in 1 .. Len(Local!Fields) : m[Local!Fields[i]] = "ok"
  /\ \A e \in Local!Seen(m.aux) : Local!SoundEntry(e)

LEMMA ManifestIs ==
  ASSUME NEW m, Local!IsManifest(m)
  PROVE  Local!ManifestError(m) = None <=> ManifestReads(m)
<1>. DEFINE F == [i \in 1 .. Len(Local!Fields) |-> Local!FieldError(Local!Fields[i], m[Local!Fields[i]])]
            A == [i \in 1 .. Len(m.aux) |-> Local!AuxError(m.aux[i])]
<1>1. Len(Local!Fields) = 8 /\ Local!Texts \subseteq {Local!Fields[i] : i \in 1 .. 8}
  BY DEF Local!Fields, Local!Texts
<1>2. Len(m.aux) \in Nat /\ m.shape \in BOOLEAN
      /\ \A i \in 1 .. 8 : m[Local!Fields[i]] \in {"ok", "missing", "bad"}
      /\ \A e \in Local!Seen(m.aux) : Local!IsEntry(e)
  BY <1>1, LenProperties DEF Local!IsManifest, Local!IsList
<1>3. /\ "ManifestFieldMissing" # None /\ "UnsupportedFormatVersion" # None /\ "UnsupportedCrs" # None
      /\ "ManifestFieldInvalid" # None /\ "ManifestDomain" # None /\ "ManifestJsonParse" # None
  BY NoneIs DEF Local!Errors
<1>4. ASSUME NEW f, NEW state \in {"ok", "missing", "bad"}
      PROVE  Local!FieldError(f, state) = None <=> state = "ok" \/ (state = "bad" /\ f \in Local!Texts)
  BY <1>3 DEF Local!FieldError, Local!Texts
<1>5. Local!FieldsError(m) = None <=>
        \A i \in 1 .. 8 : m[Local!Fields[i]] = "ok" \/ (m[Local!Fields[i]] = "bad" /\ Local!Fields[i] \in Local!Texts)
  <2>1. Len(F) = 8 /\ \A i \in 1 .. 8 : F[i] = Local!FieldError(Local!Fields[i], m[Local!Fields[i]])
    BY <1>1
  <2>2. Local!FieldsError(m) = Local!FirstError(F)
    BY DEF Local!FieldsError
  <2>. HIDE DEF F
  <2>3. Local!FirstError(F) = None <=> \A i \in 1 .. 8 : F[i] = None
    <3>1. Len(F) \in Nat
      BY <2>1
    <3>2. Local!FirstError(F) = None <=> \A i \in 1 .. Len(F) : F[i] = None
      BY <3>1, FirstErrorIs
    <3>. QED
      BY <2>1, <3>2
  <2>. QED
    BY <1>2, <1>4, <2>1, <2>2, <2>3
<1>6. Local!BuilderError(m) = None <=> \A f \in Local!Texts : m[f] # "bad"
  BY <1>3 DEF Local!BuilderError
<1>7. Local!FieldsError(m) = None /\ Local!BuilderError(m) = None <=> \A i \in 1 .. 8 : m[Local!Fields[i]] = "ok"
  BY <1>1, <1>5, <1>6
<1>8. Local!FirstError(A) = None <=> \A e \in Local!Seen(m.aux) : Local!SoundEntry(e)
  <2>1. Len(A) = Len(m.aux) /\ \A i \in 1 .. Len(m.aux) : A[i] = Local!AuxError(m.aux[i])
    BY <1>2
  <2>2. \A i \in 1 .. Len(m.aux) : Local!AuxError(m.aux[i]) = None <=> Local!SoundEntry(m.aux[i])
    BY <1>2, EntryIs DEF Local!Seen
  <2>. HIDE DEF A
  <2>3. Local!FirstError(A) = None <=> \A i \in 1 .. Len(m.aux) : A[i] = None
    BY <1>2, <2>1, FirstErrorIs
  <2>. QED
    BY <2>1, <2>2, <2>3 DEF Local!Seen
<1>9. Local!ManifestError(m) = None <=>
        m.shape /\ Local!FieldsError(m) = None /\ Local!FirstError(A) = None /\ Local!BuilderError(m) = None
  <2>. DEFINE a == Local!FieldsError(m)  b == Local!FirstError(A)  c == Local!BuilderError(m)
  <2>1. Local!ManifestError(m) = IF ~m.shape THEN "ManifestJsonParse" ELSE Local!FirstError(<<a, b, c>>)
    BY DEF Local!ManifestError
  <2>. HIDE DEF a, b, c
  <2>2. Local!FirstError(<<a, b, c>>) = None <=> a = None /\ b = None /\ c = None
    BY FirstOfThree
  <2>3. Local!ManifestError(m) = None <=> m.shape /\ a = None /\ b = None /\ c = None
    BY <1>2, <1>3, <2>1, <2>2
  <2>. QED
    BY <2>3 DEF a, b, c
<1>. HIDE DEF A, F
<1>. QED
  BY <1>1, <1>7, <1>8, <1>9 DEF ManifestReads

\* An artifact lies inside the root and, locally, is there.
ArtifactFine(p, remote) == p.parts = {"name"} /\ (remote \/ p.name \in ds.files)

PathKinds == (SUBSET {"name", "parent", "root", "prefix"}) \ {{}}

LEMMA ArtifactIs ==
  ASSUME NEW p, p.parts \in PathKinds, NEW remote \in BOOLEAN
  PROVE  Local!ArtifactError(p, remote) = None <=> ArtifactFine(p, remote)
<1>1. "AuxiliaryPathEscape" # None /\ "AuxiliaryArtifactMissing" # None
  BY NoneIs DEF Local!Errors
<1>2. Local!PathEscapesRoot(p) <=> p.parts # {"name"}
  <2>1. ASSUME ~Local!PathEscapesRoot(p) PROVE p.parts = {"name"}
    <3>1. \A x \in p.parts : x = "name"
      BY <2>1 DEF Local!PathEscapesRoot, PathKinds
    <3>2. p.parts # {}
      BY DEF PathKinds
    <3>. QED
      BY <3>1, <3>2
  <2>2. ASSUME p.parts = {"name"} PROVE ~Local!PathEscapesRoot(p)
    BY <2>2 DEF Local!PathEscapesRoot
  <2>. QED
    BY <2>1, <2>2
<1>. QED
  BY <1>1, <1>2 DEF Local!ArtifactError, ArtifactFine

LEMMA ArtifactsAre ==
  ASSUME NEW paths, Len(paths) \in Nat, NEW remote \in BOOLEAN,
         \A j \in 1 .. Len(paths) : paths[j].parts \in PathKinds
  PROVE  Local!ArtifactsError(paths, remote) = None <=>
           \A j \in 1 .. Len(paths) : ArtifactFine(paths[j], remote)
<1>. DEFINE E == [j \in 1 .. Len(paths) |-> Local!ArtifactError(paths[j], remote)]
<1>1. Len(E) = Len(paths) /\ \A j \in 1 .. Len(paths) : E[j] = Local!ArtifactError(paths[j], remote)
  OBVIOUS
<1>2. Local!ArtifactsError(paths, remote) = Local!FirstError(E)
  BY DEF Local!ArtifactsError
<1>. HIDE DEF E
<1>3. Local!FirstError(E) = None <=> \A i \in 1 .. Len(E) : E[i] = None
  BY <1>1, FirstErrorIs
<1>. QED
  BY <1>1, <1>2, <1>3, ArtifactIs

\* The paths validate_local_aux_paths looks at in a declaration are the ones it obliges.
LEMMA DeclaredPaths ==
  ASSUME NEW e, Local!IsEntry(e), Local!SoundEntry(e), NEW remote \in BOOLEAN
  PROVE  /\ e.schema = "d8" => (Local!ArtifactsError(Local!D8Paths(e), remote) = None
              <=> \A p \in Local!Obliged(e) : ArtifactFine(p, remote))
         /\ e.schema = "snap" => (Local!ArtifactsError(Local!SnapPaths(e), remote) = None
              <=> \A p \in Local!Obliged(e) : ArtifactFine(p, remote))
         /\ e.schema = "generic" => (Local!ArtifactsError(Local!GenericPaths(e), remote) = None
              <=> \A p \in Local!Obliged(e) : ArtifactFine(p, remote))
<1>1. \A t \in DOMAIN e.artifacts : e.artifacts[t].parts \in PathKinds
  BY DEF Local!IsEntry, PathKinds
<1>2. ASSUME e.schema = "d8"
      PROVE  Local!ArtifactsError(Local!D8Paths(e), remote) = None
               <=> \A p \in Local!Obliged(e) : ArtifactFine(p, remote)
  <2>. DEFINE d == Local!D8Paths(e)
  <2>1. {"flow_dir", "flow_acc"} \subseteq DOMAIN e.artifacts
    BY <1>2 DEF Local!SoundEntry
  <2>2. Len(d) = 2 /\ 1 .. 2 = {1, 2} /\ d[1] = e.artifacts["flow_dir"] /\ d[2] = e.artifacts["flow_acc"]
    BY DEF Local!D8Paths
  <2>3. Local!Obliged(e) = {e.artifacts["flow_dir"], e.artifacts["flow_acc"]}
    BY <1>2 DEF Local!Obliged
  <2>. HIDE DEF d
  <2>4. Len(d) \in Nat /\ \A j \in 1 .. Len(d) : d[j].parts \in PathKinds
    BY <1>1, <2>1, <2>2
  <2>5. Local!ArtifactsError(d, remote) = None <=> \A j \in 1 .. Len(d) : ArtifactFine(d[j], remote)
    BY <2>4, ArtifactsAre
  <2>6. Local!ArtifactsError(d, remote) = None <=> \A p \in Local!Obliged(e) : ArtifactFine(p, remote)
    BY <2>2, <2>3, <2>5
  <2>. QED
    BY <2>6 DEF d
<1>3. ASSUME e.schema = "snap"
      PROVE  Local!ArtifactsError(Local!SnapPaths(e), remote) = None
               <=> \A p \in Local!Obliged(e) : ArtifactFine(p, remote)
  <2>. DEFINE d == Local!SnapPaths(e)
  <2>1. "snap" \in DOMAIN e.artifacts
    BY <1>3 DEF Local!SoundEntry
  <2>2. Len(d) = 1 /\ 1 .. 1 = {1} /\ d[1] = e.artifacts["snap"]
    BY DEF Local!SnapPaths
  <2>3. Local!Obliged(e) = {e.artifacts["snap"]}
    BY <1>3 DEF Local!Obliged
  <2>. HIDE DEF d
  <2>4. Len(d) \in Nat /\ \A j \in 1 .. Len(d) : d[j].parts \in PathKinds
    BY <1>1, <2>1, <2>2
  <2>5. Local!ArtifactsError(d, remote) = None <=> \A j \in 1 .. Len(d) : ArtifactFine(d[j], remote)
    BY <2>4, ArtifactsAre
  <2>6. Local!ArtifactsError(d, remote) = None <=> \A p \in Local!Obliged(e) : ArtifactFine(p, remote)
    BY <2>2, <2>3, <2>5
  <2>. QED
    BY <2>6 DEF d
<1>4. ASSUME e.schema = "generic"
      PROVE  Local!ArtifactsError(Local!GenericPaths(e), remote) = None
               <=> \A p \in Local!Obliged(e) : ArtifactFine(p, remote)
  <2>. DEFINE K == Local!KeyOrder
              P == {i \in 1 .. Len(K) : K[i] \in DOMAIN e.artifacts}
              keys == Local!Picked(K, P)
              d == Local!GenericPaths(e)
  <2>1. Len(K) \in Nat
    BY DEF Local!KeyOrder
  <2>2. IsKept(keys, K, P, Len(K))
    <3>. HIDE DEF K, P
    <3>. QED
      BY <2>1, PickedIs
  <2>3. Len(keys) \in Nat
    BY <2>2, LenProperties DEF IsKept
  <2>4. d = [i \in 1 .. Len(keys) |-> e.artifacts[keys[i]]]
    BY DEF Local!GenericPaths
  <2>5. \A i \in 1 .. Len(keys) : keys[i] \in DOMAIN e.artifacts
    BY <2>2 DEF IsKept
  <2>6. \A t \in DOMAIN e.artifacts : \E i \in 1 .. Len(keys) : keys[i] = t
    <3>1. DOMAIN e.artifacts \subseteq {K[i] : i \in 1 .. Len(K)}
      BY DEF Local!IsEntry, Local!Seen
    <3>. SUFFICES ASSUME NEW t \in DOMAIN e.artifacts PROVE \E i \in 1 .. Len(keys) : keys[i] = t
      OBVIOUS
    <3>2. PICK i \in 1 .. Len(K) : K[i] = t
      BY <3>1
    <3>3. i \in P
      BY <3>2
    <3>. HIDE DEF P, keys, K
    <3>. QED
      BY <2>2, <3>2, <3>3 DEF IsKept
  <2>7. Local!Obliged(e) = {e.artifacts[t] : t \in DOMAIN e.artifacts}
    BY <1>4 DEF Local!Obliged
  <2>. HIDE DEF keys
  <2>8. Len(d) = Len(keys) /\ \A i \in 1 .. Len(keys) : d[i] = e.artifacts[keys[i]]
    BY <2>3, <2>4
  <2>. HIDE DEF d
  <2>9. Len(d) \in Nat /\ \A j \in 1 .. Len(d) : d[j].parts \in PathKinds
    BY <1>1, <2>3, <2>5, <2>8
  <2>10. Local!ArtifactsError(d, remote) = None <=> \A j \in 1 .. Len(d) : ArtifactFine(d[j], remote)
    BY <2>9, ArtifactsAre
  <2>11. Local!ArtifactsError(d, remote) = None <=> \A p \in Local!Obliged(e) : ArtifactFine(p, remote)
    BY <2>5, <2>6, <2>7, <2>8, <2>10
  <2>. QED
    BY <2>11 DEF d
<1>. QED
  BY <1>2, <1>3, <1>4

\* The declarations of a class are the entries of its schema.
LEMMA OfSchemaIs ==
  ASSUME NEW m, Local!IsManifest(m), NEW schema
  PROVE  /\ Len(Local!OfSchema(m, schema)) \in Nat
         /\ \A t \in 1 .. Len(Local!OfSchema(m, schema)) :
              Local!OfSchema(m, schema)[t] \in {e \in Local!Seen(m.aux) : e.schema = schema}
         /\ \A e \in Local!Seen(m.aux) : e.schema = schema =>
              \E t \in 1 .. Len(Local!OfSchema(m, schema)) : Local!OfSchema(m, schema)[t] = e
<1>. DEFINE P == {i \in 1 .. Len(m.aux) : m.aux[i].schema = schema}
            l == Local!OfSchema(m, schema)
<1>1. Len(m.aux) \in Nat
  BY LenProperties DEF Local!IsManifest, Local!IsList
<1>2. l = Local!Picked(m.aux, P)
  BY DEF Local!OfSchema
<1>3. IsKept(l, m.aux, P, Len(m.aux))
  <2>. HIDE DEF P
  <2>. QED
    BY <1>1, <1>2, PickedIs
<1>4. Len(l) \in Nat
  BY <1>3, LenProperties DEF IsKept
<1>. HIDE DEF l
<1>5. \A t \in 1 .. Len(l) : l[t] \in {e \in Local!Seen(m.aux) : e.schema = schema}
  BY <1>3 DEF IsKept, Local!Seen
<1>6. ASSUME NEW e \in Local!Seen(m.aux), e.schema = schema
      PROVE  \E t \in 1 .. Len(l) : l[t] = e
  <2>1. PICK i \in 1 .. Len(m.aux) : e = m.aux[i]
    BY DEF Local!Seen
  <2>2. i \in P
    BY <1>6, <2>1
  <2>. HIDE DEF P
  <2>. QED
    BY <1>3, <2>1, <2>2, Zenon DEF IsKept
<1>. QED
  BY <1>4, <1>5, <1>6 DEF l

\* validate_local_aux_paths, validate_remote_aux_paths: all obliged artifacts are fine.
LEMMA PathsAre ==
  ASSUME ds \in OpenDataset, ManifestReads(ds.manifest), aux = Local!Classified(ds.manifest),
         NEW remote \in BOOLEAN
  PROVE  Local!AuxPathsError(remote) = None <=>
           \A e \in Local!Seen(ds.manifest.aux) : \A p \in Local!Obliged(e) : ArtifactFine(p, remote)
<1>. DEFINE m == ds.manifest
            D == [i \in 1 .. Len(aux.d8) |-> Local!ArtifactsError(Local!D8Paths(aux.d8[i]), remote)]
            S == [i \in 1 .. Len(aux.snap) |-> Local!ArtifactsError(Local!SnapPaths(aux.snap[i]), remote)]
            G == [i \in 1 .. Len(aux.generic) |-> Local!ArtifactsError(Local!GenericPaths(aux.generic[i]), remote)]
            fine(e) == \A p \in Local!Obliged(e) : ArtifactFine(p, remote)
<1>1. Local!IsManifest(m)
  BY FabricIs
<1>2. \A e \in Local!Seen(m.aux) : Local!IsEntry(e) /\ Local!SoundEntry(e)
  BY <1>1 DEF Local!IsManifest, ManifestReads
<1>3. /\ aux.d8 = Local!OfSchema(m, "d8") /\ aux.snap = Local!OfSchema(m, "snap")
      /\ aux.generic = Local!OfSchema(m, "generic")
  BY DEF Local!Classified
<1>4. ASSUME NEW l, NEW schema, l = Local!OfSchema(m, schema), NEW E,
             Len(E) = Len(l), \A i \in 1 .. Len(l) : E[i] = None <=> fine(l[i])
      PROVE  Local!FirstError(E) = None <=>
               \A e \in Local!Seen(m.aux) : e.schema = schema => fine(e)
  <2>. HIDE DEF fine, m
  <2>1. /\ Len(l) \in Nat
        /\ \A t \in 1 .. Len(l) : l[t] \in {e \in Local!Seen(m.aux) : e.schema = schema}
        /\ \A e \in Local!Seen(m.aux) : e.schema = schema => \E t \in 1 .. Len(l) : l[t] = e
    BY <1>1, <1>4, OfSchemaIs
  <2>2. Local!FirstError(E) = None <=> \A i \in 1 .. Len(E) : E[i] = None
    BY <1>4, <2>1, FirstErrorIs
  <2>. QED
    BY <1>4, <2>1, <2>2
<1>5. Local!FirstError(D) = None <=> \A e \in Local!Seen(m.aux) : e.schema = "d8" => fine(e)
  <2>. DEFINE l == aux.d8
  <2>1. /\ Len(l) \in Nat
        /\ \A t \in 1 .. Len(l) : l[t] \in {e \in Local!Seen(m.aux) : e.schema = "d8"}
    BY <1>1, <1>3, OfSchemaIs
  <2>2. Len(D) = Len(l) /\ \A i \in 1 .. Len(l) : D[i] = Local!ArtifactsError(Local!D8Paths(l[i]), remote)
    BY <2>1
  <2>. HIDE DEF D, l, m
  <2>3. \A i \in 1 .. Len(l) : D[i] = None <=> fine(l[i])
    BY <1>2, <2>1, <2>2, DeclaredPaths
  <2>. HIDE DEF fine
  <2>. QED
    BY <1>3, <1>4, <2>2, <2>3 DEF l
<1>6. Local!FirstError(S) = None <=> \A e \in Local!Seen(m.aux) : e.schema = "snap" => fine(e)
  <2>. DEFINE l == aux.snap
  <2>1. /\ Len(l) \in Nat
        /\ \A t \in 1 .. Len(l) : l[t] \in {e \in Local!Seen(m.aux) : e.schema = "snap"}
    BY <1>1, <1>3, OfSchemaIs
  <2>2. Len(S) = Len(l) /\ \A i \in 1 .. Len(l) : S[i] = Local!ArtifactsError(Local!SnapPaths(l[i]), remote)
    BY <2>1
  <2>. HIDE DEF S, l, m
  <2>3. \A i \in 1 .. Len(l) : S[i] = None <=> fine(l[i])
    BY <1>2, <2>1, <2>2, DeclaredPaths
  <2>. HIDE DEF fine
  <2>. QED
    BY <1>3, <1>4, <2>2, <2>3 DEF l
<1>7. Local!FirstError(G) = None <=> \A e \in Local!Seen(m.aux) : e.schema = "generic" => fine(e)
  <2>. DEFINE l == aux.generic
  <2>1. /\ Len(l) \in Nat
        /\ \A t \in 1 .. Len(l) : l[t] \in {e \in Local!Seen(m.aux) : e.schema = "generic"}
    BY <1>1, <1>3, OfSchemaIs
  <2>2. Len(G) = Len(l) /\ \A i \in 1 .. Len(l) : G[i] = Local!ArtifactsError(Local!GenericPaths(l[i]), remote)
    BY <2>1
  <2>. HIDE DEF G, l, m
  <2>3. \A i \in 1 .. Len(l) : G[i] = None <=> fine(l[i])
    BY <1>2, <2>1, <2>2, DeclaredPaths
  <2>. HIDE DEF fine
  <2>. QED
    BY <1>3, <1>4, <2>2, <2>3 DEF l
<1>8. Local!AuxPathsError(remote) = Local!FirstError(<<Local!FirstError(D), Local!FirstError(S), Local!FirstError(G)>>)
  BY DEF Local!AuxPathsError
<1>9. \A e \in Local!Seen(m.aux) : e.schema \notin {"d8", "snap", "generic"} => Local!Obliged(e) = {}
  BY DEF Local!Obliged
<1>10. \A e \in Local!Seen(m.aux) : e.schema \notin {"d8", "snap", "generic"} => fine(e)
  BY <1>9
<1>. HIDE DEF D, S, G, fine, m
<1>11. Local!AuxPathsError(remote) = None <=> \A e \in Local!Seen(m.aux) : fine(e)
  BY <1>5, <1>6, <1>7, <1>8, <1>10, FirstOfThree
<1>. QED
  BY <1>11 DEF fine, m

\* A row read_graph_from_builder accepts.
RowReads(r) ==
  /\ r.id \in Nat \ {0} /\ r.level \in 0 .. OpenMaxLevel /\ r.ups # Null
  /\ \A u \in Local!Seen(r.ups) : u \in Nat \ {0}

OneRowEach(s) == \A i, j \in 1 .. Len(s) : s[i].id = s[j].id => i = j

GraphReads(g) ==
  /\ g.schema = "ok" /\ g.domain /\ OneRowEach(g.rows)
  /\ \A r \in Local!Seen(g.rows) : RowReads(r)

IsGraphRow(r) ==
  /\ r.id \in Nat \cup {Null} /\ r.level \in Nat \cup {Null}
  /\ r.ups # Null => r.ups \in Seq(Nat)

LEMMA SeqElements ==
  ASSUME NEW S, NEW s \in Seq(S)
  PROVE  Len(s) \in Nat /\ \A i \in 1 .. Len(s) : s[i] \in S
BY LenProperties, ElementOfSeq

LEMMA RowIs ==
  ASSUME NEW r, IsGraphRow(r)
  PROVE  Local!RowError(r) = None <=> RowReads(r)
<1>1. "InvalidRow" # None /\ Null \notin Nat /\ OpenMaxLevel \in Nat
  BY NoneIs DEF Local!Errors
<1>2. \A n \in Nat \cup {Null} : Local!IsUnitId(n) <=> n \in Nat \ {0}
  BY <1>1 DEF Local!IsUnitId
<1>3. \A n \in Nat \cup {Null} : Local!IsLevel(n) <=> n \in 0 .. OpenMaxLevel
  BY <1>1 DEF Local!IsLevel
<1>4. r.ups # Null => \A u \in Local!Seen(r.ups) : u \in Nat \cup {Null}
  BY SeqElements DEF Local!Seen, IsGraphRow
<1>5. Local!UpstreamError(r.ups) = None <=> r.ups # Null /\ \A u \in Local!Seen(r.ups) : u \in Nat \ {0}
  BY <1>1, <1>2, <1>4 DEF Local!UpstreamError
<1>6. Local!RowError(r) = None <=>
        Local!IsUnitId(r.id) /\ Local!IsLevel(r.level) /\ Local!UpstreamError(r.ups) = None
  BY <1>1 DEF Local!RowError
<1>. QED
  BY <1>2, <1>3, <1>5, <1>6 DEF RowReads, IsGraphRow

LEMMA GraphIs ==
  ASSUME NEW g, Local!IsGraph(g)
  PROVE  Local!GraphError(g) = None <=> GraphReads(g)
<1>. DEFINE R == [i \in 1 .. Len(g.rows) |-> Local!RowError(g.rows[i])]
            a == Local!SchemaError(g)
            b == Local!FirstError(R)
            c == Local!DomainError(g)
<1>1. /\ "GraphSchema" # None /\ "GraphMissingBboxColumn" # None /\ "GraphReferentialIntegrity" # None
      /\ "GraphDomain" # None /\ g.domain \in BOOLEAN
      /\ g.schema \in {"ok", "column", "bbox"} /\ g.rows \in Seq(Local!Seen(g.rows))
  BY NoneIs DEF Local!Errors, Local!IsGraph, Local!IsList
<1>2. Len(g.rows) \in Nat
  BY <1>1, LenProperties
<1>3. a = None <=> g.schema = "ok"
  BY <1>1 DEF Local!SchemaError
<1>4. b = None <=> \A r \in Local!Seen(g.rows) : RowReads(r)
  <2>1. Len(R) = Len(g.rows) /\ \A i \in 1 .. Len(g.rows) : R[i] = Local!RowError(g.rows[i])
    BY <1>2
  <2>2. \A i \in 1 .. Len(g.rows) : Local!RowError(g.rows[i]) = None <=> RowReads(g.rows[i])
    <3>1. \A i \in 1 .. Len(g.rows) : IsGraphRow(g.rows[i])
      BY DEF Local!IsGraph, Local!Seen, IsGraphRow
    <3>. QED
      BY <3>1, RowIs
  <2>. HIDE DEF R
  <2>3. Local!FirstError(R) = None <=> \A i \in 1 .. Len(R) : R[i] = None
    BY <1>2, <2>1, FirstErrorIs
  <2>. QED
    BY <2>1, <2>2, <2>3 DEF Local!Seen
<1>5. c = None <=> OneRowEach(g.rows) /\ g.domain
  <2>1. c = None <=> g.domain /\ ~\E i, j \in 1 .. Len(g.rows) : i < j /\ g.rows[i].id = g.rows[j].id
    BY <1>1 DEF Local!DomainError
  <2>. HIDE DEF c
  <2>2. \A i, j \in 1 .. Len(g.rows) : i # j => i < j \/ j < i
    BY <1>2
  <2>. QED
    BY <2>1, <2>2 DEF OneRowEach
<1>6. Local!GraphError(g) = Local!FirstError(<<a, b>> \o (IF b = None THEN <<c>> ELSE <<>>))
  BY DEF Local!GraphError
<1>. HIDE DEF a, b, c
<1>7. CASE b = None
  <2>1. <<a, b>> \o <<c>> = <<a, b, c>>
    <3>. DEFINE p == <<a, b>>  q == <<c>>  w == p \o q  v == <<a, b, c>>
    <3>1. /\ p \in Seq({a, b, c}) /\ q \in Seq({a, b, c}) /\ v \in Seq({a, b, c})
          /\ Len(p) = 2 /\ Len(q) = 1 /\ Len(v) = 3 /\ q[1] = c /\ p[1] = a /\ p[2] = b
          /\ v[1] = a /\ v[2] = b /\ v[3] = c
      OBVIOUS
    <3>. HIDE DEF p, q, v
    <3>2. /\ w \in Seq({a, b, c}) /\ Len(w) = Len(p) + Len(q)
          /\ \A i \in 1 .. Len(p) + Len(q) : w[i] = IF i <= Len(p) THEN p[i] ELSE q[i - Len(p)]
      BY <3>1, ConcatProperties
    <3>3. Len(w) = 3 /\ w[1] = a /\ w[2] = b /\ w[3] = c
      BY <3>1, <3>2
    <3>. HIDE DEF w
    <3>4. \A i \in 1 .. 3 : w[i] = v[i]
      BY <3>1, <3>3
    <3>5. w = v
      BY <3>1, <3>2, <3>3, <3>4, SeqEqual
    <3>. QED
      BY <3>5 DEF w, p, q, v
  <2>2. Local!GraphError(g) = Local!FirstError(<<a, b, c>>)
    BY <1>6, <1>7, <2>1
  <2>. QED
    BY <1>3, <1>4, <1>5, <2>2, FirstOfThree DEF GraphReads
<1>8. CASE b # None
  <2>. DEFINE e == <<a, b>>
  <2>1. <<a, b>> \o <<>> = e /\ Len(e) = 2 /\ e[2] = b
    OBVIOUS
  <2>2. Local!GraphError(g) = Local!FirstError(e)
    BY <1>6, <1>8, <2>1
  <2>. HIDE DEF e
  <2>3. Local!FirstError(e) = None => \A i \in 1 .. Len(e) : e[i] = None
    BY <2>1, FirstErrorIs
  <2>. QED
    BY <1>4, <1>8, <2>1, <2>2, <2>3 DEF GraphReads
<1>. QED
  BY <1>7, <1>8

LEMMA CardinalityIs == \A S : Local!Cardinality(S) = Cardinality(S)
BY DEF Local!Cardinality, Cardinality

IdsOf(s) == {r.id : r \in Local!Seen(s)}

\* As many ids as rows: every id has one row.
LEMMA OneRowEachIs ==
  ASSUME NEW s, Len(s) \in Nat
  PROVE  /\ Local!Cardinality(IdsOf(s)) = Len(s) <=> OneRowEach(s)
         /\ Local!Cardinality(IdsOf(s)) <= Len(s)
<1>. DEFINE f == [i \in 1 .. Len(s) |-> s[i].id]
            I == 1 .. Len(s)
            T == IdsOf(s)
<1>1. f \in Surjection(I, T)
  BY DEF Surjection, IdsOf, Local!Seen
<1>2. IsFiniteSet(I) /\ Cardinality(I) = Len(s)
  <2>. DEFINE n == Len(s)
              N == IF 1 > n THEN 0 ELSE n - 1 + 1
  <2>1. 1 \in Int /\ n \in Int /\ N = n
    OBVIOUS
  <2>2. IsFiniteSet(1 .. n) /\ Cardinality(1 .. n) = N
    BY <2>1, FS_Interval, Zenon
  <2>. HIDE DEF N
  <2>. QED
    BY <2>1, <2>2
<1>3. f \in Injection(I, T) <=> OneRowEach(s)
  <2>1. f \in [I -> T]
    BY DEF IdsOf, Local!Seen
  <2>2. IsInjective(f) <=> OneRowEach(s)
    BY DEF IsInjective, OneRowEach
  <2>. QED
    BY <2>1, <2>2 DEF Injection
<1>. HIDE DEF f, I, T
<1>4. Cardinality(T) <= Cardinality(I) /\ (Cardinality(T) = Cardinality(I) <=> f \in Injection(I, T))
  BY <1>1, <1>2, FS_Surjection
<1>. QED
  BY <1>2, <1>3, <1>4, CardinalityIs DEF T

LEMMA CatchmentsAre ==
  ASSUME ds \in OpenDataset
  PROVE  Len(ds.catchments) \in Nat /\ Local!CatchmentIds = IdsOf(ds.catchments)
<1>1. ds.catchments \in Seq(Local!Seen(ds.catchments))
  BY FabricIs DEF Local!IsList
<1>. QED
  BY <1>1, LenProperties DEF Local!CatchmentIds, IdsOf

\* With one row for each unit the map gives every row its level.
LEMMA LevelOfIs ==
  ASSUME ds \in OpenDataset, OneRowEach(ds.catchments)
  PROVE  /\ DOMAIN Local!LevelOf = IdsOf(ds.catchments)
         /\ \A r \in Local!Seen(ds.catchments) : Local!LevelOf[r.id] = r.level
<1>. DEFINE c == ds.catchments
            T(u) == {i \in 1 .. Len(c) : c[i].id = u}
<1>1. Len(c) \in Nat /\ Local!CatchmentIds = IdsOf(c)
  BY CatchmentsAre
<1>2. Local!LevelOf = [u \in Local!CatchmentIds |-> c[Local!Max(T(u))].level]
  BY DEF Local!LevelOf
<1>3. ASSUME NEW i \in 1 .. Len(c) PROVE Local!LevelOf[c[i].id] = c[i].level
  <2>1. c[i].id \in Local!CatchmentIds
    BY <1>1 DEF IdsOf, Local!Seen
  <2>2. i \in T(c[i].id) /\ T(c[i].id) \subseteq 0 .. Len(c) /\ \A j \in T(c[i].id) : j = i
    BY <1>1 DEF OneRowEach
  <2>3. Local!LevelOf[c[i].id] = c[Local!Max(T(c[i].id))].level
    BY <1>2, <2>1
  <2>. DEFINE U == T(c[i].id)
  <2>4. i \in U /\ U \subseteq 0 .. Len(c) /\ U # {} /\ \A j \in U : j = i
    BY <2>2
  <2>. HIDE DEF U, T, c
  <2>5. Local!Max(U) \in U
    BY <1>1, <2>4, MaxIs
  <2>. QED
    BY <2>3, <2>4, <2>5 DEF U
<1>4. DOMAIN Local!LevelOf = IdsOf(c)
  BY <1>1, <1>2
<1>. QED
  BY <1>3, <1>4 DEF Local!Seen

\* The level SoundUnits reads from the graph.
GraphLevel ==
  [u \in IdsOf(ds.graph.rows) |-> CHOOSE l \in 0 .. OpenMaxLevel :
     \E r \in Local!Seen(ds.graph.rows) : r.id = u /\ r.level = l]

LEMMA GraphLevelIs ==
  ASSUME ds \in OpenDataset, GraphReads(ds.graph)
  PROVE  /\ DOMAIN GraphLevel = IdsOf(ds.graph.rows)
         /\ \A r \in Local!Seen(ds.graph.rows) : GraphLevel[r.id] = r.level
<1>. DEFINE g == ds.graph.rows
            P(u, l) == l \in 0 .. OpenMaxLevel /\ \E r \in Local!Seen(g) : r.id = u /\ r.level = l
<1>1. ASSUME NEW r \in Local!Seen(g) PROVE GraphLevel[r.id] = r.level
  <2>1. r.id \in IdsOf(g)
    BY DEF IdsOf
  <2>2. GraphLevel[r.id] = CHOOSE l : P(r.id, l)
    BY <2>1 DEF GraphLevel
  <2>3. P(r.id, r.level)
    BY DEF GraphReads, RowReads
  <2>4. ASSUME NEW l, P(r.id, l) PROVE l = r.level
    <3>1. PICK q \in Local!Seen(g) : q.id = r.id /\ q.level = l
      BY <2>4
    <3>2. PICK i \in 1 .. Len(g) : r = g[i]
      BY DEF Local!Seen
    <3>3. PICK j \in 1 .. Len(g) : q = g[j]
      BY DEF Local!Seen
    <3>4. i = j
      BY <3>1, <3>2, <3>3 DEF GraphReads, OneRowEach
    <3>. QED
      BY <3>1, <3>2, <3>3, <3>4
  <2>. HIDE DEF P
  <2>5. P(r.id, CHOOSE l : P(r.id, l))
    BY <2>3, Zenon
  <2>. QED
    BY <2>2, <2>4, <2>5
<1>. QED
  BY <1>1 DEF GraphLevel

SamePairs(g, c) ==
  {<<r.id, r.level>> : r \in Local!Seen(g)} = {<<r.id, r.level>> : r \in Local!Seen(c)}

LEMMA SoundUnitsIs ==
  ASSUME ds \in OpenDataset
  PROVE  Local!SoundUnits <=>
           /\ GraphReads(ds.graph)
           /\ OneRowEach(ds.catchments) /\ SamePairs(ds.graph.rows, ds.catchments)
           /\ ds.count = Len(ds.catchments)
           /\ \A r \in Local!Seen(ds.graph.rows) : \A u \in Local!Seen(r.ups) :
                u \in DOMAIN GraphLevel /\ GraphLevel[u] = r.level
<1>. DEFINE g == ds.graph.rows
            c == ds.catchments
            up == \A r \in Local!Seen(g) : \A u \in Local!Seen(r.ups) :
                    u \in DOMAIN GraphLevel /\ GraphLevel[u] = r.level
            rows == \A r \in Local!Seen(g) :
                       /\ r.id # Null /\ r.id > 0 /\ r.level # Null /\ r.ups # Null
                       /\ r.level \in 0 .. OpenMaxLevel
                       /\ \A u \in Local!Seen(r.ups) : u > 0
<1>1. Len(c) \in Nat /\ Len(g) \in Nat
  <2>1. g \in Seq(Local!Seen(g))
    BY FabricIs DEF Local!IsGraph, Local!IsList
  <2>. QED
    BY <2>1, CatchmentsAre, LenProperties
<1>2. Local!SoundUnits <=>
        /\ ds.graph.schema = "ok" /\ ds.graph.domain /\ rows
        /\ Local!Cardinality(IdsOf(g)) = Len(g) /\ Local!Cardinality(IdsOf(c)) = Len(c)
        /\ SamePairs(g, c) /\ ds.count = Len(c) /\ up
  BY DEF Local!SoundUnits, GraphLevel, IdsOf, SamePairs
<1>3. (Local!Cardinality(IdsOf(g)) = Len(g) <=> OneRowEach(g))
      /\ (Local!Cardinality(IdsOf(c)) = Len(c) <=> OneRowEach(c))
  <2>. HIDE DEF g, c
  <2>. QED
    BY <1>1, OneRowEachIs
<1>4. ASSUME NEW r \in Local!Seen(g)
      PROVE  IsGraphRow(r) /\ (r.ups # Null => \A u \in Local!Seen(r.ups) : u \in Nat \cup {Null})
  <2>1. IsGraphRow(r)
    BY FabricIs DEF Local!IsGraph, IsGraphRow
  <2>2. r.ups # Null => \A u \in Local!Seen(r.ups) : u \in Nat \cup {Null}
    BY <2>1, SeqElements DEF Local!Seen, IsGraphRow
  <2>. QED
    BY <2>1, <2>2
<1>5. ASSUME \A r \in Local!Seen(g) : RowReads(r) PROVE rows
  <2>1. ASSUME NEW r \in Local!Seen(g)
        PROVE  /\ r.id # Null /\ r.id > 0 /\ r.level # Null /\ r.ups # Null
               /\ r.level \in 0 .. OpenMaxLevel /\ \A u \in Local!Seen(r.ups) : u > 0
    BY <1>5, NoneIs DEF RowReads
  <2>. QED
    BY <2>1
<1>6. ASSUME rows, up, NEW r \in Local!Seen(g) PROVE RowReads(r)
  <2>1. r.id # Null /\ r.id > 0 /\ r.ups # Null /\ r.level \in 0 .. OpenMaxLevel
        /\ \A u \in Local!Seen(r.ups) : u > 0
    BY <1>6
  <2>2. r.id \in Nat \ {0}
    BY <1>4, <2>1 DEF IsGraphRow
  <2>3. ASSUME NEW u \in Local!Seen(r.ups) PROVE u \in Nat \ {0}
    <3>1. u \in DOMAIN GraphLevel
      BY <1>6
    <3>2. PICK q \in Local!Seen(g) : u = q.id
      BY <3>1 DEF GraphLevel, IdsOf
    <3>3. q.id # Null
      BY <1>6
    <3>4. u \in Nat \cup {Null} /\ u > 0
      BY <1>4, <2>1
    <3>. QED
      BY <3>2, <3>3, <3>4
  <2>. QED
    BY <2>1, <2>2, <2>3 DEF RowReads
<1>. HIDE DEF rows, up
<1>7. Local!SoundUnits <=>
        /\ GraphReads(ds.graph) /\ OneRowEach(c) /\ SamePairs(g, c) /\ ds.count = Len(c) /\ up
  BY <1>2, <1>3, <1>5, <1>6 DEF GraphReads
<1>. QED
  BY <1>7 DEF up

\* validate_graph_catchments accepts exactly the files that say the same of the
\* units: that no unit has two catchments follows from the count.
LEMMA AgreementIs ==
  ASSUME ds \in OpenDataset, GraphReads(ds.graph), graph = ds.graph.rows
  PROVE  Local!AgreementError(ds.count) = None <=> Local!SoundUnits
<1>. DEFINE g == ds.graph.rows
            c == ds.catchments
            up == \A r \in Local!Seen(g) : \A u \in Local!Seen(r.ups) :
                    u \in DOMAIN GraphLevel /\ GraphLevel[u] = r.level
<1>1. Len(c) \in Nat /\ Len(g) \in Nat /\ Local!CatchmentIds = IdsOf(c)
  <2>1. g \in Seq(Local!Seen(g))
    BY FabricIs DEF Local!IsGraph, Local!IsList
  <2>. QED
    BY <2>1, CatchmentsAre, LenProperties
<1>2. OneRowEach(g)
  BY DEF GraphReads
<1>3. DOMAIN GraphLevel = IdsOf(g) /\ \A r \in Local!Seen(g) : GraphLevel[r.id] = r.level
  BY GraphLevelIs
<1>4. Local!AgreementError(ds.count) = None <=>
        /\ ds.count = Len(c) /\ Len(g) = Len(c) /\ IdsOf(c) \subseteq IdsOf(g)
        /\ \A r \in Local!Seen(g) : Local!RowAgrees(r, Local!LevelOf)
  <2>1. "UnitCountMismatch" # None /\ "GraphReferentialIntegrity" # None
    BY NoneIs DEF Local!Errors
  <2>2. (\E i \in 1 .. Len(graph) : ~Local!RowAgrees(graph[i], Local!LevelOf))
          <=> ~\A r \in Local!Seen(g) : Local!RowAgrees(r, Local!LevelOf)
    BY DEF Local!Seen
  <2>3. {r.id : r \in Local!Seen(graph)} = IdsOf(g)
    BY DEF IdsOf
  <2>. QED
    BY <1>1, <2>1, <2>2, <2>3 DEF Local!AgreementError
<1>5. Local!SoundUnits <=> OneRowEach(c) /\ SamePairs(g, c) /\ ds.count = Len(c) /\ up
  BY SoundUnitsIs
<1>6. ASSUME NEW r \in Local!Seen(g)
      PROVE  Local!RowAgrees(r, Local!LevelOf) <=>
               /\ r.id \in IdsOf(c) /\ r.level = Local!LevelOf[r.id]
               /\ \A u \in Local!Seen(r.ups) : u \in IdsOf(c) /\ Local!LevelOf[u] = r.level
  BY <1>1 DEF Local!RowAgrees
<1>7. OneRowEach(c) => \A r \in Local!Seen(c) : Local!LevelOf[r.id] = r.level
  BY LevelOfIs
<1>8. (Local!Cardinality(IdsOf(g)) = Len(g) <=> OneRowEach(g))
      /\ (Local!Cardinality(IdsOf(c)) = Len(c) <=> OneRowEach(c))
  <2>. HIDE DEF g, c
  <2>. QED
    BY <1>1, OneRowEachIs
<1>. HIDE DEF g, c
<1>9. ASSUME NEW s, NEW u PROVE u \in IdsOf(s) <=> \E r \in Local!Seen(s) : r.id = u
  BY DEF IdsOf
<1>10. ASSUME Local!AgreementError(ds.count) = None PROVE Local!SoundUnits
  <2>1. /\ ds.count = Len(c) /\ Len(g) = Len(c) /\ IdsOf(c) \subseteq IdsOf(g)
        /\ \A r \in Local!Seen(g) : r.id \in IdsOf(c)
    BY <1>4, <1>6, <1>10
  <2>2. IdsOf(c) = IdsOf(g)
    BY <2>1 DEF IdsOf
  <2>3. OneRowEach(c)
    BY <1>2, <1>8, <2>1, <2>2
  <2>4. ASSUME NEW r \in Local!Seen(g), NEW q \in Local!Seen(c), r.id = q.id PROVE r.level = q.level
    BY <1>4, <1>6, <1>7, <1>10, <2>3, <2>4
  <2>5. SamePairs(g, c)
    <3>1. ASSUME NEW r \in Local!Seen(g) PROVE \E q \in Local!Seen(c) : <<r.id, r.level>> = <<q.id, q.level>>
      BY <1>9, <2>1, <2>4
    <3>2. ASSUME NEW q \in Local!Seen(c) PROVE \E r \in Local!Seen(g) : <<r.id, r.level>> = <<q.id, q.level>>
      <4>1. q.id \in IdsOf(g)
        BY <1>9, <2>2
      <4>2. PICK r \in Local!Seen(g) : r.id = q.id
        BY <1>9, <4>1
      <4>. QED
        BY <2>4, <4>2
    <3>3. ASSUME NEW x PROVE x \in {<<r.id, r.level>> : r \in Local!Seen(g)} <=> x \in {<<r.id, r.level>> : r \in Local!Seen(c)}
      BY <3>1, <3>2
    <3>. QED
      BY <3>3 DEF SamePairs
  <2>6. up
    <3>. SUFFICES ASSUME NEW r \in Local!Seen(g), NEW u \in Local!Seen(r.ups)
                  PROVE  u \in DOMAIN GraphLevel /\ GraphLevel[u] = r.level
      OBVIOUS
    <3>1. u \in IdsOf(c) /\ Local!LevelOf[u] = r.level
      BY <1>4, <1>6, <1>10
    <3>2. PICK q \in Local!Seen(g) : q.id = u
      BY <1>9, <2>2, <3>1
    <3>3. q.level = Local!LevelOf[u]
      BY <1>4, <1>6, <1>10, <3>2
    <3>. QED
      BY <1>3, <2>2, <3>1, <3>2, <3>3
  <2>. QED
    BY <1>5, <2>1, <2>3, <2>5, <2>6
<1>11. ASSUME Local!SoundUnits PROVE Local!AgreementError(ds.count) = None
  <2>1. OneRowEach(c) /\ SamePairs(g, c) /\ ds.count = Len(c) /\ up
    BY <1>5, <1>11
  <2>2. ASSUME NEW r \in Local!Seen(g) PROVE \E q \in Local!Seen(c) : r.id = q.id /\ r.level = q.level
    <3>1. <<r.id, r.level>> \in {<<q.id, q.level>> : q \in Local!Seen(c)}
      BY <2>1 DEF SamePairs
    <3>. QED
      BY <3>1
  <2>3. ASSUME NEW q \in Local!Seen(c) PROVE \E r \in Local!Seen(g) : r.id = q.id /\ r.level = q.level
    <3>1. <<q.id, q.level>> \in {<<r.id, r.level>> : r \in Local!Seen(g)}
      BY <2>1 DEF SamePairs
    <3>. QED
      BY <3>1
  <2>4. IdsOf(c) = IdsOf(g)
    BY <2>2, <2>3 DEF IdsOf
  <2>5. Len(g) = Len(c)
    BY <1>2, <1>8, <2>1, <2>4
  <2>6. ASSUME NEW r \in Local!Seen(g) PROVE r.id \in IdsOf(c) /\ Local!LevelOf[r.id] = r.level
    BY <1>7, <1>9, <2>1, <2>2
  <2>7. ASSUME NEW r \in Local!Seen(g), NEW u \in Local!Seen(r.ups)
        PROVE  u \in IdsOf(c) /\ Local!LevelOf[u] = r.level
    <3>1. u \in DOMAIN GraphLevel /\ GraphLevel[u] = r.level
      BY <2>1
    <3>2. PICK q \in Local!Seen(g) : q.id = u
      BY <1>3, <1>9, <3>1
    <3>. QED
      BY <1>3, <2>6, <3>1, <3>2
  <2>8. \A r \in Local!Seen(g) : Local!RowAgrees(r, Local!LevelOf)
    BY <1>6, <2>6, <2>7
  <2>. QED
    BY <1>4, <2>1, <2>4, <2>5, <2>8
<1>. QED
  BY <1>10, <1>11

SnapsReadable ==
  \A e \in Local!Seen(ds.manifest.aux) : e.schema = "snap" =>
    ds.snaps[e.artifacts["snap"].name].readable

SnapsRefer ==
  \A e \in Local!Seen(ds.manifest.aux) : e.schema = "snap" =>
    \A i \in 1 .. Len(ds.snaps[e.artifacts["snap"].name].refs) :
      \E r \in Local!Seen(ds.catchments) :
        r.id = ds.snaps[e.artifacts["snap"].name].refs[i] /\ r.level \in Local!Seen(e.meta.levels)

SnapOpenErrors ==
  [i \in 1 .. Len(aux.snap) |->
     IF ds.snaps[aux.snap[i].artifacts["snap"].name].readable THEN None ELSE "ParquetSchema"]

SnapRefsErrors == [i \in 1 .. Len(aux.snap) |-> Local!SnapRefsError(aux.snap[i])]

LEMMA SnapsAre ==
  ASSUME ds \in OpenDataset, aux = Local!Classified(ds.manifest)
  PROVE  /\ Local!FirstError(SnapOpenErrors) = None <=> SnapsReadable
         /\ Local!SoundUnits /\ levels = Local!LevelOf =>
              (Local!FirstError(SnapRefsErrors) = None <=> SnapsRefer)
<1>. DEFINE m == ds.manifest
            l == aux.snap
<1>1. l = Local!OfSchema(m, "snap")
  BY DEF Local!Classified
<1>2. /\ Len(l) \in Nat
      /\ \A t \in 1 .. Len(l) : l[t] \in {e \in Local!Seen(m.aux) : e.schema = "snap"}
      /\ \A e \in Local!Seen(m.aux) : e.schema = "snap" => \E t \in 1 .. Len(l) : l[t] = e
  <2>1. Local!IsManifest(m)
    BY FabricIs
  <2>. HIDE DEF m, l
  <2>. QED
    BY <1>1, <2>1, OfSchemaIs
<1>3. "ParquetSchema" # None /\ "SnapReferentialIntegrity" # None
  BY NoneIs DEF Local!Errors
<1>4. Local!FirstError(SnapOpenErrors) = None <=> SnapsReadable
  <2>1. Len(SnapOpenErrors) = Len(l)
        /\ \A i \in 1 .. Len(l) : SnapOpenErrors[i] = IF ds.snaps[l[i].artifacts["snap"].name].readable THEN None ELSE "ParquetSchema"
    <3>. DEFINE s == aux.snap
                E(i) == IF ds.snaps[s[i].artifacts["snap"].name].readable THEN None ELSE "ParquetSchema"
    <3>1. SnapOpenErrors = [i \in 1 .. Len(s) |-> E(i)] /\ Len(s) \in Nat
      BY <1>2 DEF SnapOpenErrors
    <3>. HIDE DEF s, E
    <3>2. Len(SnapOpenErrors) = Len(s) /\ \A i \in 1 .. Len(s) : SnapOpenErrors[i] = E(i)
      BY <3>1
    <3>. QED
      BY <3>2 DEF s, E
  <2>2. Local!FirstError(SnapOpenErrors) = None <=> \A i \in 1 .. Len(SnapOpenErrors) : SnapOpenErrors[i] = None
    BY <1>2, <2>1, FirstErrorIs
  <2>3. Local!FirstError(SnapOpenErrors) = None <=> \A i \in 1 .. Len(l) : ds.snaps[l[i].artifacts["snap"].name].readable
    BY <1>3, <2>1, <2>2
  <2>. HIDE DEF l
  <2>. QED
    BY <1>2, <2>3 DEF SnapsReadable
<1>5. ASSUME Local!SoundUnits, levels = Local!LevelOf
      PROVE  Local!FirstError(SnapRefsErrors) = None <=> SnapsRefer
  <2>1. Len(SnapRefsErrors) = Len(l) /\ \A i \in 1 .. Len(l) : SnapRefsErrors[i] = Local!SnapRefsError(l[i])
    BY <1>2 DEF SnapRefsErrors
  <2>2. Local!FirstError(SnapRefsErrors) = None <=> \A i \in 1 .. Len(SnapRefsErrors) : SnapRefsErrors[i] = None
    BY <1>2, <2>1, FirstErrorIs
  <2>3. /\ DOMAIN levels = IdsOf(ds.catchments)
        /\ \A r \in Local!Seen(ds.catchments) : levels[r.id] = r.level
    BY <1>5, SoundUnitsIs, LevelOfIs
  <2>4. ASSUME NEW u, NEW S
        PROVE  (u \in DOMAIN levels /\ levels[u] \in S) <=>
                 \E r \in Local!Seen(ds.catchments) : r.id = u /\ r.level \in S
    BY <2>3 DEF IdsOf
  <2>5. ASSUME NEW e
        PROVE  Local!SnapRefsError(e) = None <=>
                 \A i \in 1 .. Len(ds.snaps[e.artifacts["snap"].name].refs) :
                   \E r \in Local!Seen(ds.catchments) :
                     r.id = ds.snaps[e.artifacts["snap"].name].refs[i] /\ r.level \in Local!Seen(e.meta.levels)
    BY <1>3, <2>4, ZenonT(60) DEF Local!SnapRefsError
  <2>. DEFINE refer(e) == \A i \in 1 .. Len(ds.snaps[e.artifacts["snap"].name].refs) :
                            \E r \in Local!Seen(ds.catchments) :
                              r.id = ds.snaps[e.artifacts["snap"].name].refs[i] /\ r.level \in Local!Seen(e.meta.levels)
  <2>6. \A e : Local!SnapRefsError(e) = None <=> refer(e)
    BY <2>5
  <2>7. SnapsRefer <=> \A e \in Local!Seen(m.aux) : e.schema = "snap" => refer(e)
    BY DEF SnapsRefer
  <2>. HIDE DEF l, refer, m
  <2>. QED
    BY <1>2, <2>1, <2>2, <2>6, <2>7
<1>. QED
  BY <1>4, <1>5

\* The statistics give levels of the graph, and its least and greatest.
LEMMA StatisticsAre ==
  ASSUME GraphReads(ds.graph), graph = ds.graph.rows, probe = Local!LevelsFromStatistics(ds.graph)
  PROVE  Local!StatisticsShowTheLevels
<1>. DEFINE g == ds.graph
            all == {r.level : r \in Local!Seen(g.rows)}
            of(t) == {r.level : r \in Local!GroupRows(g, t)}
<1>1. OpenMaxLevel \in Nat /\ all \subseteq 0 .. OpenMaxLevel
  BY NoneIs DEF GraphReads, RowReads
<1>2. ASSUME NEW t \in Local!Groups(g) PROVE of(t) \subseteq all /\ of(t) # {}
  BY DEF Local!Groups, Local!GroupRows, Local!Seen
<1>3. probe = UNION {{Local!Min(of(t)), Local!Max(of(t))} : t \in Local!Groups(g) \cap g.stats}
  BY DEF Local!LevelsFromStatistics, Local!StatisticsOf
<1>4. \A x \in all : \E t \in Local!Groups(g) : x \in of(t)
  BY DEF Local!Groups, Local!GroupRows, Local!Seen
<1>. HIDE DEF all, of, g
<1>5. ASSUME NEW S, S \subseteq all, S # {}
      PROVE  /\ Local!Min(S) \in S /\ \A y \in S : Local!Min(S) <= y
             /\ Local!Max(S) \in S /\ \A y \in S : y <= Local!Max(S)
  <2>1. S \subseteq 0 .. OpenMaxLevel /\ S \subseteq Nat
    BY <1>1, <1>5
  <2>. QED
    BY <1>1, <1>5, <2>1, MinIs, MaxIs
<1>6. probe \subseteq all
  <2>. SUFFICES ASSUME NEW x \in probe PROVE x \in all
    OBVIOUS
  <2>1. PICK t \in Local!Groups(g) : x \in {Local!Min(of(t)), Local!Max(of(t))}
    BY <1>3
  <2>. QED
    BY <1>2, <1>5, <2>1
<1>7. ASSUME Local!Groups(g) \subseteq g.stats, all # {}
      PROVE  Local!Max(all) \in probe /\ Local!Min(all) \in probe
  <2>0. all \subseteq Nat
    BY <1>1
  <2>1. /\ Local!Min(all) \in all /\ \A y \in all : Local!Min(all) <= y
        /\ Local!Max(all) \in all /\ \A y \in all : y <= Local!Max(all)
    BY <1>5, <1>7
  <2>2. PICK t \in Local!Groups(g) : Local!Max(all) \in of(t)
    BY <1>4, <2>1
  <2>3. Local!Max(of(t)) = Local!Max(all)
    <3>1. Local!Max(of(t)) \in all /\ Local!Max(all) <= Local!Max(of(t))
      BY <1>2, <1>5, <2>2
    <3>2. Local!Max(of(t)) <= Local!Max(all)
      BY <2>1, <3>1
    <3>3. Local!Max(of(t)) \in Nat /\ Local!Max(all) \in Nat
      BY <2>0, <2>1, <3>1
    <3>. QED
      BY <3>1, <3>2, <3>3
  <2>4. PICK j \in Local!Groups(g) : Local!Min(all) \in of(j)
    BY <1>4, <2>1
  <2>5. Local!Min(of(j)) = Local!Min(all)
    <3>1. Local!Min(of(j)) \in all /\ Local!Min(of(j)) <= Local!Min(all)
      BY <1>2, <1>5, <2>4
    <3>2. Local!Min(all) <= Local!Min(of(j))
      BY <2>1, <3>1
    <3>3. Local!Min(of(j)) \in Nat /\ Local!Min(all) \in Nat
      BY <2>0, <2>1, <3>1
    <3>. QED
      BY <3>1, <3>2, <3>3
  <2>. QED
    BY <1>3, <1>7, <2>2, <2>3, <2>4, <2>5
<1>. QED
  BY <1>6, <1>7 DEF Local!StatisticsShowTheLevels, all, g

LayoutSound ==
  /\ ds.dir /\ {"manifest.json", "graph.parquet", "catchments.parquet"} \subseteq ds.files
  /\ "graph.arrow" \notin ds.files

ArtifactsFine(remote) ==
  \A e \in Local!Seen(ds.manifest.aux) : \A p \in Local!Obliged(e) : ArtifactFine(p, remote)

LEMMA SoundLocalIs ==
  /\ Local!SoundLocal <=>
       /\ Local!NamesLocal(ds.source) /\ LayoutSound /\ ManifestReads(ds.manifest)
       /\ ArtifactsFine(FALSE) /\ Local!SoundUnits /\ SnapsReadable /\ SnapsRefer
  /\ ManifestReads(ds.manifest) /\ ArtifactsFine(TRUE) => Local!SoundManifest(ds.manifest)
<1>1. Local!SoundSnaps <=> SnapsReadable /\ SnapsRefer
  BY DEF Local!SoundSnaps, SnapsReadable, SnapsRefer
<1>2. Local!SoundManifest(ds.manifest) <=>
        ManifestReads(ds.manifest)
        /\ \A e \in Local!Seen(ds.manifest.aux) : \A p \in Local!Obliged(e) : p.parts = {"name"}
  BY DEF Local!SoundManifest, ManifestReads
<1>3. ArtifactsFine(FALSE) <=>
        /\ \A e \in Local!Seen(ds.manifest.aux) : \A p \in Local!Obliged(e) : p.parts = {"name"}
        /\ \A e \in Local!Seen(ds.manifest.aux) : {p.name : p \in Local!Obliged(e)} \subseteq ds.files
  BY DEF ArtifactsFine, ArtifactFine
<1>4. ArtifactsFine(TRUE) => \A e \in Local!Seen(ds.manifest.aux) : \A p \in Local!Obliged(e) : p.parts = {"name"}
  BY DEF ArtifactsFine, ArtifactFine
<1>. QED
  BY <1>1, <1>2, <1>3, <1>4 DEF Local!SoundLocal, LayoutSound

Loaded == {"agreement", "snaps", "refs", "opened"}

\* What each stage of the open has established.
LocalInv ==
  /\ ds \in OpenDataset
  /\ opening = "layout" => Local!NamesLocal(ds.source)
  /\ opening \in {"manifest", "paths"} =>
       Local!NamesRemote(ds.source) \/ (Local!NamesLocal(ds.source) /\ LayoutSound)
  /\ opening \in {"paths", "remote", "graph"} \cup Loaded =>
       ManifestReads(ds.manifest) /\ aux = Local!Classified(ds.manifest)
  /\ opening = "remote" => Local!NamesRemote(ds.source) /\ ArtifactsFine(TRUE)
  /\ opening \in {"graph"} \cup Loaded =>
       Local!NamesLocal(ds.source) /\ LayoutSound /\ ArtifactsFine(FALSE)
  /\ opening \in Loaded => GraphReads(ds.graph) /\ graph = ds.graph.rows
  /\ opening \in {"snaps", "refs", "opened"} => Local!SoundUnits
  /\ opening \in {"snaps", "refs"} => levels = Local!LevelOf
  /\ opening \in {"refs", "opened"} => SnapsReadable
  /\ opening = "opened" => SnapsRefer
  /\ opening = "failed" => ~Local!SoundLocal
  /\ probe # None => opening = "opened" /\ probe = Local!LevelsFromStatistics(ds.graph)

LEMMA FilesStay ==
  ASSUME ds' = ds
  PROVE  /\ LayoutSound' = LayoutSound /\ ArtifactsFine(TRUE)' = ArtifactsFine(TRUE)
         /\ ArtifactsFine(FALSE)' = ArtifactsFine(FALSE)
         /\ Local!SoundUnits' = Local!SoundUnits /\ Local!LevelOf' = Local!LevelOf
         /\ SnapsReadable' = SnapsReadable /\ SnapsRefer' = SnapsRefer
         /\ Local!SoundLocal' = Local!SoundLocal
<1>1. LayoutSound' = LayoutSound
  BY DEF LayoutSound
<1>2. ArtifactsFine(TRUE)' = ArtifactsFine(TRUE) /\ ArtifactsFine(FALSE)' = ArtifactsFine(FALSE)
  BY DEF ArtifactsFine, ArtifactFine
<1>3. Local!SoundUnits' = Local!SoundUnits
  BY DEF Local!SoundUnits
<1>4. Local!LevelOf' = Local!LevelOf
  BY DEF Local!LevelOf, Local!CatchmentIds
<1>5. SnapsReadable' = SnapsReadable /\ SnapsRefer' = SnapsRefer
  BY DEF SnapsReadable, SnapsRefer
<1>6. Local!SoundSnaps' = Local!SoundSnaps
  BY DEF Local!SoundSnaps
<1>7. Local!SoundLocal' = Local!SoundLocal
  BY <1>3, <1>6 DEF Local!SoundLocal
<1>. QED
  BY <1>1, <1>2, <1>3, <1>4, <1>5, <1>7

LEMMA LocalStarts ==
  ASSUME Local!Init
  PROVE  LocalInv
BY DEF Local!Init, LocalInv, Loaded

LEMMA OpeningFails ==
  ASSUME LocalInv, NEW error, Local!Fails(error), ~Local!SoundLocal, probe = None
  PROVE  LocalInv'
<1>1. ds' = ds /\ opening' = "failed" /\ probe' = probe
  BY DEF Local!Fails
<1>2. ~Local!SoundLocal' /\ ds' \in OpenDataset
  BY <1>1, FilesStay DEF LocalInv
<1>. QED
  BY <1>1, <1>2 DEF LocalInv, Loaded

LEMMA ParseStep ==
  ASSUME LocalInv, Local!ParseSource
  PROVE  LocalInv'
<1>0. opening = "parse" /\ ds \in OpenDataset /\ probe = None
  BY DEF LocalInv, Local!ParseSource
<1>. DEFINE s == Local!Parse(ds.source)
<1>1. CASE s \notin {"Local", "Remote"}
  <2>1. Local!Fails(s)
    BY <1>1 DEF Local!ParseSource, Local!Sources
  <2>2. ~Local!SoundLocal
    BY <1>0, <1>1, ParseIs, SoundLocalIs
  <2>. QED
    BY <1>0, <2>1, <2>2, OpeningFails
<1>2. CASE s \in {"Local", "Remote"}
  <2>1. ds' = ds /\ probe' = probe /\ opening' = IF s = "Local" THEN "layout" ELSE "manifest"
    BY <1>2 DEF Local!ParseSource, Local!Sources, Local!Check, Local!Fails
  <2>2. CASE s = "Local"
    <3>1. Local!NamesLocal(ds'.source) /\ opening' = "layout"
      BY <1>0, <2>1, <2>2, ParseIs
    <3>. QED
      BY <1>0, <2>1, <3>1 DEF LocalInv, Loaded
  <2>3. CASE s = "Remote"
    <3>1. Local!NamesRemote(ds'.source) /\ opening' = "manifest"
      BY <1>0, <2>1, <2>3, ParseIs
    <3>. QED
      BY <1>0, <2>1, <3>1 DEF LocalInv, Loaded
  <2>. QED
    BY <1>2, <2>2, <2>3
<1>. QED
  BY <1>1, <1>2

LEMMA CheckIs ==
  ASSUME NEW error, NEW next, Local!Check(error, next)
  PROVE  /\ error # None => Local!Fails(error)
         /\ error = None => opening' = next /\ UNCHANGED <<ds, aux, graph, levels, err, probe>>
BY DEF Local!Check

LEMMA LayoutStep ==
  ASSUME LocalInv, Local!CheckLayout
  PROVE  LocalInv'
<1>. DEFINE e == IF ~ds.dir THEN "RootNotFound"
                 ELSE IF "graph.arrow" \in ds.files THEN "LegacyGraphArrowRejected"
                 ELSE IF ~({"manifest.json", "graph.parquet", "catchments.parquet"} \subseteq ds.files)
                      THEN "RequiredArtifactMissing"
                 ELSE None
<1>0. opening = "layout" /\ ds \in OpenDataset /\ probe = None /\ Local!NamesLocal(ds.source)
  BY DEF LocalInv, Local!CheckLayout
<1>1. e = None <=> LayoutSound
  BY NoneIs DEF Local!Errors, LayoutSound
<1>2. Local!Check(e, "manifest")
  BY DEF Local!CheckLayout
<1>. HIDE DEF e
<1>3. CASE e # None
  <2>1. Local!Fails(e)
    BY <1>2, <1>3, CheckIs
  <2>2. ~Local!SoundLocal
    BY <1>1, <1>3, SoundLocalIs
  <2>. QED
    BY <1>0, <2>1, <2>2, OpeningFails
<1>4. CASE e = None
  <2>1. ds' = ds /\ probe' = probe /\ opening' = "manifest"
    BY <1>2, <1>4, CheckIs
  <2>2. LayoutSound' /\ Local!NamesLocal(ds'.source)
    BY <1>0, <1>1, <1>4, <2>1, FilesStay
  <2>. QED
    BY <1>0, <2>1, <2>2 DEF LocalInv, Loaded
<1>. QED
  BY <1>3, <1>4

LEMMA ManifestStep ==
  ASSUME LocalInv, Local!ReadManifest
  PROVE  LocalInv'
<1>. DEFINE e == Local!ManifestError(ds.manifest)
<1>0. opening = "manifest" /\ ds \in OpenDataset /\ probe = None
  BY DEF LocalInv, Local!ReadManifest
<1>1. e = None <=> ManifestReads(ds.manifest)
  BY <1>0, FabricIs, ManifestIs
<1>2. CASE e # None
  <2>1. Local!Fails(e)
    BY <1>2 DEF Local!ReadManifest
  <2>. HIDE DEF e
  <2>. QED
    BY <1>0, <1>1, <1>2, <2>1, SoundLocalIs, OpeningFails
<1>3. CASE e = None
  <2>1. ds' = ds /\ probe' = probe /\ opening' = "paths" /\ aux' = Local!Classified(ds.manifest)
    BY <1>3 DEF Local!ReadManifest
  <2>2. (Local!NamesRemote(ds'.source) \/ (Local!NamesLocal(ds'.source) /\ LayoutSound'))
        /\ ManifestReads(ds'.manifest) /\ aux' = Local!Classified(ds'.manifest)
    BY <1>0, <1>1, <1>3, <2>1, FilesStay DEF LocalInv
  <2>. HIDE DEF e
  <2>. QED
    BY <1>0, <2>1, <2>2 DEF LocalInv, Loaded
<1>. QED
  BY <1>2, <1>3

LEMMA PathsStep ==
  ASSUME LocalInv, Local!CheckAuxPaths
  PROVE  LocalInv'
<1>. DEFINE remote == Local!Parse(ds.source) = "Remote"
            e == Local!AuxPathsError(remote)
<1>0. /\ opening = "paths" /\ ds \in OpenDataset /\ probe = None
      /\ ManifestReads(ds.manifest) /\ aux = Local!Classified(ds.manifest)
      /\ Local!NamesRemote(ds.source) \/ (Local!NamesLocal(ds.source) /\ LayoutSound)
  BY DEF LocalInv, Local!CheckAuxPaths
<1>1. remote \in BOOLEAN /\ (remote <=> Local!NamesRemote(ds.source)) /\ (remote => ~Local!NamesLocal(ds.source))
  BY <1>0, ParseIs
<1>2. Local!Check(e, IF remote THEN "remote" ELSE "graph")
  BY DEF Local!CheckAuxPaths
<1>. HIDE DEF remote
<1>3. e = None <=> ArtifactsFine(remote)
  BY <1>0, <1>1, PathsAre DEF ArtifactsFine
<1>. HIDE DEF e
<1>4. CASE e # None
  <2>1. ~remote => ~ArtifactsFine(FALSE)
    BY <1>1, <1>3, <1>4
  <2>2. ~Local!SoundLocal
    BY <1>1, <2>1, SoundLocalIs
  <2>. QED
    BY <1>0, <1>2, <1>4, <2>2, CheckIs, OpeningFails
<1>5. CASE e = None
  <2>1. ds' = ds /\ probe' = probe /\ aux' = aux /\ opening' = IF remote THEN "remote" ELSE "graph"
    BY <1>2, <1>5, CheckIs
  <2>2. ManifestReads(ds'.manifest) /\ aux' = Local!Classified(ds'.manifest) /\ ds' \in OpenDataset
    BY <1>0, <2>1
  <2>3. CASE remote
    <3>1. Local!NamesRemote(ds'.source) /\ ArtifactsFine(TRUE)' /\ opening' = "remote"
      BY <1>1, <1>3, <1>5, <2>1, <2>3, FilesStay
    <3>. QED
      BY <1>0, <2>1, <2>2, <3>1 DEF LocalInv, Loaded
  <2>4. CASE ~remote
    <3>1. ArtifactsFine(FALSE)
      BY <1>1, <1>3, <1>5, <2>4
    <3>2. Local!NamesLocal(ds'.source) /\ LayoutSound' /\ ArtifactsFine(FALSE)' /\ opening' = "graph"
      BY <1>0, <1>1, <2>1, <2>4, <3>1, FilesStay
    <3>. QED
      BY <1>0, <2>1, <2>2, <3>2 DEF LocalInv, Loaded
  <2>. QED
    BY <2>3, <2>4
<1>. QED
  BY <1>4, <1>5

\* What holds of the files once they were read, in the next state too.
FilesSound ==
  /\ ds \in OpenDataset /\ ManifestReads(ds.manifest) /\ aux = Local!Classified(ds.manifest)
  /\ Local!NamesLocal(ds.source) /\ LayoutSound /\ ArtifactsFine(FALSE)

LEMMA FilesSoundStay ==
  ASSUME FilesSound, ds' = ds, aux' = aux
  PROVE  FilesSound'
BY FilesStay DEF FilesSound

LEMMA GraphStep ==
  ASSUME LocalInv, Local!LoadGraph
  PROVE  LocalInv'
<1>. DEFINE e == Local!GraphError(ds.graph)
<1>0. opening = "graph" /\ FilesSound /\ probe = None
  BY DEF LocalInv, Local!LoadGraph, FilesSound
<1>1. e = None <=> GraphReads(ds.graph)
  BY <1>0, FabricIs, GraphIs DEF FilesSound
<1>2. CASE e # None
  <2>1. Local!Fails(e)
    BY <1>2 DEF Local!LoadGraph
  <2>. HIDE DEF e
  <2>2. ~Local!SoundLocal
    BY <1>0, <1>1, <1>2, SoundLocalIs, SoundUnitsIs DEF FilesSound
  <2>. QED
    BY <1>0, <2>1, <2>2, OpeningFails
<1>3. CASE e = None
  <2>1. ds' = ds /\ probe' = probe /\ aux' = aux /\ opening' = "agreement" /\ graph' = ds.graph.rows
    BY <1>3 DEF Local!LoadGraph
  <2>2. FilesSound' /\ GraphReads(ds'.graph) /\ graph' = ds'.graph.rows
    BY <1>0, <1>1, <1>3, <2>1, FilesSoundStay
  <2>. HIDE DEF e
  <2>. QED
    BY <1>0, <2>1, <2>2 DEF LocalInv, Loaded, FilesSound
<1>. QED
  BY <1>2, <1>3

LEMMA AgreementStep ==
  ASSUME LocalInv, Local!ValidateGraphCatchments
  PROVE  LocalInv'
<1>. DEFINE e == Local!AgreementError(ds.count)
<1>0. opening = "agreement" /\ FilesSound /\ GraphReads(ds.graph) /\ graph = ds.graph.rows /\ probe = None
  BY DEF LocalInv, Local!ValidateGraphCatchments, FilesSound, Loaded
<1>1. e = None <=> Local!SoundUnits
  BY <1>0, AgreementIs DEF FilesSound
<1>2. CASE e # None
  <2>1. Local!Fails(e)
    BY <1>2 DEF Local!ValidateGraphCatchments
  <2>. HIDE DEF e
  <2>. QED
    BY <1>0, <1>1, <1>2, <2>1, SoundLocalIs, OpeningFails
<1>3. CASE e = None
  <2>1. /\ ds' = ds /\ probe' = probe /\ aux' = aux /\ graph' = graph /\ opening' = "snaps"
        /\ levels' = Local!LevelOf
    BY <1>3 DEF Local!ValidateGraphCatchments
  <2>2. FilesSound' /\ GraphReads(ds'.graph) /\ graph' = ds'.graph.rows
    BY <1>0, <2>1, FilesSoundStay
  <2>3. Local!SoundUnits' /\ levels' = Local!LevelOf'
    BY <1>1, <1>3, <2>1, FilesStay
  <2>. HIDE DEF e
  <2>. QED
    BY <1>0, <2>1, <2>2, <2>3 DEF LocalInv, Loaded, FilesSound
<1>. QED
  BY <1>2, <1>3

LEMMA SnapsStep ==
  ASSUME LocalInv, Local!OpenSnaps
  PROVE  LocalInv'
<1>. DEFINE e == Local!FirstError(SnapOpenErrors)
<1>0. /\ opening = "snaps" /\ FilesSound /\ GraphReads(ds.graph) /\ graph = ds.graph.rows /\ probe = None
      /\ Local!SoundUnits /\ levels = Local!LevelOf
  BY DEF LocalInv, Local!OpenSnaps, FilesSound, Loaded
<1>1. e = None <=> SnapsReadable
  BY <1>0, SnapsAre DEF FilesSound
<1>2. Local!Check(e, "refs")
  BY DEF Local!OpenSnaps, SnapOpenErrors
<1>. HIDE DEF e
<1>3. CASE e # None
  <2>1. Local!Fails(e)
    BY <1>2, <1>3, CheckIs
  <2>2. ~Local!SoundLocal
    BY <1>1, <1>3, SoundLocalIs
  <2>. QED
    BY <1>0, <2>1, <2>2, OpeningFails
<1>4. CASE e = None
  <2>1. /\ ds' = ds /\ probe' = probe /\ aux' = aux /\ graph' = graph /\ levels' = levels /\ opening' = "refs"
    BY <1>2, <1>4, CheckIs
  <2>2. FilesSound' /\ GraphReads(ds'.graph) /\ graph' = ds'.graph.rows
    BY <1>0, <2>1, FilesSoundStay
  <2>3. Local!SoundUnits' /\ levels' = Local!LevelOf' /\ SnapsReadable'
    BY <1>0, <1>1, <1>4, <2>1, FilesStay
  <2>. QED
    BY <1>0, <2>1, <2>2, <2>3 DEF LocalInv, Loaded, FilesSound
<1>. QED
  BY <1>3, <1>4

LEMMA RefsStep ==
  ASSUME LocalInv, Local!ValidateSnapRefs
  PROVE  LocalInv'
<1>. DEFINE e == Local!FirstError(SnapRefsErrors)
<1>0. /\ opening = "refs" /\ FilesSound /\ GraphReads(ds.graph) /\ graph = ds.graph.rows /\ probe = None
      /\ Local!SoundUnits /\ levels = Local!LevelOf /\ SnapsReadable
  BY DEF LocalInv, Local!ValidateSnapRefs, FilesSound, Loaded
<1>1. e = None <=> SnapsRefer
  BY <1>0, SnapsAre DEF FilesSound
<1>2. Local!Check(e, "opened")
  BY DEF Local!ValidateSnapRefs, SnapRefsErrors
<1>. HIDE DEF e
<1>3. CASE e # None
  <2>1. Local!Fails(e)
    BY <1>2, <1>3, CheckIs
  <2>2. ~Local!SoundLocal
    BY <1>1, <1>3, SoundLocalIs
  <2>. QED
    BY <1>0, <2>1, <2>2, OpeningFails
<1>4. CASE e = None
  <2>1. /\ ds' = ds /\ probe' = probe /\ aux' = aux /\ graph' = graph /\ opening' = "opened"
    BY <1>2, <1>4, CheckIs
  <2>2. FilesSound' /\ GraphReads(ds'.graph) /\ graph' = ds'.graph.rows
    BY <1>0, <2>1, FilesSoundStay
  <2>3. Local!SoundUnits' /\ SnapsReadable' /\ SnapsRefer'
    BY <1>0, <1>1, <1>4, <2>1, FilesStay
  <2>. QED
    BY <1>0, <2>1, <2>2, <2>3 DEF LocalInv, Loaded, FilesSound
<1>. QED
  BY <1>3, <1>4

LEMMA ProbeStep ==
  ASSUME LocalInv, Local!ProbeLevels
  PROVE  LocalInv'
<1>0. /\ opening = "opened" /\ FilesSound /\ GraphReads(ds.graph) /\ graph = ds.graph.rows
      /\ Local!SoundUnits /\ SnapsReadable /\ SnapsRefer
  BY DEF LocalInv, Local!ProbeLevels, FilesSound, Loaded
<1>1. /\ ds' = ds /\ aux' = aux /\ graph' = graph /\ opening' = "opened"
      /\ probe' = Local!LevelsFromStatistics(ds'.graph)
  BY DEF Local!ProbeLevels
<1>2. FilesSound' /\ GraphReads(ds'.graph) /\ graph' = ds'.graph.rows
  BY <1>0, <1>1, FilesSoundStay
<1>3. Local!SoundUnits' /\ SnapsReadable' /\ SnapsRefer'
  BY <1>0, <1>1, FilesStay
<1>. QED
  BY <1>1, <1>2, <1>3 DEF LocalInv, Loaded, FilesSound

LEMMA OpenStays ==
  ASSUME LocalInv, UNCHANGED open
  PROVE  LocalInv'
<1>1. /\ ds' = ds /\ opening' = opening /\ aux' = aux /\ graph' = graph /\ levels' = levels
      /\ probe' = probe
  BY DEF open
<1>2. /\ LayoutSound' = LayoutSound /\ ArtifactsFine(TRUE)' = ArtifactsFine(TRUE)
      /\ ArtifactsFine(FALSE)' = ArtifactsFine(FALSE)
      /\ Local!SoundUnits' = Local!SoundUnits /\ Local!LevelOf' = Local!LevelOf
      /\ SnapsReadable' = SnapsReadable /\ SnapsRefer' = SnapsRefer
      /\ Local!SoundLocal' = Local!SoundLocal
  BY <1>1, FilesStay
<1>. QED
  BY <1>1, <1>2 DEF LocalInv, Loaded

LEMMA LocalStep ==
  ASSUME LocalInv, Local!Next
  PROVE  LocalInv'
<1>1. CASE Local!Stop
  <2>1. UNCHANGED open
    BY <1>1 DEF Local!Stop, Local!vars, open
  <2>. QED
    BY <2>1, OpenStays
<1>. QED
  BY <1>1, ParseStep, LayoutStep, ManifestStep, PathsStep, GraphStep, AgreementStep, SnapsStep,
     RefsStep, ProbeStep DEF Local!Next

\* Every stage of an open has established what the stages before it checked, and an
\* open has failed only for a defect (open_path, session.rs): the inductive invariant.
THEOREM OpenStagesHold == MCSpec => [](part = "open" => LocalInv)
<1>. DEFINE all == <<part, vars, open, catchments>>
            Inv == part = "open" => LocalInv
<1>1. MCInit => Inv
  BY LocalStarts DEF MCInit
<1>2. Inv /\ [MCNext]_all => Inv'
  <2>. SUFFICES ASSUME Inv, [MCNext]_all, part' = "open" PROVE LocalInv'
    OBVIOUS
  <2>1. CASE UNCHANGED all
    <3>1. part = "open" /\ UNCHANGED open
      BY <2>1
    <3>. QED
      BY <3>1, OpenStays
  <2>2. CASE MCNext
    <3>1. part = "open" /\ Local!Next
      BY <2>2 DEF MCNext
    <3>. QED
      BY <3>1, LocalStep
  <2>. QED
    BY <2>1, <2>2
<1>. QED
  BY <1>1, <1>2, PTL DEF MCSpec

\* A session is opened exactly for a sound dataset, a remote open goes on only with a
\* sound manifest, and the level hint is the levels of the graph, for every set of
\* datasets, level bound and row-group size (open_path, session.rs).
THEOREM OpenDecidesRightlyHolds == MCSpec => []OpenDecidesRightly
<1>1. (part = "open" => LocalInv) => OpenDecidesRightly
  <2>. SUFFICES ASSUME part = "open", LocalInv PROVE Local!OpenDecidesRightly
    BY DEF OpenDecidesRightly
  <2>1. Local!OpensExactlySound
    <3>1. opening = "opened" => Local!SoundLocal
      BY SoundLocalIs DEF LocalInv, Loaded
    <3>2. opening = "failed" => ~Local!SoundLocal
      BY DEF LocalInv
    <3>. QED
      BY <3>1, <3>2 DEF Local!OpensExactlySound
  <2>2. Local!RemoteGoesOnSound
    <3>1. opening = "remote" => Local!NamesRemote(ds.source) /\ ManifestReads(ds.manifest) /\ ArtifactsFine(TRUE)
      BY DEF LocalInv
    <3>. QED
      BY <3>1, SoundLocalIs DEF Local!RemoteGoesOnSound
  <2>3. Local!StatisticsShowTheLevels
    <3>1. probe # None => /\ GraphReads(ds.graph) /\ graph = ds.graph.rows
                          /\ probe = Local!LevelsFromStatistics(ds.graph)
      BY DEF LocalInv, Loaded
    <3>2. CASE probe = None
      BY <3>2 DEF Local!StatisticsShowTheLevels
    <3>3. CASE probe # None
      BY <3>1, <3>3, StatisticsAre
    <3>. QED
      BY <3>2, <3>3
  <2>. QED
    BY <2>1, <2>2, <2>3 DEF Local!OpenDecidesRightly
<1>. QED
  BY <1>1, OpenStagesHold, PTL

-----------------------------------------------------------------------------
(* Part catchments: sequences that are picked and joined. *)

Cat(v, w) == v \o w

\* f is what a loop that glues n sequences holds after each of them.
Glues(f, s, n) ==
  f = [i \in 0 .. n |-> IF i = 0 THEN <<>> ELSE f[i - 1] \o s[i]]

LEMMA GluesExists ==
  ASSUME NEW s, NEW n \in Nat
  PROVE  \E f : Glues(f, s, n)
<1>. DEFINE T == {m \in Nat : ~\E f : Glues(f, s, m)}
<1>1. ASSUME T # {} PROVE FALSE
  <2>1. PICK m \in T : \A y \in T : m <= y
    BY <1>1, LeastElement
  <2>2. CASE m = 0
    <3>1. Glues([i \in 0 .. 0 |-> <<>>], s, 0)
      BY DEF Glues
    <3>. QED
      BY <2>1, <2>2, <3>1
  <2>3. CASE m # 0
    <3>1. m - 1 \in Nat /\ m - 1 \notin T
      BY <2>1, <2>3
    <3>2. PICK f : Glues(f, s, m - 1)
      BY <3>1
    <3>. DEFINE g == [i \in 0 .. m |-> IF i = m THEN f[m - 1] \o s[m] ELSE f[i]]
                body(h, i) == IF i = 0 THEN <<>> ELSE h[i - 1] \o s[i]
    <3>3. ASSUME NEW i \in 0 .. m - 1 PROVE f[i] = body(f, i)
      BY <3>1, <3>2 DEF Glues
    <3>4. ASSUME NEW i \in 0 .. m PROVE g[i] = body(g, i)
      <4>1. CASE i = m
        <5>1. m \in 0 .. m /\ m - 1 \in 0 .. m /\ m - 1 # m
          BY <2>3, <3>1
        <5>2. g[m] = f[m - 1] \o s[m] /\ g[m - 1] = f[m - 1]
          BY <5>1
        <5>. HIDE DEF g
        <5>3. g[m] = g[m - 1] \o s[m]
          BY <5>2
        <5>. QED
          BY <2>3, <4>1, <5>3
      <4>2. CASE i # m
        <5>1. i \in 0 .. m - 1 /\ g[i] = f[i]
          BY <4>2, <3>1
        <5>2. i # 0 => i - 1 \in 0 .. m /\ i - 1 # m /\ g[i - 1] = f[i - 1]
          BY <5>1, <3>1
        <5>. QED
          BY <5>1, <5>2, <3>3
      <4>. QED
        BY <4>1, <4>2
    <3>5. g = [i \in 0 .. m |-> body(g, i)]
      <4>1. g = [i \in 0 .. m |-> g[i]]
        OBVIOUS
      <4>. HIDE DEF g, body
      <4>. QED
        BY <4>1, <3>4
    <3>6. Glues(g, s, m)
      BY <3>5 DEF Glues
    <3>. QED
      BY <2>1, <3>6
  <2>. QED
    BY <2>2, <2>3
<1>. QED
  BY <1>1

LEMMA GlueStep ==
  ASSUME NEW s, NEW n \in Nat, NEW f, Glues(f, s, n)
  PROVE  f[0] = <<>> /\ \A i \in 1 .. n : f[i] = f[i - 1] \o s[i]
BY DEF Glues

LEMMA GlueFirst ==
  ASSUME NEW s, NEW n \in Nat, NEW f, Glues(f, s, n)
  PROVE  f[0] = <<>>
BY GlueStep

LEMMA GlueNext ==
  ASSUME NEW s, NEW n \in Nat, NEW f, Glues(f, s, n), NEW i \in 1 .. n
  PROVE  f[i] = Cat(f[i - 1], s[i])
BY GlueStep DEF Cat

\* The first m pieces decide what is glued of them.
LEMMA GluesAgree ==
  ASSUME NEW s, NEW n \in Nat, NEW f, Glues(f, s, n),
         NEW t, NEW w \in Nat, NEW h, Glues(h, t, w),
         NEW m \in Nat, m <= n, m <= w, \A i \in 1 .. m : s[i] = t[i]
  PROVE  f[m] = h[m]
<1>. DEFINE T == {j \in 0 .. m : f[j] # h[j]}
<1>1. ASSUME T # {} PROVE FALSE
  <2>0. T \subseteq Nat
    OBVIOUS
  <2>1. PICK j \in T : \A y \in T : j <= y
    BY <1>1, <2>0, LeastElement
  <2>2. CASE j = 0
    BY <2>1, <2>2, GlueStep
  <2>3. CASE j # 0
    <3>1. j \in 1 .. n /\ j \in 1 .. w /\ j \in 1 .. m /\ j - 1 \in 0 .. m
      BY <2>1, <2>3
    <3>2. f[j] = f[j - 1] \o s[j] /\ h[j] = h[j - 1] \o t[j]
      BY <3>1, GlueStep
    <3>3. f[j - 1] = h[j - 1]
      BY <2>1, <3>1
    <3>. QED
      BY <2>1, <3>1, <3>2, <3>3
  <2>. QED
    BY <2>2, <2>3
<1>. QED
  BY <1>1

LEMMA JoinedIs ==
  ASSUME NEW s, NEW n \in Nat, Len(s) = n, NEW f, Glues(f, s, n)
  PROVE  Store!Joined(s) = f[n]
<1>1. \E h : Glues(h, s, n)
  BY GluesExists
<1>2. Store!Joined(s) = (CHOOSE h : Glues(h, s, n))[n]
  BY DEF Store!Joined, Glues
<1>3. PICK h : Glues(h, s, n) /\ Store!Joined(s) = h[n]
  BY <1>1, <1>2
<1>4. h[n] = f[n]
  BY <1>3, GluesAgree
<1>. QED
  BY <1>3, <1>4

\* The pieces stand in the whole one after the other, and nothing else does.
GlueOf(f, s, m) ==
  /\ \A l \in 0 .. m : Len(f[l]) \in Nat /\ Len(f[l]) <= Len(f[m])
  /\ \A g \in 1 .. m : \A j \in 1 .. Len(s[g]) :
       Len(f[g - 1]) + j \in 1 .. Len(f[m]) /\ f[m][Len(f[g - 1]) + j] = s[g][j]
  /\ \A i \in 1 .. Len(f[m]) : \E g \in 1 .. m : \E j \in 1 .. Len(s[g]) : i = Len(f[g - 1]) + j

LEMMA GlueIs ==
  ASSUME NEW S, NEW s, NEW n \in Nat, NEW f, Glues(f, s, n), \A i \in 1 .. n : s[i] \in Seq(S)
  PROVE  \A m \in 0 .. n : f[m] \in Seq(S) /\ GlueOf(f, s, m)
<1>. DEFINE P(m) == f[m] \in Seq(S) /\ GlueOf(f, s, m)
            T == {m \in 0 .. n : ~P(m)}
<1>1. ASSUME T # {} PROVE FALSE
  <2>0. T \subseteq Nat
    OBVIOUS
  <2>1. PICK m \in T : \A y \in T : m <= y
    BY <1>1, <2>0, LeastElement
  <2>2. CASE m = 0
    <3>1. f[0] = <<>> /\ Len(<<>>) = 0 /\ <<>> \in Seq(S)
      <4>1. f[0] = <<>>
        BY GlueStep
      <4>2. Len(<<>>) = 0 /\ <<>> \in Seq(S)
        BY EmptySeq
      <4>. QED
        BY <4>1, <4>2
    <3>2. 1 .. 0 = {} /\ 0 .. 0 = {0}
      OBVIOUS
    <3>3. P(0)
      BY <3>1, <3>2 DEF GlueOf
    <3>. QED
      BY <2>1, <2>2, <3>3
  <2>3. CASE m # 0
    <3>1. m \in 1 .. n /\ m - 1 \in 0 .. n /\ m - 1 \notin T /\ m \in Nat
      BY <2>1, <2>3
    <3>. DEFINE a == f[m - 1]
                b == s[m]
    <3>2. a \in Seq(S) /\ GlueOf(f, s, m - 1) /\ b \in Seq(S) /\ f[m] = a \o b
      BY <3>1, GlueStep
    <3>3. Len(a) \in Nat /\ Len(b) \in Nat /\ \A l \in 0 .. m - 1 : Len(f[l]) \in Nat /\ Len(f[l]) <= Len(a)
      BY <3>2, LenProperties DEF GlueOf
    <3>4. \A g \in 1 .. m - 1 : \A j \in 1 .. Len(s[g]) :
            Len(f[g - 1]) + j \in 1 .. Len(a) /\ a[Len(f[g - 1]) + j] = s[g][j]
      BY <3>2 DEF GlueOf
    <3>5. \A i \in 1 .. Len(a) : \E g \in 1 .. m - 1 : \E j \in 1 .. Len(s[g]) : i = Len(f[g - 1]) + j
      BY <3>2 DEF GlueOf
    <3>. HIDE DEF a, b
    <3>6. /\ f[m] \in Seq(S) /\ Len(f[m]) = Len(a) + Len(b)
          /\ \A i \in 1 .. Len(a) + Len(b) : f[m][i] = IF i <= Len(a) THEN a[i] ELSE b[i - Len(a)]
      BY <3>2, ConcatProperties
    <3>7. \A l \in 0 .. m : Len(f[l]) \in Nat /\ Len(f[l]) <= Len(f[m])
      <4>1. ASSUME NEW l \in 0 .. m PROVE Len(f[l]) \in Nat /\ Len(f[l]) <= Len(f[m])
        <5>1. CASE l = m
          BY <3>3, <3>6, <5>1
        <5>2. CASE l # m
          <6>1. l \in 0 .. m - 1
            BY <3>1, <5>2
          <6>. QED
            BY <3>3, <3>6, <6>1
        <5>. QED
          BY <5>1, <5>2
      <4>. QED
        BY <4>1
    <3>8. ASSUME NEW g \in 1 .. m, NEW j \in 1 .. Len(s[g])
          PROVE  Len(f[g - 1]) + j \in 1 .. Len(f[m]) /\ f[m][Len(f[g - 1]) + j] = s[g][j]
      <4>1. CASE g = m
        <5>1. Len(f[g - 1]) = Len(a) /\ s[g] = b /\ j \in 1 .. Len(b)
          BY <4>1 DEF a, b
        <5>2. Len(a) + j \in 1 .. Len(a) + Len(b) /\ ~(Len(a) + j <= Len(a)) /\ Len(a) + j - Len(a) = j
          BY <3>3, <5>1
        <5>. QED
          BY <3>6, <5>1, <5>2
      <4>2. CASE g # m
        <5>1. g \in 1 .. m - 1
          BY <3>1, <4>2
        <5>2. Len(f[g - 1]) + j \in 1 .. Len(a) /\ a[Len(f[g - 1]) + j] = s[g][j]
          BY <3>4, <5>1
        <5>3. Len(f[g - 1]) + j \in 1 .. Len(a) + Len(b) /\ Len(f[g - 1]) + j <= Len(a)
          BY <3>3, <5>2
        <5>. QED
          BY <3>6, <5>2, <5>3
      <4>. QED
        BY <4>1, <4>2
    <3>9. ASSUME NEW i \in 1 .. Len(f[m])
          PROVE  \E g \in 1 .. m : \E j \in 1 .. Len(s[g]) : i = Len(f[g - 1]) + j
      <4>1. CASE i <= Len(a)
        <5>1. i \in 1 .. Len(a)
          BY <3>3, <3>6, <4>1
        <5>2. PICK g \in 1 .. m - 1 : \E j \in 1 .. Len(s[g]) : i = Len(f[g - 1]) + j
          BY <3>5, <5>1
        <5>3. g \in 1 .. m
          BY <3>1
        <5>. QED
          BY <5>2, <5>3
      <4>2. CASE ~(i <= Len(a))
        <5>1. i - Len(a) \in 1 .. Len(b) /\ i = Len(a) + (i - Len(a))
          BY <3>3, <3>6, <4>2
        <5>. QED
          BY <3>1, <5>1 DEF a, b
      <4>. QED
        BY <4>1, <4>2
    <3>10. P(m)
      BY <3>6, <3>7, <3>8, <3>9 DEF GlueOf
    <3>. QED
      BY <2>1, <3>10
  <2>. QED
    BY <2>2, <2>3
<1>. QED
  BY <1>1

LEMMA KeepsFirst ==
  ASSUME NEW s, NEW P, NEW n \in Nat, NEW f, Keeps(f, s, P, n)
  PROVE  f[0] = <<>>
<1>1. 0 \in 0 .. n
  OBVIOUS
<1>. QED
  BY <1>1 DEF Keeps

LEMMA KeepsNext ==
  ASSUME NEW s, NEW P, NEW n \in Nat, NEW f, Keeps(f, s, P, n), NEW i \in 1 .. n
  PROVE  f[i] = IF i \in P THEN Append(f[i - 1], s[i]) ELSE f[i - 1]
<1>1. i \in 0 .. n /\ i # 0
  OBVIOUS
<1>. QED
  BY <1>1 DEF Keeps

LEMMA KeepsSeq ==
  ASSUME NEW S, NEW s, NEW P, NEW n \in Nat, NEW f, Keeps(f, s, P, n), \A i \in 1 .. n : s[i] \in S
  PROVE  \A m \in 0 .. n : f[m] \in Seq(S)
<1>. DEFINE T == {m \in 0 .. n : f[m] \notin Seq(S)}
<1>1. ASSUME T # {} PROVE FALSE
  <2>0. T \subseteq Nat
    OBVIOUS
  <2>1. PICK m \in T : \A y \in T : m <= y
    BY <1>1, <2>0, LeastElement
  <2>2. CASE m = 0
    <3>1. f[0] = <<>>
      BY KeepsFirst
    <3>. QED
      BY <2>1, <2>2, <3>1, EmptySeq
  <2>3. CASE m # 0
    <3>1. m \in 1 .. n /\ m - 1 \in 0 .. n /\ m - 1 \notin T
      BY <2>1, <2>3
    <3>2. f[m - 1] \in Seq(S) /\ s[m] \in S
      BY <3>1
    <3>3. f[m] = IF m \in P THEN Append(f[m - 1], s[m]) ELSE f[m - 1]
      BY <3>1, KeepsNext
    <3>4. f[m] \in Seq(S)
      <4>1. Append(f[m - 1], s[m]) \in Seq(S)
        BY <3>2, AppendProperties
      <4>. QED
        BY <3>2, <3>3, <4>1
    <3>. QED
      BY <2>1, <3>4
  <2>. QED
    BY <2>2, <2>3
<1>. QED
  BY <1>1

SameUpTo(s, P, t, Q, m) == \A i \in 1 .. m : s[i] = t[i] /\ (i \in P <=> i \in Q)

\* The first m elements decide what is kept of them.
LEMMA KeepsAgree ==
  ASSUME NEW s, NEW P, NEW n \in Nat, NEW f, Keeps(f, s, P, n),
         NEW t, NEW Q, NEW w \in Nat, NEW h, Keeps(h, t, Q, w),
         NEW m \in Nat, m <= n, m <= w,
         SameUpTo(s, P, t, Q, m)
  PROVE  f[m] = h[m]
<1>. DEFINE T == {j \in 0 .. m : f[j] # h[j]}
<1>1. ASSUME T # {} PROVE FALSE
  <2>0. T \subseteq Nat
    OBVIOUS
  <2>1. PICK j \in T : \A y \in T : j <= y
    BY <1>1, <2>0, LeastElement
  <2>2. CASE j = 0
    <3>1. f[0] = <<>> /\ h[0] = <<>>
      BY KeepsFirst
    <3>. QED
      BY <2>1, <2>2, <3>1
  <2>3. CASE j # 0
    <3>1. j \in 1 .. n /\ j \in 1 .. w /\ j \in 1 .. m /\ j - 1 \in 0 .. m
      BY <2>1, <2>3
    <3>2. f[j] = IF j \in P THEN Append(f[j - 1], s[j]) ELSE f[j - 1]
      BY <3>1, KeepsNext
    <3>3. h[j] = IF j \in Q THEN Append(h[j - 1], t[j]) ELSE h[j - 1]
      BY <3>1, KeepsNext
    <3>4. f[j - 1] = h[j - 1]
      BY <2>1, <3>1
    <3>5. s[j] = t[j] /\ (j \in P <=> j \in Q)
      BY <3>1 DEF SameUpTo
    <3>. QED
      BY <2>1, <3>1, <3>2, <3>3, <3>4, <3>5
  <2>. QED
    BY <2>2, <2>3
<1>. QED
  BY <1>1

LEMMA StorePickedIs ==
  ASSUME NEW s, NEW P, NEW n \in Nat, Len(s) = n, NEW f, Keeps(f, s, P, n)
  PROVE  Store!Picked(s, P) = f[n]
<1>1. \E h : Keeps(h, s, P, n)
  BY KeepsExists
<1>2. Store!Picked(s, P) = (CHOOSE h : Keeps(h, s, P, n))[n]
  BY DEF Store!Picked, Keeps
<1>3. PICK h : Keeps(h, s, P, n) /\ Store!Picked(s, P) = h[n]
  BY <1>1, <1>2
<1>4. h[n] = f[n]
  <2>1. SameUpTo(s, P, s, P, n)
    BY DEF SameUpTo
  <2>. QED
    BY <1>3, <2>1, KeepsAgree
<1>. QED
  BY <1>3, <1>4

Onto(v, z) == Append(v, z)

LEMMA AppendConcat ==
  ASSUME NEW S, NEW v \in Seq(S), NEW w \in Seq(S), NEW z \in S
  PROVE  Onto(Cat(v, w), z) = Cat(v, Onto(w, z))
<1>1. Append((v \o w), z) = (v \o (Append(w, z)))
  OBVIOUS
<1>. QED
  BY <1>1 DEF Onto, Cat

\* Picking from two sequences one after the other.
Splits(s, P, a, Q, b, R) ==
  /\ Len(s) = Len(a) + Len(b)
  /\ \A i \in 1 .. Len(a) : s[i] = a[i] /\ (i \in P <=> i \in Q)
  /\ \A i \in 1 .. Len(b) : s[Len(a) + i] = b[i] /\ (Len(a) + i \in P <=> i \in R)

LEMMA PickedConcat ==
  ASSUME NEW S, NEW a \in Seq(S), NEW b \in Seq(S), NEW s \in Seq(S), NEW P, NEW Q, NEW R,
         Splits(s, P, a, Q, b, R)
  PROVE  Store!Picked(s, P) = Store!Picked(a, Q) \o Store!Picked(b, R)
<1>. DEFINE la == Len(a)
            lb == Len(b)
            n == Len(s)
<1>1. la \in Nat /\ lb \in Nat /\ n = la + lb /\ n \in Nat
  BY LenProperties DEF Splits
<1>2. PICK f : Keeps(f, s, P, n)
  BY <1>1, KeepsExists
<1>3. PICK fa : Keeps(fa, a, Q, la)
  BY <1>1, KeepsExists
<1>4. PICK fb : Keeps(fb, b, R, lb)
  BY <1>1, KeepsExists
<1>5. Store!Picked(s, P) = f[n] /\ Store!Picked(a, Q) = fa[la] /\ Store!Picked(b, R) = fb[lb]
  BY <1>1, <1>2, <1>3, <1>4, StorePickedIs
<1>6. f[la] = fa[la]
  <2>1. la <= n /\ la <= la
    BY <1>1
  <2>2. SameUpTo(s, P, a, Q, la)
    BY DEF SameUpTo, Splits
  <2>. HIDE DEF la, lb, n
  <2>3. la \in Nat /\ n \in Nat
    BY <1>1
  <2>. QED
    BY <1>2, <1>3, <2>1, <2>2, <2>3, KeepsAgree
<1>7. (\A m \in 0 .. la : fa[m] \in Seq(S)) /\ (\A m \in 0 .. lb : fb[m] \in Seq(S))
  <2>1. (\A i \in 1 .. la : a[i] \in S) /\ (\A i \in 1 .. lb : b[i] \in S)
    BY SeqElements
  <2>. HIDE DEF la, lb
  <2>. QED
    BY <1>1, <1>3, <1>4, <2>1, KeepsSeq
<1>8. \A i \in 1 .. lb : s[la + i] = b[i] /\ (la + i \in P <=> i \in R) /\ b[i] \in S
  BY SeqElements DEF Splits
<1>. HIDE DEF la, lb, n
<1>. DEFINE x == fa[la]
<1>. DEFINE T == {m \in 0 .. lb : f[la + m] # x \o fb[m]}
<1>9. x \in Seq(S)
  BY <1>1, <1>7
<1>10. ASSUME T # {} PROVE FALSE
  <2>0. T \subseteq Nat
    <3>1. T \subseteq 0 .. lb
      BY Zenon
    <3>. HIDE DEF T
    <3>. QED
      BY <1>1, <3>1
  <2>1. PICK m \in T : \A y \in T : m <= y
    BY <1>10, <2>0, LeastElement
  <2>2. CASE m = 0
    <3>1. fb[0] = <<>> /\ la + 0 = la
      BY <1>1, <1>4, KeepsFirst
    <3>2. x \o <<>> = x
      BY <1>9, ConcatEmptySeq
    <3>. QED
      BY <1>6, <2>1, <2>2, <3>1, <3>2
  <2>3. CASE m # 0
    <3>0. m \in 0 .. lb /\ m - 1 \notin T
      <4>. HIDE DEF T
      <4>1. m - 1 \in T => m <= m - 1
        BY <2>1
      <4>2. m \in 0 .. lb
        BY <2>1 DEF T
      <4>. QED
        BY <1>1, <4>1, <4>2
    <3>1. /\ m \in 1 .. lb /\ m - 1 \in 0 .. lb
          /\ la + m \in 1 .. n /\ la + m - 1 = la + (m - 1)
      BY <1>1, <2>3, <3>0
    <3>. DEFINE y == fb[m - 1]
    <3>2. y \in Seq(S) /\ b[m] \in S /\ f[la + (m - 1)] = x \o y
      BY <1>7, <1>8, <3>0, <3>1
    <3>3. f[la + m] = IF la + m \in P THEN Append(f[la + m - 1], s[la + m]) ELSE f[la + m - 1]
      BY <1>1, <1>2, <3>1, KeepsNext
    <3>4. fb[m] = IF m \in R THEN Append(y, b[m]) ELSE y
      BY <1>1, <1>4, <3>1, KeepsNext
    <3>. HIDE DEF x, y, T
    <3>5. Append(x \o y, b[m]) = x \o Append(y, b[m])
      <4>1. Onto(Cat(x, y), b[m]) = Cat(x, Onto(y, b[m]))
        BY <1>9, <3>2, AppendConcat
      <4>. QED
        BY <4>1 DEF Onto, Cat
    <3>6. f[la + m] = x \o fb[m]
      BY <1>8, <3>1, <3>2, <3>3, <3>4, <3>5
    <3>. QED
      BY <3>0, <2>1, <3>6 DEF x, T
  <2>. QED
    BY <2>2, <2>3
<1>11. f[la + lb] = fa[la] \o fb[lb]
  <2>1. T = {}
    BY <1>10
  <2>2. lb \in 0 .. lb
    BY <1>1
  <2>. QED
    BY <2>1, <2>2
<1>. QED
  BY <1>1, <1>5, <1>11

\* Picking nothing, and picking everything.
LEMMA PickedNothing ==
  ASSUME NEW s, NEW P, Len(s) \in Nat, \A i \in 1 .. Len(s) : i \notin P
  PROVE  Store!Picked(s, P) = <<>>
<1>. DEFINE n == Len(s)
<1>1. PICK f : Keeps(f, s, P, n)
  BY KeepsExists
<1>2. Store!Picked(s, P) = f[n]
  BY <1>1, StorePickedIs
<1>. DEFINE T == {m \in 0 .. n : f[m] # <<>>}
<1>3. ASSUME T # {} PROVE FALSE
  <2>0. T \subseteq Nat
    OBVIOUS
  <2>1. PICK m \in T : \A y \in T : m <= y
    BY <1>3, <2>0, LeastElement
  <2>2. CASE m = 0
    BY <1>1, <2>1, <2>2, KeepsFirst
  <2>3. CASE m # 0
    <3>1. m \in 1 .. n /\ m - 1 \in 0 .. n /\ m - 1 \notin T
      BY <2>1, <2>3
    <3>2. f[m] = f[m - 1]
      BY <1>1, <3>1, KeepsNext
    <3>. QED
      BY <2>1, <3>1, <3>2
  <2>. QED
    BY <2>2, <2>3
<1>. QED
  BY <1>2, <1>3

LEMMA PickedEverything ==
  ASSUME NEW S, NEW s \in Seq(S), NEW P, \A i \in 1 .. Len(s) : i \in P
  PROVE  Store!Picked(s, P) = s
<1>. DEFINE n == Len(s)
            good(l, m) == l \in Seq(S) /\ Len(l) = m /\ \A i \in 1 .. m : l[i] = s[i]
<1>0. n \in Nat /\ \A i \in 1 .. n : s[i] \in S
  BY SeqElements
<1>1. PICK f : Keeps(f, s, P, n)
  BY <1>0, KeepsExists
<1>2. Store!Picked(s, P) = f[n]
  BY <1>0, <1>1, StorePickedIs
<1>. DEFINE T == {m \in 0 .. n : ~good(f[m], m)}
<1>3. ASSUME T # {} PROVE FALSE
  <2>0. T \subseteq Nat
    OBVIOUS
  <2>1. PICK m \in T : \A y \in T : m <= y
    BY <1>3, <2>0, LeastElement
  <2>2. CASE m = 0
    <3>1. f[0] = <<>>
      BY <1>0, <1>1, KeepsFirst
    <3>2. <<>> \in Seq(S) /\ Len(<<>>) = 0 /\ 1 .. 0 = {}
      BY EmptySeq
    <3>3. good(f[0], 0)
      BY <3>1, <3>2
    <3>. QED
      BY <2>1, <2>2, <3>3
  <2>3. CASE m # 0
    <3>1. m \in 1 .. n /\ m - 1 \in 0 .. n /\ m - 1 \notin T /\ m \in Nat
      BY <1>0, <2>1, <2>3
    <3>2. f[m] = Append(f[m - 1], s[m])
      <4>1. f[m] = IF m \in P THEN Append(f[m - 1], s[m]) ELSE f[m - 1]
        BY <1>0, <1>1, <3>1, KeepsNext
      <4>. QED
        BY <3>1, <4>1
    <3>3. f[m - 1] \in Seq(S) /\ Len(f[m - 1]) = m - 1 /\ \A i \in 1 .. m - 1 : f[m - 1][i] = s[i]
      BY <3>1
    <3>4. f[m] \in Seq(S) /\ Len(f[m]) = m /\ f[m][m] = s[m] /\ \A i \in 1 .. m - 1 : f[m][i] = s[i]
      BY <1>0, <3>1, <3>2, <3>3, AppendProperties
    <3>5. \A i \in 1 .. m : i = m \/ i \in 1 .. m - 1
      BY <3>1
    <3>6. good(f[m], m)
      BY <3>4, <3>5
    <3>. QED
      BY <2>1, <3>6
  <2>. QED
    BY <2>2, <2>3
<1>4. good(f[n], n)
  <2>1. n \in 0 .. n
    BY <1>0
  <2>. QED
    BY <1>3, <2>1
<1>. QED
  BY <1>0, <1>2, <1>4, SeqEqual

-----------------------------------------------------------------------------
(* The rows of a file and the answers of a query. *)

\* The sequences R gives for the elements of l.
Mapped(l, R) == [p \in 1 .. Len(l) |-> R[l[p]]]

LEMMA JoinedEmpty ==
  ASSUME NEW R
  PROVE  Store!Joined(Mapped(<<>>, R)) = <<>>
<1>. DEFINE s == Mapped(<<>>, R)
<1>1. Len(s) = 0
  BY EmptySeq DEF Mapped
<1>. HIDE DEF s
<1>2. PICK f : Glues(f, s, 0)
  BY GluesExists
<1>3. Store!Joined(s) = f[0]
  BY <1>1, <1>2, JoinedIs
<1>4. f[0] = <<>>
  BY <1>2, GlueFirst
<1>. QED
  BY <1>3, <1>4 DEF s

LEMMA JoinedAppend ==
  ASSUME NEW X, NEW l \in Seq(X), NEW x \in X, NEW R
  PROVE  Store!Joined(Mapped(Append(l, x), R)) = Cat(Store!Joined(Mapped(l, R)), R[x])
<1>. DEFINE n == Len(l)
            a == Append(l, x)
            s == Mapped(l, R)
            t == Mapped(a, R)
<1>1. /\ n \in Nat /\ n + 1 \in Nat /\ Len(a) = n + 1 /\ a[n + 1] = x
      /\ \A i \in 1 .. n : a[i] = l[i]
  BY AppendProperties, LenProperties
<1>. HIDE DEF a
<1>2. Len(s) = n /\ Len(t) = n + 1 /\ t[n + 1] = R[x] /\ \A i \in 1 .. n : s[i] = t[i]
  <2>1. t = [p \in 1 .. n + 1 |-> R[a[p]]] /\ s = [p \in 1 .. n |-> R[l[p]]]
    BY <1>1 DEF Mapped
  <2>2. n + 1 \in 1 .. n + 1 /\ \A i \in 1 .. n : i \in 1 .. n + 1
    BY <1>1
  <2>. HIDE DEF n, s, t
  <2>. QED
    BY <1>1, <2>1, <2>2
<1>. HIDE DEF n, s, t
<1>3. PICK f : Glues(f, s, n)
  BY <1>1, GluesExists
<1>4. PICK h : Glues(h, t, n + 1)
  BY <1>1, GluesExists
<1>5. Store!Joined(s) = f[n] /\ Store!Joined(t) = h[n + 1]
  BY <1>1, <1>2, <1>3, <1>4, JoinedIs
<1>6. h[n + 1] = Cat(h[n], t[n + 1])
  <2>1. n + 1 \in 1 .. n + 1 /\ (n + 1) - 1 = n
    BY <1>1
  <2>2. h[n + 1] = Cat(h[(n + 1) - 1], t[n + 1])
    BY <1>1, <1>4, <2>1, GlueNext
  <2>. QED
    BY <2>1, <2>2
<1>7. f[n] = h[n]
  <2>1. n <= n /\ n <= n + 1
    BY <1>1
  <2>. QED
    BY <1>1, <1>2, <1>3, <1>4, <2>1, GluesAgree
<1>. QED
  BY <1>2, <1>5, <1>6, <1>7 DEF s, t, a

GroupCount == Len(file.groups)

GroupRows == [g \in 1 .. GroupCount |-> file.groups[g].rows]

LEMMA FileIs ==
  ASSUME file \in StoreFile
  PROVE  /\ GroupCount \in Nat
         /\ \A g \in 1 .. GroupCount : Store!Rows(g) \in Seq(Store!Row)
         /\ \A g \in 1 .. GroupCount : GroupRows[g] = Store!Rows(g)
         /\ Store!Groups = 1 .. GroupCount
<1>. DEFINE G == [rows : Seq(Store!Row), stats : BOOLEAN]
<1>1. file.groups \in Seq(G)
  BY StoreAssumption DEF Store!CatchmentAssumption, Store!IsFile
<1>2. GroupCount \in Nat /\ \A g \in 1 .. GroupCount : file.groups[g] \in G
  BY <1>1, SeqElements DEF GroupCount
<1>3. \A g \in 1 .. GroupCount : file.groups[g].rows \in Seq(Store!Row)
  <2>1. ASSUME NEW x \in G PROVE x.rows \in Seq(Store!Row)
    OBVIOUS
  <2>. HIDE DEF G
  <2>. QED
    BY <1>2, <2>1
<1>. QED
  BY <1>2, <1>3 DEF GroupRows, Store!Rows, Store!Groups, GroupCount

\* f holds the rows of the first g groups for every g.
Prefixes(f) == Glues(f, GroupRows, GroupCount)

LEMMA PrefixesExist ==
  ASSUME file \in StoreFile
  PROVE  \E f : Prefixes(f)
BY FileIs, GluesExists DEF Prefixes

LEMMA RowsOfIs ==
  ASSUME file \in StoreFile, NEW f, Prefixes(f)
  PROVE  \A n \in 0 .. GroupCount : Store!RowsOf(file, n) = f[n]
<1>. SUFFICES ASSUME NEW n \in 0 .. GroupCount PROVE Store!RowsOf(file, n) = f[n]
  OBVIOUS
<1>. DEFINE s == [g \in 1 .. n |-> file.groups[g].rows]
<1>0. GroupCount \in Nat /\ n \in Nat /\ n <= GroupCount
  BY FileIs
<1>1. Len(s) = n
  BY <1>0
<1>2. \A i \in 1 .. n : s[i] = GroupRows[i]
  BY <1>0 DEF GroupRows
<1>3. Store!RowsOf(file, n) = Store!Joined(s)
  BY DEF Store!RowsOf
<1>. HIDE DEF s
<1>4. PICK h : Glues(h, s, n)
  BY <1>0, GluesExists
<1>5. Store!Joined(s) = h[n]
  BY <1>0, <1>1, <1>4, JoinedIs
<1>6. h[n] = f[n]
  <2>1. n <= n
    BY <1>0
  <2>. QED
    BY <1>0, <1>2, <1>4, <2>1, GluesAgree DEF Prefixes
<1>. QED
  BY <1>3, <1>5, <1>6

LEMMA AllRowsIs ==
  ASSUME file \in StoreFile, NEW f, Prefixes(f)
  PROVE  Store!AllRows = f[GroupCount]
<1>1. GroupCount \in 0 .. GroupCount
  BY FileIs
<1>2. Store!AllRows = Store!RowsOf(file, GroupCount)
  BY DEF Store!AllRows, GroupCount
<1>. QED
  BY <1>1, <1>2, RowsOfIs

\* Where the rows of a group stand in the file.
LEMMA RowPlaces ==
  ASSUME file \in StoreFile, NEW f, Prefixes(f)
  PROVE  \A n \in 0 .. GroupCount : f[n] \in Seq(Store!Row) /\ GlueOf(f, GroupRows, n)
<1>1. GroupCount \in Nat /\ \A g \in 1 .. GroupCount : GroupRows[g] \in Seq(Store!Row)
  BY FileIs
<1>. QED
  BY <1>1, GlueIs DEF Prefixes

\* absolute_row_starts counts the rows before a group.
CountsRows(h, n) == h = [i \in 0 .. n |-> IF i = 0 THEN 0 ELSE h[i - 1] + Store!NumRows(i)]

LEMMA AbsoluteRowStartIs ==
  ASSUME file \in StoreFile, NEW f, Prefixes(f), NEW g \in 1 .. GroupCount
  PROVE  Store!AbsoluteRowStart(g) = Len(f[g - 1])
<1>. DEFINE n == g - 1
            w == [i \in 0 .. n |-> Len(f[i])]
            body(h, i) == IF i = 0 THEN 0 ELSE h[i - 1] + Store!NumRows(i)
<1>0. GroupCount \in Nat /\ n \in 0 .. GroupCount /\ n \in Nat
  BY FileIs
<1>1. \A i \in 0 .. n : Len(f[i]) = IF i = 0 THEN 0 ELSE Len(f[i - 1]) + Store!NumRows(i)
  <2>. SUFFICES ASSUME NEW i \in 0 .. n PROVE Len(f[i]) = IF i = 0 THEN 0 ELSE Len(f[i - 1]) + Store!NumRows(i)
    OBVIOUS
  <2>1. CASE i = 0
    <3>1. f[0] = <<>>
      BY <1>0, GlueStep DEF Prefixes
    <3>. QED
      BY <2>1, <3>1, EmptySeq
  <2>2. CASE i # 0
    <3>1. i \in 1 .. GroupCount /\ i - 1 \in 0 .. GroupCount
      BY <1>0, <2>2
    <3>2. f[i] = f[i - 1] \o GroupRows[i]
      BY <1>0, <3>1, GlueStep DEF Prefixes
    <3>3. f[i - 1] \in Seq(Store!Row) /\ GroupRows[i] \in Seq(Store!Row) /\ GroupRows[i] = Store!Rows(i)
      BY <3>1, RowPlaces, FileIs
    <3>4. Len(f[i]) = Len(f[i - 1]) + Len(GroupRows[i])
      BY <3>2, <3>3, ConcatProperties
    <3>. QED
      BY <2>2, <3>3, <3>4 DEF Store!NumRows
  <2>. QED
    BY <2>1, <2>2
<1>2. CountsRows(w, n)
  <2>1. \A i \in 0 .. n : w[i] = body(w, i)
    <3>. SUFFICES ASSUME NEW i \in 0 .. n PROVE w[i] = body(w, i)
      OBVIOUS
    <3>1. w[i] = Len(f[i]) /\ (i # 0 => i - 1 \in 0 .. n /\ w[i - 1] = Len(f[i - 1]))
      BY <1>0
    <3>. HIDE DEF w
    <3>. QED
      BY <1>1, <3>1
  <2>2. w = [i \in 0 .. n |-> w[i]]
    OBVIOUS
  <2>. HIDE DEF w, body
  <2>3. w = [i \in 0 .. n |-> body(w, i)]
    BY <2>1, <2>2
  <2>. QED
    BY <2>3 DEF CountsRows, body
<1>3. Store!AbsoluteRowStart(g) = (CHOOSE h : CountsRows(h, n))[n]
  BY DEF Store!AbsoluteRowStart, CountsRows
<1>. HIDE DEF w, n
<1>4. PICK h : CountsRows(h, n) /\ Store!AbsoluteRowStart(g) = h[n]
  BY <1>2, <1>3
<1>5. \A i \in 0 .. n : h[i] = body(h, i)
  BY <1>4 DEF CountsRows
<1>. DEFINE T == {i \in 0 .. n : h[i] # Len(f[i])}
<1>6. ASSUME T # {} PROVE FALSE
  <2>0. T \subseteq Nat
    BY <1>0
  <2>1. PICK i \in T : \A y \in T : i <= y
    BY <1>6, <2>0, LeastElement
  <2>2. i \in 0 .. n /\ (i # 0 => i - 1 \in 0 .. n /\ i - 1 \notin T)
    BY <1>0, <2>1
  <2>3. i # 0 => h[i - 1] = Len(f[i - 1])
    BY <2>2
  <2>. QED
    BY <1>1, <1>5, <2>1, <2>2, <2>3
<1>7. h[n] = Len(f[n])
  BY <1>0, <1>6
<1>. QED
  BY <1>4, <1>7 DEF n

-----------------------------------------------------------------------------
(* What a query makes of rows that stand one after the other. *)

LEMMA AnsweredConcat ==
  ASSUME NEW q, NEW a \in Seq(Store!Row), NEW b \in Seq(Store!Row)
  PROVE  Store!Answered(q, Cat(a, b)) = Cat(Store!Answered(q, a), Store!Answered(q, b))
<1>. DEFINE c == Cat(a, b)
            res(s) == [i \in 1 .. Len(s) |-> Store!Result(q, s[i])]
            pos(s) == {i \in 1 .. Len(s) : Store!Wanted(q, s[i])}
            S == {Store!Result(q, r) : r \in Store!Row}
<1>1. /\ c \in Seq(Store!Row) /\ Len(c) = Len(a) + Len(b)
      /\ \A i \in 1 .. Len(a) + Len(b) : c[i] = IF i <= Len(a) THEN a[i] ELSE b[i - Len(a)]
      /\ Len(a) \in Nat /\ Len(b) \in Nat
  BY ConcatProperties, LenProperties DEF Cat
<1>. HIDE DEF c
<1>2. /\ Store!Answered(q, a) = Store!Picked(res(a), pos(a))
      /\ Store!Answered(q, b) = Store!Picked(res(b), pos(b))
      /\ Store!Answered(q, c) = Store!Picked(res(c), pos(c))
  BY DEF Store!Answered
<1>3. ASSUME NEW s \in Seq(Store!Row) PROVE res(s) \in Seq(S) /\ Len(res(s)) = Len(s)
  <2>1. Len(s) \in Nat /\ \A i \in 1 .. Len(s) : s[i] \in Store!Row
    BY SeqElements
  <2>2. \A i \in 1 .. Len(s) : Store!Result(q, s[i]) \in S
    BY <2>1
  <2>. HIDE DEF S
  <2>. QED
    BY <2>1, <2>2
<1>4. res(a) \in Seq(S) /\ Len(res(a)) = Len(a)
  BY <1>3
<1>5. res(b) \in Seq(S) /\ Len(res(b)) = Len(b)
  BY <1>3
<1>6. res(c) \in Seq(S) /\ Len(res(c)) = Len(c)
  BY <1>1, <1>3
<1>7. \A i \in 1 .. Len(a) : res(c)[i] = res(a)[i] /\ (i \in pos(c) <=> i \in pos(a))
  <2>. SUFFICES ASSUME NEW i \in 1 .. Len(a) PROVE res(c)[i] = res(a)[i] /\ (i \in pos(c) <=> i \in pos(a))
    OBVIOUS
  <2>1. i \in 1 .. Len(c) /\ c[i] = a[i]
    BY <1>1
  <2>. QED
    BY <2>1
<1>8. \A i \in 1 .. Len(b) : res(c)[Len(a) + i] = res(b)[i] /\ (Len(a) + i \in pos(c) <=> i \in pos(b))
  <2>. SUFFICES ASSUME NEW i \in 1 .. Len(b)
                PROVE  res(c)[Len(a) + i] = res(b)[i] /\ (Len(a) + i \in pos(c) <=> i \in pos(b))
    OBVIOUS
  <2>1. Len(a) + i \in 1 .. Len(a) + Len(b) /\ ~(Len(a) + i <= Len(a)) /\ Len(a) + i - Len(a) = i
    BY <1>1
  <2>2. Len(a) + i \in 1 .. Len(c) /\ c[Len(a) + i] = b[i]
    BY <1>1, <2>1
  <2>. QED
    BY <2>2
<1>. HIDE DEF res, pos, S
<1>9. Splits(res(c), pos(c), res(a), pos(a), res(b), pos(b))
  BY <1>1, <1>4, <1>5, <1>6, <1>7, <1>8 DEF Splits
<1>10. Store!Picked(res(c), pos(c)) = Store!Picked(res(a), pos(a)) \o Store!Picked(res(b), pos(b))
  BY <1>4, <1>5, <1>6, <1>9, PickedConcat
<1>11. Store!Answered(q, c) = Store!Answered(q, a) \o Store!Answered(q, b)
  BY <1>2, <1>10
<1>. QED
  BY <1>11 DEF Cat, c

LEMMA AnsweredSeq ==
  ASSUME NEW q, NEW s \in Seq(Store!Row)
  PROVE  Store!Answered(q, s) \in Seq({Store!Result(q, r) : r \in Store!Row})
<1>. DEFINE t == [i \in 1 .. Len(s) |-> Store!Result(q, s[i])]
            P == {i \in 1 .. Len(s) : Store!Wanted(q, s[i])}
            S == {Store!Result(q, r) : r \in Store!Row}
            n == Len(s)
<1>1. n \in Nat /\ \A i \in 1 .. n : s[i] \in Store!Row
  BY SeqElements
<1>2. Len(t) = n /\ \A i \in 1 .. n : t[i] \in S
  BY <1>1
<1>3. Store!Answered(q, s) = Store!Picked(t, P)
  BY DEF Store!Answered
<1>. HIDE DEF t, P, S, n
<1>4. PICK f : Keeps(f, t, P, n)
  BY <1>1, KeepsExists
<1>5. Store!Picked(t, P) = f[n]
  BY <1>1, <1>2, <1>4, StorePickedIs
<1>6. \A m \in 0 .. n : f[m] \in Seq(S)
  BY <1>1, <1>2, <1>4, KeepsSeq
<1>. QED
  BY <1>1, <1>3, <1>5, <1>6 DEF S

LEMMA AnsweredNothing ==
  ASSUME NEW q, NEW s, Len(s) \in Nat, \A i \in 1 .. Len(s) : ~Store!Wanted(q, s[i])
  PROVE  Store!Answered(q, s) = <<>>
<1>. DEFINE t == [i \in 1 .. Len(s) |-> Store!Result(q, s[i])]
            P == {i \in 1 .. Len(s) : Store!Wanted(q, s[i])}
<1>1. Len(t) = Len(s) /\ P = {}
  OBVIOUS
<1>2. Store!Answered(q, s) = Store!Picked(t, P)
  BY DEF Store!Answered
<1>. HIDE DEF t
<1>. QED
  BY <1>1, <1>2, PickedNothing

LEMMA AnsweredEverything ==
  ASSUME NEW q, NEW s \in Seq(Store!Row), \A i \in 1 .. Len(s) : Store!Wanted(q, s[i])
  PROVE  Store!Answered(q, s) = [i \in 1 .. Len(s) |-> Store!Result(q, s[i])]
<1>. DEFINE t == [i \in 1 .. Len(s) |-> Store!Result(q, s[i])]
            P == {i \in 1 .. Len(s) : Store!Wanted(q, s[i])}
            S == {Store!Result(q, r) : r \in Store!Row}
<1>1. Len(s) \in Nat /\ \A i \in 1 .. Len(s) : s[i] \in Store!Row
  BY SeqElements
<1>2. \A i \in 1 .. Len(s) : Store!Result(q, s[i]) \in S
  BY <1>1
<1>3. t \in Seq(S) /\ Len(t) = Len(s)
  <2>. HIDE DEF S
  <2>. QED
    BY <1>1, <1>2
<1>4. \A i \in 1 .. Len(s) : i \in P
  OBVIOUS
<1>5. Store!Answered(q, s) = Store!Picked(t, P)
  BY DEF Store!Answered
<1>. HIDE DEF t, P, S
<1>6. Store!Picked(t, P) = t
  BY <1>3, <1>4, PickedEverything
<1>. QED
  BY <1>5, <1>6 DEF t

-----------------------------------------------------------------------------
(* The row groups that are read, in file order. *)

\* The elements of l are those of S up to n, and they grow.
Ordered(l, S, n) ==
  /\ l \in Seq(Nat)
  /\ \A p \in 1 .. Len(l) : l[p] \in S /\ l[p] \in 1 .. n
  /\ \A p, r \in 1 .. Len(l) : p < r => l[p] < l[r]
  /\ \A g \in 1 .. n : g \in S => \E p \in 1 .. Len(l) : l[p] = g

LEMMA OrderedIs ==
  ASSUME NEW n \in Nat, NEW s, \A i \in 1 .. n : s[i] = i, NEW S, NEW f, Keeps(f, s, S, n)
  PROVE  \A m \in 0 .. n : Ordered(f[m], S, m)
<1>. DEFINE T == {m \in 0 .. n : ~Ordered(f[m], S, m)}
<1>1. ASSUME T # {} PROVE FALSE
  <2>0. T \subseteq Nat
    OBVIOUS
  <2>1. PICK m \in T : \A y \in T : m <= y
    BY <1>1, <2>0, LeastElement
  <2>2. CASE m = 0
    <3>1. f[0] = <<>>
      BY KeepsFirst
    <3>2. <<>> \in Seq(Nat) /\ Len(<<>>) = 0 /\ 1 .. 0 = {}
      BY EmptySeq
    <3>3. Ordered(f[0], S, 0)
      BY <3>1, <3>2 DEF Ordered
    <3>. QED
      BY <2>1, <2>2, <3>3
  <2>3. CASE m # 0
    <3>1. m \in 1 .. n /\ m - 1 \in 0 .. n /\ m - 1 \notin T /\ m \in Nat
      BY <2>1, <2>3
    <3>2. f[m] = IF m \in S THEN Append(f[m - 1], s[m]) ELSE f[m - 1]
      BY <3>1, KeepsNext
    <3>. DEFINE l == f[m - 1]
                w == f[m]
                z == Len(l)
    <3>3. Ordered(l, S, m - 1) /\ s[m] = m
      BY <3>1
    <3>4. /\ l \in Seq(Nat) /\ z \in Nat
          /\ \A p \in 1 .. z : l[p] \in S /\ l[p] \in 1 .. m - 1
          /\ \A p, r \in 1 .. z : p < r => l[p] < l[r]
          /\ \A g \in 1 .. m - 1 : g \in S => \E p \in 1 .. z : l[p] = g
      BY <3>3, LenProperties DEF Ordered
    <3>. HIDE DEF l, w
    <3>5. CASE m \in S
      <4>1. w = Append(l, m)
        BY <3>2, <3>3, <3>5 DEF l, w
      <4>2. w \in Seq(Nat) /\ Len(w) = z + 1 /\ w[z + 1] = m /\ \A i \in 1 .. z : w[i] = l[i]
        BY <3>1, <3>4, <4>1, AppendProperties
      <4>. HIDE DEF z
      <4>3. \A p \in 1 .. z + 1 : p = z + 1 \/ p \in 1 .. z
        BY <3>4
      <4>4. \A p \in 1 .. z + 1 : w[p] \in S /\ w[p] \in 1 .. m
        <5>1. w[z + 1] \in S /\ w[z + 1] \in 1 .. m
          BY <3>1, <3>5, <4>2
        <5>2. ASSUME NEW p \in 1 .. z PROVE w[p] \in S /\ w[p] \in 1 .. m
          <6>1. w[p] = l[p] /\ l[p] \in S /\ l[p] \in 1 .. m - 1
            BY <3>4, <4>2
          <6>. QED
            BY <3>1, <6>1
        <5>. QED
          BY <4>3, <5>1, <5>2
      <4>5. ASSUME NEW p \in 1 .. z + 1, NEW r \in 1 .. z + 1, p < r PROVE w[p] < w[r]
        <5>1. p \in 1 .. z
          BY <3>4, <4>5
        <5>2. CASE r = z + 1
          BY <3>1, <3>4, <4>2, <5>1, <5>2
        <5>3. CASE r \in 1 .. z
          BY <3>4, <4>2, <4>5, <5>1, <5>3
        <5>. QED
          BY <4>3, <5>2, <5>3
      <4>6. ASSUME NEW g \in 1 .. m, g \in S PROVE \E p \in 1 .. z + 1 : w[p] = g
        <5>1. z + 1 \in 1 .. z + 1 /\ \A p \in 1 .. z : p \in 1 .. z + 1
          BY <3>4
        <5>2. CASE g = m
          BY <4>2, <5>1, <5>2
        <5>3. CASE g # m
          <6>1. g \in 1 .. m - 1
            BY <3>1, <5>3
          <6>2. PICK p \in 1 .. z : l[p] = g
            BY <3>4, <4>6, <6>1
          <6>. QED
            BY <4>2, <5>1, <6>2
        <5>. QED
          BY <5>2, <5>3
      <4>7. Ordered(w, S, m)
        BY <4>2, <4>4, <4>5, <4>6 DEF Ordered
      <4>. QED
        BY <2>1, <4>7 DEF w
    <3>6. CASE m \notin S
      <4>1. w = l
        BY <3>2, <3>6 DEF l, w
      <4>2. \A p \in 1 .. z : l[p] \in 1 .. m
        BY <3>1, <3>4
      <4>3. \A g \in 1 .. m : g \in S => g \in 1 .. m - 1
        BY <3>1, <3>6
      <4>4. Ordered(l, S, m)
        BY <3>4, <4>2, <4>3 DEF Ordered
      <4>. QED
        BY <2>1, <4>1, <4>4 DEF w
    <3>. QED
      BY <3>5, <3>6
  <2>. QED
    BY <2>2, <2>3
<1>. QED
  BY <1>1

GroupNumbers == [g \in 1 .. GroupCount |-> g]

LEMMA InOrderIs ==
  ASSUME file \in StoreFile, NEW S, NEW f, Keeps(f, GroupNumbers, S, GroupCount)
  PROVE  Store!InOrder(S) = f[GroupCount]
<1>1. Store!InOrder(S) = Store!Picked(GroupNumbers, S)
  BY FileIs DEF Store!InOrder, GroupNumbers
<1>2. Len(GroupNumbers) = GroupCount /\ GroupCount \in Nat
  BY FileIs DEF GroupNumbers
<1>. QED
  BY <1>1, <1>2, StorePickedIs

LEMMA InOrderOrdered ==
  ASSUME file \in StoreFile, NEW S
  PROVE  Ordered(Store!InOrder(S), S, GroupCount)
<1>1. GroupCount \in Nat /\ GroupCount \in 0 .. GroupCount /\ \A i \in 1 .. GroupCount : GroupNumbers[i] = i
  BY FileIs DEF GroupNumbers
<1>2. PICK f : Keeps(f, GroupNumbers, S, GroupCount)
  BY <1>1, KeepsExists
<1>3. \A m \in 0 .. GroupCount : Ordered(f[m], S, m)
  BY <1>1, <1>2, OrderedIs
<1>4. Store!InOrder(S) = f[GroupCount]
  BY <1>2, InOrderIs
<1>. QED
  BY <1>1, <1>3, <1>4

LEMMA InOrderOfAll ==
  ASSUME file \in StoreFile
  PROVE  Store!InOrder(Store!Groups) = GroupNumbers
<1>1. Store!InOrder(Store!Groups) = Store!Picked(GroupNumbers, Store!Groups)
  BY FileIs DEF Store!InOrder, GroupNumbers
<1>2. GroupCount \in Nat /\ Store!Groups = 1 .. GroupCount
  BY FileIs
<1>3. GroupNumbers \in Seq(Nat) /\ Len(GroupNumbers) = GroupCount
  BY <1>2 DEF GroupNumbers
<1>. QED
  BY <1>1, <1>2, <1>3, PickedEverything

\* When the groups that are not read hold no wanted row, the answers of those that
\* are, one after the other, are the answer of the file.
LEMMA TodoAnswers ==
  ASSUME file \in StoreFile, NEW q, NEW S, NEW R,
         \A g \in 1 .. GroupCount : R[g] = Store!Answered(q, Store!Rows(g)),
         \A g \in 1 .. GroupCount : g \in S \/ \A i \in 1 .. Store!NumRows(g) : ~Store!Wanted(q, Store!Rows(g)[i])
  PROVE  Store!Joined(Mapped(Store!InOrder(S), R)) = Store!Answered(q, Store!AllRows)
<1>. DEFINE N == GroupCount
            J(l) == Store!Joined(Mapped(l, R))
            A(s) == Store!Answered(q, s)
<1>1. N \in Nat /\ \A g \in 1 .. N : GroupNumbers[g] = g
  BY FileIs DEF GroupNumbers
<1>2. PICK h : Keeps(h, GroupNumbers, S, N)
  BY <1>1, KeepsExists
<1>3. PICK f : Prefixes(f)
  BY PrefixesExist
<1>4. \A m \in 0 .. N : f[m] \in Seq(Store!Row)
  BY <1>3, RowPlaces
<1>5. \A m \in 0 .. N : h[m] \in Seq(Nat)
  BY <1>1, <1>2, OrderedIs DEF Ordered
<1>6. \A g \in 1 .. N : R[g] = A(Store!Rows(g))
  OBVIOUS
<1>7. \A g \in 1 .. N : g \notin S => A(Store!Rows(g)) = <<>>
  <2>. SUFFICES ASSUME NEW g \in 1 .. N, g \notin S PROVE A(Store!Rows(g)) = <<>>
    OBVIOUS
  <2>1. Store!Rows(g) \in Seq(Store!Row) /\ Store!NumRows(g) = Len(Store!Rows(g))
    BY FileIs DEF Store!NumRows
  <2>2. Len(Store!Rows(g)) \in Nat /\ \A i \in 1 .. Len(Store!Rows(g)) : ~Store!Wanted(q, Store!Rows(g)[i])
    BY <2>1, LenProperties
  <2>. QED
    BY <2>2, AnsweredNothing
<1>8. A(<<>>) = <<>>
  <2>1. Len(<<>>) = 0 /\ 1 .. 0 = {}
    BY EmptySeq
  <2>. QED
    BY <2>1, AnsweredNothing
<1>9. J(<<>>) = <<>>
  BY JoinedEmpty
<1>10. ASSUME NEW m \in 1 .. N PROVE A(f[m]) = Cat(A(f[m - 1]), R[m]) /\ R[m] = A(Store!Rows(m))
  <2>1. f[m] = Cat(f[m - 1], GroupRows[m]) /\ GroupRows[m] = Store!Rows(m) /\ Store!Rows(m) \in Seq(Store!Row)
    <3>1. f[m] = Cat(f[m - 1], GroupRows[m])
      BY <1>1, <1>3, GlueNext DEF Prefixes
    <3>2. GroupRows[m] = Store!Rows(m) /\ Store!Rows(m) \in Seq(Store!Row)
      BY FileIs
    <3>. QED
      BY <3>1, <3>2
  <2>2. f[m - 1] \in Seq(Store!Row)
    BY <1>1, <1>4
  <2>3. A(Cat(f[m - 1], Store!Rows(m))) = Cat(A(f[m - 1]), A(Store!Rows(m)))
    BY <2>1, <2>2, AnsweredConcat
  <2>. QED
    BY <1>6, <2>1, <2>3
<1>11. ASSUME NEW m \in 1 .. N, m \in S PROVE J(h[m]) = Cat(J(h[m - 1]), R[m])
  <2>1. h[m] = Append(h[m - 1], m)
    <3>1. h[m] = IF m \in S THEN Append(h[m - 1], GroupNumbers[m]) ELSE h[m - 1]
      BY <1>1, <1>2, KeepsNext
    <3>. QED
      BY <1>1, <1>11, <3>1
  <2>2. h[m - 1] \in Seq(Nat) /\ m \in Nat
    BY <1>1, <1>5
  <2>. QED
    BY <2>1, <2>2, JoinedAppend
<1>12. ASSUME NEW m \in 1 .. N, m \notin S PROVE h[m] = h[m - 1]
  <2>1. h[m] = IF m \in S THEN Append(h[m - 1], GroupNumbers[m]) ELSE h[m - 1]
    BY <1>1, <1>2, KeepsNext
  <2>. QED
    BY <1>12, <2>1
<1>13. \A m \in 0 .. N : A(f[m]) \in Seq({Store!Result(q, r) : r \in Store!Row})
  <2>. SUFFICES ASSUME NEW m \in 0 .. N PROVE A(f[m]) \in Seq({Store!Result(q, r) : r \in Store!Row})
    OBVIOUS
  <2>. QED
    BY <1>4, AnsweredSeq
<1>14. h[0] = <<>> /\ f[0] = <<>>
  BY <1>1, <1>2, <1>3, KeepsFirst, GlueFirst DEF Prefixes
<1>15. Store!InOrder(S) = h[N] /\ Store!AllRows = f[N]
  BY <1>2, <1>3, InOrderIs, AllRowsIs
<1>. HIDE DEF J, A
<1>. DEFINE T == {m \in 0 .. N : J(h[m]) # A(f[m])}
<1>16. ASSUME T # {} PROVE FALSE
  <2>0. T \subseteq Nat
    BY <1>1
  <2>1. PICK m \in T : \A y \in T : m <= y
    BY <1>16, <2>0, LeastElement
  <2>2. CASE m = 0
    BY <1>8, <1>9, <1>14, <2>1, <2>2
  <2>3. CASE m # 0
    <3>1. m \in 1 .. N /\ m - 1 \in 0 .. N /\ m - 1 \notin T
      BY <1>1, <2>1, <2>3
    <3>2. J(h[m - 1]) = A(f[m - 1])
      BY <3>1
    <3>3. A(f[m]) = Cat(A(f[m - 1]), R[m]) /\ R[m] = A(Store!Rows(m))
      BY <3>1, <1>10
    <3>4. CASE m \in S
      BY <1>11, <2>1, <3>1, <3>2, <3>3, <3>4
    <3>5. CASE m \notin S
      <4>1. R[m] = <<>> /\ h[m] = h[m - 1]
        BY <1>7, <1>12, <3>1, <3>3, <3>5
      <4>2. Cat(A(f[m - 1]), <<>>) = A(f[m - 1])
        BY <1>13, <3>1, ConcatEmptySeq DEF Cat
      <4>. QED
        BY <2>1, <3>2, <3>3, <4>1, <4>2
    <3>. QED
      BY <3>4, <3>5
  <2>. QED
    BY <2>2, <2>3
<1>17. J(h[N]) = A(f[N])
  BY <1>1, <1>16
<1>. QED
  BY <1>15, <1>17 DEF J, A

-----------------------------------------------------------------------------
(* Where a row stands. *)

\* The row j of the group g stands in the file where the rows before the group end.
LEMMA RowAt ==
  ASSUME file \in StoreFile, NEW f, Prefixes(f), NEW g \in 1 .. GroupCount, NEW j \in 1 .. Store!NumRows(g)
  PROVE  /\ Len(f[g - 1]) \in Nat /\ Len(f[g]) \in Nat /\ j \in Nat
         /\ Len(f[g - 1]) + j \in 1 .. Len(Store!AllRows)
         /\ Len(f[g - 1]) + j <= Len(f[g])
         /\ Store!AllRows[Len(f[g - 1]) + j] = Store!Rows(g)[j]
<1>1. GroupCount \in Nat /\ GroupRows[g] = Store!Rows(g) /\ Len(GroupRows[g]) = Store!NumRows(g)
  BY FileIs DEF Store!NumRows
<1>2. GroupCount \in 0 .. GroupCount /\ g \in 0 .. GroupCount /\ g - 1 \in 0 .. g /\ g - 1 \in 0 .. GroupCount /\ g \in 1 .. g
  BY <1>1
<1>3. GlueOf(f, GroupRows, GroupCount) /\ GlueOf(f, GroupRows, g) /\ Store!AllRows = f[GroupCount]
  BY <1>2, RowPlaces, AllRowsIs
<1>4. Len(f[g - 1]) \in Nat /\ Len(f[g]) \in Nat
  BY <1>2, <1>3 DEF GlueOf
<1>5. Len(f[g - 1]) + j \in 1 .. Len(f[g])
  BY <1>1, <1>2, <1>3 DEF GlueOf
<1>6. Len(f[g - 1]) + j \in 1 .. Len(f[GroupCount]) /\ f[GroupCount][Len(f[g - 1]) + j] = GroupRows[g][j]
  BY <1>1, <1>3 DEF GlueOf
<1>7. j \in Nat
  OBVIOUS
<1>. QED
  BY <1>1, <1>3, <1>4, <1>5, <1>6, <1>7

LEMMA RowFrom ==
  ASSUME file \in StoreFile, NEW f, Prefixes(f), NEW i \in 1 .. Len(Store!AllRows)
  PROVE  \E g \in 1 .. GroupCount : \E j \in 1 .. Store!NumRows(g) : i = Len(f[g - 1]) + j
<1>1. GroupCount \in Nat /\ \A g \in 1 .. GroupCount : Len(GroupRows[g]) = Store!NumRows(g)
  BY FileIs DEF Store!NumRows
<1>2. GroupCount \in 0 .. GroupCount
  BY <1>1
<1>3. GlueOf(f, GroupRows, GroupCount) /\ Store!AllRows = f[GroupCount]
  BY <1>2, RowPlaces, AllRowsIs
<1>. QED
  BY <1>1, <1>3 DEF GlueOf

LEMMA PlacesOrdered ==
  ASSUME file \in StoreFile, NEW f, Prefixes(f),
         NEW g \in 1 .. GroupCount, NEW j \in 1 .. Store!NumRows(g),
         NEW h \in 1 .. GroupCount, NEW i \in 1 .. Store!NumRows(h),
         Len(f[g - 1]) + j <= Len(f[h - 1]) + i
  PROVE  g <= h /\ (g = h => j <= i)
<1>0. GroupCount \in Nat
  BY FileIs
<1>1. Len(f[g - 1]) \in Nat /\ j \in Nat /\ Len(f[g - 1]) + j <= Len(f[g])
  BY RowAt
<1>2. Len(f[h - 1]) \in Nat /\ i \in Nat /\ Len(f[h - 1]) + i <= Len(f[h]) /\ Len(f[h]) \in Nat
  BY RowAt
<1>3. ASSUME h < g PROVE FALSE
  <2>1. g - 1 \in 0 .. GroupCount /\ h \in 0 .. g - 1
    BY <1>0, <1>3
  <2>2. GlueOf(f, GroupRows, g - 1)
    BY <2>1, RowPlaces
  <2>3. Len(f[h]) <= Len(f[g - 1])
    BY <2>1, <2>2 DEF GlueOf
  <2>4. j >= 1
    OBVIOUS
  <2>. QED
    BY <1>1, <1>2, <2>3, <2>4, SMTT(40)
<1>4. g = h => j <= i
  BY <1>1, <1>2
<1>. QED
  BY <1>0, <1>3, <1>4

LEMMA PlacesApart ==
  ASSUME file \in StoreFile, NEW f, Prefixes(f),
         NEW g \in 1 .. GroupCount, NEW j \in 1 .. Store!NumRows(g),
         NEW h \in 1 .. GroupCount, NEW i \in 1 .. Store!NumRows(h),
         Len(f[g - 1]) + j = Len(f[h - 1]) + i
  PROVE  g = h /\ j = i
<1>0. GroupCount \in Nat
  BY FileIs
<1>1. Len(f[g - 1]) \in Nat /\ j \in Nat /\ Len(f[h - 1]) \in Nat /\ i \in Nat
  BY RowAt
<1>2. Len(f[g - 1]) + j <= Len(f[h - 1]) + i /\ Len(f[h - 1]) + i <= Len(f[g - 1]) + j
  BY <1>1
<1>3. g <= h /\ (g = h => j <= i)
  BY <1>2, PlacesOrdered
<1>4. h <= g /\ (h = g => i <= j)
  BY <1>2, PlacesOrdered
<1>. QED
  BY <1>0, <1>1, <1>3, <1>4

\* The group that the row i of the file is in.
GroupAt(i) ==
  CHOOSE g \in Store!Groups :
    Len(Store!RowsOf(file, g - 1)) < i /\ i <= Len(Store!RowsOf(file, g))

LEMMA GroupAtIs ==
  ASSUME file \in StoreFile, NEW f, Prefixes(f), NEW g \in 1 .. GroupCount, NEW j \in 1 .. Store!NumRows(g)
  PROVE  GroupAt(Len(f[g - 1]) + j) = g
<1>. DEFINE i == Len(f[g - 1]) + j
            Q(h) == h \in Store!Groups /\ Len(Store!RowsOf(file, h - 1)) < i /\ i <= Len(Store!RowsOf(file, h))
<1>0. GroupCount \in Nat /\ Store!Groups = 1 .. GroupCount
  BY FileIs
<1>1. Len(f[g - 1]) \in Nat /\ Len(f[g]) \in Nat /\ j \in Nat /\ i <= Len(f[g])
  BY RowAt
<1>2. \A h \in 1 .. GroupCount : Store!RowsOf(file, h) = f[h] /\ Store!RowsOf(file, h - 1) = f[h - 1]
  <2>. SUFFICES ASSUME NEW h \in 1 .. GroupCount
                PROVE  Store!RowsOf(file, h) = f[h] /\ Store!RowsOf(file, h - 1) = f[h - 1]
    OBVIOUS
  <2>1. h \in 0 .. GroupCount /\ h - 1 \in 0 .. GroupCount
    BY <1>0
  <2>2. Store!RowsOf(file, h) = f[h]
    BY <2>1, RowsOfIs
  <2>3. Store!RowsOf(file, h - 1) = f[h - 1]
    BY <2>1, RowsOfIs
  <2>. QED
    BY <2>2, <2>3
<1>3. Q(g)
  <2>1. j >= 1
    OBVIOUS
  <2>. QED
    BY <1>0, <1>1, <1>2, <2>1
<1>4. ASSUME NEW h, Q(h) PROVE h = g
  <2>1. h \in 1 .. GroupCount /\ Len(f[h - 1]) < i /\ i <= Len(f[h])
    BY <1>0, <1>2, <1>4
  <2>2. ASSUME h < g PROVE FALSE
    <3>1. g - 1 \in 0 .. GroupCount /\ h \in 0 .. g - 1
      BY <1>0, <2>1, <2>2
    <3>2. GlueOf(f, GroupRows, g - 1)
      BY <3>1, RowPlaces
    <3>3. Len(f[h]) <= Len(f[g - 1]) /\ Len(f[h]) \in Nat
      BY <3>1, <3>2 DEF GlueOf
    <3>4. j >= 1
      OBVIOUS
    <3>. QED
      BY <1>1, <2>1, <3>3, <3>4
  <2>3. ASSUME g < h PROVE FALSE
    <3>1. h - 1 \in 0 .. GroupCount /\ g \in 0 .. h - 1
      BY <1>0, <2>1, <2>3
    <3>2. GlueOf(f, GroupRows, h - 1)
      BY <3>1, RowPlaces
    <3>3. h - 1 \in 0 .. h - 1
      BY <3>1
    <3>4. Len(f[g]) <= Len(f[h - 1]) /\ Len(f[h - 1]) \in Nat
      BY <3>1, <3>2, <3>3 DEF GlueOf
    <3>. QED
      BY <1>1, <2>1, <3>4
  <2>. QED
    BY <1>0, <2>1, <2>2, <2>3
<1>5. GroupAt(i) = CHOOSE h : Q(h)
  BY DEF GroupAt
<1>. HIDE DEF Q
<1>6. Q(CHOOSE h : Q(h))
  BY <1>3
<1>. QED
  BY <1>4, <1>5, <1>6

-----------------------------------------------------------------------------
(* Skipped row groups hold no wanted row. *)

LEMMA LeastOfList ==
  ASSUME NEW n \in Nat, n # 0, NEW f, \A i \in 1 .. n : f[i] \in Int
  PROVE  \E i \in 1 .. n : \A j \in 1 .. n : f[i] <= f[j]
<1>. DEFINE least(m) == \E i \in 1 .. m : \A j \in 1 .. m : f[i] <= f[j]
            T == {m \in 1 .. n : ~least(m)}
<1>1. ASSUME T # {} PROVE FALSE
  <2>0. T \subseteq Nat
    OBVIOUS
  <2>1. PICK m \in T : \A y \in T : m <= y
    BY <1>1, <2>0, LeastElement
  <2>2. CASE m = 1
    <3>1. 1 .. 1 = {1} /\ f[1] \in Int /\ f[1] <= f[1]
      BY <2>1
    <3>. QED
      BY <2>1, <2>2, <3>1
  <2>3. CASE m # 1
    <3>1. m - 1 \in 1 .. n /\ m - 1 \notin T /\ m \in 1 .. n
      <4>1. m \in 1 .. n
        BY <2>1
      <4>. HIDE DEF T
      <4>2. m - 1 \in T => m <= m - 1
        BY <2>1
      <4>. QED
        BY <2>3, <4>1, <4>2
    <3>2. PICK i \in 1 .. m - 1 : \A j \in 1 .. m - 1 : f[i] <= f[j]
      BY <3>1
    <3>3. \A j \in 1 .. m : j = m \/ j \in 1 .. m - 1
      BY <3>1
    <3>4. i \in 1 .. m /\ m \in 1 .. m /\ f[i] \in Int /\ f[m] \in Int /\ \A j \in 1 .. m : f[j] \in Int
      BY <3>1
    <3>5. CASE f[i] <= f[m]
      <4>1. \A j \in 1 .. m : f[i] <= f[j]
        BY <3>2, <3>3, <3>5
      <4>. QED
        BY <2>1, <3>4, <4>1
    <3>6. CASE f[m] <= f[i]
      <4>1. ASSUME NEW j \in 1 .. m PROVE f[m] <= f[j]
        <5>1. CASE j = m
          BY <3>4, <5>1
        <5>2. CASE j \in 1 .. m - 1
          BY <3>2, <3>4, <3>6, <5>2
        <5>. QED
          BY <3>3, <5>1, <5>2
      <4>. QED
        BY <2>1, <3>4, <4>1
    <3>. QED
      BY <3>4, <3>5, <3>6
  <2>. QED
    BY <2>2, <2>3
<1>2. n \in 1 .. n
  OBVIOUS
<1>3. least(n)
  <2>. HIDE DEF least
  <2>. QED
    BY <1>1, <1>2
<1>. QED
  BY <1>3

LEMMA MinOfList ==
  ASSUME NEW n \in Nat, n # 0, NEW f, \A i \in 1 .. n : f[i] \in Int
  PROVE  Store!Min({f[i] : i \in 1 .. n}) \in Int /\ \A j \in 1 .. n : Store!Min({f[i] : i \in 1 .. n}) <= f[j]
<1>. DEFINE S == {f[i] : i \in 1 .. n}
            Q(x) == x \in S /\ \A y \in S : x <= y
<1>1. PICK i \in 1 .. n : \A j \in 1 .. n : f[i] <= f[j]
  BY LeastOfList
<1>2. Q(f[i])
  BY <1>1
<1>3. Store!Min(S) = CHOOSE x : Q(x)
  BY DEF Store!Min
<1>. HIDE DEF Q
<1>4. Q(Store!Min(S))
  BY <1>2, <1>3, Zenon
<1>. QED
  BY <1>4 DEF Q

LEMMA MaxOfList ==
  ASSUME NEW n \in Nat, n # 0, NEW f, \A i \in 1 .. n : f[i] \in Int
  PROVE  Store!Max({f[i] : i \in 1 .. n}) \in Int /\ \A j \in 1 .. n : f[j] <= Store!Max({f[i] : i \in 1 .. n})
<1>. DEFINE S == {f[i] : i \in 1 .. n}
            Q(x) == x \in S /\ \A y \in S : x >= y
            h == [i \in 1 .. n |-> 0 - f[i]]
<1>1. PICK i \in 1 .. n : \A j \in 1 .. n : h[i] <= h[j]
  <2>1. \A i \in 1 .. n : h[i] \in Int
    OBVIOUS
  <2>. HIDE DEF h
  <2>. QED
    BY <2>1, LeastOfList
<1>2. Q(f[i])
  <2>1. ASSUME NEW j \in 1 .. n PROVE f[i] >= f[j]
    <3>1. h[i] <= h[j] /\ h[i] = 0 - f[i] /\ h[j] = 0 - f[j] /\ f[i] \in Int /\ f[j] \in Int
      BY <1>1
    <3>. QED
      BY <3>1
  <2>. QED
    BY <2>1
<1>3. Store!Max(S) = CHOOSE x : Q(x)
  BY DEF Store!Max
<1>. HIDE DEF Q, h
<1>4. Q(Store!Max(S))
  BY <1>2, <1>3, Zenon
<1>5. S \subseteq Int
  OBVIOUS
<1>6. \A j \in 1 .. n : f[j] \in S
  OBVIOUS
<1>. HIDE DEF S
<1>7. Store!Max(S) \in Int /\ \A j \in 1 .. n : f[j] <= Store!Max(S)
  BY <1>4, <1>5, <1>6 DEF Q
<1>. QED
  BY <1>7 DEF S

\* The box of a row lies in the envelope of its group.
LEMMA EnvelopeHolds ==
  ASSUME file \in StoreFile, NEW g \in 1 .. GroupCount, NEW i \in 1 .. Store!NumRows(g)
  PROVE  LET e == Store!Envelope(g)
             b == Store!Rows(g)[i].box
         IN  /\ e.x0 \in Int /\ e.y0 \in Int /\ e.x1 \in Int /\ e.y1 \in Int
             /\ b.x0 \in Int /\ b.y0 \in Int /\ b.x1 \in Int /\ b.y1 \in Int
             /\ e.x0 <= b.x0 /\ e.y0 <= b.y0 /\ b.x1 <= e.x1 /\ b.y1 <= e.y1
<1>. DEFINE rows == Store!Rows(g)
            n == Len(rows)
            R == {rows[j].box : j \in 1 .. n}
            fx0 == [j \in 1 .. n |-> rows[j].box.x0]
            fy0 == [j \in 1 .. n |-> rows[j].box.y0]
            fx1 == [j \in 1 .. n |-> rows[j].box.x1]
            fy1 == [j \in 1 .. n |-> rows[j].box.y1]
<1>1. rows \in Seq(Store!Row) /\ Store!NumRows(g) = n
  BY FileIs DEF Store!NumRows
<1>2. n \in Nat /\ n # 0 /\ \A j \in 1 .. n : rows[j] \in Store!Row
  BY <1>1, SeqElements
<1>3. \A j \in 1 .. n : rows[j].box \in Store!Rect
  BY <1>2 DEF Store!Row
<1>4. ASSUME NEW j \in 1 .. n
      PROVE  rows[j].box.x0 \in Int /\ rows[j].box.y0 \in Int /\ rows[j].box.x1 \in Int /\ rows[j].box.y1 \in Int
  <2>1. rows[j].box \in [x0 : Int, y0 : Int, x1 : Int, y1 : Int]
    BY <1>3 DEF Store!Rect
  <2>. QED
    BY <2>1
<1>5. /\ {r.x0 : r \in R} = {fx0[j] : j \in 1 .. n}
      /\ {r.y0 : r \in R} = {fy0[j] : j \in 1 .. n}
      /\ {r.x1 : r \in R} = {fx1[j] : j \in 1 .. n}
      /\ {r.y1 : r \in R} = {fy1[j] : j \in 1 .. n}
  OBVIOUS
<1>6. Store!Envelope(g) =
        [x0 |-> Store!Min({fx0[j] : j \in 1 .. n}), y0 |-> Store!Min({fy0[j] : j \in 1 .. n}),
         x1 |-> Store!Max({fx1[j] : j \in 1 .. n}), y1 |-> Store!Max({fy1[j] : j \in 1 .. n})]
  <2>1. Store!Envelope(g) =
          [x0 |-> Store!Min({r.x0 : r \in R}), y0 |-> Store!Min({r.y0 : r \in R}),
           x1 |-> Store!Max({r.x1 : r \in R}), y1 |-> Store!Max({r.y1 : r \in R})]
    BY <1>1 DEF Store!Envelope
  <2>. HIDE DEF R, fx0, fy0, fx1, fy1
  <2>. QED
    BY <1>5, <2>1
<1>7. /\ \A j \in 1 .. n : fx0[j] \in Int /\ fx0[j] = rows[j].box.x0
      /\ \A j \in 1 .. n : fy0[j] \in Int /\ fy0[j] = rows[j].box.y0
      /\ \A j \in 1 .. n : fx1[j] \in Int /\ fx1[j] = rows[j].box.x1
      /\ \A j \in 1 .. n : fy1[j] \in Int /\ fy1[j] = rows[j].box.y1
  BY <1>4
<1>. HIDE DEF fx0, fy0, fx1, fy1, n, rows
<1>8. Store!Min({fx0[j] : j \in 1 .. n}) \in Int /\ \A j \in 1 .. n : Store!Min({fx0[v] : v \in 1 .. n}) <= fx0[j]
  BY <1>2, <1>7, MinOfList
<1>9. Store!Min({fy0[j] : j \in 1 .. n}) \in Int /\ \A j \in 1 .. n : Store!Min({fy0[v] : v \in 1 .. n}) <= fy0[j]
  BY <1>2, <1>7, MinOfList
<1>10. Store!Max({fx1[j] : j \in 1 .. n}) \in Int /\ \A j \in 1 .. n : fx1[j] <= Store!Max({fx1[v] : v \in 1 .. n})
  BY <1>2, <1>7, MaxOfList, ZenonT(60)
<1>11. Store!Max({fy1[j] : j \in 1 .. n}) \in Int /\ \A j \in 1 .. n : fy1[j] <= Store!Max({fy1[v] : v \in 1 .. n})
  BY <1>2, <1>7, MaxOfList, ZenonT(60)
<1>. DEFINE ex0 == Store!Min({fx0[j] : j \in 1 .. n})
            ey0 == Store!Min({fy0[j] : j \in 1 .. n})
            ex1 == Store!Max({fx1[j] : j \in 1 .. n})
            ey1 == Store!Max({fy1[j] : j \in 1 .. n})
<1>12. /\ Store!Envelope(g).x0 = ex0 /\ Store!Envelope(g).y0 = ey0
       /\ Store!Envelope(g).x1 = ex1 /\ Store!Envelope(g).y1 = ey1
  <2>. HIDE DEF ex0, ey0, ex1, ey1
  <2>1. Store!Envelope(g) = [x0 |-> ex0, y0 |-> ey0, x1 |-> ex1, y1 |-> ey1]
    BY <1>6 DEF ex0, ey0, ex1, ey1
  <2>. QED
    BY <2>1
<1>13. /\ ex0 \in Int /\ ey0 \in Int /\ ex1 \in Int /\ ey1 \in Int
       /\ ex0 <= fx0[i] /\ ey0 <= fy0[i] /\ fx1[i] <= ex1 /\ fy1[i] <= ey1
  BY <1>1, <1>8, <1>9, <1>10, <1>11
<1>14. i \in 1 .. n
  BY <1>1
<1>. HIDE DEF ex0, ey0, ex1, ey1
<1>. QED
  BY <1>7, <1>12, <1>13, <1>14 DEF rows

\* A box that is kept has the rows of its group inside: what does not meet it is
\* not wanted by a query for a box.
LEMMA MatchingHolds ==
  ASSUME file \in StoreFile, boxes = [g \in Store!Groups |-> Store!GroupBox(g)],
         NEW q, q.kind = "by_bbox", q.box \in Store!Rect
  PROVE  \A g \in 1 .. GroupCount :
           g \in Store!Matching(q.box) \/ \A i \in 1 .. Store!NumRows(g) : ~Store!Wanted(q, Store!Rows(g)[i])
<1>. SUFFICES ASSUME NEW g \in 1 .. GroupCount, g \notin Store!Matching(q.box),
                     NEW i \in 1 .. Store!NumRows(g), Store!Wanted(q, Store!Rows(g)[i])
              PROVE  FALSE
  OBVIOUS
<1>. DEFINE e == Store!Envelope(g)
            b == Store!Rows(g)[i].box
            c == q.box
<1>1. Store!Groups = 1 .. GroupCount
  BY FileIs
<1>2. boxes[g] # None /\ ~Store!Intersects(boxes[g], c)
  BY <1>1 DEF Store!Matching
<1>3. boxes[g] = Store!GroupBox(g)
  BY <1>1
<1>4. boxes[g] = e
  BY <1>2, <1>3 DEF Store!GroupBox
<1>5. Store!Intersects(b, c)
  BY DEF Store!Wanted
<1>6. c.x0 \in Int /\ c.y0 \in Int /\ c.x1 \in Int /\ c.y1 \in Int
  <2>1. c \in [x0 : Int, y0 : Int, x1 : Int, y1 : Int]
    BY DEF Store!Rect
  <2>. QED
    BY <2>1
<1>7. /\ e.x0 \in Int /\ e.y0 \in Int /\ e.x1 \in Int /\ e.y1 \in Int
      /\ b.x0 \in Int /\ b.y0 \in Int /\ b.x1 \in Int /\ b.y1 \in Int
      /\ e.x0 <= b.x0 /\ e.y0 <= b.y0 /\ b.x1 <= e.x1 /\ b.y1 <= e.y1
  BY EnvelopeHolds
<1>. HIDE DEF e, b, c
<1>8. b.x0 <= c.x1 /\ c.x0 <= b.x1 /\ b.y0 <= c.y1 /\ c.y0 <= b.y1
  BY <1>5 DEF Store!Intersects
<1>9. Store!Intersects(e, c)
  BY <1>6, <1>7, <1>8 DEF Store!Intersects
<1>. QED
  BY <1>2, <1>4, <1>9

-----------------------------------------------------------------------------
(* The id index. *)

\* No id stands in two rows.
RowsApart == \A i, j \in 1 .. Len(Store!AllRows) : Store!AllRows[i].id = Store!AllRows[j].id => i = j

RowIds == {Store!AllRows[i].id : i \in 1 .. Len(Store!AllRows)}

GroupHolds(g, u) == \E i \in 1 .. Store!NumRows(g) : Store!Rows(g)[i].id = u

\* x has every id of the file, with the group its row is in.
Indexes(x) ==
  /\ RowsApart
  /\ x \in [RowIds -> 1 .. GroupCount]
  /\ \A u \in RowIds : GroupHolds(x[u], u)

\* A group that the index does not give for an id of the query holds no row of it.
LEMMA SelectedHolds ==
  ASSUME file \in StoreFile, Indexes(index), NEW q, q.kind \in {"by_ids", "geometries"}
  PROVE  \A g \in 1 .. GroupCount :
           g \in Store!Selected(q.ids) \/ \A i \in 1 .. Store!NumRows(g) : ~Store!Wanted(q, Store!Rows(g)[i])
<1>. SUFFICES ASSUME NEW g \in 1 .. GroupCount, NEW i \in 1 .. Store!NumRows(g), Store!Wanted(q, Store!Rows(g)[i])
              PROVE  g \in Store!Selected(q.ids)
  OBVIOUS
<1>. DEFINE u == Store!Rows(g)[i].id
<1>1. PICK l \in 1 .. Len(q.ids) : q.ids[l] = u
  BY DEF Store!Wanted
<1>2. PICK f : Prefixes(f)
  BY PrefixesExist
<1>3. /\ Len(f[g - 1]) + i \in 1 .. Len(Store!AllRows)
      /\ Store!AllRows[Len(f[g - 1]) + i] = Store!Rows(g)[i]
  BY <1>2, RowAt
<1>4. u \in RowIds
  BY <1>3 DEF RowIds
<1>. DEFINE h == index[u]
<1>5. h \in 1 .. GroupCount /\ GroupHolds(h, u) /\ DOMAIN index = RowIds
  BY <1>4 DEF Indexes
<1>6. PICK j \in 1 .. Store!NumRows(h) : Store!Rows(h)[j].id = u
  BY <1>5 DEF GroupHolds
<1>7. /\ Len(f[h - 1]) + j \in 1 .. Len(Store!AllRows)
      /\ Store!AllRows[Len(f[h - 1]) + j] = Store!Rows(h)[j]
  BY <1>2, <1>5, RowAt
<1>. HIDE DEF h
<1>8. Len(f[g - 1]) + i = Len(f[h - 1]) + j
  BY <1>3, <1>6, <1>7 DEF Indexes, RowsApart
<1>9. g = h
  BY <1>2, <1>5, <1>8, PlacesApart
<1>10. q.ids[l] \in DOMAIN index /\ index[q.ids[l]] = g
  BY <1>1, <1>4, <1>5, <1>9 DEF h
<1>. QED
  BY <1>10 DEF Store!Selected

\* The groups a query reads hold the rows it is about.
LEMMA ToReadHolds ==
  ASSUME file \in StoreFile, boxes = [g \in Store!Groups |-> Store!GroupBox(g)], Indexes(index),
         NEW q \in StoreRequest
  PROVE  \E S : /\ Store!ToRead(q) = Store!InOrder(S)
                /\ \A g \in 1 .. GroupCount :
                     g \in S \/ \A i \in 1 .. Store!NumRows(g) : ~Store!Wanted(q, Store!Rows(g)[i])
<1>1. \/ q.kind \in {"by_ids", "geometries"}
      \/ q.kind = "by_bbox" /\ q.box \in Store!Rect
      \/ q.kind = "id_levels"
  BY StoreAssumption DEF Store!CatchmentAssumption, Store!IsRequest
<1>2. CASE q.kind \in {"by_ids", "geometries"}
  <2>1. Store!ToRead(q) = Store!InOrder(Store!Selected(q.ids))
    BY <1>2 DEF Store!ToRead
  <2>. QED
    BY <1>2, <2>1, SelectedHolds
<1>3. CASE q.kind = "by_bbox" /\ q.box \in Store!Rect
  <2>1. Store!ToRead(q) = Store!InOrder(Store!Matching(q.box))
    BY <1>3 DEF Store!ToRead
  <2>. QED
    BY <1>3, <2>1, MatchingHolds
<1>4. CASE q.kind = "id_levels"
  <2>1. Store!ToRead(q) = Store!InOrder(Store!Groups) /\ Store!Groups = 1 .. GroupCount
    BY <1>4, FileIs DEF Store!ToRead
  <2>. QED
    BY <2>1
<1>. QED
  BY <1>1, <1>2, <1>3, <1>4

-----------------------------------------------------------------------------
(* The reads of a query. *)

LEMMA ErrorsAreNot ==
  ASSUME NEW e \in [kind : Store!Kinds, at : Nat \cup {None}]
  PROVE  e # None
BY StoreAssumption DEF Store!CatchmentAssumption

LEMMA StoreMinIs ==
  ASSUME NEW S, S \subseteq Nat, S # {}
  PROVE  Store!Min(S) \in S /\ \A y \in S : Store!Min(S) <= y
<1>. DEFINE P(x) == x \in S /\ \A y \in S : x <= y
<1>1. \E x : P(x)
  BY LeastElement
<1>2. P(CHOOSE x : P(x))
  <2>. HIDE DEF P
  <2>. QED
    BY <1>1, Zenon
<1>. QED
  BY <1>2 DEF Store!Min

\* The first faulty row of a group, and where it stands in the group.
Blames(q, g, i) ==
  /\ i \in 1 .. Store!NumRows(g) /\ Store!Faulty(q, Store!Rows(g)[i])
  /\ \A j \in 1 .. Store!NumRows(g) : j < i => ~Store!Faulty(q, Store!Rows(g)[j])

Clean(q, g) == \A i \in 1 .. Store!NumRows(g) : ~Store!Faulty(q, Store!Rows(g)[i])

LEMMA ReadOfIs ==
  ASSUME file \in StoreFile, NEW g \in 1 .. GroupCount, NEW q
  PROVE  \/ /\ Clean(q, g)
            /\ Store!ReadOf(q, g) = [err |-> None, rows |-> Store!Answered(q, Store!Rows(g))]
         \/ \E i : /\ Blames(q, g, i)
                   /\ Store!ReadOf(q, g) =
                        [err |-> Store!FaultOf(q, Store!Rows(g)[i], Store!AbsoluteRowStart(g) + i - 1), rows |-> <<>>]
                   /\ Store!ReadOf(q, g).err # None
<1>. DEFINE rows == Store!Rows(g)
            n == Len(rows)
            T == {i \in 1 .. n : Store!Faulty(q, rows[i])}
<1>1. rows \in Seq(Store!Row) /\ Store!NumRows(g) = n
  BY FileIs DEF Store!NumRows
<1>2. n \in Nat /\ \A i \in 1 .. n : rows[i] \in Store!Row
  BY <1>1, SeqElements
<1>3. CASE T = {}
  <2>1. Store!ReadOf(q, g) = [err |-> None, rows |-> Store!Answered(q, rows)]
    BY <1>3 DEF Store!ReadOf
  <2>. QED
    BY <1>1, <1>3, <2>1 DEF Clean
<1>4. CASE T # {}
  <2>. DEFINE i == Store!Min(T)
              e == Store!FaultOf(q, rows[i], Store!AbsoluteRowStart(g) + i - 1)
  <2>1. Store!ReadOf(q, g) = [err |-> e, rows |-> <<>>]
    BY <1>4 DEF Store!ReadOf
  <2>2. T \subseteq Nat
    OBVIOUS
  <2>. HIDE DEF T
  <2>3. i \in T /\ \A y \in T : i <= y
    BY <1>4, <2>2, StoreMinIs
  <2>. HIDE DEF i
  <2>4. i \in 1 .. n /\ Store!Faulty(q, rows[i]) /\ \A j \in 1 .. n : j < i => ~Store!Faulty(q, rows[j])
    <3>1. i \in 1 .. n /\ Store!Faulty(q, rows[i])
      BY <2>3 DEF T
    <3>2. ASSUME NEW j \in 1 .. n, j < i, Store!Faulty(q, rows[j]) PROVE FALSE
      <4>1. j \in T
        BY <3>2 DEF T
      <4>2. i <= j
        BY <2>3, <4>1
      <4>. QED
        BY <3>1, <3>2, <4>2
    <3>. QED
      BY <3>1, <3>2
  <2>5. Blames(q, g, i)
    BY <1>1, <2>4 DEF Blames
  <2>6. e # None
    <3>1. PICK f : Prefixes(f)
      BY PrefixesExist
    <3>2. Store!AbsoluteRowStart(g) = Len(f[g - 1])
      BY <3>1, AbsoluteRowStartIs
    <3>3. Len(f[g - 1]) \in Nat /\ i \in Nat /\ i >= 1
      BY <1>1, <2>4, <3>1, RowAt
    <3>4. Store!AbsoluteRowStart(g) + i - 1 \in Nat
      BY <3>2, <3>3
    <3>5. rows[i].id \in Nat
      BY <1>2, <2>4 DEF Store!Row
    <3>6. e \in [kind : Store!Kinds, at : Nat \cup {None}]
      <4>. DEFINE at == Store!AbsoluteRowStart(g) + i - 1
      <4>. HIDE DEF at
      <4>1. Store!FaultOf(q, rows[i], at) = [kind |-> "decode", at |-> rows[i].id]
            \/ Store!FaultOf(q, rows[i], at) = [kind |-> "invalid_row", at |-> at]
        BY DEF Store!FaultOf
      <4>2. at \in Nat
        BY <3>4 DEF at
      <4>3. Store!FaultOf(q, rows[i], at) \in [kind : Store!Kinds, at : Nat \cup {None}]
        BY <3>5, <4>1, <4>2 DEF Store!Kinds
      <4>. QED
        BY <4>3 DEF at
    <3>. QED
      BY <3>6, ErrorsAreNot
  <2>7. Store!ReadOf(q, g).err = e
    BY <2>1
  <2>. QED
    BY <2>1, <2>5, <2>6, <2>7
<1>. QED
  BY <1>3, <1>4

LEMMA ReadErrorIs ==
  ASSUME NEW g \in Nat
  PROVE  Store!ReadError(g).err # None /\ Store!ReadError(g).err.kind = "read"
<1>1. Store!ReadError(g).err = [kind |-> "read", at |-> g]
  BY DEF Store!ReadError
<1>2. [kind |-> "read", at |-> g] \in [kind : Store!Kinds, at : Nat \cup {None}]
  BY DEF Store!Kinds
<1>. QED
  BY <1>1, <1>2, ErrorsAreNot

\* One read at a time, or as many as `buffered` holds.
WidthOf(q) == IF q.kind \in {"by_ids", "by_bbox"} THEN 1 ELSE StoreConcurrency

\* The reads that ended are of groups of t, each returned its rows or an error, and
\* a sequential scan has not gone past one that is pending.
ReadsOk(q, t, d) ==
  /\ DOMAIN d \subseteq 1 .. Len(t)
  /\ \A p \in DOMAIN d : d[p] = Store!ReadOf(q, t[p]) \/ d[p] = Store!ReadError(t[p])
  /\ WidthOf(q) = 1 => \A p \in DOMAIN d : \A r \in 1 .. p : r \in DOMAIN d

\* A read that returned no error found no fault and returned the rows of its group.
LEMMA CleanRead ==
  ASSUME file \in StoreFile, NEW q, NEW t, NEW d, NEW S, Ordered(t, S, GroupCount),
         ReadsOk(q, t, d), NEW p \in DOMAIN d, d[p].err = None
  PROVE  Clean(q, t[p]) /\ d[p].rows = Store!Answered(q, Store!Rows(t[p]))
<1>1. p \in 1 .. Len(t) /\ t[p] \in 1 .. GroupCount /\ (d[p] = Store!ReadOf(q, t[p]) \/ d[p] = Store!ReadError(t[p]))
  BY DEF ReadsOk, Ordered
<1>. DEFINE g == t[p]
<1>2. g \in 1 .. GroupCount /\ g \in Nat
  BY <1>1
<1>. HIDE DEF g
<1>3. d[p] = Store!ReadOf(q, g)
  <2>1. Store!ReadError(g).err # None
    BY <1>2, ReadErrorIs
  <2>. QED
    BY <1>1, <2>1 DEF g
<1>4. Store!ReadOf(q, g).err = None
  BY <1>3
<1>5. Clean(q, g) /\ Store!ReadOf(q, g) = [err |-> None, rows |-> Store!Answered(q, Store!Rows(g))]
  BY <1>2, <1>4, ReadOfIs
<1>. QED
  BY <1>3, <1>5 DEF g

\* All groups were read without an error: their rows are the answer.
LEMMA RowsCollected ==
  ASSUME file \in StoreFile, NEW q, NEW t, NEW d, NEW S, t = Store!InOrder(S), ReadsOk(q, t, d),
         \A g \in 1 .. GroupCount : g \in S \/ \A i \in 1 .. Store!NumRows(g) : ~Store!Wanted(q, Store!Rows(g)[i]),
         DOMAIN d = 1 .. Len(t), \A p \in DOMAIN d : d[p].err = None
  PROVE  Store!Joined([p \in 1 .. Len(t) |-> d[p].rows]) = Store!Answered(q, Store!AllRows)
<1>. DEFINE R == [g \in 1 .. GroupCount |-> Store!Answered(q, Store!Rows(g))]
<1>1. Ordered(t, S, GroupCount)
  BY InOrderOrdered
<1>2. \A p \in 1 .. Len(t) : t[p] \in 1 .. GroupCount
  BY <1>1 DEF Ordered
<1>3. \A p \in 1 .. Len(t) : d[p].rows = R[t[p]]
  <2>. SUFFICES ASSUME NEW p \in 1 .. Len(t) PROVE d[p].rows = R[t[p]]
    OBVIOUS
  <2>1. d[p].rows = Store!Answered(q, Store!Rows(t[p]))
    BY <1>1, CleanRead
  <2>. QED
    BY <1>2, <2>1
<1>4. \A g \in 1 .. GroupCount : R[g] = Store!Answered(q, Store!Rows(g))
  OBVIOUS
<1>. HIDE DEF R
<1>5. [p \in 1 .. Len(t) |-> d[p].rows] = Mapped(t, R)
  BY <1>3 DEF Mapped
<1>6. Store!Joined(Mapped(Store!InOrder(S), R)) = Store!Answered(q, Store!AllRows)
  BY <1>4, TodoAnswers
<1>. QED
  BY <1>5, <1>6

\* The error that is reported, with q and t what was asked and read.
ErrorReal(q, t, a) ==
  a.err # None =>
    LET n == a.err.at
    IN  CASE a.err.kind = "invalid_row" ->
               /\ n + 1 \in 1 .. Len(Store!AllRows) /\ Store!Faulty(q, Store!AllRows[n + 1])
               /\ \A i \in 1 .. n : Store!Faulty(q, Store!AllRows[i]) =>
                    \A p \in 1 .. Len(t) : t[p] # GroupAt(i)
          [] a.err.kind = "duplicate" ->
               Store!Cardinality({i \in 1 .. Len(Store!AllRows) : Store!AllRows[i].id = n}) > 1
          [] OTHER -> TRUE

\* The first read that failed, in the order of the groups, blames the first faulty
\* row of the groups that were read.
LEMMA ErrorCollected ==
  ASSUME file \in StoreFile, NEW q, NEW t, NEW d, NEW S, Ordered(t, S, GroupCount), ReadsOk(q, t, d),
         DOMAIN d = 1 .. Len(t) \/ WidthOf(q) = 1,
         NEW p \in DOMAIN d, \A r \in DOMAIN d : d[r].err # None => p <= r
  PROVE  ErrorReal(q, t, d[p])
<1>0. GroupCount \in Nat
  BY FileIs
<1>1. /\ t \in Seq(Nat) /\ Len(t) \in Nat /\ DOMAIN d \subseteq 1 .. Len(t) /\ p \in 1 .. Len(t)
      /\ \A r \in 1 .. Len(t) : t[r] \in 1 .. GroupCount
      /\ d[p] = Store!ReadOf(q, t[p]) \/ d[p] = Store!ReadError(t[p])
  BY LenProperties DEF ReadsOk, Ordered
<1>2. \A v, w \in 1 .. Len(t) : v < w => t[v] < t[w]
  BY DEF Ordered
<1>. DEFINE g == t[p]
<1>3. g \in 1 .. GroupCount /\ g \in Nat
  BY <1>1
<1>4. CASE d[p] = Store!ReadError(g)
  <2>1. d[p].err.kind = "read"
    BY <1>3, <1>4, ReadErrorIs
  <2>. QED
    BY <2>1 DEF ErrorReal
<1>5. CASE d[p] = Store!ReadOf(q, g) /\ d[p].err # None
  <2>. HIDE DEF g
  <2>1. PICK i : /\ Blames(q, g, i)
                 /\ Store!ReadOf(q, g) =
                      [err |-> Store!FaultOf(q, Store!Rows(g)[i], Store!AbsoluteRowStart(g) + i - 1), rows |-> <<>>]
    BY <1>3, <1>5, ReadOfIs
  <2>2. PICK f : Prefixes(f)
    BY PrefixesExist
  <2>3. i \in 1 .. Store!NumRows(g) /\ Store!Faulty(q, Store!Rows(g)[i])
    BY <2>1 DEF Blames
  <2>. DEFINE n == Store!AbsoluteRowStart(g) + i - 1
              m == Len(f[g - 1])
  <2>4. /\ m \in Nat /\ i \in Nat /\ i >= 1 /\ m + i \in 1 .. Len(Store!AllRows)
        /\ Store!AllRows[m + i] = Store!Rows(g)[i]
    BY <1>3, <2>2, <2>3, RowAt
  <2>5. n = m + i - 1
    BY <1>3, <2>2, AbsoluteRowStartIs
  <2>6. d[p].err = Store!FaultOf(q, Store!Rows(g)[i], n)
    BY <1>5, <2>1
  <2>. HIDE DEF n, m
  <2>7. n + 1 = m + i /\ n \in Nat
    BY <2>4, <2>5
  <2>8. n + 1 \in 1 .. Len(Store!AllRows) /\ Store!Faulty(q, Store!AllRows[n + 1])
    BY <2>3, <2>4, <2>7
  <2>9. ASSUME NEW x \in 1 .. n, Store!Faulty(q, Store!AllRows[x]), NEW r \in 1 .. Len(t), t[r] = GroupAt(x)
        PROVE  FALSE
    <3>1. x \in 1 .. Len(Store!AllRows)
      <4>1. m + i <= Len(Store!AllRows) /\ Len(Store!AllRows) \in Int
        <5>1. GroupCount \in 0 .. GroupCount
          BY <1>0
        <5>2. f[GroupCount] \in Seq(Store!Row) /\ Store!AllRows = f[GroupCount]
          BY <2>2, <5>1, RowPlaces, AllRowsIs
        <5>3. Len(Store!AllRows) \in Nat
          BY <5>2, LenProperties
        <5>. QED
          BY <2>4, <5>3
      <4>. QED
        BY <2>4, <2>7, <4>1
    <3>2. PICK h \in 1 .. GroupCount : \E j \in 1 .. Store!NumRows(h) : x = Len(f[h - 1]) + j
      BY <2>2, <3>1, RowFrom
    <3>3. PICK j \in 1 .. Store!NumRows(h) : x = Len(f[h - 1]) + j
      BY <3>2
    <3>4. t[r] = h
      BY <2>2, <2>9, <3>3, GroupAtIs
    <3>5. Store!AllRows[x] = Store!Rows(h)[j] /\ Len(f[h - 1]) \in Nat /\ j \in Nat
      BY <2>2, <3>3, RowAt
    <3>6. Len(f[h - 1]) + j <= Len(f[g - 1]) + i
      <4>1. x <= n
        OBVIOUS
      <4>. QED
        BY <2>4, <2>7, <3>3, <3>5, <4>1 DEF m
    <3>7. h <= g /\ (h = g => j <= i)
      BY <1>3, <2>2, <2>3, <3>6, PlacesOrdered
    <3>8. CASE h = g
      <4>1. j # i
        <5>1. x # m + i
          BY <2>4, <2>7
        <5>. QED
          BY <3>3, <3>8, <5>1 DEF m
      <4>2. j < i
        BY <2>4, <3>5, <3>7, <3>8, <4>1
      <4>3. ~Store!Faulty(q, Store!Rows(g)[j])
        BY <2>1, <3>3, <3>8, <4>2 DEF Blames
      <4>. QED
        BY <2>9, <3>5, <3>8, <4>3
    <3>9. CASE h # g
      <4>1. h < g
        BY <1>3, <3>7, <3>9
      <4>2. r < p
        <5>1. ~(p < r) /\ p # r
          <6>1. p < r => t[p] < t[r]
            BY <1>1, <1>2
          <6>. QED
            BY <1>3, <3>4, <4>1, <6>1 DEF g
        <5>. QED
          BY <1>1, <5>1
      <4>3. r \in DOMAIN d
        <5>1. r \in 1 .. p
          BY <1>1, <4>2
        <5>. QED
          BY <5>1 DEF ReadsOk
      <4>4. d[r].err = None
        BY <1>1, <4>2, <4>3
      <4>5. Clean(q, h)
        BY <3>4, <4>3, <4>4, CleanRead
      <4>. QED
        BY <2>9, <3>3, <3>5, <4>5 DEF Clean
    <3>. QED
      BY <3>8, <3>9
  <2>10. CASE d[p].err = [kind |-> "decode", at |-> Store!Rows(g)[i].id]
    <3>1. d[p].err.kind = "decode"
      BY <2>10
    <3>. QED
      BY <3>1 DEF ErrorReal
  <2>11. CASE d[p].err = [kind |-> "invalid_row", at |-> n]
    <3>1. d[p].err.kind = "invalid_row" /\ d[p].err.at = n
      BY <2>11
    <3>. QED
      BY <2>8, <2>9, <3>1 DEF ErrorReal
  <2>. QED
    BY <2>6, <2>10, <2>11 DEF Store!FaultOf
<1>6. CASE d[p].err = None
  BY <1>6 DEF ErrorReal
<1>. QED
  BY <1>1, <1>4, <1>5, <1>6

-----------------------------------------------------------------------------
(* The scan that builds the index. *)

Pieces(t, d, n) ==
  [p \in 1 .. n |->
     [i \in 1 .. Len(d[p].rows) |-> [id |-> d[p].rows[i].id, group |-> t[p]]]]

\* s has the ids of the first rows of the file, in order, with the group of each.
ScansSome(s) ==
  /\ Len(s) <= Len(Store!AllRows) /\ Len(s) \in Nat
  /\ \A i \in 1 .. Len(s) :
       /\ s[i].id = Store!AllRows[i].id /\ s[i].group \in 1 .. GroupCount
       /\ \E j \in 1 .. Store!NumRows(s[i].group) : Store!Rows(s[i].group)[j] = Store!AllRows[i]

\* Those of all rows.
Scans(s) == Len(s) = Len(Store!AllRows) /\ ScansSome(s)

LEMMA AllRowsSeq ==
  ASSUME file \in StoreFile
  PROVE  Store!AllRows \in Seq(Store!Row) /\ Len(Store!AllRows) \in Nat
<1>1. PICK f : Prefixes(f)
  BY PrefixesExist
<1>2. GroupCount \in 0 .. GroupCount
  BY FileIs
<1>3. f[GroupCount] \in Seq(Store!Row) /\ Store!AllRows = f[GroupCount]
  BY <1>1, <1>2, RowPlaces, AllRowsIs
<1>. QED
  BY <1>3, LenProperties

LEMMA CleanReads ==
  ASSUME file \in StoreFile, NEW q, NEW t, NEW d, NEW S, Ordered(t, S, GroupCount),
         ReadsOk(q, t, d), \A p \in DOMAIN d : d[p].err = None
  PROVE  \A p \in DOMAIN d : d[p].rows = Store!Answered(q, Store!Rows(t[p]))
BY CleanRead

LEMMA CatLength ==
  ASSUME NEW S, NEW v \in Seq(S), NEW w \in Seq(S)
  PROVE  Len(Cat(v, w)) = Len(v) + Len(w)
BY ConcatProperties DEF Cat

LEMMA ScannedIs ==
  ASSUME file \in StoreFile, NEW q, q.kind \in {"ids", "ids_levels"}, NEW N \in 0 .. GroupCount,
         NEW d, \A g \in 1 .. N : d[g].rows = Store!Answered(q, Store!Rows(g))
  PROVE  /\ ScansSome(Store!Joined(Pieces(GroupNumbers, d, N)))
         /\ N = GroupCount => Scans(Store!Joined(Pieces(GroupNumbers, d, N)))
<1>. DEFINE E == [id : Nat, group : Nat]
            P == Pieces(GroupNumbers, d, N)
            piece(g) == [i \in 1 .. Store!NumRows(g) |-> [id |-> Store!Rows(g)[i].id, group |-> g]]
<1>1. GroupCount \in Nat /\ N \in Nat /\ N <= GroupCount /\ \A g \in 1 .. N : GroupNumbers[g] = g
  BY FileIs DEF GroupNumbers
<1>2. 1 .. N \subseteq 1 .. GroupCount
  BY <1>1
<1>3. ASSUME NEW g \in 1 .. N
      PROVE  /\ Store!Rows(g) \in Seq(Store!Row) /\ Store!NumRows(g) = Len(Store!Rows(g)) /\ Store!NumRows(g) \in Nat
             /\ \A i \in 1 .. Store!NumRows(g) : Store!Rows(g)[i].id \in Nat
  <2>1. Store!Rows(g) \in Seq(Store!Row) /\ Store!NumRows(g) = Len(Store!Rows(g))
    BY <1>2, FileIs DEF Store!NumRows
  <2>2. Len(Store!Rows(g)) \in Nat /\ \A i \in 1 .. Len(Store!Rows(g)) : Store!Rows(g)[i] \in Store!Row
    BY <2>1, SeqElements
  <2>3. \A i \in 1 .. Len(Store!Rows(g)) : Store!Rows(g)[i].id \in Nat
    BY <2>2 DEF Store!Row
  <2>. QED
    BY <2>1, <2>2, <2>3
<1>4. ASSUME NEW g \in 1 .. N PROVE P[g] = piece(g)
  <2>1. d[g].rows = Store!Answered(q, Store!Rows(g))
    OBVIOUS
  <2>2. \A i \in 1 .. Len(Store!Rows(g)) : Store!Wanted(q, Store!Rows(g)[i])
    BY DEF Store!Wanted
  <2>3. d[g].rows = [i \in 1 .. Store!NumRows(g) |-> Store!Result(q, Store!Rows(g)[i])]
    BY <1>3, <2>1, <2>2, AnsweredEverything
  <2>4. Len(d[g].rows) = Store!NumRows(g) /\ \A i \in 1 .. Store!NumRows(g) : d[g].rows[i].id = Store!Rows(g)[i].id
    <3>1. \A r : Store!Result(q, r).id = r.id
      BY DEF Store!Result
    <3>. QED
      BY <1>3, <2>3, <3>1
  <2>5. P[g] = [i \in 1 .. Len(d[g].rows) |-> [id |-> d[g].rows[i].id, group |-> g]]
    BY <1>1 DEF Pieces
  <2>. QED
    BY <2>4, <2>5
<1>5. Len(P) = N
  BY <1>1 DEF Pieces
<1>6. ASSUME NEW g \in 1 .. N
      PROVE  P[g] \in Seq(E) /\ Len(P[g]) = Store!NumRows(g)
             /\ \A j \in 1 .. Store!NumRows(g) : P[g][j].id = Store!Rows(g)[j].id /\ P[g][j].group = g
  <2>1. g \in Nat
    BY <1>1
  <2>2. \A j \in 1 .. Store!NumRows(g) : [id |-> Store!Rows(g)[j].id, group |-> g] \in E
    BY <1>3, <2>1
  <2>3. piece(g) \in Seq(E) /\ Len(piece(g)) = Store!NumRows(g)
    <3>. DEFINE n == Store!NumRows(g)
                e(j) == [id |-> Store!Rows(g)[j].id, group |-> g]
    <3>1. n \in Nat /\ \A j \in 1 .. n : e(j) \in E
      BY <1>3, <2>2
    <3>2. piece(g) = [j \in 1 .. n |-> e(j)]
      OBVIOUS
    <3>. HIDE DEF E, n, e
    <3>3. [j \in 1 .. n |-> e(j)] \in Seq(E) /\ Len([j \in 1 .. n |-> e(j)]) = n
      BY <3>1
    <3>. QED
      BY <3>2, <3>3 DEF n
  <2>4. \A j \in 1 .. Store!NumRows(g) : piece(g)[j].id = Store!Rows(g)[j].id /\ piece(g)[j].group = g
    OBVIOUS
  <2>. QED
    BY <1>4, <2>3, <2>4
<1>. HIDE DEF P, piece, E
<1>7. PICK w : Glues(w, P, N)
  BY <1>1, GluesExists
<1>8. PICK f : Prefixes(f)
  BY PrefixesExist
<1>9. \A m \in 0 .. N : w[m] \in Seq(E) /\ GlueOf(w, P, m)
  BY <1>1, <1>6, <1>7, GlueIs
<1>10. Store!Joined(P) = w[N]
  BY <1>1, <1>5, <1>7, JoinedIs
<1>11. \A m \in 0 .. N : f[m] \in Seq(Store!Row)
  BY <1>1, <1>8, RowPlaces
<1>. DEFINE T == {m \in 0 .. N : Len(w[m]) # Len(f[m])}
<1>12. ASSUME T # {} PROVE FALSE
  <2>0. T \subseteq Nat
    BY <1>1
  <2>1. PICK m \in T : \A y \in T : m <= y
    BY <1>12, <2>0, LeastElement
  <2>2. CASE m = 0
    <3>1. w[0] = <<>>
      BY <1>1, <1>7, GlueFirst
    <3>2. f[0] = <<>>
      BY <1>1, <1>8, GlueFirst DEF Prefixes
    <3>. QED
      BY <2>1, <2>2, <3>1, <3>2
  <2>3. CASE m # 0
    <3>1. m \in 1 .. N /\ m - 1 \in 0 .. N /\ m - 1 \notin T
      BY <1>1, <2>1, <2>3
    <3>2. w[m] = Cat(w[m - 1], P[m])
      BY <1>1, <1>7, <3>1, GlueNext
    <3>3. f[m] = Cat(f[m - 1], GroupRows[m])
      BY <1>1, <1>2, <1>8, <3>1, GlueNext DEF Prefixes
    <3>4. Len(w[m]) = Len(w[m - 1]) + Store!NumRows(m)
      <4>1. w[m - 1] \in Seq(E) /\ P[m] \in Seq(E) /\ Len(P[m]) = Store!NumRows(m)
        BY <1>6, <1>9, <3>1
      <4>. QED
        BY <3>2, <4>1, CatLength
    <3>5. Len(f[m]) = Len(f[m - 1]) + Store!NumRows(m)
      <4>1. f[m - 1] \in Seq(Store!Row) /\ GroupRows[m] \in Seq(Store!Row) /\ Len(GroupRows[m]) = Store!NumRows(m)
        BY <1>2, <1>11, <3>1, FileIs DEF Store!NumRows
      <4>. QED
        BY <3>3, <4>1, CatLength
    <3>. QED
      BY <2>1, <3>1, <3>4, <3>5
  <2>. QED
    BY <2>2, <2>3
<1>13. \A m \in 0 .. N : Len(w[m]) = Len(f[m])
  BY <1>12
<1>14. N \in 0 .. N
  BY <1>1
<1>. DEFINE s == w[N]
<1>15. Len(s) <= Len(Store!AllRows) /\ Len(s) \in Nat /\ (N = GroupCount => Len(s) = Len(Store!AllRows))
  <2>1. Store!AllRows = f[GroupCount] /\ GroupCount \in 0 .. GroupCount /\ N \in 0 .. GroupCount
    BY <1>1, <1>8, AllRowsIs
  <2>2. GlueOf(f, GroupRows, GroupCount)
    BY <1>8, <2>1, RowPlaces
  <2>3. Len(f[N]) \in Nat /\ Len(f[N]) <= Len(f[GroupCount])
    BY <2>1, <2>2 DEF GlueOf
  <2>. QED
    BY <1>13, <1>14, <2>1, <2>3
<1>16. ASSUME NEW i \in 1 .. Len(s)
       PROVE  /\ s[i].id = Store!AllRows[i].id /\ s[i].group \in 1 .. GroupCount
              /\ \E j \in 1 .. Store!NumRows(s[i].group) : Store!Rows(s[i].group)[j] = Store!AllRows[i]
  <2>1. GlueOf(w, P, N)
    BY <1>9, <1>14
  <2>2. PICK g \in 1 .. N : \E j \in 1 .. Len(P[g]) : i = Len(w[g - 1]) + j
    BY <2>1 DEF GlueOf
  <2>3. PICK j \in 1 .. Len(P[g]) : i = Len(w[g - 1]) + j
    BY <2>2
  <2>4. s[i] = P[g][j]
    BY <2>1, <2>3 DEF GlueOf
  <2>5. g \in 1 .. GroupCount /\ j \in 1 .. Store!NumRows(g) /\ Len(w[g - 1]) = Len(f[g - 1])
    BY <1>1, <1>2, <1>6, <1>13
  <2>6. Store!AllRows[i] = Store!Rows(g)[j]
    BY <1>8, <2>3, <2>5, RowAt
  <2>7. s[i].id = Store!Rows(g)[j].id /\ s[i].group = g
    BY <1>6, <2>4, <2>5
  <2>. QED
    BY <2>5, <2>6, <2>7
<1>. QED
  BY <1>10, <1>15, <1>16 DEF ScansSome, Scans, P

\* The map from the ids of s to their groups.
MapOf(s) == [u \in {s[i].id : i \in 1 .. Len(s)} |-> s[CHOOSE i \in 1 .. Len(s) : s[i].id = u].group]

LevelsOf(s, c) == [u \in {s[i].id : i \in 1 .. Len(s)} |-> c[CHOOSE i \in 1 .. Len(s) : s[i].id = u].level]

\* The levels that were kept are those of the rows.
LevelsOk(x, lv) ==
  lv # None =>
    \A u \in RowIds : \E i \in 1 .. Store!NumRows(x[u]) :
      Store!Rows(x[u])[i].id = u /\ lv[u] = Store!Rows(x[u])[i].level

\* A scan that meets no id twice gives an index of the file, and its levels.
LEMMA ScanIndexes ==
  ASSUME file \in StoreFile, NEW s, Scans(s), Store!Repeats(s) = {}
  PROVE  /\ Indexes(MapOf(s))
         /\ Store!Describes(file, s)
         /\ \A c : (\A i \in 1 .. Len(s) : c[i].level = Store!AllRows[i].level) =>
              LevelsOk(MapOf(s), LevelsOf(s, c))
<1>. DEFINE x == MapOf(s)
            I == 1 .. Len(s)
            at(u) == CHOOSE i \in I : s[i].id = u
<1>1. Len(s) \in Nat /\ I = 1 .. Len(Store!AllRows)
  BY DEF Scans, ScansSome
<1>2. \A i \in I : s[i].id = Store!AllRows[i].id /\ s[i].group \in 1 .. GroupCount
  BY DEF Scans, ScansSome
<1>3. {s[i].id : i \in I} = RowIds
  BY <1>1, <1>2 DEF RowIds
<1>4. RowsApart
  <2>1. ASSUME NEW i \in I, NEW j \in I, s[i].id = s[j].id, j < i PROVE FALSE
    <3>1. j \in 1 .. i - 1
      BY <1>1, <2>1
    <3>. QED
      BY <2>1, <3>1 DEF Store!Repeats
  <2>2. \A i, j \in I : s[i].id = s[j].id => i = j
    BY <1>1, <2>1
  <2>. QED
    BY <1>1, <1>2, <2>2 DEF RowsApart
<1>5. ASSUME NEW u \in RowIds PROVE at(u) \in I /\ s[at(u)].id = u
  BY <1>3
<1>6. x = [u \in RowIds |-> s[at(u)].group]
  BY <1>3 DEF MapOf
<1>. HIDE DEF x, at
<1>7. ASSUME NEW u \in RowIds
      PROVE  /\ x[u] = s[at(u)].group /\ x[u] \in 1 .. GroupCount
             /\ \E j \in 1 .. Store!NumRows(x[u]) : Store!Rows(x[u])[j] = Store!AllRows[at(u)] /\ Store!Rows(x[u])[j].id = u
  <2>1. at(u) \in I /\ s[at(u)].id = u /\ x[u] = s[at(u)].group
    BY <1>5, <1>6
  <2>2. PICK j \in 1 .. Store!NumRows(x[u]) : Store!Rows(x[u])[j] = Store!AllRows[at(u)]
    BY <2>1 DEF Scans, ScansSome
  <2>3. Store!AllRows[at(u)].id = u
    BY <1>2, <2>1
  <2>. QED
    BY <1>2, <2>1, <2>2, <2>3
<1>8. Indexes(x)
  <2>1. x \in [RowIds -> 1 .. GroupCount]
    BY <1>6, <1>7
  <2>2. \A u \in RowIds : GroupHolds(x[u], u)
    BY <1>7 DEF GroupHolds
  <2>. QED
    BY <1>4, <2>1, <2>2 DEF Indexes
<1>9. Store!Describes(file, s)
  <2>1. Store!RowsOf(file, Len(file.groups)) = Store!AllRows
    BY DEF Store!AllRows
  <2>2. ASSUME NEW i \in I
        PROVE  /\ s[i].group \in 1 .. Len(file.groups)
               /\ \E j \in 1 .. Len(file.groups[s[i].group].rows) : file.groups[s[i].group].rows[j].id = s[i].id
    <3>1. PICK j \in 1 .. Store!NumRows(s[i].group) : Store!Rows(s[i].group)[j] = Store!AllRows[i]
      BY DEF Scans, ScansSome
    <3>2. Store!Rows(s[i].group)[j].id = s[i].id
      BY <1>2, <3>1
    <3>. QED
      BY <1>2, <3>2 DEF Store!NumRows, Store!Rows, GroupCount
  <2>3. {s[i].id : i \in I} = {Store!AllRows[i].id : i \in 1 .. Len(Store!AllRows)}
    BY <1>3 DEF RowIds
  <2>4. \A i, j \in 1 .. Len(Store!AllRows) : Store!AllRows[i].id = Store!AllRows[j].id => i = j
    BY <1>4 DEF RowsApart
  <2>. DEFINE all == Store!RowsOf(file, Len(file.groups))
  <2>. HIDE DEF all
  <2>5. all = Store!AllRows
    BY <2>1 DEF all
  <2>6. Store!Describes(file, s) <=>
          /\ {s[i].id : i \in 1 .. Len(s)} = {all[i].id : i \in 1 .. Len(all)}
          /\ \A i \in 1 .. Len(s) :
               /\ s[i].group \in 1 .. Len(file.groups)
               /\ \E j \in 1 .. Len(file.groups[s[i].group].rows) : file.groups[s[i].group].rows[j].id = s[i].id
          /\ \A i, j \in 1 .. Len(all) : all[i].id = all[j].id => i = j
    BY DEF Store!Describes, all
  <2>. QED
    BY <2>2, <2>3, <2>4, <2>5, <2>6
<1>10. ASSUME NEW c, \A i \in I : c[i].level = Store!AllRows[i].level
       PROVE  LevelsOk(x, LevelsOf(s, c))
  <2>1. LevelsOf(s, c) = [u \in RowIds |-> c[at(u)].level]
    BY <1>3 DEF LevelsOf, at
  <2>2. ASSUME NEW u \in RowIds PROVE LevelsOf(s, c)[u] = Store!AllRows[at(u)].level
    BY <1>5, <1>10, <2>1
  <2>. QED
    BY <1>7, <2>2 DEF LevelsOk
<1>. QED
  BY <1>8, <1>9, <1>10 DEF x

\* An id that the scan meets twice stands in two rows.
LEMMA ScanRepeats ==
  ASSUME file \in StoreFile, NEW s, ScansSome(s), Store!Repeats(s) # {}
  PROVE  LET u == s[Store!Min(Store!Repeats(s))].id
         IN  Store!Cardinality({i \in 1 .. Len(Store!AllRows) : Store!AllRows[i].id = u}) > 1
<1>. DEFINE R == Store!Repeats(s)
            m == Store!Min(R)
            u == s[m].id
            X == {i \in 1 .. Len(Store!AllRows) : Store!AllRows[i].id = u}
<1>1. /\ Len(s) \in Nat /\ Len(s) <= Len(Store!AllRows) /\ Len(Store!AllRows) \in Nat
      /\ \A i \in 1 .. Len(s) : s[i].id = Store!AllRows[i].id
  BY AllRowsSeq DEF ScansSome
<1>2. R \subseteq Nat
  BY DEF Store!Repeats
<1>. HIDE DEF R
<1>3. m \in R
  BY <1>2, StoreMinIs DEF R
<1>. HIDE DEF m
<1>4. m \in 1 .. Len(s) /\ \E j \in 1 .. m - 1 : s[j].id = s[m].id
  BY <1>3 DEF R, Store!Repeats
<1>5. PICK j \in 1 .. m - 1 : s[j].id = s[m].id
  BY <1>4
<1>6. j \in 1 .. Len(s) /\ j # m
  BY <1>1, <1>4
<1>7. {j, m} \subseteq X
  BY <1>1, <1>4, <1>5, <1>6
<1>8. IsFiniteSet(X)
  <2>1. X \subseteq 1 .. Len(Store!AllRows)
    OBVIOUS
  <2>2. IsFiniteSet(1 .. Len(Store!AllRows))
    <3>1. 1 \in Int /\ Len(Store!AllRows) \in Int
      BY <1>1
    <3>. QED
      BY <3>1, FS_Interval, Zenon
  <2>. HIDE DEF X
  <2>. QED
    BY <2>1, <2>2, FS_Subset
<1>. HIDE DEF X
<1>9. IsFiniteSet({j, m}) /\ Cardinality({j, m}) = 2
  <2>1. {j, m} = {j} \cup {m} /\ m \notin {j}
    BY <1>6
  <2>2. IsFiniteSet({j}) /\ Cardinality({j}) = 1
    BY FS_Singleton
  <2>3. IsFiniteSet({j} \cup {m}) /\ Cardinality({j} \cup {m}) = Cardinality({j}) + 1
    BY <2>1, <2>2, FS_AddElement
  <2>. QED
    BY <2>1, <2>2, <2>3
<1>10. Cardinality({j, m}) <= Cardinality(X) /\ Cardinality(X) \in Nat
  BY <1>7, <1>8, FS_Subset, FS_CardinalityType
<1>11. Cardinality(X) > 1
  BY <1>9, <1>10
<1>12. Store!Cardinality(X) = Cardinality(X)
  BY DEF Store!Cardinality, Cardinality
<1>. QED
  BY <1>11, <1>12 DEF X, m, R

\* The entries of an index file that describes the file give an index of it.
LEMMA LoadedIndexes ==
  ASSUME file \in StoreFile, NEW e, Store!Describes(file, e)
  PROVE  Indexes(MapOf(e))
<1>. DEFINE I == 1 .. Len(e)
            x == MapOf(e)
            at(u) == CHOOSE i \in I : e[i].id = u
<1>1. Store!RowsOf(file, Len(file.groups)) = Store!AllRows
  BY DEF Store!AllRows
<1>2. {e[i].id : i \in I} = RowIds /\ RowsApart
  BY <1>1 DEF Store!Describes, RowIds, RowsApart
<1>3. ASSUME NEW i \in I PROVE e[i].group \in 1 .. GroupCount /\ GroupHolds(e[i].group, e[i].id)
  BY DEF Store!Describes, GroupHolds, GroupCount, Store!NumRows, Store!Rows
<1>4. ASSUME NEW u \in RowIds PROVE at(u) \in I /\ e[at(u)].id = u
  BY <1>2
<1>5. x = [u \in RowIds |-> e[at(u)].group]
  BY <1>2 DEF MapOf
<1>. HIDE DEF x, at
<1>6. ASSUME NEW u \in RowIds PROVE x[u] \in 1 .. GroupCount /\ GroupHolds(x[u], u)
  <2>1. at(u) \in I /\ e[at(u)].id = u /\ x[u] = e[at(u)].group
    BY <1>4, <1>5
  <2>. QED
    BY <1>3, <2>1
<1>. QED
  BY <1>2, <1>5, <1>6 DEF Indexes, x

LEMMA IndexIsNot ==
  ASSUME file \in StoreFile, NEW x, Indexes(x)
  PROVE  x # None
<1>1. None \notin [RowIds -> 1 .. GroupCount]
  BY StoreAssumption DEF Store!CatchmentAssumption, RowIds, GroupCount, Store!AllRows
<1>. QED
  BY <1>1 DEF Indexes

-----------------------------------------------------------------------------
(* The inductive invariant of the part catchments. *)

\* What an open scans: all groups, with the levels if the index will be written.
Builds(q, t) ==
  /\ q.kind \in {"ids", "ids_levels"} /\ (Store!UsesIndexFile => q.kind = "ids_levels")
  /\ t = Store!InOrder(Store!Groups)

\* What a query reads: the groups that it skips hold no row it wants.
Serves(q, t) ==
  \E S : /\ t = Store!InOrder(S)
         /\ \A g \in 1 .. GroupCount :
              g \in S \/ \A i \in 1 .. Store!NumRows(g) : ~Store!Wanted(q, Store!Rows(g)[i])

AnswerRight(st, q, a) ==
  st = "open" /\ q # Store!NoQuery /\ a.err = None => a.rows = Store!Answered(q, Store!AllRows)

\* The stages, the boxes kept, the index and its levels, and what is at the path of
\* the index file.
KeepsOk(st, bx, ix, lv, xf) ==
  /\ st \in {"head", "index", "reading", "open", "failed"}
  /\ st \in {"index", "reading", "open"} => bx = [g \in Store!Groups |-> Store!GroupBox(g)]
  /\ ix # None => Indexes(ix) /\ LevelsOk(ix, lv)
  /\ Store!Intact(file, xf) => Store!Describes(file, xf.entries)
  /\ st \in {"head", "index"} => ix = None /\ lv = None
  /\ st = "open" => ix # None

\* The query, its reads and its answer.
AsksOk(st, ix, q, t, d, a) ==
  /\ st \in {"head", "index"} => q = Store!NoQuery /\ d = <<>>
  /\ st \in {"head", "index", "reading"} => a = Store!NoAnswer
  /\ st = "reading" => ReadsOk(q, t, d)
  /\ st = "reading" => IF ix = None THEN Builds(q, t) ELSE Serves(q, t)
  /\ AnswerRight(st, q, a)
  /\ ErrorReal(q, t, a)

StoreInv ==
  /\ file \in StoreFile
  /\ KeepsOk(stage, boxes, index, unitLevels, indexFile)
  /\ AsksOk(stage, index, query, todo, done, answer)

\* The two halves speak of the file and of what is passed to them.
LEMMA StoreStays ==
  ASSUME file \in StoreFile, file' = file, indexed' = indexed,
         KeepsOk(stage', boxes', index', unitLevels', indexFile'),
         AsksOk(stage', index', query', todo', done', answer')
  PROVE  StoreInv'
<1>1. [g \in Store!Groups |-> Store!GroupBox(g)]' = [g \in Store!Groups |-> Store!GroupBox(g)]
  BY DEF Store!Groups, Store!GroupBox, Store!Envelope, Store!Rows, Store!NumRows
<1>2. Indexes(index)' <=> Indexes(index')
  BY DEF Indexes, RowsApart, RowIds, GroupHolds, GroupCount, Store!Rows, Store!NumRows, Store!AllRows
<1>3. LevelsOk(index, unitLevels)' <=> LevelsOk(index', unitLevels')
  BY DEF LevelsOk, RowIds, Store!Rows, Store!NumRows, Store!AllRows
<1>4. Builds(query, todo)' <=> Builds(query', todo')
  BY DEF Builds, Store!UsesIndexFile, Store!InOrder, Store!Groups
<1>5. Serves(query, todo)' <=> Serves(query', todo')
  BY DEF Serves, GroupCount, Store!InOrder, Store!Groups, Store!Rows, Store!NumRows
<1>6. ReadsOk(query, todo, done)' <=> ReadsOk(query', todo', done')
  BY DEF ReadsOk, Store!ReadOf, Store!Answered, Store!Result, Store!Rows, Store!NumRows, Store!Faulty,
         Store!AbsoluteRowStart
<1>7. AnswerRight(stage, query, answer)' <=> AnswerRight(stage', query', answer')
  BY DEF AnswerRight, Store!Answered, Store!Result, Store!AllRows, Store!NoQuery
<1>8. ErrorReal(query, todo, answer)' <=> ErrorReal(query', todo', answer')
  BY DEF ErrorReal, GroupAt, Store!Groups, Store!Faulty, Store!AllRows
<1>9. KeepsOk(stage, boxes, index, unitLevels, indexFile)'
  BY <1>1, <1>2, <1>3 DEF KeepsOk
<1>10. AsksOk(stage, index, query, todo, done, answer)'
  BY <1>4, <1>5, <1>6, <1>7, <1>8 DEF AsksOk, Store!NoQuery, Store!NoAnswer
<1>. QED
  BY <1>9, <1>10 DEF StoreInv

LEMMA NoErrorIsReal ==
  ASSUME NEW q, NEW t, NEW a, a.err = None \/ a.err.kind \notin {"invalid_row", "duplicate"}
  PROVE  ErrorReal(q, t, a)
BY DEF ErrorReal

LEMMA StoreStarts ==
  ASSUME Store!Init
  PROVE  StoreInv
<1>1. file \in StoreFile /\ stage = "head" /\ index = None /\ unitLevels = None
      /\ query = Store!NoQuery /\ done = <<>> /\ answer = Store!NoAnswer
  BY DEF Store!Init
<1>2. Store!Intact(file, indexFile) => Store!Describes(file, indexFile.entries)
  <2>1. indexFile \in StoreIndexFile \/ indexFile = None
    BY DEF Store!Init
  <2>. QED
    BY <1>1, <2>1, StoreAssumption DEF Store!CatchmentAssumption, Store!Intact
<1>3. answer.err = None
  BY <1>1 DEF Store!NoAnswer
<1>4. KeepsOk(stage, boxes, index, unitLevels, indexFile)
  BY <1>1, <1>2 DEF KeepsOk
<1>5. AsksOk(stage, index, query, todo, done, answer)
  BY <1>1, <1>3, NoErrorIsReal DEF AsksOk, AnswerRight
<1>. QED
  BY <1>1, <1>4, <1>5 DEF StoreInv

LEMMA FailureIs ==
  ASSUME NEW w \in Store!Kinds, NEW a, a = [err |-> [kind |-> w, at |-> None], rows |-> <<>>]
  PROVE  a.err # None /\ a.err.kind = w
<1>1. [kind |-> w, at |-> None] \in [kind : Store!Kinds, at : Nat \cup {None}]
  OBVIOUS
<1>. QED
  BY <1>1, ErrorsAreNot

LEMMA OpenFailsStep ==
  ASSUME StoreInv, Store!OpenFails
  PROVE  StoreInv'
<1>1. /\ file' = file /\ indexed' = indexed /\ indexFile' = indexFile /\ boxes' = boxes /\ index' = index
      /\ unitLevels' = unitLevels /\ query' = query /\ todo' = todo /\ done' = done
  BY DEF Store!OpenFails
<1>2. stage' = "failed" /\ answer'.err.kind \in {"io", "parse", "schema"}
  BY DEF Store!OpenFails, Store!Fail, Store!SchemaFails
<1>3. file \in StoreFile
  BY DEF StoreInv
<1>4. KeepsOk(stage', boxes', index', unitLevels', indexFile')
  BY <1>1, <1>2 DEF StoreInv, KeepsOk
<1>5. ErrorReal(query', todo', answer')
  BY <1>2, NoErrorIsReal
<1>6. AsksOk(stage', index', query', todo', done', answer')
  BY <1>2, <1>5 DEF AsksOk, AnswerRight
<1>. QED
  BY <1>1, <1>3, <1>4, <1>6, StoreStays

LEMMA OpenObjectStep ==
  ASSUME StoreInv, Store!OpenObject
  PROVE  StoreInv'
<1>1. /\ file' = file /\ indexed' = indexed /\ indexFile' = indexFile /\ index' = index
      /\ unitLevels' = unitLevels /\ query' = query /\ todo' = todo /\ done' = done /\ answer' = answer
  BY DEF Store!OpenObject
<1>2. stage = "head" /\ stage' = "index" /\ boxes' = [g \in Store!Groups |-> Store!GroupBox(g)]
  BY DEF Store!OpenObject
<1>3. file \in StoreFile
  BY DEF StoreInv
<1>4. KeepsOk(stage', boxes', index', unitLevels', indexFile')
  BY <1>1, <1>2 DEF StoreInv, KeepsOk
<1>5. AsksOk(stage', index', query', todo', done', answer')
  BY <1>1, <1>2 DEF StoreInv, AsksOk, AnswerRight
<1>. QED
  BY <1>1, <1>3, <1>4, <1>5, StoreStays

LEMMA LoadIndexStep ==
  ASSUME StoreInv, Store!LoadIndex
  PROVE  StoreInv'
<1>1. /\ file' = file /\ indexed' = indexed /\ indexFile' = indexFile /\ boxes' = boxes
      /\ unitLevels' = unitLevels /\ query' = query /\ todo' = todo /\ done' = done /\ answer' = answer
  BY DEF Store!LoadIndex
<1>2. stage = "index" /\ stage' = "open" /\ index' = MapOf(indexFile.entries) /\ Store!Accepted(indexFile)
  BY DEF Store!LoadIndex, MapOf
<1>3. file \in StoreFile
  BY DEF StoreInv
<1>4. Store!Intact(file, indexFile)
  BY <1>2 DEF Store!Accepted, Store!Intact
<1>5. Store!Describes(file, indexFile.entries)
  BY <1>4 DEF StoreInv, KeepsOk
<1>6. Indexes(index')
  BY <1>2, <1>3, <1>5, LoadedIndexes
<1>7. index' # None
  BY <1>3, <1>6, IndexIsNot
<1>8. unitLevels' = None
  BY <1>1, <1>2 DEF StoreInv, KeepsOk
<1>9. LevelsOk(index', unitLevels')
  BY <1>8 DEF LevelsOk
<1>10. KeepsOk(stage', boxes', index', unitLevels', indexFile')
  <2>1. boxes' = [g \in Store!Groups |-> Store!GroupBox(g)]
    BY <1>1, <1>2 DEF StoreInv, KeepsOk
  <2>. QED
    BY <1>1, <1>2, <1>5, <1>6, <1>7, <1>9, <2>1 DEF KeepsOk
<1>11. AsksOk(stage', index', query', todo', done', answer')
  <2>1. query' = Store!NoQuery /\ answer' = Store!NoAnswer
    BY <1>1, <1>2 DEF StoreInv, AsksOk
  <2>2. answer'.err = None
    BY <2>1 DEF Store!NoAnswer
  <2>3. ErrorReal(query', todo', answer')
    BY <2>2, NoErrorIsReal
  <2>. QED
    BY <1>2, <2>1, <2>3 DEF AsksOk, AnswerRight
<1>. QED
  BY <1>1, <1>3, <1>10, <1>11, StoreStays

LEMMA NothingRead ==
  ASSUME NEW q, NEW t
  PROVE  ReadsOk(q, t, <<>>)
<1>1. DOMAIN <<>> = {}
  OBVIOUS
<1>. QED
  BY <1>1 DEF ReadsOk

LEMMA BuildIndexStep ==
  ASSUME StoreInv, Store!BuildIndex
  PROVE  StoreInv'
<1>1. /\ file' = file /\ indexed' = indexed /\ indexFile' = indexFile /\ boxes' = boxes /\ index' = index
      /\ unitLevels' = unitLevels /\ done' = done /\ stage = "index"
  BY DEF Store!BuildIndex
<1>3. file \in StoreFile
  BY DEF StoreInv
<1>4. CASE Store!Fail("schema") /\ UNCHANGED <<query, todo>>
  <2>1. stage' = "failed" /\ answer'.err.kind = "schema"
    BY <1>4 DEF Store!Fail
  <2>2. KeepsOk(stage', boxes', index', unitLevels', indexFile')
    BY <1>1, <2>1 DEF StoreInv, KeepsOk
  <2>3. ErrorReal(query', todo', answer')
    BY <2>1, NoErrorIsReal
  <2>4. AsksOk(stage', index', query', todo', done', answer')
    BY <2>1, <2>3 DEF AsksOk, AnswerRight
  <2>. QED
    BY <1>1, <1>3, <2>2, <2>4, StoreStays
<1>5. CASE /\ query' = [kind |-> IF Store!UsesIndexFile THEN "ids_levels" ELSE "ids"]
           /\ todo' = Store!InOrder(Store!Groups)
           /\ stage' = "reading" /\ answer' = answer
  <2>1. Builds(query', todo')
    <3>1. query'.kind = IF Store!UsesIndexFile THEN "ids_levels" ELSE "ids"
      BY <1>5
    <3>. QED
      BY <1>5, <3>1 DEF Builds
  <2>2. index' = None /\ unitLevels' = None /\ done' = <<>> /\ answer' = Store!NoAnswer
    BY <1>1, <1>5 DEF StoreInv, KeepsOk, AsksOk
  <2>3. KeepsOk(stage', boxes', index', unitLevels', indexFile')
    BY <1>1, <1>5, <2>2 DEF StoreInv, KeepsOk
  <2>4. ReadsOk(query', todo', done')
    BY <2>2, NothingRead
  <2>5. answer'.err = None
    BY <2>2 DEF Store!NoAnswer
  <2>6. ErrorReal(query', todo', answer')
    BY <2>5, NoErrorIsReal
  <2>7. AsksOk(stage', index', query', todo', done', answer')
    BY <1>5, <2>1, <2>2, <2>4, <2>6 DEF AsksOk, AnswerRight
  <2>. QED
    BY <1>1, <1>3, <2>3, <2>7, StoreStays
<1>. QED
  BY <1>4, <1>5 DEF Store!BuildIndex

LEMMA QueryStep ==
  ASSUME StoreInv, NEW q \in StoreRequest, Store!Query(q)
  PROVE  StoreInv'
<1>1. /\ file' = file /\ indexed' = indexed /\ indexFile' = indexFile /\ boxes' = boxes /\ index' = index
      /\ unitLevels' = unitLevels /\ stage = "open" /\ stage' = "reading"
      /\ query' = q /\ todo' = Store!ToRead(q) /\ done' = <<>> /\ answer' = Store!NoAnswer
  BY DEF Store!Query
<1>2. file \in StoreFile /\ index # None /\ Indexes(index) /\ boxes = [g \in Store!Groups |-> Store!GroupBox(g)]
  BY <1>1 DEF StoreInv, KeepsOk
<1>3. Serves(query', todo')
  BY <1>1, <1>2, ToReadHolds DEF Serves
<1>4. KeepsOk(stage', boxes', index', unitLevels', indexFile')
  BY <1>1, <1>2 DEF StoreInv, KeepsOk
<1>5. ReadsOk(query', todo', done')
  BY <1>1, NothingRead
<1>6. answer'.err = None
  BY <1>1 DEF Store!NoAnswer
<1>7. ErrorReal(query', todo', answer')
  BY <1>6, NoErrorIsReal
<1>8. AsksOk(stage', index', query', todo', done', answer')
  BY <1>1, <1>2, <1>3, <1>5, <1>7 DEF AsksOk, AnswerRight
<1>. QED
  BY <1>1, <1>2, <1>4, <1>8, StoreStays

LEMMA QueryFailsStep ==
  ASSUME StoreInv, NEW q \in StoreRequest, NEW w \in {"schema", "parse"}, Store!QueryFails(q, w)
  PROVE  StoreInv'
<1>1. /\ file' = file /\ indexed' = indexed /\ indexFile' = indexFile /\ boxes' = boxes /\ index' = index
      /\ unitLevels' = unitLevels /\ stage = "open" /\ stage' = stage
      /\ query' = q /\ todo' = todo /\ done' = done
      /\ answer' = [err |-> [kind |-> w, at |-> None], rows |-> <<>>]
  BY DEF Store!QueryFails
<1>2. file \in StoreFile
  BY DEF StoreInv
<1>3. answer'.err # None /\ answer'.err.kind = w
  <2>1. w \in Store!Kinds
    BY DEF Store!Kinds
  <2>. QED
    BY <1>1, <2>1, FailureIs
<1>4. KeepsOk(stage', boxes', index', unitLevels', indexFile')
  BY <1>1 DEF StoreInv, KeepsOk
<1>5. ErrorReal(query', todo', answer')
  BY <1>3, NoErrorIsReal
<1>6. AsksOk(stage', index', query', todo', done', answer')
  BY <1>1, <1>3, <1>5 DEF AsksOk, AnswerRight
<1>. QED
  BY <1>1, <1>2, <1>4, <1>6, StoreStays

\* The query, the answer and the groups to read of a store that is reading.
LEMMA ReadingIs ==
  ASSUME StoreInv, stage = "reading"
  PROVE  /\ file \in StoreFile /\ ReadsOk(query, todo, done)
         /\ answer = Store!NoAnswer
         /\ index = None => Builds(query, todo)
         /\ index # None => Serves(query, todo)
         /\ \E S : Ordered(todo, S, GroupCount)
<1>1. /\ file \in StoreFile /\ ReadsOk(query, todo, done) /\ answer = Store!NoAnswer
      /\ IF index = None THEN Builds(query, todo) ELSE Serves(query, todo)
  BY DEF StoreInv, AsksOk
<1>2. \E S : todo = Store!InOrder(S)
  BY <1>1 DEF Builds, Serves
<1>3. \E S : Ordered(todo, S, GroupCount)
  BY <1>1, <1>2, InOrderOrdered
<1>. QED
  BY <1>1, <1>3

LEMMA ReadGroupStep ==
  ASSUME StoreInv, NEW p \in 1 .. Len(todo), Store!ReadGroup(p)
  PROVE  StoreInv'
<1>1. /\ file' = file /\ indexed' = indexed /\ indexFile' = indexFile /\ boxes' = boxes /\ index' = index
      /\ unitLevels' = unitLevels /\ stage = "reading" /\ stage' = stage
      /\ query' = query /\ todo' = todo /\ answer' = answer
  BY DEF Store!ReadGroup
<1>2. PICK r : /\ r = Store!ReadOf(query, todo[p]) \/ r = Store!ReadError(todo[p])
               /\ done' = [i \in DOMAIN done \cup {p} |-> IF i = p THEN r ELSE done[i]]
  BY DEF Store!ReadGroup
<1>3. p \notin DOMAIN done /\ p <= Store!Handed + WidthOf(query)
  BY DEF Store!ReadGroup, Store!Width, WidthOf
<1>4. file \in StoreFile /\ ReadsOk(query, todo, done)
  BY <1>1, ReadingIs
<1>5. Len(todo) \in Nat
  <2>1. PICK S : Ordered(todo, S, GroupCount)
    BY <1>1, ReadingIs
  <2>. QED
    BY <2>1, LenProperties DEF Ordered
<1>6. DOMAIN done' = DOMAIN done \cup {p}
  BY <1>2
<1>7. DOMAIN done' \subseteq 1 .. Len(todo)
  BY <1>4, <1>6 DEF ReadsOk
<1>8. ASSUME NEW i \in DOMAIN done'
      PROVE  done'[i] = Store!ReadOf(query, todo[i]) \/ done'[i] = Store!ReadError(todo[i])
  <2>1. CASE i = p
    <3>1. done'[p] = r
      BY <1>2
    <3>. QED
      BY <1>2, <2>1, <3>1
  <2>2. CASE i # p
    <3>1. i \in DOMAIN done /\ done'[i] = done[i]
      BY <1>2, <1>6, <2>2
    <3>. QED
      BY <1>4, <3>1 DEF ReadsOk
  <2>. QED
    BY <2>1, <2>2
<1>9. ASSUME WidthOf(query) = 1, NEW i \in DOMAIN done', NEW l \in 1 .. i PROVE l \in DOMAIN done'
  <2>1. CASE i = p
    <3>. DEFINE T == {v \in 1 .. Len(todo) + 1 : v \notin DOMAIN done}
    <3>1. p \in T
      BY <1>3, <1>5
    <3>2. T \subseteq Nat /\ T # {}
      BY <1>5, <3>1
    <3>3. Store!Handed = Store!Min(T) - 1
      BY DEF Store!Handed
    <3>. DEFINE m == Store!Min(T)
    <3>. HIDE DEF T
    <3>4. m \in T /\ \A y \in T : m <= y
      BY <3>2, StoreMinIs
    <3>. HIDE DEF m
    <3>5. m \in Nat /\ p <= m
      <4>1. m \in Nat /\ Store!Handed = m - 1
        BY <3>2, <3>3, <3>4 DEF m
      <4>. QED
        BY <1>3, <1>9, <4>1
    <3>6. CASE l = p
      BY <1>6, <3>6
    <3>7. CASE l # p
      <4>1. l \in 1 .. Len(todo) + 1 /\ l < p
        BY <1>5, <2>1, <3>7
      <4>2. l \notin T
        BY <3>4, <3>5, <4>1
      <4>. QED
        BY <1>6, <4>1, <4>2 DEF T
    <3>. QED
      BY <3>6, <3>7
  <2>2. CASE i # p
    <3>1. i \in DOMAIN done
      BY <1>6, <2>2
    <3>. QED
      BY <1>4, <1>6, <1>9, <3>1 DEF ReadsOk
  <2>. QED
    BY <2>1, <2>2
<1>10. ReadsOk(query', todo', done')
  BY <1>1, <1>7, <1>8, <1>9 DEF ReadsOk
<1>11. KeepsOk(stage', boxes', index', unitLevels', indexFile')
  BY <1>1 DEF StoreInv, KeepsOk
<1>12. AsksOk(stage', index', query', todo', done', answer')
  BY <1>1, <1>10 DEF StoreInv, AsksOk
<1>. QED
  BY <1>1, <1>4, <1>11, <1>12, StoreStays

LEMMA CollectFailsStep ==
  ASSUME StoreInv, Store!CollectFails
  PROVE  StoreInv'
<1>1. /\ file' = file /\ indexed' = indexed /\ indexFile' = indexFile /\ boxes' = boxes /\ index' = index
      /\ unitLevels' = unitLevels /\ stage = "reading"
      /\ query' = query /\ todo' = todo /\ done' = done
      /\ stage' = IF index = None THEN "failed" ELSE "open"
  BY DEF Store!CollectFails, Store!Collected
<1>. DEFINE F == Store!Failures
            p == Store!Min(F)
<1>2. answer' = done[p] /\ F # {} /\ (DOMAIN done = 1 .. Len(todo) \/ WidthOf(query) = 1)
  BY DEF Store!CollectFails, Store!Collected, Store!Width, WidthOf
<1>3. file \in StoreFile /\ ReadsOk(query, todo, done)
  BY <1>1, ReadingIs
<1>4. PICK S : Ordered(todo, S, GroupCount)
  BY <1>1, ReadingIs
<1>5. F \subseteq Nat /\ F = {i \in DOMAIN done : done[i].err # None}
  <2>1. DOMAIN done \subseteq Nat
    BY <1>3 DEF ReadsOk
  <2>. QED
    BY <2>1 DEF Store!Failures
<1>. HIDE DEF F
<1>6. p \in F /\ \A y \in F : p <= y
  BY <1>2, <1>5, StoreMinIs
<1>. HIDE DEF p
<1>7. p \in DOMAIN done /\ done[p].err # None /\ \A i \in DOMAIN done : done[i].err # None => p <= i
  BY <1>5, <1>6
<1>8. ErrorReal(query, todo, done[p])
  BY <1>2, <1>3, <1>4, <1>7, ErrorCollected
<1>9. KeepsOk(stage', boxes', index', unitLevels', indexFile')
  BY <1>1 DEF StoreInv, KeepsOk
<1>10. AsksOk(stage', index', query', todo', done', answer')
  BY <1>1, <1>2, <1>7, <1>8 DEF AsksOk, AnswerRight
<1>. QED
  BY <1>1, <1>3, <1>9, <1>10, StoreStays

\* Every read has ended without an error.
LEMMA AllCollected ==
  ASSUME Store!Collected, Store!Failures = {}
  PROVE  stage = "reading" /\ DOMAIN done = 1 .. Len(todo) /\ \A p \in DOMAIN done : done[p].err = None
BY DEF Store!Collected, Store!Failures

LEMMA CollectRowsStep ==
  ASSUME StoreInv, Store!CollectRows
  PROVE  StoreInv'
<1>1. /\ file' = file /\ indexed' = indexed /\ indexFile' = indexFile /\ boxes' = boxes /\ index' = index
      /\ unitLevels' = unitLevels /\ stage = "reading" /\ stage' = "open" /\ index # None
      /\ query' = query /\ todo' = todo /\ done' = done
      /\ answer' = [err |-> None, rows |-> Store!Concatenated]
  BY DEF Store!CollectRows, Store!Collected
<1>2. DOMAIN done = 1 .. Len(todo) /\ \A p \in DOMAIN done : done[p].err = None
  BY AllCollected DEF Store!CollectRows
<1>3. file \in StoreFile /\ ReadsOk(query, todo, done) /\ Serves(query, todo)
  BY <1>1, ReadingIs
<1>4. PICK S : /\ todo = Store!InOrder(S)
               /\ \A g \in 1 .. GroupCount :
                    g \in S \/ \A i \in 1 .. Store!NumRows(g) : ~Store!Wanted(query, Store!Rows(g)[i])
  BY <1>3 DEF Serves
<1>5. Store!Concatenated = Store!Answered(query, Store!AllRows)
  BY <1>2, <1>3, <1>4, RowsCollected DEF Store!Concatenated
<1>6. answer'.err = None /\ answer'.rows = Store!Answered(query', Store!AllRows)
  BY <1>1, <1>5
<1>7. ErrorReal(query', todo', answer')
  BY <1>6, NoErrorIsReal
<1>8. KeepsOk(stage', boxes', index', unitLevels', indexFile')
  BY <1>1 DEF StoreInv, KeepsOk
<1>9. AsksOk(stage', index', query', todo', done', answer')
  BY <1>1, <1>6, <1>7 DEF AsksOk, AnswerRight
<1>. QED
  BY <1>1, <1>3, <1>8, <1>9, StoreStays

\* A scan that is complete.
LEMMA ScanIs ==
  ASSUME StoreInv, Store!Collected, Store!Failures = {}, index = None
  PROVE  /\ file \in StoreFile /\ Scans(Store!Scanned)
         /\ Store!UsesIndexFile => \A i \in 1 .. Len(Store!Scanned) : Store!Concatenated[i].level = Store!AllRows[i].level
<1>1. stage = "reading" /\ DOMAIN done = 1 .. Len(todo) /\ \A p \in DOMAIN done : done[p].err = None
  BY AllCollected
<1>2. file \in StoreFile /\ ReadsOk(query, todo, done) /\ Builds(query, todo)
  BY <1>1, ReadingIs
<1>3. todo = Store!InOrder(Store!Groups) /\ todo = GroupNumbers
  BY <1>2, InOrderOfAll DEF Builds
<1>4. GroupCount \in Nat /\ Len(GroupNumbers) = GroupCount /\ Store!Groups = 1 .. GroupCount
      /\ \A g \in 1 .. GroupCount : GroupNumbers[g] = g
  BY <1>2, FileIs DEF GroupNumbers
<1>5. \A p \in DOMAIN done : done[p].rows = Store!Answered(query, Store!Rows(todo[p]))
  <2>1. PICK S : Ordered(todo, S, GroupCount)
    BY <1>1, ReadingIs
  <2>. QED
    BY <1>1, <1>2, <2>1, CleanReads
<1>6. \A g \in 1 .. GroupCount : done[g].rows = Store!Answered(query, Store!Rows(g))
  BY <1>1, <1>3, <1>4, <1>5
<1>7. Scans(Store!Joined(Pieces(GroupNumbers, done, GroupCount)))
  <2>1. query.kind \in {"ids", "ids_levels"} /\ GroupCount \in 0 .. GroupCount
    BY <1>2, <1>4 DEF Builds
  <2>. QED
    BY <1>2, <1>6, <2>1, ScannedIs
<1>8. Store!Scanned = Store!Joined(Pieces(todo, done, Len(todo)))
  BY DEF Store!Scanned, Store!ScannedTo, Pieces
<1>9. Scans(Store!Scanned)
  BY <1>3, <1>4, <1>7, <1>8
<1>10. ASSUME Store!UsesIndexFile, NEW i \in 1 .. Len(Store!Scanned)
       PROVE  Store!Concatenated[i].level = Store!AllRows[i].level
  <2>1. query.kind = "ids_levels"
    BY <1>2, <1>10 DEF Builds
  <2>2. Store!Concatenated = Store!Answered(query, Store!AllRows)
    <3>1. PICK S : S = Store!Groups
      OBVIOUS
    <3>2. todo = Store!InOrder(S)
      BY <1>3, <3>1
    <3>3. \A g \in 1 .. GroupCount : g \in S \/ \A j \in 1 .. Store!NumRows(g) : ~Store!Wanted(query, Store!Rows(g)[j])
      BY <1>4, <3>1
    <3>. QED
      BY <1>1, <1>2, <3>2, <3>3, RowsCollected DEF Store!Concatenated
  <2>3. Store!AllRows \in Seq(Store!Row)
    BY <1>2, AllRowsSeq
  <2>4. \A j \in 1 .. Len(Store!AllRows) : Store!Wanted(query, Store!AllRows[j])
    BY <2>1 DEF Store!Wanted
  <2>5. Store!Answered(query, Store!AllRows) = [j \in 1 .. Len(Store!AllRows) |-> Store!Result(query, Store!AllRows[j])]
    BY <2>3, <2>4, AnsweredEverything
  <2>6. i \in 1 .. Len(Store!AllRows)
    BY <1>9 DEF Scans
  <2>7. Store!Concatenated[i] = Store!Result(query, Store!AllRows[i])
    BY <2>2, <2>5, <2>6
  <2>. QED
    BY <2>1, <2>7 DEF Store!Result
<1>. QED
  BY <1>2, <1>9, <1>10

\* What the loop of a scan meets is the beginning of the file, with and without a
\* read that failed.
LEMMA MetIs ==
  ASSUME StoreInv, Store!Collected, index = None
  PROVE  file \in StoreFile /\ ScansSome(Store!Met)
<1>1. stage = "reading" /\ (DOMAIN done = 1 .. Len(todo) \/ (WidthOf(query) = 1 /\ Store!Failures # {}))
  BY DEF Store!Collected, Store!Width, WidthOf
<1>2. file \in StoreFile /\ ReadsOk(query, todo, done) /\ Builds(query, todo)
  BY <1>1, ReadingIs
<1>3. CASE Store!Failures = {}
  <2>1. Store!Met = Store!Scanned
    BY <1>3 DEF Store!Met
  <2>. QED
    BY <1>2, <1>3, <2>1, ScanIs DEF Scans
<1>4. CASE Store!Failures # {}
  <2>. DEFINE F == Store!Failures
              m == Store!Min(F)
              n == m - 1
  <2>1. F \subseteq DOMAIN done /\ DOMAIN done \subseteq 1 .. Len(todo) /\ F = {i \in DOMAIN done : done[i].err # None}
    BY <1>2 DEF Store!Failures, ReadsOk
  <2>2. todo = GroupNumbers /\ GroupCount \in Nat /\ Len(todo) = GroupCount
        /\ \A g \in 1 .. GroupCount : todo[g] = g
    <3>1. todo = GroupNumbers
      BY <1>2, InOrderOfAll DEF Builds
    <3>. QED
      BY <1>2, <3>1, FileIs DEF GroupNumbers
  <2>3. F \subseteq Nat
    BY <2>1, <2>2
  <2>. HIDE DEF F
  <2>4. m \in F /\ \A y \in F : m <= y
    BY <1>4, <2>3, StoreMinIs DEF F
  <2>. HIDE DEF m
  <2>5. n \in 0 .. GroupCount /\ m \in 1 .. GroupCount /\ n = m - 1 /\ m \in DOMAIN done
    BY <2>1, <2>2, <2>4
  <2>6. ASSUME NEW g \in 1 .. n PROVE g \in DOMAIN done /\ done[g].err = None /\ todo[g] = g
    <3>1. g \in 1 .. GroupCount /\ g \in 1 .. m /\ ~(m <= g)
      BY <2>2, <2>5
    <3>2. g \in DOMAIN done
      BY <1>1, <1>2, <2>2, <2>5, <3>1 DEF ReadsOk
    <3>. QED
      BY <2>1, <2>2, <2>4, <3>1, <3>2
  <2>7. ASSUME NEW g \in 1 .. n PROVE done[g].rows = Store!Answered(query, Store!Rows(g))
    <3>1. PICK S : Ordered(todo, S, GroupCount)
      BY <1>1, ReadingIs
    <3>2. done[g].rows = Store!Answered(query, Store!Rows(todo[g]))
      BY <1>2, <2>6, <3>1, CleanRead
    <3>. QED
      BY <2>6, <3>2
  <2>8. Store!Met = Store!Joined(Pieces(GroupNumbers, done, n))
    <3>1. Store!Met = Store!ScannedTo(n)
      BY <1>4 DEF Store!Met, F, m
    <3>. HIDE DEF n
    <3>2. Store!ScannedTo(n) = Store!Joined(Pieces(todo, done, n))
      BY DEF Store!ScannedTo, Pieces
    <3>. QED
      BY <2>2, <3>1, <3>2
  <2>. HIDE DEF n
  <2>9. query.kind \in {"ids", "ids_levels"}
    BY <1>2 DEF Builds
  <2>10. ScansSome(Store!Joined(Pieces(GroupNumbers, done, n)))
    BY <1>2, <2>5, <2>7, <2>9, ScannedIs
  <2>. QED
    BY <1>2, <2>8, <2>10
<1>. QED
  BY <1>3, <1>4

LEMMA IndexDuplicateStep ==
  ASSUME StoreInv, Store!IndexDuplicate
  PROVE  StoreInv'
<1>1. /\ file' = file /\ indexed' = indexed /\ indexFile' = indexFile /\ boxes' = boxes /\ index' = index
      /\ unitLevels' = unitLevels /\ index = None /\ stage' = "failed"
      /\ query' = query /\ todo' = todo /\ done' = done /\ Store!Repeats(Store!Met) # {}
  BY DEF Store!IndexDuplicate
<1>. DEFINE u == Store!Met[Store!Min(Store!Repeats(Store!Met))].id
<1>2. answer' = [err |-> [kind |-> "duplicate", at |-> u], rows |-> <<>>]
  BY DEF Store!IndexDuplicate
<1>3. file \in StoreFile /\ ScansSome(Store!Met)
  BY MetIs DEF Store!IndexDuplicate
<1>4. Store!Cardinality({i \in 1 .. Len(Store!AllRows) : Store!AllRows[i].id = u}) > 1
  BY <1>1, <1>3, ScanRepeats
<1>. HIDE DEF u
<1>5. answer'.err.kind = "duplicate" /\ answer'.err.at = u
  BY <1>2
<1>6. ErrorReal(query', todo', answer')
  BY <1>4, <1>5 DEF ErrorReal
<1>7. KeepsOk(stage', boxes', index', unitLevels', indexFile')
  BY <1>1 DEF StoreInv, KeepsOk
<1>8. AsksOk(stage', index', query', todo', done', answer')
  BY <1>1, <1>6 DEF AsksOk, AnswerRight
<1>. QED
  BY <1>1, <1>3, <1>7, <1>8, StoreStays

LEMMA IndexBuiltStep ==
  ASSUME StoreInv, Store!IndexBuilt
  PROVE  StoreInv'
<1>. DEFINE s == Store!Scanned
            c == Store!Concatenated
<1>1. /\ file' = file /\ indexed' = indexed /\ boxes' = boxes /\ answer' = answer
      /\ index = None /\ stage = "reading" /\ stage' = "open" /\ Store!Repeats(s) = {}
      /\ query' = Store!NoQuery
  BY DEF Store!IndexBuilt, Store!Collected
<1>2. index' = MapOf(s)
  BY DEF Store!IndexBuilt, MapOf
<1>3. unitLevels' = IF Store!UsesIndexFile THEN LevelsOf(s, c) ELSE None
  BY DEF Store!IndexBuilt, LevelsOf
<1>4. indexFile' = Store!Encoded \/ indexFile' = Store!Torn \/ indexFile' = indexFile
  BY DEF Store!IndexBuilt
<1>5. /\ file \in StoreFile /\ Scans(s)
      /\ Store!UsesIndexFile => \A i \in 1 .. Len(s) : c[i].level = Store!AllRows[i].level
  BY ScanIs DEF Store!IndexBuilt
<1>6. answer' = Store!NoAnswer
  BY <1>1, ReadingIs
<1>. HIDE DEF s, c
<1>7. Indexes(index') /\ Store!Describes(file, s)
  BY <1>1, <1>2, <1>5, ScanIndexes
<1>8. LevelsOk(index', unitLevels')
  <2>1. CASE Store!UsesIndexFile
    <3>1. LevelsOk(MapOf(s), LevelsOf(s, c))
      BY <1>1, <1>5, <2>1, ScanIndexes
    <3>. QED
      BY <1>2, <1>3, <2>1, <3>1
  <2>2. CASE ~Store!UsesIndexFile
    BY <1>3, <2>2 DEF LevelsOk
  <2>. QED
    BY <2>1, <2>2
<1>9. index' # None
  BY <1>5, <1>7, IndexIsNot
<1>10. Store!Intact(file, indexFile') => Store!Describes(file, indexFile'.entries)
  <2>1. CASE indexFile' = Store!Encoded
    <3>1. indexFile'.entries = s
      BY <2>1 DEF Store!Encoded, s
    <3>. QED
      BY <1>7, <3>1
  <2>2. CASE indexFile' = Store!Torn
    <3>1. indexFile'.crc = FALSE
      BY <2>2 DEF Store!Torn, Store!Encoded
    <3>. QED
      BY <3>1 DEF Store!Intact
  <2>3. CASE indexFile' = indexFile
    BY <2>3 DEF StoreInv, KeepsOk
  <2>. QED
    BY <1>4, <2>1, <2>2, <2>3
<1>11. boxes' = [g \in Store!Groups |-> Store!GroupBox(g)]
  BY <1>1 DEF StoreInv, KeepsOk
<1>12. KeepsOk(stage', boxes', index', unitLevels', indexFile')
  BY <1>1, <1>7, <1>8, <1>9, <1>10, <1>11 DEF KeepsOk
<1>13. answer'.err = None
  BY <1>6 DEF Store!NoAnswer
<1>14. ErrorReal(query', todo', answer')
  BY <1>13, NoErrorIsReal
<1>15. AsksOk(stage', index', query', todo', done', answer')
  BY <1>1, <1>14 DEF AsksOk, AnswerRight
<1>. QED
  BY <1>1, <1>5, <1>12, <1>15, StoreStays

LEMMA RestartStep ==
  ASSUME StoreInv, Store!Restart
  PROVE  StoreInv'
<1>1. /\ file' = file /\ indexed' = indexed /\ indexFile' = indexFile /\ stage' = "head"
      /\ index' = None /\ unitLevels' = None
      /\ query' = Store!NoQuery /\ done' = <<>> /\ answer' = Store!NoAnswer
  BY DEF Store!Restart
<1>2. file \in StoreFile
  BY DEF StoreInv
<1>3. answer'.err = None
  BY <1>1 DEF Store!NoAnswer
<1>4. ErrorReal(query', todo', answer')
  BY <1>3, NoErrorIsReal
<1>5. KeepsOk(stage', boxes', index', unitLevels', indexFile')
  BY <1>1 DEF StoreInv, KeepsOk
<1>6. AsksOk(stage', index', query', todo', done', answer')
  BY <1>1, <1>4 DEF AsksOk, AnswerRight
<1>. QED
  BY <1>1, <1>2, <1>5, <1>6, StoreStays

LEMMA StoreStep ==
  ASSUME StoreInv, Store!Next
  PROVE  StoreInv'
<1>1. CASE \E q \in StoreRequest :
             \/ Store!Query(q)
             \/ Store!LacksLevel(q) /\ Store!QueryFails(q, "schema")
             \/ stage = "open" /\ Store!ToRead(q) # <<>> /\ Store!QueryFails(q, "parse")
  <2>1. PICK q \in StoreRequest :
          Store!Query(q) \/ Store!QueryFails(q, "schema") \/ Store!QueryFails(q, "parse")
    BY <1>1
  <2>2. CASE Store!Query(q)
    BY <2>2, QueryStep
  <2>3. CASE Store!QueryFails(q, "schema")
    BY <2>3, QueryFailsStep
  <2>4. CASE Store!QueryFails(q, "parse")
    BY <2>4, QueryFailsStep
  <2>. QED
    BY <2>1, <2>2, <2>3, <2>4
<1>2. CASE \E p \in 1 .. Len(todo) : Store!ReadGroup(p)
  BY <1>2, ReadGroupStep
<1>. QED
  BY <1>1, <1>2, OpenFailsStep, OpenObjectStep, LoadIndexStep, BuildIndexStep, CollectFailsStep,
     CollectRowsStep, IndexDuplicateStep, IndexBuiltStep, RestartStep DEF Store!Next

\* A store keeps, from the open to the last answer, what each of its steps rests on
\* (catchment_store.rs, id_index.rs): the inductive invariant of the part catchments.
THEOREM StoreStagesHold == MCSpec => [](part = "catchments" => StoreInv)
<1>. DEFINE all == <<part, vars, open, catchments>>
            Inv == part = "catchments" => StoreInv
<1>1. MCInit => Inv
  BY StoreStarts DEF MCInit
<1>2. Inv /\ [MCNext]_all => Inv'
  <2>. SUFFICES ASSUME Inv, [MCNext]_all, part' = "catchments" PROVE StoreInv'
    OBVIOUS
  <2>1. CASE UNCHANGED all
    <3>1. part = "catchments" /\ UNCHANGED catchments /\ StoreInv
      BY <2>1
    <3>2. /\ file' = file /\ indexed' = indexed /\ indexFile' = indexFile /\ stage' = stage /\ boxes' = boxes
          /\ index' = index /\ unitLevels' = unitLevels /\ query' = query /\ todo' = todo /\ done' = done
          /\ answer' = answer
      BY <3>1 DEF catchments
    <3>3. KeepsOk(stage', boxes', index', unitLevels', indexFile') /\ file \in StoreFile
      BY <3>1, <3>2 DEF StoreInv
    <3>4. AsksOk(stage', index', query', todo', done', answer')
      BY <3>1, <3>2 DEF StoreInv
    <3>. QED
      BY <3>2, <3>3, <3>4, StoreStays
  <2>2. CASE MCNext
    <3>1. part = "catchments" /\ Store!Next
      BY <2>2 DEF MCNext
    <3>. QED
      BY <3>1, StoreStep
  <2>. QED
    BY <2>1, <2>2
<1>. QED
  BY <1>1, <1>2, PTL DEF MCSpec

\* A store that opened holds every id of the file once, with the group its row is in
\* and the level of the row, whether the map was scanned or loaded from an index file
\* that an earlier process wrote, tore or left from another object, for every set of
\* files, index files and queries and every read concurrency (catchment_store.rs,
\* id_index.rs).
THEOREM IndexExactHolds == MCSpec => []IndexExact
<1>1. (part = "catchments" => StoreInv) => IndexExact
  <2>. SUFFICES ASSUME StoreInv, index # None
                PROVE  /\ DOMAIN index = {Store!AllRows[i].id : i \in 1 .. Len(Store!AllRows)}
                       /\ Store!Cardinality(DOMAIN index) = Len(Store!AllRows)
                       /\ \A u \in DOMAIN index : \E i \in 1 .. Store!NumRows(index[u]) :
                            /\ Store!Rows(index[u])[i].id = u
                            /\ unitLevels # None => unitLevels[u] = Store!Rows(index[u])[i].level
    BY DEF IndexExact, Store!IndexExact
  <2>1. file \in StoreFile /\ Indexes(index) /\ LevelsOk(index, unitLevels)
    BY DEF StoreInv, KeepsOk
  <2>2. DOMAIN index = RowIds
    BY <2>1 DEF Indexes
  <2>3. Store!Cardinality(RowIds) = Len(Store!AllRows)
    <3>. DEFINE s == Store!AllRows
    <3>1. Len(s) \in Nat
      BY <2>1, AllRowsSeq
    <3>2. OneRowEach(s)
      BY <2>1 DEF Indexes, RowsApart, OneRowEach
    <3>3. RowIds = IdsOf(s)
      BY DEF RowIds, IdsOf, Local!Seen
    <3>. HIDE DEF s
    <3>4. Local!Cardinality(IdsOf(s)) = Len(s)
      BY <3>1, <3>2, OneRowEachIs
    <3>5. Store!Cardinality(IdsOf(s)) = Local!Cardinality(IdsOf(s))
      BY DEF Store!Cardinality, Local!Cardinality
    <3>. QED
      BY <3>3, <3>4, <3>5 DEF s
  <2>4. ASSUME NEW u \in RowIds
        PROVE  \E i \in 1 .. Store!NumRows(index[u]) :
                 /\ Store!Rows(index[u])[i].id = u
                 /\ unitLevels # None => unitLevels[u] = Store!Rows(index[u])[i].level
    <3>1. CASE unitLevels = None
      BY <2>1, <3>1 DEF Indexes, GroupHolds
    <3>2. CASE unitLevels # None
      BY <2>1, <3>2 DEF LevelsOk
    <3>. QED
      BY <3>1, <3>2
  <2>. QED
    BY <2>2, <2>3, <2>4 DEF RowIds
<1>. QED
  BY <1>1, StoreStagesHold, PTL

\* A query that succeeds returns exactly the rows of the file it is about, each once and
\* in the order of the file, however the concurrent reads of the row groups end; one
\* that fails for a row blames the first faulty row of the groups it reads
\* (query_by_ids and query_by_bbox, catchment_store.rs).
THEOREM QueryExactHolds == MCSpec => []QueryExact
<1>1. (part = "catchments" => StoreInv) => QueryExact
  <2>. SUFFICES ASSUME StoreInv PROVE Store!AnswerExact /\ Store!ErrorIsReal
    BY DEF QueryExact, Store!QueryExact
  <2>1. AnswerRight(stage, query, answer) /\ ErrorReal(query, todo, answer)
    BY DEF StoreInv, AsksOk
  <2>2. Store!AnswerExact
    BY <2>1 DEF AnswerRight, Store!AnswerExact
  <2>3. Store!ErrorIsReal
    BY <2>1 DEF ErrorReal, GroupAt, Store!ErrorIsReal
  <2>. QED
    BY <2>2, <2>3
<1>. QED
  BY <1>1, StoreStagesHold, PTL

=============================================================================
