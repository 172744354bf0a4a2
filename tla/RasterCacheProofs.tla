------------------------- MODULE RasterCacheProofs -------------------------
(***************************************************************************)
(* Proofs about the raster-window cache, for any number of threads,        *)
(* processes, windows and calls, and about the reader of windows, for      *)
(* every object, box, tile size and pixel size.                            *)
(***************************************************************************)
EXTENDS MCRasterCache, Integers, Sequences, TLAPS

(***************************************************************************)
(* The strengthening that is inductive.  SingleFlight alone is not: that   *)
(* two leaders exclude each other needs that each holds the entry under    *)
(* its own Notify (LeaderHoldsEntry) and that no two share one (NotesDiffer, *)
(* which needs NotesIssued for the Notify a new leader creates).           *)
(***************************************************************************)
LeaderHoldsEntry ==
  \A t \in Task : pc[t] \in Leading => in_flight[ProcOf[t]][win[t]] = note[t]

NotesIssued ==
  \A t \in Task : pc[t] \in Owing => note[t] \in 1 .. (nextNote - 1)

NotesDiffer ==
  \A t, u \in Task :
    pc[t] \in Owing /\ pc[u] \in Owing /\ note[t] = note[u] => t = u

FlightInv == /\ LeaderHoldsEntry
             /\ NotesIssued
             /\ NotesDiffer
             /\ EntryHasLeader

\* The file protocol: what the temporary file has gone through before each
\* stage of the leader, and what a result of "ok" stands for.
TempReady == \A t \in Task : pc[t] = "persist" => temp[t] = "synced"

ResultKnown ==
  \A t \in Task :
    pc[t] \in {"release", "notify", "done"} => result[t] \in {"ok", "err"}

OkStored ==
  \A t \in Task :
    pc[t] \in {"release", "notify", "done"} /\ result[t] = "ok"
      => disk[win[t]].data = "synced"

FileInv == /\ TempReady
           /\ PublishedIsDurable
           /\ ResultKnown
           /\ OkStored

-----------------------------------------------------------------------------

\* Type correctness of the cache's state: every step of every thread, crash
\* and power loss leaves the variables in their types.
THEOREM TypeCorrect == Spec => []TypeOK
<1> USE ProcOfAssumption, MaxCallsAssumption
    DEF TypeOK, PC, Owing, Leading, TempState, NoNote
<1>1. Init => TypeOK
  BY DEF Init, Absent
<1>2. TypeOK /\ [Next]_vars => TypeOK'
  <2> SUFFICES ASSUME TypeOK, [Next]_vars PROVE TypeOK'
    OBVIOUS
  <2>1. ASSUME NEW t \in Task, Step(t) PROVE TypeOK'
    <3>1. CASE PrepareWindow(t)
      BY <3>1 DEF PrepareWindow, Goto
    <3>2. CASE PrepareWindowFails(t)
      BY <3>2 DEF PrepareWindowFails, Return, Goto
    <3>3. CASE Lookup(t)
      BY <3>3 DEF Lookup, Return, Goto
    <3>4. CASE LookupFails(t)
      BY <3>4 DEF LookupFails, Return, Goto
    <3>5. CASE EnterOccupied(t)
      BY <3>5 DEF EnterOccupied, Goto
    <3>6. CASE EnterVacant(t)
      BY <3>6 DEF EnterVacant, Goto
    <3>7. CASE RegisterWaiter(t)
      BY <3>7 DEF RegisterWaiter, Goto
    <3>8. CASE Recheck(t)
      BY <3>8 DEF Recheck, Return, Goto
    <3>9. CASE FetchTiles(t)
      BY <3>9 DEF FetchTiles, Goto
    <3>10. CASE WriteTemp(t)
      BY <3>10 DEF WriteTemp, Goto
    <3>11. CASE SyncTemp(t)
      BY <3>11 DEF SyncTemp, Goto
    <3>12. CASE PersistNoclobber(t)
      BY <3>12 DEF PersistNoclobber, Goto, FileAt
    <3>13. CASE FetchFails(t)
      BY <3>13 DEF FetchFails, Goto
    <3>14. CASE Release(t)
      BY <3>14 DEF Release, Goto
    <3>15. CASE NotifyWaiters(t)
      BY <3>15 DEF NotifyWaiters
    <3> QED
      BY <2>1, <3>1, <3>2, <3>3, <3>4, <3>5, <3>6, <3>7, <3>8, <3>9, <3>10,
         <3>11, <3>12, <3>13, <3>14, <3>15 DEF Step
  <2>2. ASSUME NEW t \in Task, NEW w \in Window, Call(t, w) PROVE TypeOK'
    BY <2>2 DEF Call
  <2>3. ASSUME NEW p \in Process, Crash(p) PROVE TypeOK'
    BY <2>3 DEF Crash
  <2>4. CASE PowerLoss
    <3>1. disk' \in [Window -> [data : {"absent", "torn"} \cup TempState, inode : Nat]]
      BY <2>4 DEF PowerLoss, FileAt, Absent, NoNote
    <3>. QED
      BY <2>4, <3>1 DEF PowerLoss
  <2>5. CASE UNCHANGED vars
    BY <2>5 DEF vars
  <2> QED
    BY <2>1, <2>2, <2>3, <2>4, <2>5 DEF Next
<1> QED
  BY <1>1, <1>2, PTL DEF Spec

-----------------------------------------------------------------------------

LEMMA FlightInvInit == Init => FlightInv
  BY DEF Init, FlightInv, LeaderHoldsEntry, NotesIssued, NotesDiffer,
         EntryHasLeader, Leading, Owing, NoNote

\* A step that leaves the map, the leaders and what the owing threads hold
\* alone cannot disturb the invariant: most steps are of this kind.
FlightFrame ==
  /\ in_flight' = in_flight
  /\ nextNote' = nextNote
  /\ \A u \in Task :
       /\ (pc'[u] \in Leading) <=> (pc[u] \in Leading)
       /\ pc'[u] \in Owing => /\ pc[u] \in Owing
                              /\ note'[u] = note[u]
                              /\ win'[u] = win[u]

LEMMA FlightFrameKeeps == FlightInv /\ FlightFrame => FlightInv'
<1> SUFFICES ASSUME FlightInv, FlightFrame PROVE FlightInv'
  OBVIOUS
<1> USE DEF FlightFrame, FlightInv
<1>0. Leading \subseteq Owing
  BY DEF Owing
<1>1. LeaderHoldsEntry'
  BY <1>0 DEF LeaderHoldsEntry
<1>2. NotesIssued'
  BY DEF NotesIssued
<1>3. NotesDiffer'
  BY DEF NotesDiffer
<1>4. EntryHasLeader'
  <2> SUFFICES ASSUME NEW p \in Process, NEW w \in Window,
                      in_flight'[p][w] # NoNote
               PROVE  \E t \in Task : /\ pc'[t] \in Leading
                                      /\ ProcOf[t] = p /\ win'[t] = w
                                      /\ note'[t] = in_flight'[p][w]
    BY DEF EntryHasLeader
  <2>1. PICK t \in Task : /\ pc[t] \in Leading
                          /\ ProcOf[t] = p /\ win[t] = w
                          /\ note[t] = in_flight[p][w]
    BY DEF EntryHasLeader
  <2> QED
    BY <2>1, <1>0
<1> QED
  BY <1>1, <1>2, <1>3, <1>4

LEMMA FlightInvStep == TypeOK /\ FlightInv /\ [Next]_vars => FlightInv'
<1> SUFFICES ASSUME TypeOK, FlightInv, [Next]_vars PROVE FlightInv'
  OBVIOUS
<1> USE ProcOfAssumption
<1>1. ASSUME NEW t \in Task, Step(t) PROVE FlightInv'
  <2> USE DEF FlightFrame, Goto, Return, Owing, Leading, TypeOK
  <2>1. CASE PrepareWindow(t) \/ PrepareWindowFails(t)
    BY <2>1, FlightFrameKeeps DEF PrepareWindow, PrepareWindowFails
  <2>2. CASE Lookup(t)
    BY <2>2, FlightFrameKeeps DEF Lookup
  <2>3. CASE LookupFails(t)
    BY <2>3, FlightFrameKeeps DEF LookupFails
  <2>4. CASE EnterOccupied(t)
    BY <2>4, FlightFrameKeeps DEF EnterOccupied
  <2>5. CASE EnterVacant(t)
    <3>1. /\ pc[t] = "enter" /\ pc' = [pc EXCEPT ![t] = "fetch"]
          /\ in_flight[ProcOf[t]][win[t]] = NoNote
          /\ note' = [note EXCEPT ![t] = nextNote]
          /\ in_flight' = [in_flight EXCEPT ![ProcOf[t]][win[t]] = nextNote]
          /\ nextNote' = nextNote + 1
          /\ win' = win
      BY <2>5 DEF EnterVacant
    <3>2. \A u \in Task : pc[u] \in Leading
                            => ~(ProcOf[u] = ProcOf[t] /\ win[u] = win[t])
      BY <3>1 DEF FlightInv, LeaderHoldsEntry, NotesIssued, NoNote
    <3>3. LeaderHoldsEntry'
      BY <3>1, <3>2 DEF FlightInv, LeaderHoldsEntry
    <3>4. NotesIssued'
      BY <3>1 DEF FlightInv, NotesIssued
    <3>5. NotesDiffer'
      BY <3>1 DEF FlightInv, NotesIssued, NotesDiffer
    <3>6. EntryHasLeader'
      <4> SUFFICES ASSUME NEW p \in Process, NEW w \in Window,
                          in_flight'[p][w] # NoNote
                   PROVE  \E u \in Task : /\ pc'[u] \in Leading
                                          /\ ProcOf[u] = p /\ win'[u] = w
                                          /\ note'[u] = in_flight'[p][w]
        BY DEF EntryHasLeader
      <4>1. CASE p = ProcOf[t] /\ w = win[t]
        BY <3>1, <4>1
      <4>2. CASE ~(p = ProcOf[t] /\ w = win[t])
        <5>1. in_flight'[p][w] = in_flight[p][w]
          BY <3>1, <4>2
        <5>2. PICK u \in Task : /\ pc[u] \in Leading
                                /\ ProcOf[u] = p /\ win[u] = w
                                /\ note[u] = in_flight[p][w]
          BY <5>1 DEF FlightInv, EntryHasLeader
        <5> QED
          BY <3>1, <5>1, <5>2
      <4> QED
        BY <4>1, <4>2
    <3> QED
      BY <3>3, <3>4, <3>5, <3>6 DEF FlightInv
  <2>6. CASE RegisterWaiter(t)
    BY <2>6, FlightFrameKeeps DEF RegisterWaiter
  <2>7. CASE Recheck(t)
    BY <2>7, FlightFrameKeeps DEF Recheck
  <2>8. CASE FetchTiles(t)
    BY <2>8, FlightFrameKeeps DEF FetchTiles
  <2>9. CASE WriteTemp(t)
    BY <2>9, FlightFrameKeeps DEF WriteTemp
  <2>10. CASE SyncTemp(t)
    BY <2>10, FlightFrameKeeps DEF SyncTemp
  <2>11. CASE PersistNoclobber(t)
    BY <2>11, FlightFrameKeeps DEF PersistNoclobber
  <2>12. CASE FetchFails(t)
    BY <2>12, FlightFrameKeeps DEF FetchFails
  <2>13. CASE Release(t)
    <3>1. /\ pc[t] = "release" /\ pc' = [pc EXCEPT ![t] = "notify"]
          /\ in_flight' = [in_flight EXCEPT ![ProcOf[t]][win[t]] = NoNote]
          /\ note' = note /\ nextNote' = nextNote /\ win' = win
      BY <2>13 DEF Release
    <3>2. \A u \in Task : pc'[u] \in Leading
                            => ~(ProcOf[u] = ProcOf[t] /\ win[u] = win[t])
      BY <3>1 DEF FlightInv, LeaderHoldsEntry, NotesDiffer
    <3>3. LeaderHoldsEntry'
      BY <3>1, <3>2 DEF FlightInv, LeaderHoldsEntry
    <3>4. NotesIssued'
      BY <3>1 DEF FlightInv, NotesIssued
    <3>5. NotesDiffer'
      BY <3>1 DEF FlightInv, NotesDiffer
    <3>6. EntryHasLeader'
      <4> SUFFICES ASSUME NEW p \in Process, NEW w \in Window,
                          in_flight'[p][w] # NoNote
                   PROVE  \E u \in Task : /\ pc'[u] \in Leading
                                          /\ ProcOf[u] = p /\ win'[u] = w
                                          /\ note'[u] = in_flight'[p][w]
        BY DEF EntryHasLeader
      <4>1. /\ ~(p = ProcOf[t] /\ w = win[t])
            /\ in_flight'[p][w] = in_flight[p][w]
        BY <3>1 DEF NoNote
      <4>2. PICK u \in Task : /\ pc[u] \in Leading
                              /\ ProcOf[u] = p /\ win[u] = w
                              /\ note[u] = in_flight[p][w]
        BY <4>1 DEF FlightInv, EntryHasLeader
      <4> QED
        BY <3>1, <4>1, <4>2
    <3> QED
      BY <3>3, <3>4, <3>5, <3>6 DEF FlightInv
  <2>14. CASE NotifyWaiters(t)
    BY <2>14, FlightFrameKeeps DEF NotifyWaiters
  <2> QED
    BY <1>1, <2>1, <2>2, <2>3, <2>4, <2>5, <2>6, <2>7, <2>8, <2>9, <2>10,
       <2>11, <2>12, <2>13, <2>14 DEF Step
<1>2. ASSUME NEW t \in Task, NEW w \in Window, Call(t, w) PROVE FlightInv'
  BY <1>2, FlightFrameKeeps DEF Call, FlightFrame, Owing, Leading, TypeOK
<1>3. ASSUME NEW p \in Process, Crash(p) PROVE FlightInv'
  <2>1. /\ in_flight' = [in_flight EXCEPT ![p] = [w \in Window |-> NoNote]]
        /\ nextNote' = nextNote /\ win' = win
        /\ \A u \in Task : ProcOf[u] = p => pc'[u] = "idle"
        /\ \A u \in Task : ProcOf[u] # p => pc'[u] = pc[u] /\ note'[u] = note[u]
    BY <1>3 DEF Crash
  <2>2. \A u \in Task : pc'[u] \in Owing =>
          pc[u] \in Owing /\ ProcOf[u] # p /\ pc'[u] = pc[u] /\ note'[u] = note[u]
    BY <2>1 DEF Owing, Leading
  <2>3. Leading \subseteq Owing
    BY DEF Owing
  <2>4. LeaderHoldsEntry'
    BY <2>1, <2>2, <2>3 DEF FlightInv, LeaderHoldsEntry, TypeOK
  <2>5. NotesIssued' /\ NotesDiffer'
    BY <2>1, <2>2 DEF FlightInv, NotesIssued, NotesDiffer
  <2>6. EntryHasLeader'
    <3> SUFFICES ASSUME NEW q \in Process, NEW w \in Window,
                        in_flight'[q][w] # NoNote
                 PROVE  \E u \in Task : /\ pc'[u] \in Leading
                                        /\ ProcOf[u] = q /\ win'[u] = w
                                        /\ note'[u] = in_flight'[q][w]
      BY DEF EntryHasLeader
    <3>1. q # p /\ in_flight'[q][w] = in_flight[q][w]
      BY <2>1 DEF TypeOK
    <3>2. PICK u \in Task : /\ pc[u] \in Leading
                            /\ ProcOf[u] = q /\ win[u] = w
                            /\ note[u] = in_flight[q][w]
      BY <3>1 DEF FlightInv, EntryHasLeader
    <3> QED
      BY <2>1, <3>1, <3>2
  <2> QED
    BY <2>4, <2>5, <2>6 DEF FlightInv
<1>4. CASE PowerLoss
  BY <1>4 DEF PowerLoss, FlightInv, LeaderHoldsEntry, NotesIssued,
     NotesDiffer, EntryHasLeader, Owing, Leading
<1>5. CASE UNCHANGED vars
  BY <1>5, FlightFrameKeeps DEF vars, FlightFrame
<1> QED
  BY <1>1, <1>2, <1>3, <1>4, <1>5 DEF Next

LEMMA FlightInvariant == Spec => []FlightInv
  BY FlightInvInit, FlightInvStep, TypeCorrect, PTL DEF Spec

\* At most one thread of a process downloads and writes a given window, for
\* any number of threads, processes and windows (get_or_fetch_window).
THEOREM SingleFlightHolds == Spec => []SingleFlight
<1>1. TypeOK /\ FlightInv => SingleFlight
  BY ProcOfAssumption
     DEF TypeOK, FlightInv, LeaderHoldsEntry, NotesDiffer, SingleFlight,
         Leading, Owing
<1> QED
  BY <1>1, FlightInvariant, TypeCorrect, PTL

\* No in_flight entry is ever left without the leader that will remove it,
\* whatever fetch fails and whatever process dies.
THEOREM EntryHasLeaderHolds == Spec => []EntryHasLeader
<1>1. FlightInv => EntryHasLeader
  BY DEF FlightInv
<1> QED
  BY <1>1, FlightInvariant, PTL

-----------------------------------------------------------------------------

LEMMA FileInvInit == Init => FileInv
  BY DEF Init, FileInv, TempReady, PublishedIsDurable, ResultKnown, OkStored,
         Absent

LEMMA FileInvStep == TypeOK /\ FileInv /\ [Next]_vars => FileInv'
<1> SUFFICES ASSUME TypeOK, FileInv, [Next]_vars PROVE FileInv'
  OBVIOUS
<1> USE DEF FileInv, TempReady, PublishedIsDurable, ResultKnown, OkStored
<1>1. ASSUME NEW t \in Task, Step(t) PROVE FileInv'
  <2> USE DEF Goto, Return, CacheHit, TypeOK
  <2>1. CASE PrepareWindow(t) \/ PrepareWindowFails(t)
    BY <2>1 DEF PrepareWindow, PrepareWindowFails
  <2>2. CASE Lookup(t)
    <3>1. CASE CacheHit(win[t])
      <4>1. /\ pc' = [pc EXCEPT ![t] = "done"]
            /\ result' = [result EXCEPT ![t] = "ok"]
            /\ UNCHANGED <<win, temp, disk>>
        BY <2>2, <3>1 DEF Lookup
      <4>2. disk[win[t]].data = "synced"
        BY <3>1
      <4> QED
        BY <4>1, <4>2
    <3>2. CASE ~CacheHit(win[t])
      <4>1. pc' = [pc EXCEPT ![t] = "enter"] /\ UNCHANGED <<win, temp, disk, result>>
        BY <2>2, <3>2 DEF Lookup
      <4> QED
        BY <4>1
    <3> QED
      BY <3>1, <3>2
  <2>3. CASE LookupFails(t)
    BY <2>3 DEF LookupFails
  <2>4. CASE EnterOccupied(t) \/ EnterVacant(t)
    BY <2>4 DEF EnterOccupied, EnterVacant
  <2>5. CASE RegisterWaiter(t)
    BY <2>5 DEF RegisterWaiter
  <2>6. CASE Recheck(t)
    <3>1. CASE CacheHit(win[t])
      <4>1. /\ pc' = [pc EXCEPT ![t] = "done"]
            /\ result' = [result EXCEPT ![t] = "ok"]
            /\ UNCHANGED <<win, temp, disk>>
        BY <2>6, <3>1 DEF Recheck
      <4>2. disk[win[t]].data = "synced"
        BY <3>1
      <4> QED
        BY <4>1, <4>2
    <3>2. CASE ~CacheHit(win[t])
      <4>1. pc' = [pc EXCEPT ![t] = "enter"] /\ UNCHANGED <<win, temp, disk, result>>
        BY <2>6, <3>2 DEF Recheck
      <4> QED
        BY <4>1
    <3> QED
      BY <3>1, <3>2
  <2>7. CASE FetchTiles(t)
    BY <2>7 DEF FetchTiles
  <2>8. CASE WriteTemp(t)
    BY <2>8 DEF WriteTemp
  <2>9. CASE SyncTemp(t)
    BY <2>9 DEF SyncTemp
  <2>10. CASE PersistNoclobber(t)
    <3>1. temp[t] = "synced"
      BY <2>10 DEF PersistNoclobber
    <3>2. /\ \A w \in Window : disk[w].data = "synced" => disk'[w].data = "synced"
          /\ disk'[win[t]].data = "synced"
      BY <2>10, <3>1 DEF PersistNoclobber, FileAt
    <3>3. PublishedIsDurable'
      BY <2>10, <3>1 DEF PersistNoclobber, FileAt
    <3> QED
      BY <2>10, <3>2, <3>3 DEF PersistNoclobber
  <2>11. CASE FetchFails(t)
    BY <2>11 DEF FetchFails
  <2>12. CASE Release(t)
    BY <2>12 DEF Release
  <2>13. CASE NotifyWaiters(t)
    BY <2>13 DEF NotifyWaiters
  <2> QED
    BY <1>1, <2>1, <2>2, <2>3, <2>4, <2>5, <2>6, <2>7, <2>8, <2>9, <2>10,
       <2>11, <2>12, <2>13 DEF Step
<1>2. ASSUME NEW t \in Task, NEW w \in Window, Call(t, w) PROVE FileInv'
  BY <1>2 DEF Call, TypeOK
<1>3. ASSUME NEW p \in Process, Crash(p) PROVE FileInv'
  BY <1>3 DEF Crash, TypeOK
<1>4. CASE PowerLoss
  BY <1>4 DEF PowerLoss, FileAt, Absent, TypeOK
<1>5. CASE UNCHANGED vars
  BY <1>5 DEF vars
<1> QED
  BY <1>1, <1>2, <1>3, <1>4, <1>5 DEF Next

LEMMA FileInvariant == Spec => []FileInv
  BY FileInvInit, FileInvStep, TypeCorrect, PTL DEF Spec

\* The cache directory only ever offers complete windows whose data is on the
\* disk, across failed fetches, dying processes and power loss.
THEOREM PublishedIsDurableHolds == Spec => []PublishedIsDurable
<1>1. FileInv => PublishedIsDurable
  BY DEF FileInv
<1> QED
  BY <1>1, FileInvariant, PTL

\* Every Ok of get_or_fetch_window names a complete file.
THEOREM OkHasFileHolds == Spec => []OkHasFile
<1>1. FileInv => OkHasFile
  BY DEF FileInv, OkStored, OkHasFile
<1> QED
  BY <1>1, FileInvariant, PTL

-----------------------------------------------------------------------------

LEMMA DiskStep == TypeOK /\ FileInv /\ [Next]_vars => WriteOnceStep \/ UNCHANGED vars
<1> SUFFICES ASSUME TypeOK, FileInv, Next PROVE WriteOnceStep
  OBVIOUS
<1> USE DEF WriteOnceStep, CacheHit
<1>1. ASSUME NEW t \in Task, Step(t) PROVE WriteOnceStep
  <2>1. CASE PersistNoclobber(t)
    BY <2>1 DEF PersistNoclobber, TypeOK
  <2>2. CASE ~PersistNoclobber(t)
    <3>1. disk' = disk
      BY <1>1, <2>2 DEF Step, PrepareWindow, PrepareWindowFails, Lookup,
         LookupFails, EnterOccupied, EnterVacant, RegisterWaiter, Recheck,
         FetchTiles, WriteTemp, SyncTemp, FetchFails, Release, NotifyWaiters
    <3> QED
      BY <3>1
  <2> QED
    BY <2>1, <2>2
<1>2. ASSUME NEW t \in Task, NEW w \in Window, Call(t, w) PROVE WriteOnceStep
  BY <1>2 DEF Call
<1>3. ASSUME NEW p \in Process, Crash(p) PROVE WriteOnceStep
  BY <1>3 DEF Crash
<1>4. CASE PowerLoss
  BY <1>4 DEF PowerLoss, FileInv, PublishedIsDurable
<1> QED
  BY <1>1, <1>2, <1>3, <1>4 DEF Next

\* No step replaces a file, and none removes one while a caller is left that may
\* be reading it.
THEOREM WriteOnceHolds == Spec => WriteOnce
  BY DiskStep, FileInvariant, TypeCorrect, PTL DEF Spec, WriteOnce

-----------------------------------------------------------------------------
(* The cache implements WindowStore, step by step. *)

StatusOf == [t \in Task |-> Status(t)]

\* Steps between a call and its return that leave the store alone.
LEMMA StutterStep ==
  ASSUME TypeOK, UNCHANGED <<win, disk, result>>,
         \A u \in Task : /\ (pc'[u] = "idle") <=> (pc[u] = "idle")
                         /\ (pc'[u] = "done") <=> (pc[u] = "done")
  PROVE  UNCHANGED Abstract!svars
  BY DEF Abstract!svars, Status, Stored

\* A call that returns what is not in conflict with the store.
LEMMA ReturnStep ==
  ASSUME TypeOK, NEW t \in Task, NEW r \in {"ok", "err"},
         pc[t] \notin {"idle", "done"},
         r = "ok" => disk[win[t]].data = "synced",
         win' = win, disk' = disk,
         \A u \in Task : u # t => /\ result'[u] = result[u]
                                  /\ (pc'[u] = "idle") <=> (pc[u] = "idle")
                                  /\ (pc'[u] = "done") <=> (pc[u] = "done"),
         pc'[t] = "done", result'[t] = r
  PROVE  Abstract!Next
<1>1. StatusOf' = [StatusOf EXCEPT ![t] = r]
  BY DEF StatusOf, Status
<1>2. StatusOf[t] = "pending" /\ Stored' = Stored
  BY DEF StatusOf, Status, Stored
<1>3. CASE r = "ok"
  <2>1. win[t] \in Stored
    BY <1>3 DEF Stored, TypeOK
  <2>2. Abstract!EndOk(t)
    BY <1>1, <1>2, <1>3, <2>1 DEF Abstract!EndOk, StatusOf
  <2> QED
    BY <2>2 DEF Abstract!Next
<1>4. CASE r = "err"
  <2>1. Abstract!EndErr(t)
    BY <1>1, <1>2, <1>4 DEF Abstract!EndErr, StatusOf
  <2> QED
    BY <2>1 DEF Abstract!Next
<1> QED
  BY <1>3, <1>4

LEMMA ThreadRefines ==
  ASSUME TypeOK, FileInv, NEW t \in Task, Step(t)
  PROVE  Abstract!Next \/ UNCHANGED Abstract!svars
<1> USE DEF Goto, Return
<1>0. pc \in [Task -> PC] /\ result \in [Task -> {"none", "ok", "err"}]
  BY DEF TypeOK
<1>1. CASE PrepareWindow(t)
  BY <1>0, <1>1, StutterStep DEF PrepareWindow
<1>2. CASE PrepareWindowFails(t)
  BY <1>0, <1>2, ReturnStep DEF PrepareWindowFails
<1>3. CASE Lookup(t) \/ Recheck(t)
  <2>1. CASE CacheHit(win[t])
    <3>1. disk[win[t]].data = "synced"
      BY <2>1 DEF CacheHit, FileInv, PublishedIsDurable, TypeOK
    <3> QED
      BY <1>0, <1>3, <2>1, <3>1, ReturnStep DEF Lookup, Recheck
  <2>2. CASE ~CacheHit(win[t])
    BY <1>0, <1>3, <2>2, StutterStep DEF Lookup, Recheck
  <2> QED
    BY <2>1, <2>2
<1>4. CASE LookupFails(t)
  BY <1>0, <1>4, ReturnStep DEF LookupFails
<1>5. CASE EnterOccupied(t) \/ EnterVacant(t)
  BY <1>0, <1>5, StutterStep DEF EnterOccupied, EnterVacant
<1>6. CASE RegisterWaiter(t)
  BY <1>0, <1>6, StutterStep DEF RegisterWaiter
<1>7. CASE FetchTiles(t) \/ WriteTemp(t) \/ SyncTemp(t)
  BY <1>0, <1>7, StutterStep DEF FetchTiles, WriteTemp, SyncTemp
<1>8. CASE PersistNoclobber(t)
  <2>1. /\ pc[t] = "persist" /\ pc' = [pc EXCEPT ![t] = "release"]
        /\ result' = [result EXCEPT ![t] = "ok"] /\ win' = win
        /\ disk' = IF CacheHit(win[t]) THEN disk
                     ELSE [disk EXCEPT ![win[t]] = FileAt(temp[t], note[t])]
    BY <1>8 DEF PersistNoclobber
  <2>2. temp[t] = "synced"
    BY <2>1 DEF FileInv, TempReady
  <2>3. Stored' = Stored \cup {win[t]}
    BY <2>1, <2>2
       DEF Stored, FileAt, CacheHit, FileInv, PublishedIsDurable, TypeOK
  <2>4. StatusOf' = StatusOf /\ StatusOf[t] = "pending"
    BY <1>0, <2>1 DEF StatusOf, Status
  <2>5. Abstract!Store(t)
    BY <2>1, <2>3, <2>4 DEF Abstract!Store, StatusOf
  <2> QED
    BY <2>5 DEF Abstract!Next
<1>9. CASE FetchFails(t)
  <2>1. /\ win' = win /\ disk' = disk
        /\ result' = [result EXCEPT ![t] = "err"]
        /\ pc[t] \in {"fetch", "write", "sync", "persist"}
        /\ pc' = [pc EXCEPT ![t] = "release"]
    BY <1>9 DEF FetchFails
  <2>2. StatusOf' = StatusOf /\ Stored' = Stored
    BY <1>0, <2>1 DEF StatusOf, Status, Stored
  <2> QED
    BY <2>1, <2>2 DEF Abstract!svars, StatusOf
<1>10. CASE Release(t)
  BY <1>0, <1>10, StutterStep DEF Release
<1>11. CASE NotifyWaiters(t)
  <2>1. /\ result[t] \in {"ok", "err"}
        /\ result[t] = "ok" => disk[win[t]].data = "synced"
    BY <1>11 DEF NotifyWaiters, FileInv, ResultKnown, OkStored
  <2>2. /\ pc[t] = "notify" /\ pc'[t] = "done"
        /\ UNCHANGED <<win, disk, result>>
        /\ \A u \in Task : u # t => /\ (pc'[u] = "idle") <=> (pc[u] = "idle")
                                    /\ (pc'[u] = "done") <=> (pc[u] = "done")
    BY <1>0, <1>11 DEF NotifyWaiters
  <2> QED
    BY <2>1, <2>2, ReturnStep
<1> QED
  BY <1>1, <1>2, <1>3, <1>4, <1>5, <1>6, <1>7, <1>8, <1>9, <1>10, <1>11 DEF Step

LEMMA StepRefines ==
  TypeOK /\ FileInv /\ [Next]_vars => Abstract!Next \/ UNCHANGED Abstract!svars
<1> SUFFICES ASSUME TypeOK, FileInv, [Next]_vars
             PROVE  Abstract!Next \/ UNCHANGED Abstract!svars
  OBVIOUS
<1>1. ASSUME NEW t \in Task, Step(t)
      PROVE  Abstract!Next \/ UNCHANGED Abstract!svars
  BY <1>1, ThreadRefines
<1>2. ASSUME NEW t \in Task, NEW w \in Window, Call(t, w)
      PROVE  Abstract!Next
  <2>1. /\ StatusOf[t] # "pending"
        /\ StatusOf' = [StatusOf EXCEPT ![t] = "pending"]
        /\ Stored' = Stored
    BY <1>2 DEF Call, StatusOf, Status, Stored, TypeOK
  <2>2. Abstract!Begin(t, w)
    BY <1>2, <2>1 DEF Call, Abstract!Begin, StatusOf
  <2> QED
    BY <2>2 DEF Abstract!Next
<1>3. ASSUME NEW p \in Process, Crash(p) PROVE Abstract!Next
  <2> DEFINE dead == {t \in Task : ProcOf[t] = p}
  <2>1. /\ StatusOf' = [t \in Task |-> IF t \in dead THEN "idle" ELSE StatusOf[t]]
        /\ Stored' = Stored
    BY <1>3 DEF Crash, StatusOf, Status, Stored
  <2>2. Abstract!Abort(dead)
    BY <1>3, <2>1 DEF Crash, Abstract!Abort, StatusOf
  <2> QED
    BY <2>2 DEF Abstract!Next
<1>4. CASE PowerLoss
  <2>1. /\ StatusOf' = [t \in Task |-> "idle"]
        /\ Stored' \in SUBSET Stored
    BY <1>4 DEF PowerLoss, StatusOf, Status, Stored, FileAt, Absent
  <2>2. Abstract!Lose
    BY <1>4, <2>1 DEF PowerLoss, Abstract!Lose, StatusOf
  <2> QED
    BY <2>2 DEF Abstract!Next
<1>5. CASE UNCHANGED vars
  BY <1>5, StutterStep DEF vars
<1> QED
  BY <1>1, <1>2, <1>3, <1>4, <1>5 DEF Next

\* Concurrent fetches, failed fetches, retries and crashes included, the cache
\* is a store of complete windows that grows as long as a caller lives, and loses
\* windows only with all of them: RasterCache implements WindowStore.
THEOREM RefinesWindowStore == Spec => ImplementsWindowStore
<1>1. Init => Abstract!Init
  BY DEF Init, Abstract!Init, Stored, Status, Absent
<1> QED
  BY <1>1, StepRefines, FileInvariant, TypeCorrect, PTL
     DEF Spec, ImplementsWindowStore, Abstract!Spec

\* One leader per process and window, no entry without its leader, and no Ok
\* without a stored file.
THEOREM FlightsSoundHolds == Spec => []FlightsSound
BY SingleFlightHolds, EntryHasLeaderHolds, OkHasFileHolds, PTL DEF FlightsSound

\* Published windows are kept as they are, and the directory grows, and loses
\* windows to a power loss, as the abstract store does.
THEOREM KeepsWindowsHolds == Spec => KeepsWindows
BY WriteOnceHolds, RefinesWindowStore, PTL DEF KeepsWindows

-----------------------------------------------------------------------------
(* Part cog: the reader of windows (CogWindow). *)

\* Arithmetic of the pixel and tile grids.
LEMMA TimesMonotone ==
  ASSUME NEW a \in Int, NEW b \in Int, NEW w \in Nat, a <= b
  PROVE  a * w <= b * w
<1>1. (b - a) * w >= 0
  OBVIOUS
<1>2. (b - a) * w = b * w - a * w
  OBVIOUS
<1>. QED
  BY <1>1, <1>2

LEMMA DivIs ==
  ASSUME NEW x \in Int, NEW w \in Nat \ {0}
  PROVE  /\ x \div w \in Int /\ x % w \in 0 .. w - 1
         /\ x = (x \div w) * w + (x % w)
OBVIOUS

LEMMA DivUnique ==
  ASSUME NEW w \in Nat \ {0}, NEW a \in Int, NEW b \in 0 .. w - 1
  PROVE  (a * w + b) \div w = a /\ (a * w + b) % w = b
<1>. DEFINE x == a * w + b  q == x \div w  m == x % w
<1>0. x \in Int
  OBVIOUS
<1>1. q \in Int /\ m \in 0 .. w - 1 /\ x = q * w + m
  <2>. HIDE DEF x
  <2>. QED
    BY <1>0, DivIs
<1>2. a * w + b = q * w + m
  BY <1>1
<1>. HIDE DEF x, q, m
<1>3. ASSUME q < a PROVE FALSE
  <2>1. (q + 1) * w <= a * w
    BY <1>1, <1>3, TimesMonotone
  <2>2. (q + 1) * w = q * w + w
    BY <1>1
  <2>3. q * w \in Int /\ a * w \in Int
    BY <1>1
  <2>. QED
    BY <1>1, <1>2, <2>1, <2>2, <2>3
<1>4. ASSUME a < q PROVE FALSE
  <2>1. (a + 1) * w <= q * w
    BY <1>1, <1>4, TimesMonotone
  <2>2. (a + 1) * w = a * w + w
    OBVIOUS
  <2>3. q * w \in Int /\ a * w \in Int
    BY <1>1
  <2>. QED
    BY <1>1, <1>2, <2>1, <2>2, <2>3
<1>5. q = a
  BY <1>1, <1>3, <1>4
<1>6. m = b
  <2>1. q * w = a * w /\ a * w \in Int
    BY <1>5
  <2>. QED
    BY <1>1, <1>2, <2>1
<1>. QED
  BY <1>5, <1>6 DEF q, m, x

\* The quotient is the greatest that fits.
LEMMA DivBounds ==
  ASSUME NEW x \in Int, NEW w \in Nat \ {0}, NEW k \in Int
  PROVE  /\ x <= k * w + w - 1 => x \div w <= k
         /\ x >= k * w => x \div w >= k
<1>1. x \div w \in Int /\ x % w \in 0 .. w - 1 /\ x = (x \div w) * w + (x % w)
  BY DivIs
<1>. DEFINE q == x \div w  m == x % w
<1>. HIDE DEF q, m
<1>2. q \in Int /\ m \in 0 .. w - 1 /\ x = q * w + m /\ q * w \in Int /\ k * w \in Int
  BY <1>1 DEF q, m
<1>3. ASSUME x <= k * w + w - 1, q > k PROVE FALSE
  <2>1. (k + 1) * w <= q * w
    BY <1>2, <1>3, TimesMonotone
  <2>2. (k + 1) * w = k * w + w
    OBVIOUS
  <2>. QED
    BY <1>2, <1>3, <2>1, <2>2
<1>4. ASSUME x >= k * w, q < k PROVE FALSE
  <2>1. (q + 1) * w <= k * w
    BY <1>2, <1>4, TimesMonotone
  <2>2. (q + 1) * w = q * w + w
    BY <1>2
  <2>. QED
    BY <1>2, <1>4, <2>1, <2>2
<1>. QED
  BY <1>2, <1>3, <1>4 DEF q

LEMMA CeilDivIs ==
  ASSUME NEW x \in Int, NEW w \in Nat \ {0}, NEW k \in Int
  PROVE  /\ Cog!CeilDiv(x, w) \in Int
         /\ x <= Cog!CeilDiv(x, w) * w
         /\ k * w <= x => k <= Cog!CeilDiv(x, w)
<1>. DEFINE y == -x  q == y \div w  m == y % w
<1>0. y \in Int
  OBVIOUS
<1>1. y \in Int /\ q \in Int /\ m \in 0 .. w - 1 /\ y = q * w + m
  <2>. HIDE DEF y
  <2>. QED
    BY <1>0, DivIs
<1>2. Cog!CeilDiv(x, w) = -q
  BY DEF Cog!CeilDiv
<1>3. k * w <= x => q <= -k
  <2>1. y <= (-k) * w => q <= -k
    <3>1. (-k) * w <= (-k) * w + w - 1
      OBVIOUS
    <3>. QED
      BY <1>1, <3>1, DivBounds
  <2>. QED
    BY <2>1
<1>. HIDE DEF q, m
<1>4. x = (-q) * w - m
  BY <1>1
<1>. QED
  BY <1>1, <1>2, <1>3, <1>4

\* What is assumed of the objects and requests.
LEMMA Sizes ==
  /\ CogTile \in Nat \ {0} /\ CogPixel \in Nat \ {0} /\ CogPrecise \in Nat \ {0}
  /\ \A o \in CogObject : Cog!IsObject(o)
  /\ \A q \in CogRequest : Cog!IsRequest(q)
  /\ None # "outside" /\ NaN \notin Int
BY ReaderAssumption DEF Cog!CogAssumption

\* The scalars of a layout that read_remote_layout accepts.
LEMMA LayoutFacts ==
  ASSUME object \in CogObject, Cog!LayoutOk
  PROVE  /\ Cog!Width \in Nat \ {0} /\ Cog!Height \in Nat \ {0}
         /\ \A t \in Cog!ScalarTag : t \in DOMAIN object.tags /\ Cog!Scalar(t) \in Nat
<1>1. \A t \in DOMAIN object.tags : Cog!IsEntry(object.tags[t])
  BY Sizes DEF Cog!IsObject
<1>2. \A t \in Cog!ScalarTag : t \in DOMAIN object.tags /\ Cog!Scalar(t) \in Nat
  BY <1>1 DEF Cog!LayoutOk, Cog!IsScalar, Cog!Has, Cog!Tag, Cog!Scalar, Cog!IsEntry
<1>3. Cog!Scalar("width") # 0 /\ Cog!Scalar("height") # 0
  BY DEF Cog!LayoutOk
<1>. QED
  BY <1>2, <1>3 DEF Cog!Width, Cog!Height, Cog!ScalarTag

\* One axis of RasterPixelWindow::from_bbox: from the near to the far pixel, inside
\* the raster, and every pixel that the box meets.
LEMMA AxisCovered ==
  ASSUME NEW near \in Int, NEW far \in Int, NEW size \in Nat \ {0},
         NEW first, first = Cog!Clamp(Cog!Near(near), size),
         NEW length, length = Cog!Monus(Cog!Clamp(Cog!Far(far), size), first)
  PROVE  /\ first \in Nat /\ length \in Nat /\ first + length <= size
         /\ \A c \in 0 .. size - 1 :
              near <= (c + 1) * CogPixel /\ c * CogPixel <= far
                => c \in first .. first + length - 1 /\ length > 0
<1>. DEFINE n == near \div CogPixel  f == Cog!CeilDiv(far, CogPixel)
<1>1. CogPixel \in Nat \ {0}
  BY Sizes
<1>2. n \in Int /\ f \in Int
  BY <1>1, DivIs, CeilDivIs
<1>3. Cog!Near(near) = n - 1 /\ Cog!Far(far) = f + 1
  BY DEF Cog!Near, Cog!Far
<1>4. ASSUME NEW c \in 0 .. size - 1, near <= (c + 1) * CogPixel, c * CogPixel <= far
      PROVE  n <= c + 1 /\ c <= f
  <2>1. c \in Int /\ c + 1 \in Int /\ (c + 1) * CogPixel \in Int
    BY <1>1
  <2>2. near <= (c + 1) * CogPixel + CogPixel - 1
    BY <1>1, <1>4, <2>1
  <2>3. n <= c + 1
    BY <1>1, <2>1, <2>2, DivBounds
  <2>4. c <= f
    BY <1>1, <1>4, <2>1, CeilDivIs
  <2>. QED
    BY <2>3, <2>4
<1>. HIDE DEF n, f
<1>5. first = Cog!Clamp(n - 1, size) /\ length = Cog!Monus(Cog!Clamp(f + 1, size), first)
  BY <1>3
<1>6. first \in Nat /\ length \in Nat /\ first + length <= size
  BY <1>2, <1>5 DEF Cog!Clamp, Cog!Monus
<1>7. ASSUME NEW c \in 0 .. size - 1, near <= (c + 1) * CogPixel, c * CogPixel <= far
      PROVE  c \in first .. first + length - 1 /\ length > 0
  <2>1. n <= c + 1 /\ c <= f
    BY <1>4, <1>7
  <2>. QED
    BY <1>2, <1>5, <2>1 DEF Cog!Clamp, Cog!Monus
<1>. QED
  BY <1>6, <1>7

\* The pixel c, r of the raster meets the box.
BoxMeets(c, r) ==
  LET b == request.bbox
  IN  /\ b.x0 <= object.x + (c + 1) * CogPixel /\ object.x + c * CogPixel <= b.x1
      /\ b.y0 <= object.y - r * CogPixel /\ object.y - (r + 1) * CogPixel <= b.y1

\* RasterPixelWindow::from_bbox, both axes.
LEMMA BoxCovered ==
  ASSUME object \in CogObject, request \in CogRequest, request.kind # "extent", Cog!LayoutOk,
         NEW w, w = Cog!FromBbox(request.bbox)
  PROVE  /\ w.col \in Nat /\ w.row \in Nat /\ w.width \in Nat /\ w.height \in Nat
         /\ w.col + w.width <= Cog!Width /\ w.row + w.height <= Cog!Height
         /\ \A c \in 0 .. Cog!Width - 1, r \in 0 .. Cog!Height - 1 :
              BoxMeets(c, r) =>
                /\ ~Cog!IsEmpty(w)
                /\ c \in w.col .. w.col + w.width - 1 /\ r \in w.row .. w.row + w.height - 1
<1>. DEFINE b == request.bbox
            x0 == b.x0 - object.x  x1 == b.x1 - object.x
            y0 == object.y - b.y1  y1 == object.y - b.y0
<1>1. object.x \in Int /\ object.y \in Int
  BY Sizes DEF Cog!IsObject
<1>2. b.x0 \in Int /\ b.y0 \in Int /\ b.x1 \in Int /\ b.y1 \in Int
  BY Sizes DEF Cog!IsRequest
<1>3. x0 \in Int /\ x1 \in Int /\ y0 \in Int /\ y1 \in Int
  BY <1>1, <1>2
<1>4. Cog!Width \in Nat \ {0} /\ Cog!Height \in Nat \ {0}
  BY LayoutFacts
<1>5. /\ w.col = Cog!Clamp(Cog!Near(x0), Cog!Width)
      /\ w.row = Cog!Clamp(Cog!Near(y0), Cog!Height)
      /\ w.width = Cog!Monus(Cog!Clamp(Cog!Far(x1), Cog!Width), w.col)
      /\ w.height = Cog!Monus(Cog!Clamp(Cog!Far(y1), Cog!Height), w.row)
  BY DEF Cog!FromBbox
<1>6. ASSUME NEW c \in 0 .. Cog!Width - 1, NEW r \in 0 .. Cog!Height - 1, BoxMeets(c, r)
      PROVE  /\ x0 <= (c + 1) * CogPixel /\ c * CogPixel <= x1
             /\ y0 <= (r + 1) * CogPixel /\ r * CogPixel <= y1
  <2>. DEFINE cn == (c + 1) * CogPixel  cf == c * CogPixel
              rn == (r + 1) * CogPixel  rf == r * CogPixel
  <2>1. CogPixel \in Nat
    BY Sizes
  <2>2. cn \in Int /\ cf \in Int /\ rn \in Int /\ rf \in Int
    BY <1>4, <2>1
  <2>3. /\ b.x0 <= object.x + cn /\ object.x + cf <= b.x1
        /\ b.y0 <= object.y - rf /\ object.y - rn <= b.y1
    BY <1>6 DEF BoxMeets
  <2>. HIDE DEF cn, cf, rn, rf
  <2>4. x0 <= cn /\ cf <= x1 /\ y0 <= rn /\ rf <= y1
    BY <1>1, <1>2, <2>2, <2>3
  <2>. QED
    BY <2>4 DEF cn, cf, rn, rf
<1>. HIDE DEF x0, x1, y0, y1
<1>7. /\ w.col \in Nat /\ w.width \in Nat /\ w.col + w.width <= Cog!Width
      /\ \A c \in 0 .. Cog!Width - 1 :
           x0 <= (c + 1) * CogPixel /\ c * CogPixel <= x1
             => c \in w.col .. w.col + w.width - 1 /\ w.width > 0
  BY <1>3, <1>4, <1>5, AxisCovered
<1>8. /\ w.row \in Nat /\ w.height \in Nat /\ w.row + w.height <= Cog!Height
      /\ \A c \in 0 .. Cog!Height - 1 :
           y0 <= (c + 1) * CogPixel /\ c * CogPixel <= y1
             => c \in w.row .. w.row + w.height - 1 /\ w.height > 0
  BY <1>3, <1>4, <1>5, AxisCovered
<1>. QED
  BY <1>6, <1>7, <1>8 DEF Cog!IsEmpty

\* The smaller and the larger of two.
LEMMA LessOf ==
  ASSUME NEW a \in Int, NEW b \in Int
  PROVE  /\ Cog!Min({a, b}) = IF a <= b THEN a ELSE b
         /\ Cog!Max({a, b}) = IF a >= b THEN a ELSE b
<1>1. Cog!Min({a, b}) \in {a, b} /\ Cog!Min({a, b}) <= a /\ Cog!Min({a, b}) <= b
  <2>. DEFINE P(x) == x \in {a, b} /\ \A y \in {a, b} : x <= y
  <2>1. \E x : P(x)
    BY a <= b \/ b <= a
  <2>2. P(CHOOSE x : P(x))
    <3>. HIDE DEF P
    <3>. QED
      BY <2>1, Zenon
  <2>3. Cog!Min({a, b}) = CHOOSE x : P(x)
    BY DEF Cog!Min
  <2>. QED
    BY <2>2, <2>3
<1>2. Cog!Max({a, b}) \in {a, b} /\ Cog!Max({a, b}) >= a /\ Cog!Max({a, b}) >= b
  <2>. DEFINE P(x) == x \in {a, b} /\ \A y \in {a, b} : x >= y
  <2>1. \E x : P(x)
    BY a <= b \/ b <= a
  <2>2. P(CHOOSE x : P(x))
    <3>. HIDE DEF P
    <3>. QED
      BY <2>1, Zenon
  <2>3. Cog!Max({a, b}) = CHOOSE x : P(x)
    BY DEF Cog!Max
  <2>. QED
    BY <2>2, <2>3
<1>. QED
  BY <1>1, <1>2

\* The tile that holds a pixel of the raster.
TileAt(c, r) == (r \div CogTile) * Cog!TilesAcross + (c \div CogTile)

Laid == object \in CogObject /\ Cog!LayoutOk /\ Cog!MeritOk

\* The tiles across cover the width.
LEMMA AcrossIs ==
  ASSUME Laid
  PROVE  /\ Cog!TilesAcross \in Nat \ {0}
         /\ \A c \in 0 .. Cog!Width - 1 : c \div CogTile \in 0 .. Cog!TilesAcross - 1
<1>. DEFINE A == Cog!TilesAcross  W == Cog!Width
<1>1. CogTile \in Nat \ {0} /\ W \in Nat \ {0}
  BY Sizes, LayoutFacts DEF Laid
<1>2. A = Cog!CeilDiv(W, CogTile)
  BY DEF Cog!TilesAcross, Laid, Cog!MeritOk
<1>. HIDE DEF A, W
<1>3. A \in Int /\ W <= A * CogTile
  BY <1>1, <1>2, CeilDivIs
<1>4. 0 <= A
  <2>1. 0 * CogTile <= W
    BY <1>1
  <2>. QED
    BY <1>1, <1>2, <2>1, CeilDivIs
<1>5. A # 0
  BY <1>1, <1>3
<1>6. ASSUME NEW c \in 0 .. W - 1 PROVE c \div CogTile \in 0 .. A - 1
  <2>1. c \in Int /\ c \div CogTile \in Int
    BY <1>1, DivIs
  <2>2. c >= 0 * CogTile
    BY <1>1
  <2>3. (A - 1) * CogTile = A * CogTile - CogTile /\ A * CogTile \in Int
    BY <1>1, <1>3
  <2>4. c <= (A - 1) * CogTile + CogTile - 1
    BY <1>1, <1>3, <2>3
  <2>5. c \div CogTile <= A - 1
    BY <1>1, <1>3, <2>1, <2>4, DivBounds
  <2>6. c \div CogTile >= 0
    BY <1>1, <2>1, <2>2, DivBounds
  <2>. QED
    BY <1>3, <2>1, <2>5, <2>6
<1>. QED
  BY <1>3, <1>4, <1>5, <1>6 DEF A, W

\* Column and row of a tile, from its flat index.
LEMMA TileOfPixel ==
  ASSUME Laid, NEW c \in 0 .. Cog!Width - 1, NEW r \in Nat
  PROVE  /\ TileAt(c, r) \in Int
         /\ Cog!TileCol(TileAt(c, r)) = c \div CogTile
         /\ Cog!TileRow(TileAt(c, r)) = r \div CogTile
<1>1. CogTile \in Nat \ {0} /\ Cog!TilesAcross \in Nat \ {0}
  BY Sizes, AcrossIs
<1>2. c \div CogTile \in 0 .. Cog!TilesAcross - 1
  BY AcrossIs
<1>3. r \div CogTile \in Int
  BY <1>1, DivIs
<1>. DEFINE a == r \div CogTile  b == c \div CogTile
<1>5. a \in Int /\ b \in 0 .. Cog!TilesAcross - 1
  BY <1>2, <1>3
<1>. HIDE DEF a, b
<1>4. (a * Cog!TilesAcross + b) \div Cog!TilesAcross = a
      /\ (a * Cog!TilesAcross + b) % Cog!TilesAcross = b
      /\ a * Cog!TilesAcross + b \in Int
  <2>1. a * Cog!TilesAcross + b \in Int
    BY <1>1, <1>5
  <2>. QED
    BY <1>1, <1>5, <2>1, DivUnique
<1>. QED
  BY <1>4 DEF a, b, TileAt, Cog!TileCol, Cog!TileRow

\* One axis of a tile: its live part is what of it lies inside the raster.
IsAxis(T, q, size, x, span, c) ==
  /\ T \in Nat \ {0} /\ q \in Int /\ size \in Nat /\ x = q * T
  /\ span = Cog!Min({T, size - x}) /\ c \in 0 .. size - 1

LEMMA AxisOfTile ==
  ASSUME NEW T, NEW q, NEW size, NEW x, NEW span, NEW c, IsAxis(T, q, size, x, span, c)
  PROVE  /\ span \in Int
         /\ c \in x .. x + span - 1 <=> c \div T = q
         /\ c \div T = q => c % T = c - x /\ span > 0
<1>0. /\ T \in Nat \ {0} /\ q \in Int /\ size \in Nat /\ x = q * T
      /\ span = Cog!Min({T, size - x}) /\ c \in 0 .. size - 1
  BY DEF IsAxis
<1>1. x \in Int
  BY <1>0
<1>2. c \div T \in Int /\ c % T \in 0 .. T - 1 /\ c = (c \div T) * T + (c % T)
  <2>1. c \in Int
    BY <1>0
  <2>. QED
    BY <1>0, <2>1, DivIs
<1>3. span = IF T <= size - x THEN T ELSE size - x
  <2>1. size - x \in Int
    BY <1>0, <1>1
  <2>2. T \in Int
    BY <1>0
  <2>. QED
    BY <1>0, <2>1, <2>2, LessOf
<1>4. ASSUME c \in x .. x + span - 1 PROVE c \div T = q
  <2>1. c - x \in 0 .. T - 1 /\ c = x + (c - x)
    BY <1>0, <1>1, <1>3, <1>4
  <2>2. (q * T + (c - x)) \div T = q
    <3>. DEFINE d == c - x
    <3>1. d \in 0 .. T - 1
      BY <2>1
    <3>. HIDE DEF d
    <3>2. (q * T + d) \div T = q
      BY <1>0, <3>1, DivUnique
    <3>. QED
      BY <3>2 DEF d
  <2>. QED
    BY <1>0, <2>1, <2>2
<1>5. ASSUME c \div T = q PROVE c \in x .. x + span - 1 /\ c % T = c - x /\ span > 0
  <2>. DEFINE m == c % T
  <2>1. c = x + m /\ m \in 0 .. T - 1
    BY <1>0, <1>2, <1>5
  <2>. HIDE DEF m
  <2>2. c \in x .. x + span - 1 /\ m = c - x /\ span > 0
    BY <1>0, <1>1, <1>3, <2>1
  <2>. QED
    BY <2>2 DEF m
<1>6. span \in Int
  BY <1>0, <1>1, <1>3
<1>. QED
  BY <1>4, <1>5, <1>6

\* Row by row: place at of a rectangle that is w wide holds column b of row a.
IsPlace(w, h, a, b, at) ==
  w \in Nat \ {0} /\ h \in Nat /\ a \in 0 .. h - 1 /\ b \in 0 .. w - 1 /\ at = a * w + b + 1

LEMMA RowMajor ==
  ASSUME NEW w, NEW h, NEW a, NEW b, NEW at, IsPlace(w, h, a, b, at)
  PROVE  at \in 1 .. h * w /\ (at - 1) \div w = a /\ (at - 1) % w = b
<1>0. w \in Nat \ {0} /\ h \in Nat /\ a \in 0 .. h - 1 /\ b \in 0 .. w - 1 /\ at = a * w + b + 1
  BY DEF IsPlace
<1>1. a * w \in Int /\ h * w \in Int
  BY <1>0
<1>2. (a + 1) * w <= h * w
  BY <1>0, TimesMonotone
<1>3. (a + 1) * w = a * w + w
  BY <1>0
<1>4. 0 * w <= a * w
  BY <1>0, TimesMonotone
<1>5. at \in 1 .. h * w /\ at - 1 = a * w + b
  BY <1>0, <1>1, <1>2, <1>3, <1>4
<1>6. (a * w + b) \div w = a /\ (a * w + b) % w = b
  BY <1>0, DivUnique
<1>. QED
  BY <1>5, <1>6

IsCopy(i, c, r, s, at) ==
  /\ i \in Int /\ c \in 0 .. Cog!Width - 1 /\ r \in 0 .. Cog!Height - 1
  /\ window.col \in Nat /\ window.width \in Nat /\ c \in window.col .. window.col + window.width - 1
  /\ window.row \in Nat /\ window.height \in Nat /\ r \in window.row .. window.row + window.height - 1
  /\ s = Cog!CopySpan(i)
  /\ at = (r - Cog!TileRow(i) * CogTile) * s.stride + (c - Cog!TileCol(i) * CogTile) + 1

\* tile_copy_span meets exactly the pixels of the tile, and the sample copied to
\* each is its own.
LEMMA SpanIsTheTile ==
  ASSUME Laid, NEW i, NEW c, NEW r, NEW s, NEW at, IsCopy(i, c, r, s, at)
  PROVE  /\ c \in s.col .. s.endCol - 1 /\ r \in s.row .. s.endRow - 1 <=> i = TileAt(c, r)
         /\ i = TileAt(c, r) =>
              /\ at <= Len(Cog!Clipped(i))
              /\ Cog!Clipped(i)[at] = Cog!Decoded(i, c % CogTile, r % CogTile)
<1>. DEFINE A == Cog!TilesAcross  W == Cog!Width  H == Cog!Height
            qc == Cog!TileCol(i)  qr == Cog!TileRow(i)
            x == qc * CogTile  y == qr * CogTile
            lw == Cog!LiveWidth(i)  lh == Cog!LiveHeight(i)
<1>0. /\ i \in Int /\ c \in 0 .. Cog!Width - 1 /\ r \in 0 .. Cog!Height - 1
      /\ window.col \in Nat /\ window.width \in Nat /\ c \in window.col .. window.col + window.width - 1
      /\ window.row \in Nat /\ window.height \in Nat /\ r \in window.row .. window.row + window.height - 1
      /\ s = Cog!CopySpan(i)
      /\ at = (r - Cog!TileRow(i) * CogTile) * s.stride + (c - Cog!TileCol(i) * CogTile) + 1
  BY DEF IsCopy
<1>. USE <1>0
<1>1. CogTile \in Nat \ {0} /\ A \in Nat \ {0} /\ W \in Nat \ {0} /\ H \in Nat \ {0}
  BY Sizes, AcrossIs, LayoutFacts DEF Laid
<1>2. qc \in 0 .. A - 1 /\ qr \in Int /\ i = qr * A + qc
  BY <1>1, DivIs DEF Cog!TileCol, Cog!TileRow
<1>3. lw = Cog!Min({CogTile, W - qc * CogTile}) /\ lh = Cog!Min({CogTile, H - qr * CogTile})
  BY DEF Cog!LiveWidth, Cog!LiveHeight
<1>4. /\ s.stride = lw
      /\ s.col = Cog!Max({window.col, x}) /\ s.row = Cog!Max({window.row, y})
      /\ s.endCol = Cog!Min({window.col + window.width, x + lw})
      /\ s.endRow = Cog!Min({window.row + window.height, y + lh})
  BY DEF Cog!CopySpan
<1>5. TileAt(c, r) = (r \div CogTile) * A + (c \div CogTile)
      /\ Cog!TileCol(TileAt(c, r)) = c \div CogTile /\ Cog!TileRow(TileAt(c, r)) = r \div CogTile
  <2>1. r \in Nat
    BY <1>1
  <2>. QED
    BY <2>1, TileOfPixel DEF TileAt
<1>6. i = TileAt(c, r) <=> c \div CogTile = qc /\ r \div CogTile = qr
  <2>1. i = TileAt(c, r) => c \div CogTile = qc /\ r \div CogTile = qr
    BY <1>5
  <2>2. c \div CogTile = qc /\ r \div CogTile = qr => i = TileAt(c, r)
    BY <1>2, <1>5
  <2>. QED
    BY <2>1, <2>2
<1>7. Cog!Clipped(i) = [k \in 1 .. lh * lw |-> Cog!Decoded(i, (k - 1) % lw, (k - 1) \div lw)]
  BY DEF Cog!Clipped
<1>8. at = (r - y) * lw + (c - x) + 1
  BY <1>4
<1>. HIDE DEF A, W, H, qc, qr, lw, lh
<1>9. /\ lw \in Int /\ (c \in x .. x + lw - 1 <=> c \div CogTile = qc)
      /\ (c \div CogTile = qc => c % CogTile = c - x /\ lw > 0)
  <2>1. c \in 0 .. W - 1 /\ qc \in Int
    BY <1>1, <1>2 DEF W
  <2>2. W \in Nat /\ x = qc * CogTile /\ lw = Cog!Min({CogTile, W - x})
    BY <1>1, <1>3
  <2>3. IsAxis(CogTile, qc, W, x, lw, c)
    BY <1>1, <2>1, <2>2 DEF IsAxis
  <2>. HIDE DEF x
  <2>. QED
    BY <2>3, AxisOfTile
<1>10. /\ lh \in Int /\ (r \in y .. y + lh - 1 <=> r \div CogTile = qr)
       /\ (r \div CogTile = qr => r % CogTile = r - y /\ lh > 0)
  <2>1. r \in 0 .. H - 1
    BY DEF H
  <2>2. H \in Nat /\ qr \in Int /\ y = qr * CogTile /\ lh = Cog!Min({CogTile, H - y})
    BY <1>1, <1>2, <1>3
  <2>3. IsAxis(CogTile, qr, H, y, lh, r)
    BY <1>1, <2>1, <2>2 DEF IsAxis
  <2>. HIDE DEF y
  <2>. QED
    BY <2>3, AxisOfTile
<1>11. x \in Int /\ y \in Int /\ c \in Int /\ r \in Int
  BY <1>1, <1>2 DEF W, H
<1>. HIDE DEF x, y
<1>12. c \in s.col .. s.endCol - 1 <=> c \in x .. x + lw - 1
  <2>1. s.col = (IF window.col >= x THEN window.col ELSE x)
        /\ s.endCol = (IF window.col + window.width <= x + lw THEN window.col + window.width ELSE x + lw)
    <3>. DEFINE u == window.col + window.width  v == x + lw
    <3>1. u \in Int /\ v \in Int
      BY <1>9, <1>11
    <3>2. s.col = Cog!Max({window.col, x}) /\ s.endCol = Cog!Min({u, v})
      BY <1>4
    <3>. HIDE DEF u, v
    <3>3. s.endCol = (IF u <= v THEN u ELSE v)
      BY <3>1, <3>2, LessOf
    <3>4. window.col \in Int
      OBVIOUS
    <3>5. s.col = (IF window.col >= x THEN window.col ELSE x)
      BY <1>11, <3>2, <3>4, LessOf
    <3>. QED
      BY <3>3, <3>5 DEF u, v
  <2>. QED
    BY <1>9, <1>11, <2>1
<1>13. r \in s.row .. s.endRow - 1 <=> r \in y .. y + lh - 1
  <2>1. s.row = (IF window.row >= y THEN window.row ELSE y)
        /\ s.endRow = (IF window.row + window.height <= y + lh THEN window.row + window.height ELSE y + lh)
    <3>. DEFINE u == window.row + window.height  v == y + lh
    <3>1. u \in Int /\ v \in Int
      BY <1>10, <1>11
    <3>2. s.row = Cog!Max({window.row, y}) /\ s.endRow = Cog!Min({u, v})
      BY <1>4
    <3>. HIDE DEF u, v
    <3>3. s.endRow = (IF u <= v THEN u ELSE v)
      BY <3>1, <3>2, LessOf
    <3>4. window.row \in Int
      OBVIOUS
    <3>5. s.row = (IF window.row >= y THEN window.row ELSE y)
      BY <1>11, <3>2, <3>4, LessOf
    <3>. QED
      BY <3>3, <3>5 DEF u, v
  <2>. QED
    BY <1>10, <1>11, <2>1
<1>14. ASSUME i = TileAt(c, r)
       PROVE  /\ at <= Len(Cog!Clipped(i))
              /\ Cog!Clipped(i)[at] = Cog!Decoded(i, c % CogTile, r % CogTile)
  <2>1. c % CogTile = c - x /\ r % CogTile = r - y /\ lw \in Nat \ {0} /\ lh \in Nat
        /\ c - x \in 0 .. lw - 1 /\ r - y \in 0 .. lh - 1
    BY <1>6, <1>9, <1>10, <1>11, <1>14
  <2>. DEFINE a == r - y  b == c - x
  <2>7. a \in 0 .. lh - 1 /\ b \in 0 .. lw - 1
    BY <2>1
  <2>. HIDE DEF a, b
  <2>2. at = a * lw + b + 1
    BY <1>8 DEF a, b
  <2>3. at \in 1 .. lh * lw /\ (at - 1) \div lw = a /\ (at - 1) % lw = b
    <3>1. IsPlace(lw, lh, a, b, at)
      BY <2>1, <2>2, <2>7 DEF IsPlace
    <3>. QED
      BY <3>1, RowMajor
  <2>4. lh * lw \in Nat
    BY <2>1
  <2>5. Len(Cog!Clipped(i)) = lh * lw
    BY <1>7, <2>4
  <2>6. Cog!Clipped(i)[at] = Cog!Decoded(i, b, a)
    BY <1>7, <2>3
  <2>. QED
    BY <2>1, <2>3, <2>4, <2>5, <2>6 DEF a, b
<1>. QED
  BY <1>6, <1>9, <1>10, <1>12, <1>13, <1>14

LEMMA DivMonotone ==
  ASSUME NEW x \in Int, NEW y \in Int, NEW w \in Nat \ {0}, x <= y
  PROVE  x \div w <= y \div w
<1>. DEFINE k == y \div w
<1>1. k \in Int /\ y % w \in 0 .. w - 1 /\ y = k * w + (y % w) /\ k * w \in Int
  BY DivIs
<1>. HIDE DEF k
<1>2. x <= k * w + w - 1
  BY <1>1
<1>3. x \div w <= k
  BY <1>1, <1>2, DivBounds
<1>. QED
  BY <1>3 DEF k

\* A window of the raster, with pixels in it.
IsWindow(w) ==
  /\ w.col \in Nat /\ w.row \in Nat /\ w.width \in Nat \ {0} /\ w.height \in Nat \ {0}
  /\ w.col + w.width <= Cog!Width /\ w.row + w.height <= Cog!Height

\* TilePlan::for_window lists the tile of every pixel of the window.
LEMMA PlanHolds ==
  ASSUME Laid, NEW w, IsWindow(w), NEW p, p = Cog!ForWindow(w)
  PROVE  /\ DOMAIN p = 1 .. Len(p) /\ Len(p) \in Nat
         /\ \A k \in 1 .. Len(p) : p[k] \in Nat
         /\ \A c \in w.col .. w.col + w.width - 1, r \in w.row .. w.row + w.height - 1 :
              \E k \in 1 .. Len(p) : p[k] = TileAt(c, r)
<1>. DEFINE A == Cog!TilesAcross  f == Cog!FirstCol(w)  g == Cog!FirstRow(w)
            n == Cog!ColCount(w)  m == Cog!RowCount(w)
            ec == w.col + w.width - 1  er == w.row + w.height - 1
            lc == ec \div CogTile  lr == er \div CogTile
<1>1. CogTile \in Nat \ {0} /\ A \in Nat \ {0}
  BY Sizes, AcrossIs
<1>2. Cog!Scalar("tile_width") = CogTile /\ Cog!Scalar("tile_height") = CogTile
  BY DEF Laid, Cog!MeritOk
<1>3. /\ w.col \in Int /\ w.row \in Int /\ ec \in Int /\ er \in Int
      /\ w.col <= ec /\ w.row <= er /\ 0 <= w.col /\ 0 <= w.row
  BY DEF IsWindow
<1>4. /\ f = w.col \div CogTile /\ g = w.row \div CogTile
      /\ n = lc - f + 1 /\ m = lr - g + 1
  BY <1>2 DEF Cog!FirstCol, Cog!FirstRow, Cog!ColCount, Cog!RowCount
<1>5. p = [k \in 1 .. m * n |-> (g + ((k - 1) \div n)) * A + f + ((k - 1) % n)]
  BY DEF Cog!ForWindow
<1>. HIDE DEF A, f, g, n, m, ec, er
<1>6. f \in Int /\ g \in Int /\ lc \in Int /\ lr \in Int /\ f <= lc /\ g <= lr
  BY <1>1, <1>3, <1>4, DivIs, DivMonotone
<1>7. f >= 0 /\ g >= 0
  <2>1. w.col >= 0 * CogTile /\ w.row >= 0 * CogTile
    BY <1>1, <1>3
  <2>. QED
    BY <1>1, <1>3, <1>4, <2>1, DivBounds
<1>8. n \in Nat \ {0} /\ m \in Nat \ {0} /\ m * n \in Nat
  <2>. HIDE DEF lc, lr
  <2>. QED
    BY <1>4, <1>6
<1>9. DOMAIN p = 1 .. m * n /\ Len(p) = m * n
  BY <1>5, <1>8
<1>10. ASSUME NEW k \in 1 .. m * n PROVE p[k] \in Nat
  <2>. DEFINE a == (k - 1) \div n  b == (k - 1) % n
  <2>1. k - 1 \in Int /\ k - 1 >= 0
    BY <1>8
  <2>2. a \in Int /\ b \in 0 .. n - 1
    BY <1>8, <2>1, DivIs
  <2>3. a >= 0
    BY <1>8, <2>1, DivBounds, 0 * n = 0
  <2>4. p[k] = (g + a) * A + f + b
    BY <1>5
  <2>. HIDE DEF a, b
  <2>5. g + a \in Nat
    BY <1>6, <1>7, <2>2, <2>3
  <2>6. (g + a) * A \in Nat
    BY <1>1, <2>5
  <2>. QED
    BY <1>6, <1>7, <2>2, <2>4, <2>6
<1>11. ASSUME NEW c \in w.col .. ec, NEW r \in w.row .. er
       PROVE  \E k \in 1 .. m * n : p[k] = TileAt(c, r)
  <2>. DEFINE tc == c \div CogTile  tr == r \div CogTile
              a == tr - g  b == tc - f
              k == a * n + b + 1
  <2>1. c \in Int /\ r \in Int /\ w.col <= c /\ c <= ec /\ w.row <= r /\ r <= er
    BY <1>3
  <2>2. tc \in Int /\ tr \in Int /\ f <= tc /\ tc <= lc /\ g <= tr /\ tr <= lr
    BY <1>1, <1>3, <1>4, <2>1, DivIs, DivMonotone
  <2>3. TileAt(c, r) = tr * A + tc
    BY DEF TileAt, A
  <2>. HIDE DEF tc, tr, lc, lr
  <2>4. a \in 0 .. m - 1 /\ b \in 0 .. n - 1 /\ g + a = tr /\ f + b = tc
    BY <1>4, <1>6, <2>2
  <2>5. IsPlace(n, m, a, b, k)
    BY <1>8, <2>4 DEF IsPlace
  <2>6. k \in 1 .. m * n /\ (k - 1) \div n = a /\ (k - 1) % n = b
    <3>. HIDE DEF a, b, k
    <3>. QED
      BY <2>5, RowMajor
  <2>. HIDE DEF a, b, k
  <2>7. p[k] = (g + a) * A + f + b
    BY <1>5, <2>6
  <2>8. p[k] = tr * A + tc
    <3>. DEFINE u == tr * A
    <3>1. u \in Int /\ p[k] = u + f + b
      BY <1>1, <2>2, <2>4, <2>7
    <3>. HIDE DEF u
    <3>2. p[k] = u + tc
      BY <1>6, <2>2, <2>4, <3>1
    <3>. QED
      BY <3>2 DEF u
  <2>. QED
    BY <2>3, <2>6, <2>8
<1>. QED
  BY <1>8, <1>9, <1>10, <1>11 DEF ec, er

\* The sample types that read_remote_layout accepts.
LEMMA SampleIs ==
  ASSUME Cog!LayoutOk
  PROVE  Cog!Sample \in {"U8", "I8", "F32", "I32"}
BY DEF Cog!LayoutOk, Cog!Sample, Cog!SampleOf

\* The spacing of the floats around an i32 is one of eight, and 1 around the
\* integers that single precision holds.
LEMMA SpacingIs ==
  ASSUME NEW v \in -128 * CogPrecise .. 128 * CogPrecise - 1
  PROVE  /\ Cog!Spacing(v) \in Nat \ {0}
         /\ v \in -CogPrecise .. CogPrecise => Cog!Spacing(v) = 1
<1>. DEFINE U == {1, 2, 4, 8, 16, 32, 64, 128}
            S == {u \in U : -CogPrecise * u <= v /\ v <= CogPrecise * u}
<1>1. Cog!Spacing(v) = CHOOSE x \in S : \A y \in S : x <= y
  BY DEF Cog!Spacing, Cog!Min
<1>2. 128 \in S
  BY Sizes
<1>3. v \in -CogPrecise .. CogPrecise => 1 \in S
  BY Sizes
<1>. HIDE DEF S
<1>4. S \subseteq U
  BY DEF S
<1>5. \E x \in S : \A y \in S : x <= y
  BY <1>2, <1>4
<1>6. Cog!Spacing(v) \in S /\ \A y \in S : Cog!Spacing(v) <= y
  BY <1>1, <1>5
<1>7. U \subseteq Nat \ {0}
  OBVIOUS
<1>8. ASSUME 1 \in S PROVE Cog!Spacing(v) = 1
  <2>. DEFINE s == Cog!Spacing(v)
  <2>1. s \in Nat \ {0} /\ s <= 1
    <3>1. s \in S /\ s <= 1
      BY <1>6, <1>8, Zenon
    <3>. HIDE DEF s, U
    <3>. QED
      BY <1>4, <1>7, <3>1
  <2>. HIDE DEF s
  <2>2. s = 1
    BY <2>1
  <2>. QED
    BY <2>2 DEF s
<1>9. Cog!Spacing(v) \in Nat \ {0}
  <2>. HIDE DEF U
  <2>. QED
    BY <1>4, <1>6, <1>7, Zenon
<1>. QED
  BY <1>3, <1>8, <1>9, Zenon

\* An i32 becomes an integer, and stays itself up to 2^24.
LEMMA SingleIs ==
  ASSUME NEW v \in -128 * CogPrecise .. 128 * CogPrecise - 1
  PROVE  /\ Cog!Single(v) \in Int
         /\ v \in -CogPrecise .. CogPrecise => Cog!Single(v) = v
<1>. DEFINE u == Cog!Spacing(v)
<1>1. u \in Nat \ {0} /\ (v \in -CogPrecise .. CogPrecise => u = 1) /\ v \in Int
  BY SpacingIs, Sizes
<1>2. Cog!Single(v) = ((v \div u) + (IF 2 * (v % u) > u \/ (2 * (v % u) = u /\ (v \div u) % 2 = 1) THEN 1 ELSE 0)) * u
  BY DEF Cog!Single
<1>. HIDE DEF u
<1>3. v \div u \in Int /\ v % u \in Int
  BY <1>1, DivIs
<1>4. Cog!Single(v) \in Int
  BY <1>1, <1>2, <1>3
<1>5. u = 1 => Cog!Single(v) = v
  BY <1>1, <1>2
<1>. QED
  BY <1>1, <1>4, <1>5

\* What the decoder makes of a pixel whose chunk inflates is what the raster says.
LEMMA SourceIsRaster ==
  ASSUME Laid, NEW c \in 0 .. Cog!Width - 1, NEW r \in 0 .. Cog!Height - 1,
         object.chunks[TileAt(c, r) + 1] # None,
         NEW v, v = object.raster[<<c, r>>], NEW d, d = Cog!Source(c, r)
  PROVE  CASE Cog!Sample = "I8"  -> v \in -128 .. 127 /\ d = v % 256
           [] Cog!Sample = "I32" -> /\ v \in -128 * CogPrecise .. 128 * CogPrecise - 1
                                    /\ d = IF v = Cog!Nodata THEN NaN ELSE Cog!Single(v)
           [] OTHER              -> d = v
<1>. DEFINE i == TileAt(c, r)
            code == Cog!Undo(Cog!Sample, Cog!Scalar("predictor"), object.chunks[i + 1][(r % CogTile) + 1])[(c % CogTile) + 1]
<1>1. Cog!HasRaster(object)
  BY Sizes DEF Laid, Cog!IsObject
<1>2. /\ Cog!ScalarTag \subseteq DOMAIN object.tags
      /\ Cog!Sample # None /\ Cog!Scalar("predictor") \in Cog!PredictorOf(Cog!Sample)
      /\ Cog!Scalar("tile_width") = CogTile /\ Cog!Scalar("tile_height") = CogTile
  BY LayoutFacts DEF Laid, Cog!LayoutOk, Cog!MeritOk
<1>3. i = (r \div CogTile) * Cog!CeilDiv(Cog!Width, CogTile) + (c \div CogTile)
  BY <1>2 DEF TileAt, Cog!TilesAcross
<1>4. Cog!Stands(Cog!Sample, code, v)
  <2>1. object.chunks[(r \div CogTile) * Cog!CeilDiv(Cog!Width, CogTile) + (c \div CogTile) + 1]
          = object.chunks[i + 1]
    BY <1>3
  <2>. QED
    BY <1>1, <1>2, <2>1 DEF Cog!HasRaster, Cog!Sample, Cog!Scalar, Cog!Tag, Cog!Width, Cog!Height
<1>5. d = Cog!Normalized(code)
  BY DEF Cog!Source, Cog!Decoded, TileAt
<1>. HIDE DEF code
<1>. QED
  BY <1>4, <1>5, SampleIs DEF Laid, Cog!Stands, Cog!Normalized

Box == Cog!FromBbox(request.bbox)

Planned == {"index", "resolve", "tiles", "allocate", "decode"}

Read == {"transform", "extent", "plan"} \cup Planned

Chunk == [index : Nat, start : Nat, end : Nat]

\* What is known of the request at each stage.
CogStage ==
  /\ object \in CogObject /\ request \in CogRequest
  /\ step = "local" => request.kind = "local"
  /\ step \in {"header", "count", "entries", "nodata"} \cup Read => request.kind # "local"
  /\ step = "extent" => request.kind = "extent"
  /\ step \in {"plan"} \cup Planned => request.kind = "window"
  /\ step \in Read => Cog!LayoutOk
  /\ step \in Planned =>
       Cog!MeritOk /\ window = Box /\ ~Cog!IsEmpty(Box) /\ plan = Cog!ForWindow(Box)

\* The window is that of the box, and "outside" is said of an empty one.
CogBox ==
  /\ window # None => window = Box /\ request.kind # "extent" /\ Cog!LayoutOk
  /\ error = "outside" => Cog!IsEmpty(Box) /\ request.kind # "extent" /\ Cog!LayoutOk

CogAsked == \A g \in asked : 0 <= g[1] /\ g[1] < g[2] /\ g[2] <= object.size

\* What is known of the chunks.
CogChunks ==
  /\ step = "resolve" => \A k \in 1 .. Len(plan) : Cog!EntryOk("offsets", plan[k]) /\ Cog!EntryOk("counts", plan[k])
  /\ step \in {"tiles", "allocate"} =>
       /\ tiles \in Seq(Chunk) /\ Len(tiles) = Len(plan)
       /\ \A k \in 1 .. Len(plan) : tiles[k].index = plan[k]
  /\ step = "allocate" => Cog!ChunksOk

\* A pixel of the window is the raster's own, or its tile is still to come.
CogPixels ==
  step = "decode" =>
    /\ tiles \in Seq(Chunk) /\ Cog!NodataByteOk
    /\ DOMAIN out = (0 .. window.width - 1) \X (0 .. window.height - 1)
    /\ \A p \in DOMAIN out :
         LET c == p[1] + window.col
             r == p[2] + window.row
         IN  \/ out[p] = Cog!Source(c, r) /\ object.chunks[TileAt(c, r) + 1] # None
             \/ \E k \in 1 .. Len(tiles) : tiles[k].index = TileAt(c, r)

CogInv == CogStage /\ CogBox /\ CogAsked /\ CogChunks /\ CogPixels /\ Cog!WindowExact

LEMMA CogInitial == Cog!Init => CogInv
BY Sizes DEF Cog!Init, CogInv, CogStage, CogBox, CogAsked, CogChunks, CogPixels, Cog!WindowExact,
  Read, Planned, Cog!IsRequest

\* The object and the request never change, hence nor does what is read off them.
LEMMA CogFixed == Cog!Next => object' = object /\ request' = request
BY DEF Cog!Next, Cog!Get, Cog!Fail, Cog!ReadHeader, Cog!ReadCount, Cog!ReadEntries, Cog!ReadNodata,
  Cog!ReadTransform, Cog!Extent, Cog!Prepare, Cog!ReadIndex, Cog!Resolve, Cog!ReadTiles,
  Cog!Allocate, Cog!DecodeTile, Cog!WriteWindow, Cog!LocalWindow

LEMMA Kept ==
  ASSUME object' = object, request' = request
  PROVE  /\ Cog!LayoutOk' <=> Cog!LayoutOk
         /\ Cog!MeritOk' <=> Cog!MeritOk
         /\ Box' = Box /\ (Cog!IsEmpty(Box))' = Cog!IsEmpty(Box)
         /\ (Cog!ForWindow(Box))' = Cog!ForWindow(Box)
         /\ Cog!NodataByteOk' <=> Cog!NodataByteOk
<1>1. Cog!LayoutOk' <=> Cog!LayoutOk
  BY DEF Cog!LayoutOk, Cog!IsScalar, Cog!Scalar, Cog!IsDoubles, Cog!IsDescriptor, Cog!IsInline, Cog!Bytes, Cog!Has,
    Cog!Tag, Cog!InObject, Cog!InlineWidth, Cog!Sample
<1>2. Cog!MeritOk' <=> Cog!MeritOk
  BY DEF Cog!MeritOk, Cog!Scalar, Cog!Tag, Cog!Sample, Cog!KindSample, Cog!TilesAcross, Cog!TilesDown, Cog!Width, Cog!Height
<1>3. Box' = Box
  BY DEF Box, Cog!FromBbox, Cog!Width, Cog!Height, Cog!Scalar, Cog!Tag
<1>4. (Cog!IsEmpty(Box))' = Cog!IsEmpty(Box)
  BY <1>3 DEF Cog!IsEmpty
<1>5. (Cog!ForWindow(Box))' = Cog!ForWindow(Box)
  BY <1>3 DEF Cog!ForWindow, Cog!RowCount, Cog!ColCount, Cog!FirstRow, Cog!FirstCol, Cog!TilesAcross, Cog!Width, Cog!Scalar, Cog!Tag
<1>6. Cog!NodataByteOk' <=> Cog!NodataByteOk
  BY DEF Cog!NodataByteOk, Cog!Nodata, Cog!IsText, Cog!NodataInline, Cog!InlineWidth, Cog!InObject,
    Cog!Sample, Cog!Scalar, Cog!Has, Cog!Tag
<1>. QED
  BY <1>1, <1>2, <1>3, <1>4, <1>5, <1>6

LEMMA StageKept ==
  ASSUME CogStage, CogBox, Cog!Next
  PROVE  CogStage' /\ CogBox'
<1>1. /\ object' = object /\ request' = request /\ (Cog!LayoutOk' <=> Cog!LayoutOk) /\ (Cog!MeritOk' <=> Cog!MeritOk)
      /\ Box' = Box /\ (Cog!IsEmpty(Box))' = Cog!IsEmpty(Box) /\ (Cog!ForWindow(Box))' = Cog!ForWindow(Box)
  BY CogFixed, Kept
<1>. USE <1>1 DEF CogStage, CogBox, Read, Planned, Cog!Fail, Cog!Get
<1>2. CASE Cog!ReadHeader
  BY <1>2 DEF Cog!ReadHeader
<1>3. CASE Cog!ReadCount
  BY <1>3 DEF Cog!ReadCount
<1>4. CASE Cog!ReadEntries
  BY <1>4 DEF Cog!ReadEntries
<1>5. CASE Cog!ReadNodata
  BY <1>5 DEF Cog!ReadNodata
<1>6. CASE Cog!ReadTransform
  <2>1. request.kind \in {"extent", "window", "local"}
    BY Sizes DEF Cog!IsRequest
  <2>. QED
    BY <1>6, <2>1 DEF Cog!ReadTransform
<1>7. CASE Cog!Extent
  BY <1>7 DEF Cog!Extent
<1>8. CASE Cog!Prepare
  BY <1>8 DEF Cog!Prepare, Box
<1>9. CASE Cog!ReadIndex
  BY <1>9 DEF Cog!ReadIndex
<1>10. CASE Cog!Resolve
  BY <1>10 DEF Cog!Resolve
<1>11. CASE Cog!ReadTiles
  BY <1>11 DEF Cog!ReadTiles
<1>12. CASE Cog!Allocate
  BY <1>12 DEF Cog!Allocate
<1>13. CASE Cog!DecodeTile
  BY <1>13 DEF Cog!DecodeTile
<1>14. CASE Cog!WriteWindow
  BY <1>14 DEF Cog!WriteWindow
<1>15. CASE Cog!LocalWindow
  BY <1>15 DEF Cog!LocalWindow, Cog!IsFixture, Box
<1>. QED
  BY <1>2, <1>3, <1>4, <1>5, <1>6, <1>7, <1>8, <1>9, <1>10, <1>11, <1>12, <1>13, <1>14, <1>15 DEF Cog!Next

\* From the plan on, the window is one of the raster.
LEMMA PlannedIs ==
  ASSUME CogStage, step \in Planned
  PROVE  /\ Laid /\ window = Box /\ IsWindow(Box) /\ plan = Cog!ForWindow(Box)
         /\ DOMAIN plan = 1 .. Len(plan) /\ Len(plan) \in Nat
         /\ \A k \in 1 .. Len(plan) : plan[k] \in Nat
<1>1. /\ Laid /\ window = Box /\ ~Cog!IsEmpty(Box) /\ plan = Cog!ForWindow(Box)
      /\ object \in CogObject /\ request \in CogRequest /\ request.kind # "extent" /\ Cog!LayoutOk
  BY DEF CogStage, Read, Planned, Laid
<1>2. IsWindow(Box)
  BY <1>1, BoxCovered DEF Box, IsWindow, Cog!IsEmpty
<1>. QED
  BY <1>1, <1>2, PlanHolds

\* descriptor_entry_range and decode_descriptor_value.
LEMMA EntryInObject ==
  ASSUME object \in CogObject, Cog!LayoutOk, NEW t \in {"offsets", "counts"},
         NEW i \in Nat, Cog!EntryOk(t, i),
         NEW w, w = Cog!FieldWidth[Cog!Tag(t).type], NEW a, a = Cog!Tag(t).value + i * w
  PROVE  /\ w \in Nat \ {0} /\ a \in Nat
         /\ ~Cog!IsInline(t) => a + w <= object.size
         /\ Cog!EntryValue(t, i) \in Nat
<1>1. /\ Cog!IsEntry(object.tags[t]) /\ t \in DOMAIN object.tags /\ object.size \in Nat
      /\ Cog!HasIndex(object) /\ Len(object.offsets) = Len(object.counts)
      /\ Cog!IsDescriptor(t)
  BY Sizes DEF Cog!IsObject, Cog!LayoutOk, Cog!IsDescriptor, Cog!Has
<1>2. w \in {4, 8} /\ Cog!Tag(t).type \in {4, 16} /\ Cog!Tag(t).value \in Nat /\ Cog!Tag(t).count \in Nat
  BY <1>1 DEF Cog!IsDescriptor, Cog!FieldWidth, Cog!IsEntry, Cog!Tag
<1>3. a \in Nat
  BY <1>2
<1>4. ~Cog!IsInline(t) => a + w <= object.size
  BY DEF Cog!EntryOk, Cog!InObject
<1>5. Cog!EntryValue(t, i) \in Nat
  <2>1. CASE Cog!IsInline(t)
    BY <1>2, <2>1 DEF Cog!EntryValue
  <2>2. CASE ~Cog!IsInline(t)
    <3>1. Cog!Tag(t).value + Cog!Tag(t).count * Cog!FieldWidth[Cog!Tag(t).type] <= object.size
      BY <1>1, <2>2 DEF Cog!IsDescriptor, Cog!InObject, Cog!Bytes
    <3>2. Cog!Tag(t).count <= Len(object.offsets)
      BY <1>1, <1>2, <3>1 DEF Cog!HasIndex, Cog!Tag
    <3>3. i < Cog!Tag(t).count
      BY DEF Cog!EntryOk
    <3>5. i + 1 \in 1 .. Len(object.offsets)
      BY <1>2, <3>2, <3>3
    <3>6. object.offsets[i + 1] \in Nat /\ object.counts[i + 1] \in Nat
      BY <1>1, <3>5 DEF Cog!HasIndex
    <3>. QED
      BY <2>2, <3>6 DEF Cog!EntryValue
  <2>. QED
    BY <2>1, <2>2
<1>. QED
  BY <1>2, <1>3, <1>4, <1>5

LEMMA SizesOf ==
  ASSUME object \in CogObject
  PROVE  /\ object.size \in Nat /\ object.ifd \in Nat /\ object.entries \in Nat
         /\ \A t \in DOMAIN object.tags : Cog!Tag(t).value \in Nat /\ Cog!Tag(t).count \in Nat
BY Sizes DEF Cog!IsObject, Cog!IsEntry, Cog!Tag

\* Every range asked for is one the checks of checked_remote_range passed.
LEMMA AskedKept ==
  ASSUME CogInv, Cog!Next
  PROVE  CogAsked'
<1>1. object' = object /\ object \in CogObject
  BY CogFixed DEF CogInv, CogStage
<1>2. /\ object.size \in Nat /\ object.ifd \in Nat /\ object.entries \in Nat
      /\ \A t \in DOMAIN object.tags : Cog!Tag(t).value \in Nat /\ Cog!Tag(t).count \in Nat
  BY <1>1, SizesOf
<1>3. CogAsked
  BY DEF CogInv
<1>. DEFINE Fits(g) == 0 <= g[1] /\ g[1] < g[2] /\ g[2] <= object.size
<1>4. ASSUME NEW ranges, asked' \subseteq asked \cup ranges, \A g \in ranges : Fits(g)
      PROVE  CogAsked'
  BY <1>1, <1>3, <1>4 DEF CogAsked
<1>5. asked' = asked => CogAsked'
  BY <1>1, <1>3 DEF CogAsked
<1>. HIDE DEF Fits
<1>6. ASSUME NEW stage, NEW ranges, NEW valid, NEW next, Cog!Get(stage, ranges, valid, next),
             valid => \A g \in ranges : Fits(g)
      PROVE  CogAsked'
  BY <1>4, <1>5, <1>6 DEF Cog!Get, Cog!Fail
<1>7. CASE Cog!ReadHeader
  <2>1. Cog!InObject(0, 16) => \A g \in {<<0, 16>>} : Fits(g)
    BY <1>2 DEF Fits, Cog!InObject
  <2>. QED
    BY <1>6, <1>7, <2>1 DEF Cog!ReadHeader
<1>8. CASE Cog!ReadCount
  <2>. DEFINE n == Cog!CountWidth
  <2>1. n \in {2, 8}
    BY DEF Cog!CountWidth
  <2>. DEFINE ranges == {<<object.ifd, object.ifd + n>>}
              valid == object.magic # "other" /\ Cog!InObject(object.ifd, n)
  <2>2. valid => \A g \in ranges : Fits(g)
    BY <1>2, <2>1 DEF Fits, Cog!InObject
  <2>3. Cog!Get("count", ranges, valid, "entries")
    BY <1>8 DEF Cog!ReadCount
  <2>. HIDE DEF ranges, valid
  <2>. QED
    BY <1>6, <2>2, <2>3
<1>9. CASE Cog!ReadEntries
  <2>. DEFINE start == object.ifd + Cog!CountWidth  n == Cog!EntriesLength
              valid == /\ object.entries \in 1 .. CogIfdEntries /\ n <= CogIfdBytes
                       /\ Cog!InObject(start, n)
  <2>1. start \in Nat
    BY <1>2 DEF Cog!CountWidth
  <2>2. object.entries > 0 => n \in Nat \ {0}
    BY <1>2 DEF Cog!EntriesLength, Cog!EntryWidth
  <2>3. valid => object.entries > 0
    BY <1>2
  <2>4. valid => \A g \in {<<start, start + n>>} : Fits(g)
    <3>. HIDE DEF start, n
    <3>. QED
      BY <1>2, <2>1, <2>2, <2>3 DEF Fits, Cog!InObject
  <2>5. Cog!Get("entries", {<<start, start + n>>}, valid, "nodata")
    BY <1>9 DEF Cog!ReadEntries
  <2>. HIDE DEF start, n, valid
  <2>. QED
    BY <1>6, <2>4, <2>5
<1>10. CASE Cog!ReadNodata
  <2>. DEFINE ranges == IF Cog!NodataInline THEN {}
                        ELSE {<<Cog!Tag("nodata").value, Cog!Tag("nodata").value + Cog!Tag("nodata").count>>}
              valid == Cog!LayoutOk /\ Cog!NodataOk
  <2>1. ASSUME valid, ~Cog!NodataInline
        PROVE  Fits(<<Cog!Tag("nodata").value, Cog!Tag("nodata").value + Cog!Tag("nodata").count>>)
    <3>1. /\ "nodata" \in DOMAIN object.tags /\ Cog!Tag("nodata").count >= 1
          /\ Cog!InObject(Cog!Tag("nodata").value, Cog!Tag("nodata").count)
      BY <1>2, <2>1 DEF Cog!NodataInline, Cog!NodataOk, Cog!IsText, Cog!Has
    <3>. QED
      BY <1>2, <3>1 DEF Fits, Cog!InObject
  <2>2. valid => \A g \in ranges : Fits(g)
    BY <2>1
  <2>3. Cog!Get("nodata", ranges, valid, "transform")
    BY <1>10 DEF Cog!ReadNodata
  <2>. HIDE DEF ranges, valid
  <2>. QED
    BY <1>6, <2>2, <2>3
<1>11. CASE Cog!ReadTransform
  <2>. DEFINE ranges == {<<Cog!Tag("scale").value, Cog!Tag("scale").value + 24>>,
                         <<Cog!Tag("tiepoint").value, Cog!Tag("tiepoint").value + 48>>}
              next == IF request.kind = "extent" THEN "extent" ELSE "plan"
  <2>1. Cog!LayoutOk
    BY <1>11 DEF Cog!ReadTransform, Cog!Get, CogInv, CogStage, Read
  <2>2. /\ "scale" \in DOMAIN object.tags /\ Cog!InObject(Cog!Tag("scale").value, 8 * 3)
        /\ "tiepoint" \in DOMAIN object.tags /\ Cog!InObject(Cog!Tag("tiepoint").value, 8 * 6)
    BY <2>1 DEF Cog!LayoutOk, Cog!IsDoubles, Cog!Has
  <2>3. \A g \in ranges : Fits(g)
    BY <1>2, <2>2 DEF Fits, Cog!InObject
  <2>4. Cog!Get("transform", ranges, TRUE, next)
    BY <1>11 DEF Cog!ReadTransform
  <2>. HIDE DEF ranges, next
  <2>. QED
    BY <1>6, <2>3, <2>4
<1>12. CASE Cog!ReadIndex
  <2>. DEFINE ranges == Cog!EntryRanges("offsets") \cup Cog!EntryRanges("counts")
              valid == \A i \in Cog!ToSet(plan) : Cog!EntryOk("offsets", i) /\ Cog!EntryOk("counts", i)
  <2>1. Cog!LayoutOk /\ \A i \in Cog!ToSet(plan) : i \in Nat
    <3>1. step \in Planned /\ CogStage
      BY <1>12 DEF Cog!ReadIndex, Cog!Get, CogInv, Planned
    <3>. QED
      BY <3>1, PlannedIs DEF Laid, Cog!ToSet
  <2>2. ASSUME valid, NEW t \in {"offsets", "counts"} PROVE \A g \in Cog!EntryRanges(t) : Fits(g)
    <3>. DEFINE w == Cog!FieldWidth[Cog!Tag(t).type]
    <3>1. SUFFICES ASSUME ~Cog!IsInline(t), NEW i \in Cog!ToSet(plan)
                   PROVE  Fits(<<Cog!Tag(t).value + i * w, Cog!Tag(t).value + i * w + w>>)
      BY DEF Cog!EntryRanges
    <3>. DEFINE a == Cog!Tag(t).value + i * w
    <3>2. i \in Nat /\ Cog!EntryOk(t, i)
      BY <2>1, <2>2
    <3>3. w \in Nat \ {0} /\ a \in Nat /\ a + w <= object.size
      <4>. HIDE DEF w
      <4>1. w = Cog!FieldWidth[Cog!Tag(t).type] /\ a = Cog!Tag(t).value + i * w
        BY DEF w
      <4>. HIDE DEF a
      <4>. QED
        BY <1>1, <2>1, <3>1, <3>2, <4>1, EntryInObject
    <3>. HIDE DEF a, w
    <3>4. Fits(<<a, a + w>>)
      BY <1>2, <3>3 DEF Fits
    <3>. QED
      BY <3>4 DEF a
  <2>3. valid => \A g \in ranges : Fits(g)
    BY <2>2
  <2>4. Cog!Get("index", ranges, valid, "resolve")
    BY <1>12 DEF Cog!ReadIndex
  <2>. HIDE DEF ranges, valid
  <2>. QED
    BY <1>6, <2>3, <2>4
<1>13. CASE Cog!ReadTiles
  <2>. DEFINE ranges == {<<tiles[k].start, tiles[k].end>> : k \in 1 .. Len(tiles)}
  <2>1. tiles \in Seq(Chunk)
    BY <1>13 DEF Cog!ReadTiles, Cog!Get, CogInv, CogChunks
  <2>2. ASSUME Cog!ChunksOk, NEW k \in 1 .. Len(tiles) PROVE Fits(<<tiles[k].start, tiles[k].end>>)
    <3>3. tiles[k] \in Chunk
      BY <2>1
    <3>1. tiles[k].start \in Nat /\ tiles[k].end \in Nat
      BY <3>3 DEF Chunk
    <3>4. Cog!ChunkBytes[k] \in 1 .. CogChunk /\ Cog!InObject(tiles[k].start, Cog!ChunkBytes[k])
      BY <2>2 DEF Cog!ChunksOk
    <3>2. tiles[k].end - tiles[k].start >= 1
          /\ tiles[k].start + (tiles[k].end - tiles[k].start) <= object.size
      BY <3>1, <3>4 DEF Cog!ChunkBytes, Cog!InObject
    <3>. QED
      BY <1>2, <3>1, <3>2 DEF Fits
  <2>3. Cog!ChunksOk => \A g \in ranges : Fits(g)
    BY <2>2
  <2>4. Cog!Get("tiles", ranges, Cog!ChunksOk, "allocate")
    BY <1>13 DEF Cog!ReadTiles
  <2>. HIDE DEF ranges
  <2>. QED
    BY <1>6, <2>3, <2>4
<1>14. CASE \/ Cog!Extent \/ Cog!Prepare \/ Cog!Resolve \/ Cog!Allocate \/ Cog!DecodeTile
            \/ Cog!WriteWindow \/ Cog!LocalWindow
  <2>1. asked' = asked
    BY <1>14 DEF Cog!Extent, Cog!Prepare, Cog!Resolve, Cog!Allocate, Cog!DecodeTile, Cog!WriteWindow,
      Cog!LocalWindow, Cog!Fail
  <2>. QED
    BY <1>5, <2>1
<1>. QED
  BY <1>7, <1>8, <1>9, <1>10, <1>11, <1>12, <1>13, <1>14 DEF Cog!Next

\* The tiles resolved are the plan's, and their chunks are checked before they are asked for.
LEMMA ChunksKept ==
  ASSUME CogInv, Cog!Next
  PROVE  CogChunks'
<1>1. object' = object /\ object \in CogObject
  BY CogFixed DEF CogInv, CogStage
<1>. USE <1>1 DEF Cog!Fail
<1>2. CASE Cog!ReadIndex
  <2>1. step \in Planned /\ CogStage /\ step = "index"
    BY <1>2 DEF Cog!ReadIndex, Cog!Get, CogInv, Planned
  <2>2. DOMAIN plan = 1 .. Len(plan)
    BY <2>1, PlannedIs
  <2>3. step' = "resolve" \/ step' = "failed"
    BY <1>2 DEF Cog!ReadIndex, Cog!Get
  <2>4. plan' = plan
    BY <1>2 DEF Cog!ReadIndex, Cog!Get
  <2>5. step' = "resolve" => \A k \in 1 .. Len(plan) : Cog!EntryOk("offsets", plan[k]) /\ Cog!EntryOk("counts", plan[k])
    BY <1>2, <2>2 DEF Cog!ReadIndex, Cog!Get, Cog!ToSet
  <2>6. \A k : (Cog!EntryOk("offsets", plan[k])' <=> Cog!EntryOk("offsets", plan[k]))
            /\ (Cog!EntryOk("counts", plan[k])' <=> Cog!EntryOk("counts", plan[k]))
    BY <2>4 DEF Cog!EntryOk, Cog!Tag, Cog!IsInline, Cog!Bytes, Cog!InlineWidth, Cog!InObject
  <2>. QED
    BY <2>3, <2>4, <2>5, <2>6 DEF CogChunks
<1>3. CASE Cog!Resolve
  <2>1. step = "resolve" /\ CogStage /\ CogChunks /\ step \in Planned
    BY <1>3 DEF Cog!Resolve, CogInv, Planned
  <2>2. /\ Laid /\ Len(plan) \in Nat /\ \A k \in 1 .. Len(plan) : plan[k] \in Nat
    BY <2>1, PlannedIs
  <2>3. \A k \in 1 .. Len(plan) : Cog!EntryOk("offsets", plan[k]) /\ Cog!EntryOk("counts", plan[k])
    BY <2>1 DEF CogChunks
  <2>4. ASSUME NEW k \in 1 .. Len(plan)
        PROVE  Cog!EntryValue("offsets", plan[k]) \in Nat /\ Cog!EntryValue("counts", plan[k]) \in Nat
    BY <2>2, <2>3, EntryInObject DEF Laid
  <2>. DEFINE E(k) == [index |-> plan[k], start |-> Cog!EntryValue("offsets", plan[k]),
                       end |-> Cog!EntryValue("offsets", plan[k]) + Cog!EntryValue("counts", plan[k])]
  <2>5. \A k \in 1 .. Len(plan) : E(k) \in Chunk /\ E(k).index = plan[k]
    BY <2>2, <2>4 DEF Chunk
  <2>6. tiles' = [k \in 1 .. Len(plan) |-> E(k)] /\ plan' = plan /\ step' = "tiles"
    BY <1>3 DEF Cog!Resolve
  <2>. HIDE DEF E
  <2>7. tiles' \in Seq(Chunk) /\ Len(tiles') = Len(plan)
    BY <2>2, <2>5, <2>6
  <2>. QED
    BY <2>5, <2>6, <2>7 DEF CogChunks
<1>4. CASE Cog!ReadTiles
  <2>1. CogChunks /\ step = "tiles"
    BY <1>4 DEF Cog!ReadTiles, Cog!Get, CogInv
  <2>2. tiles' = tiles /\ plan' = plan
    BY <1>4 DEF Cog!ReadTiles, Cog!Get
  <2>4. step' = "failed" \/ (step' = "allocate" /\ Cog!ChunksOk)
    BY <1>4 DEF Cog!ReadTiles, Cog!Get
  <2>3. Cog!ChunksOk' = Cog!ChunksOk
    BY <2>2 DEF Cog!ChunksOk, Cog!ChunkBytes, Cog!InObject
  <2>. QED
    BY <2>1, <2>2, <2>3, <2>4 DEF CogChunks
<1>5. CASE step' \notin {"resolve", "tiles", "allocate"}
  BY <1>5 DEF CogChunks
<1>6. ASSUME ~Cog!ReadIndex, ~Cog!Resolve, ~Cog!ReadTiles
      PROVE  step' \notin {"resolve", "tiles", "allocate"}
  BY <1>6 DEF Cog!Next, Cog!Get, Cog!ReadHeader, Cog!ReadCount, Cog!ReadEntries, Cog!ReadNodata,
    Cog!ReadTransform, Cog!Extent, Cog!Prepare, Cog!Allocate, Cog!DecodeTile, Cog!WriteWindow, Cog!LocalWindow
<1>. QED
  BY <1>2, <1>3, <1>4, <1>5, <1>6

\* A decoded tile fills the pixels it holds and leaves the others alone.
LEMMA CopiedIs ==
  ASSUME Laid, window = Box, IsWindow(Box), NEW i \in Int,
         DOMAIN out = (0 .. window.width - 1) \X (0 .. window.height - 1),
         NEW p \in DOMAIN out, NEW c, c = p[1] + window.col, NEW r, r = p[2] + window.row
  PROVE  /\ c \in 0 .. Cog!Width - 1 /\ r \in 0 .. Cog!Height - 1
         /\ Cog!Copied(i)[p] = IF i = TileAt(c, r) THEN Cog!Source(c, r) ELSE out[p]
<1>. DEFINE s == Cog!CopySpan(i)
            at == (r - Cog!TileRow(i) * CogTile) * s.stride + (c - Cog!TileCol(i) * CogTile) + 1
<1>1. /\ window.col \in Nat /\ window.row \in Nat /\ window.width \in Nat /\ window.height \in Nat
      /\ window.col + window.width <= Cog!Width /\ window.row + window.height <= Cog!Height
  BY DEF IsWindow
<1>2. p[1] \in 0 .. window.width - 1 /\ p[2] \in 0 .. window.height - 1
  OBVIOUS
<1>3. Cog!Width \in Nat /\ Cog!Height \in Nat
  BY LayoutFacts DEF Laid
<1>4. /\ c \in 0 .. Cog!Width - 1 /\ r \in 0 .. Cog!Height - 1
      /\ c \in window.col .. window.col + window.width - 1
      /\ r \in window.row .. window.row + window.height - 1
  BY <1>1, <1>2, <1>3
<1>5. /\ c \in s.col .. s.endCol - 1 /\ r \in s.row .. s.endRow - 1 <=> i = TileAt(c, r)
      /\ i = TileAt(c, r) =>
           /\ at <= Len(Cog!Clipped(i))
           /\ Cog!Clipped(i)[at] = Cog!Decoded(i, c % CogTile, r % CogTile)
  <2>1. IsCopy(i, c, r, s, at)
    BY <1>1, <1>4 DEF IsCopy
  <2>. HIDE DEF s, at
  <2>. QED
    BY <2>1, SpanIsTheTile
<1>6. Cog!Copied(i)[p] =
        IF c \in s.col .. s.endCol - 1 /\ r \in s.row .. s.endRow - 1
          THEN IF at <= Len(Cog!Clipped(i)) THEN Cog!Clipped(i)[at] ELSE None
          ELSE out[p]
  BY DEF Cog!Copied
<1>7. i = TileAt(c, r) => Cog!Source(c, r) = Cog!Decoded(i, c % CogTile, r % CogTile)
  BY DEF Cog!Source, TileAt
<1>. HIDE DEF s, at
<1>. QED
  BY <1>4, <1>5, <1>6, <1>7

\* Decoding loses no pixel: every one is right or has its tile to come.
LEMMA PixelsKept ==
  ASSUME CogInv, Cog!Next
  PROVE  CogPixels'
<1>1. object' = object /\ request' = request /\ (Cog!NodataByteOk' <=> Cog!NodataByteOk)
  BY CogFixed, Kept
<1>. USE DEF Cog!Fail
<1>2. CASE Cog!Allocate /\ step' = "decode"
  <2>1. step = "allocate" /\ step \in Planned /\ CogStage /\ CogChunks
    BY <1>2 DEF Cog!Allocate, CogInv, Planned
  <2>2. /\ Laid /\ window = Box /\ IsWindow(Box) /\ plan = Cog!ForWindow(Box) /\ Len(plan) \in Nat
    BY <2>1, PlannedIs
  <2>3. /\ Cog!NodataByteOk /\ tiles' = tiles /\ window' = window
        /\ out' = [p \in (0 .. window.width - 1) \X (0 .. window.height - 1) |-> None]
    BY <1>2 DEF Cog!Allocate, Cog!Cells
  <2>4. /\ tiles \in Seq(Chunk) /\ Len(tiles) = Len(plan)
        /\ \A k \in 1 .. Len(plan) : tiles[k].index = plan[k]
    BY <2>1 DEF CogChunks
  <2>5. ASSUME NEW p \in DOMAIN out'
        PROVE  \E k \in 1 .. Len(tiles) : tiles[k].index = TileAt(p[1] + window.col, p[2] + window.row)
    <3>. DEFINE c == p[1] + window.col  r == p[2] + window.row
    <3>1. p[1] \in 0 .. window.width - 1 /\ p[2] \in 0 .. window.height - 1
      BY <2>3
    <3>5. /\ window.col \in Nat /\ window.row \in Nat /\ window.width \in Nat /\ window.height \in Nat
          /\ window = Box
      BY <2>2 DEF IsWindow
    <3>6. c \in window.col .. window.col + window.width - 1 /\ r \in window.row .. window.row + window.height - 1
      BY <3>1, <3>5
    <3>2. c \in Box.col .. Box.col + Box.width - 1 /\ r \in Box.row .. Box.row + Box.height - 1
      BY <3>5, <3>6
    <3>. HIDE DEF c, r
    <3>3. PICK k \in 1 .. Len(plan) : plan[k] = TileAt(c, r)
      BY <2>2, <3>2, PlanHolds
    <3>4. k \in 1 .. Len(tiles) /\ tiles[k].index = TileAt(c, r)
      BY <2>4, <3>3
    <3>. QED
      BY <3>4 DEF c, r
  <2>6. \A c, r : TileAt(c, r)' = TileAt(c, r)
    BY <1>1 DEF TileAt, Cog!TilesAcross, Cog!Width, Cog!Scalar, Cog!Tag
  <2>. QED
    BY <1>1, <2>3, <2>4, <2>5, <2>6 DEF CogPixels
<1>3. CASE Cog!DecodeTile /\ step' = "decode"
  <2>1. step = "decode" /\ step \in Planned /\ CogStage /\ CogPixels
    BY <1>3 DEF Cog!DecodeTile, CogInv, Planned
  <2>2. Laid /\ window = Box /\ IsWindow(Box)
    BY <2>1, PlannedIs
  <2>. DEFINE i == Head(tiles).index
  <2>3. /\ tiles # <<>> /\ object.chunks[i + 1] # None /\ tiles' = Tail(tiles) /\ window' = window
        /\ out' = Cog!Copied(i)
    BY <1>3, <2>1 DEF Cog!DecodeTile
  <2>4. tiles \in Seq(Chunk) /\ Cog!NodataByteOk
        /\ DOMAIN out = (0 .. window.width - 1) \X (0 .. window.height - 1)
    BY <2>1 DEF CogPixels
  <2>5. /\ i \in Int /\ i = tiles[1].index /\ Tail(tiles) \in Seq(Chunk)
        /\ Len(tiles) \in Nat \ {0} /\ Len(Tail(tiles)) = Len(tiles) - 1
        /\ \A k \in 1 .. Len(tiles) - 1 : Tail(tiles)[k] = tiles[k + 1]
    <3>1. tiles[1] \in Chunk /\ Head(tiles) = tiles[1]
      BY <2>3, <2>4
    <3>2. i \in Int /\ i = tiles[1].index
      BY <3>1 DEF Chunk
    <3>3. Tail(tiles) \in Seq(Chunk) /\ Len(tiles) \in Nat \ {0} /\ Len(Tail(tiles)) = Len(tiles) - 1
          /\ \A k \in 1 .. Len(tiles) - 1 : Tail(tiles)[k] = tiles[k + 1]
      BY <2>3, <2>4
    <3>. QED
      BY <3>2, <3>3
  <2>. HIDE DEF i
  <2>6. DOMAIN out' = DOMAIN out
    BY <2>3 DEF Cog!Copied
  <2>7. ASSUME NEW p \in DOMAIN out, NEW c, c = p[1] + window.col, NEW r, r = p[2] + window.row
        PROVE  \/ out'[p] = Cog!Source(c, r) /\ object.chunks[TileAt(c, r) + 1] # None
               \/ \E k \in 1 .. Len(Tail(tiles)) : Tail(tiles)[k].index = TileAt(c, r)
    <3>1. out'[p] = IF i = TileAt(c, r) THEN Cog!Source(c, r) ELSE out[p]
      BY <2>2, <2>3, <2>4, <2>5, <2>7, CopiedIs
    <3>2. CASE i = TileAt(c, r)
      BY <2>3, <3>1, <3>2
    <3>3. CASE i # TileAt(c, r) /\ out[p] = Cog!Source(c, r) /\ object.chunks[TileAt(c, r) + 1] # None
      BY <3>1, <3>3
    <3>4. ASSUME i # TileAt(c, r), NEW k \in 1 .. Len(tiles), tiles[k].index = TileAt(c, r)
          PROVE  \E j \in 1 .. Len(Tail(tiles)) : Tail(tiles)[j].index = TileAt(c, r)
      <4>1. k # 1
        BY <2>5, <3>4
      <4>2. k - 1 \in 1 .. Len(tiles) - 1 /\ k - 1 + 1 = k
        BY <2>5, <4>1
      <4>3. Tail(tiles)[k - 1] = tiles[k]
        BY <2>5, <4>2
      <4>. QED
        BY <2>5, <3>4, <4>2, <4>3
    <3>5. \/ out[p] = Cog!Source(c, r) /\ object.chunks[TileAt(c, r) + 1] # None
          \/ \E k \in 1 .. Len(tiles) : tiles[k].index = TileAt(c, r)
      BY <2>1, <2>7 DEF CogPixels
    <3>. QED
      BY <3>2, <3>3, <3>4, <3>5
  <2>8. \A c, r : TileAt(c, r)' = TileAt(c, r)
    BY <1>1 DEF TileAt, Cog!TilesAcross, Cog!Width, Cog!Scalar, Cog!Tag
  <2>9. \A c, r : Cog!Source(c, r)' = Cog!Source(c, r)
    BY <1>1 DEF Cog!Source, Cog!Decoded, Cog!Normalized, Cog!Nodata, Cog!IsText, Cog!NodataInline, Cog!InlineWidth, Cog!InObject,
      Cog!Sample, Cog!TilesAcross, Cog!Width,
      Cog!Scalar, Cog!Tag, Cog!Has
  <2>. QED
    BY <1>1, <2>3, <2>4, <2>5, <2>6, <2>7, <2>8, <2>9, SMTT(40) DEF CogPixels
<1>4. CASE step' # "decode"
  BY <1>4 DEF CogPixels
<1>5. step' # "decode" \/ Cog!Allocate \/ Cog!DecodeTile
  BY DEF Cog!Next, Cog!Get, Cog!ReadHeader, Cog!ReadCount, Cog!ReadEntries, Cog!ReadNodata,
    Cog!ReadTransform, Cog!Extent, Cog!Prepare, Cog!ReadIndex, Cog!Resolve, Cog!ReadTiles,
    Cog!WriteWindow, Cog!LocalWindow
<1>. QED
  BY <1>2, <1>3, <1>4, <1>5

IsPixels(d, n) == n \in Int /\ d = n * CogPixel

LEMMA PixelsIn ==
  ASSUME NEW d, NEW n, IsPixels(d, n)
  PROVE  d \div CogPixel = n
<1>1. CogPixel \in Nat \ {0} /\ n \in Int /\ d = n * CogPixel + 0
  BY Sizes DEF IsPixels
<1>2. (n * CogPixel + 0) \div CogPixel = n
  BY <1>1, DivUnique
<1>. QED
  BY <1>1, <1>2

\* Bytes of opposite sign never fall together.
LEMMA BytesApart ==
  ASSUME NEW v \in -128 .. 127, NEW n \in -128 .. 127
  PROVE  v % 256 = n % 256 <=> v = n
BY SMTT(40)

\* What is written is the raster's.
LEMMA ExactKept ==
  ASSUME CogInv, Cog!Next
  PROVE  Cog!WindowExact'
<1>1. object' = object /\ request' = request
  BY CogFixed
<1>. USE DEF Cog!Fail
<1>2. CASE Cog!WriteWindow /\ step' = "done" /\ request.kind = "window"
  <2>1. step = "decode" /\ step \in Planned /\ CogStage /\ CogPixels /\ tiles = <<>>
    BY <1>2 DEF Cog!WriteWindow, CogInv, Planned
  <2>2. Laid /\ window = Box /\ IsWindow(Box)
    BY <2>1, PlannedIs
  <2>3. /\ answer' = [x |-> object.x + window.col * CogPixel, y |-> object.y - window.row * CogPixel,
                      nodata |-> Cog!NormalizedNodata, data |-> out]
    BY <1>2 DEF Cog!WriteWindow
  <2>4. /\ Cog!NodataByteOk /\ DOMAIN out = (0 .. window.width - 1) \X (0 .. window.height - 1)
        /\ \A p \in DOMAIN out :
             LET c == p[1] + window.col
                 r == p[2] + window.row
             IN  out[p] = Cog!Source(c, r) /\ object.chunks[TileAt(c, r) + 1] # None
    BY <2>1 DEF CogPixels
  <2>5. object.x \in Int /\ object.y \in Int /\ window.col \in Int /\ window.row \in Int
    BY <2>2, Sizes DEF Laid, Cog!IsObject, IsWindow
  <2>6. /\ (answer'.x - object.x) \div CogPixel = window.col
        /\ (object.y - answer'.y) \div CogPixel = window.row
    <3>. DEFINE m == window.col * CogPixel  n == window.row * CogPixel
                a == answer'.x - object.x  b == object.y - answer'.y
    <3>1. m \in Int /\ n \in Int
      BY <2>5, Sizes
    <3>2. answer'.x = object.x + m /\ answer'.y = object.y - n
      BY <2>3
    <3>. HIDE DEF m, n
    <3>3. a = m /\ b = n
      BY <2>5, <3>1, <3>2
    <3>4. IsPixels(a, window.col) /\ IsPixels(b, window.row)
      BY <2>5, <3>3 DEF IsPixels, m, n
    <3>. HIDE DEF a, b
    <3>5. a \div CogPixel = window.col /\ b \div CogPixel = window.row
      BY <3>4, PixelsIn
    <3>. QED
      BY <3>5 DEF a, b
  <2>7. Cog!Sample \in {"U8", "I8", "F32", "I32"}
    BY <2>2, SampleIs DEF Laid
  <2>8. ASSUME NEW p \in DOMAIN out, NEW c, c = p[1] + window.col, NEW r, r = p[2] + window.row,
               NEW v, v = object.raster[<<c, r>>]
        PROVE  /\ out[p] = CASE Cog!Sample = "I8" -> v % 256
                             [] Cog!Sample = "I32" /\ v = Cog!Nodata -> NaN
                             [] Cog!Sample = "I32" /\ v # Cog!Nodata /\ v \notin -CogPrecise .. CogPrecise ->
                                  Cog!Single(v)
                             [] OTHER -> v
               /\ Cog!Sample # "F32" => (out[p] = Cog!NormalizedNodata <=> v = Cog!Nodata)
    <3>. DEFINE d == Cog!Source(c, r)
    <3>1. out[p] = d /\ object.chunks[TileAt(c, r) + 1] # None
      BY <2>4, <2>8
    <3>2. c \in 0 .. Cog!Width - 1 /\ r \in 0 .. Cog!Height - 1
      BY <2>2, <2>4, <2>8, CopiedIs, 0 \in Int
    <3>3. CASE Cog!Sample = "I8"
      <4>1. v \in -128 .. 127 /\ d = v % 256
        BY <2>2, <2>8, <3>1, <3>2, <3>3, SourceIsRaster
      <4>2. Cog!Nodata \in -128 .. 127
        BY <2>4, <3>3 DEF Cog!NodataByteOk
      <4>3. Cog!NormalizedNodata = Cog!Nodata % 256
        BY <3>3, <4>2 DEF Cog!NormalizedNodata
      <4>4. v % 256 = Cog!Nodata % 256 <=> v = Cog!Nodata
        BY <4>1, <4>2, BytesApart
      <4>. HIDE DEF d
      <4>5. out[p] = v % 256
        BY <3>1, <4>1
      <4>6. out[p] = Cog!NormalizedNodata <=> v = Cog!Nodata
        BY <4>3, <4>4, <4>5, Zenon
      <4>. QED
        BY <3>3, <4>5, <4>6
    <3>4. CASE Cog!Sample = "I32"
      <4>1. /\ v \in -128 * CogPrecise .. 128 * CogPrecise - 1
            /\ d = IF v = Cog!Nodata THEN NaN ELSE Cog!Single(v)
        BY <2>2, <2>8, <3>1, <3>2, <3>4, SourceIsRaster
      <4>2. Cog!NormalizedNodata = NaN /\ NaN \notin Int
        BY <3>4, Sizes DEF Cog!NormalizedNodata
      <4>3. Cog!Single(v) \in Int /\ (v \in -CogPrecise .. CogPrecise => Cog!Single(v) = v)
        BY <4>1, SingleIs
      <4>. HIDE DEF d
      <4>4. CASE v = Cog!Nodata
        BY <3>1, <3>4, <4>1, <4>2, <4>4
      <4>5. CASE v # Cog!Nodata
        BY <3>1, <3>4, <4>1, <4>2, <4>3, <4>5
      <4>. QED
        BY <4>4, <4>5
    <3>5. CASE Cog!Sample \in {"U8", "F32"}
      <4>1. d = v
        BY <2>2, <2>8, <3>1, <3>2, <3>5, SourceIsRaster
      <4>2. Cog!NormalizedNodata = Cog!Nodata
        BY <3>5 DEF Cog!NormalizedNodata
      <4>. HIDE DEF d
      <4>. QED
        BY <3>1, <3>5, <4>1, <4>2
    <3>. QED
      BY <2>7, <3>3, <3>4, <3>5
  <2>9. Cog!Sample' = Cog!Sample /\ Cog!Nodata' = Cog!Nodata
    BY <1>1 DEF Cog!Nodata, Cog!IsText, Cog!NodataInline, Cog!InlineWidth, Cog!InObject, Cog!Sample,
      Cog!Scalar, Cog!Has, Cog!Tag
  <2>10. answer'.data = out /\ answer'.nodata = Cog!NormalizedNodata
    BY <2>3
  <2>11. ASSUME NEW p \in DOMAIN out, NEW c, c = p[1] + window.col, NEW r, r = p[2] + window.row
         PROVE  c = ((answer'.x - object.x) \div CogPixel) + p[1]
                /\ r = ((object.y - answer'.y) \div CogPixel) + p[2]
    <3>1. p[1] \in Int /\ p[2] \in Int
      BY <2>4
    <3>. QED
      BY <2>5, <2>6, <2>11, <3>1
  <2>. HIDE DEF Cog!Fail
  <2>. QED
    BY <1>1, <2>8, <2>9, <2>10, <2>11 DEF Cog!WindowExact
<1>3. CASE ~(step' = "done" /\ request.kind = "window")
  BY <1>1, <1>3 DEF Cog!WindowExact
<1>4. step' = "done" /\ request.kind = "window" => Cog!WriteWindow
  <2>1. CASE Cog!Extent
    BY <2>1 DEF Cog!Extent, CogInv, CogStage
  <2>2. CASE Cog!LocalWindow
    BY <2>2 DEF Cog!LocalWindow, CogInv, CogStage
  <2>3. CASE ~Cog!Extent /\ ~Cog!LocalWindow
    BY <2>3 DEF Cog!Next, Cog!Get, Cog!ReadHeader, Cog!ReadCount, Cog!ReadEntries, Cog!ReadNodata,
      Cog!ReadTransform, Cog!Prepare, Cog!ReadIndex, Cog!Resolve, Cog!ReadTiles, Cog!Allocate, Cog!DecodeTile
  <2>. QED
    BY <2>1, <2>2, <2>3
<1>. QED
  BY <1>2, <1>3, <1>4

LEMMA CogStep ==
  ASSUME CogInv, Cog!Next
  PROVE  CogInv'
<1>1. CogStage /\ CogBox
  BY DEF CogInv
<1>. QED
  BY <1>1, StageKept, AskedKept, ChunksKept, PixelsKept, ExactKept DEF CogInv

LEMMA CogRests == ASSUME CogInv, UNCHANGED cog PROVE CogInv'
<1>1. /\ object' = object /\ request' = request /\ step' = step /\ asked' = asked /\ window' = window
      /\ plan' = plan /\ tiles' = tiles /\ out' = out /\ answer' = answer /\ error' = error
  BY DEF cog
<1>2. (Cog!LayoutOk' <=> Cog!LayoutOk) /\ (Cog!MeritOk' <=> Cog!MeritOk)
      /\ Box' = Box /\ (Cog!IsEmpty(Box))' = Cog!IsEmpty(Box) /\ (Cog!ForWindow(Box))' = Cog!ForWindow(Box)
      /\ (Cog!NodataByteOk' <=> Cog!NodataByteOk)
  BY <1>1, Kept
<1>3. CogStage' /\ CogBox' /\ CogAsked'
  BY <1>1, <1>2 DEF CogInv, CogStage, CogBox, CogAsked, Read, Planned
<1>4. CogChunks'
  <2>1. (Cog!ChunksOk' <=> Cog!ChunksOk)
    BY <1>1 DEF Cog!ChunksOk, Cog!ChunkBytes, Cog!InObject
  <2>2. \A k : (Cog!EntryOk("offsets", plan[k])' <=> Cog!EntryOk("offsets", plan[k]))
            /\ (Cog!EntryOk("counts", plan[k])' <=> Cog!EntryOk("counts", plan[k]))
    BY <1>1 DEF Cog!EntryOk, Cog!Tag, Cog!IsInline, Cog!Bytes, Cog!InlineWidth, Cog!InObject
  <2>. QED
    BY <1>1, <2>1, <2>2 DEF CogInv, CogChunks
<1>5. CogPixels'
  <2>1. \A c, r : TileAt(c, r)' = TileAt(c, r)
    BY <1>1 DEF TileAt, Cog!TilesAcross, Cog!Width, Cog!Scalar, Cog!Tag
  <2>2. \A c, r : Cog!Source(c, r)' = Cog!Source(c, r)
    BY <1>1 DEF Cog!Source, Cog!Decoded, Cog!Normalized, Cog!Nodata, Cog!IsText, Cog!NodataInline, Cog!InlineWidth, Cog!InObject,
      Cog!Sample, Cog!TilesAcross, Cog!Width,
      Cog!Scalar, Cog!Tag, Cog!Has
  <2>. QED
    BY <1>1, <1>2, <2>1, <2>2 DEF CogInv, CogPixels
<1>6. Cog!WindowExact'
  <2>1. Cog!Sample' = Cog!Sample /\ Cog!Nodata' = Cog!Nodata
    BY <1>1 DEF Cog!Nodata, Cog!IsText, Cog!NodataInline, Cog!InlineWidth, Cog!InObject, Cog!Sample,
      Cog!Scalar, Cog!Has, Cog!Tag
  <2>. QED
    BY <1>1, <2>1 DEF CogInv, Cog!WindowExact
<1>. QED
  BY <1>3, <1>4, <1>5, <1>6 DEF CogInv

\* The inductive invariant of the reader, for the behaviours that are about it.
THEOREM ReaderInvariantHolds == MCSpec => [](part = "cog" => CogInv)
<1>. DEFINE I == part = "cog" => CogInv
            all == <<part, vars, live, cog>>
<1>1. MCInit => I
  BY CogInitial DEF MCInit
<1>2. I /\ [MCNext]_all => I'
  <2>1. ASSUME I, MCNext PROVE I'
    <3>1. part' = part
      BY <2>1 DEF MCNext
    <3>2. part = "cog" => Cog!Next
      BY <2>1 DEF MCNext
    <3>. QED
      BY <2>1, <3>1, <3>2, CogStep
  <2>2. ASSUME I, UNCHANGED all PROVE I'
    BY <2>2, CogRests
  <2>. QED
    BY <2>1, <2>2
<1>. QED
  BY <1>1, <1>2, PTL DEF MCSpec

\* The window holds every pixel of the raster that the box meets, whatever box,
\* pixel size and origin, and a box is refused as outside only when it meets no
\* pixel (RasterPixelWindow::from_bbox, cog.rs).
THEOREM WindowCoversHolds == MCSpec => []WindowCovers
<1>1. (part = "cog" => CogInv) => WindowCovers
  <2>. SUFFICES ASSUME part = "cog", CogInv PROVE Cog!WindowCovers
    BY DEF WindowCovers
  <2>. SUFFICES ASSUME request.kind # "extent", window # None \/ error = "outside",
                       NEW c \in 0 .. Cog!Width - 1, NEW r \in 0 .. Cog!Height - 1, BoxMeets(c, r)
                PROVE  /\ window # None
                       /\ c \in window.col .. window.col + window.width - 1
                       /\ r \in window.row .. window.row + window.height - 1
    BY DEF Cog!WindowCovers, BoxMeets
  <2>1. object \in CogObject /\ request \in CogRequest /\ Cog!LayoutOk
    BY DEF CogInv, CogStage, CogBox
  <2>2. /\ ~Cog!IsEmpty(Box)
        /\ c \in Box.col .. Box.col + Box.width - 1 /\ r \in Box.row .. Box.row + Box.height - 1
    BY <2>1, BoxCovered DEF Box
  <2>3. window # None /\ window = Box
    BY <2>2 DEF CogInv, CogBox
  <2>. QED
    BY <2>2, <2>3
<1>. QED
  BY <1>1, ReaderInvariantHolds, PTL

\* Every window written is the raster's own, pixel by pixel and nodata by nodata,
\* integer accumulations over 2^24 in single precision,
\* and every byte range asked for lies in the object and under the ceiling, for
\* every layout, tile size, predictor and sample type (read_window, cog.rs).
THEOREM WindowExactAndBoundedHolds == MCSpec => []WindowExactAndBounded
<1>1. (part = "cog" => CogInv) => WindowExactAndBounded
  <2>. SUFFICES ASSUME part = "cog", CogInv PROVE Cog!WindowExact /\ Cog!RequestsBounded
    BY DEF WindowExactAndBounded, Cog!WindowExactAndBounded
  <2>1. step = "allocate" => Cog!SumFunction(Cog!ChunkBytes) <= CogCovered
    BY DEF CogInv, CogChunks, Cog!ChunksOk
  <2>. QED
    BY <2>1 DEF CogInv, CogAsked, Cog!RequestsBounded
<1>. QED
  BY <1>1, ReaderInvariantHolds, PTL

=============================================================================
