---------------------------- MODULE RasterCache ----------------------------
(***************************************************************************)
(* The on-disk cache of remote raster windows (RemoteRasterCache in        *)
(* crates/core/src/raster_cache.rs) and the materialisation of one window  *)
(* (fetch_window_to_path, write_window_geotiff in crates/core/src/cog.rs). *)
(*                                                                         *)
(* A task is one thread blocked in get_or_fetch_window (the rayon workers  *)
(* of Engine::delineate_batch).  Tasks of one process share the in_flight  *)
(* map; all processes share the cache directory.  A window is a canonical  *)
(* path of that directory.                                                 *)
(*                                                                         *)
(* Data that no property tells apart is left out: pixels, byte counts,     *)
(* telemetry, and which remote version a window was cut from.              *)
(***************************************************************************)
EXTENDS Naturals, FiniteSets

CONSTANTS
  Task,      \* threads that call get_or_fetch_window
  Process,   \* operating-system processes sharing one cache directory
  ProcOf,    \* the process each task runs in
  Window,    \* canonical paths of raster windows
  MaxCalls   \* bound: calls each task makes

ASSUME ProcOfAssumption == ProcOf \in [Task -> Process]
ASSUME MaxCallsAssumption == MaxCalls \in Nat

VARIABLES
  pc,         \* where each task is inside get_or_fetch_window
  win,        \* the canonical path each task asked for
  note,       \* the Arc<Notify> a task created (leader) or cloned (waiter)
  in_flight,  \* per process, the DashMap<PathBuf, Arc<Notify>>
  nextNote,   \* supply of Notify identities; 0 is "no Notify"
  temp,       \* each task's NamedTempFile
  disk,       \* the file at each canonical path
  result,     \* what the last call of each task returned
  calls       \* number of calls each task has made

vars == <<pc, win, note, in_flight, nextNote, temp, disk, result, calls>>

NoNote == 0

(***************************************************************************)
(* Stages of a file's data: "partial" while write_tiff_image runs, "full"  *)
(* when it returned, "synced" after sync_all.  "torn" is what a power loss *)
(* leaves of a file whose data had not been synced.                        *)
(***************************************************************************)
TempState == {"none", "partial", "full", "synced"}

Absent == [data |-> "absent", inode |-> NoNote]

FileAt(s, n) == [data |-> s, inode |-> n]

(***************************************************************************)
(* A leader holds the in_flight entry from the insertion until "release"   *)
(* is done; it then still owes the waiters their wake-up ("notify").       *)
(***************************************************************************)
Leading == {"fetch", "write", "sync", "persist", "release"}

Owing == Leading \cup {"notify"}

PC == {"idle", "prepare", "lookup", "enter", "holding", "waiting",
       "recheck", "done"} \cup Owing

TypeOK ==
  /\ pc \in [Task -> PC]
  /\ win \in [Task -> Window]
  /\ nextNote \in Nat \ {0}
  /\ note \in [Task -> 0 .. (nextNote - 1)]
  /\ in_flight \in [Process -> [Window -> 0 .. (nextNote - 1)]]
  /\ temp \in [Task -> TempState]
  /\ disk \in [Window -> [data : {"absent", "torn"} \cup TempState,
                          inode : Nat]]
  /\ result \in [Task -> {"none", "ok", "err"}]
  /\ calls \in [Task -> Nat]

Init ==
  /\ pc = [t \in Task |-> "idle"]
  /\ win \in [Task -> Window]
  /\ note = [t \in Task |-> NoNote]
  /\ in_flight = [p \in Process |-> [w \in Window |-> NoNote]]
  /\ nextNote = 1
  /\ temp = [t \in Task |-> "none"]
  /\ disk = [w \in Window |-> Absent]
  /\ result = [t \in Task |-> "none"]
  /\ calls = [t \in Task |-> 0]

-----------------------------------------------------------------------------
(* The caller's side. *)

Goto(t, from, to) ==
  /\ pc[t] = from
  /\ pc' = [pc EXCEPT ![t] = to]

\* The call returns r: Ok(LocalizedRasterWindow) or Err(CacheError).
Return(t, from, r) ==
  /\ Goto(t, from, "done")
  /\ result' = [result EXCEPT ![t] = r]

Call(t, w) ==
  /\ pc[t] \in {"idle", "done"}
  /\ calls[t] < MaxCalls
  /\ pc' = [pc EXCEPT ![t] = "prepare"]
  /\ win' = [win EXCEPT ![t] = w]
  /\ result' = [result EXCEPT ![t] = "none"]
  /\ calls' = [calls EXCEPT ![t] = @ + 1]
  /\ UNCHANGED <<note, in_flight, nextNote, temp, disk>>

-----------------------------------------------------------------------------
(* get_or_fetch_window, before the in_flight map is looked at. *)

PrepareWindow(t) ==
  /\ Goto(t, "prepare", "lookup")
  /\ UNCHANGED <<win, note, in_flight, nextNote, temp, disk, result, calls>>

PrepareWindowFails(t) ==
  /\ Return(t, "prepare", "err")
  /\ UNCHANGED <<win, note, in_flight, nextNote, temp, disk, calls>>

\* cache_hit: one stat of the canonical path.  Only complete files are ever
\* published, so "non-empty" and "present" are the same answer.
CacheHit(w) == disk[w].data # "absent"

Lookup(t) ==
  /\ \/ CacheHit(win[t]) /\ Return(t, "lookup", "ok")
     \/ ~CacheHit(win[t]) /\ Goto(t, "lookup", "enter") /\ UNCHANGED result
  /\ UNCHANGED <<win, note, in_flight, nextNote, temp, disk, calls>>

\* The stat fails with anything but NotFound.
LookupFails(t) ==
  /\ \/ Return(t, "lookup", "err")
     \/ Return(t, "recheck", "err")
  /\ UNCHANGED <<win, note, in_flight, nextNote, temp, disk, calls>>

-----------------------------------------------------------------------------
(* The loop over in_flight.entry(canonical). *)

\* Entry::Occupied: clone the Arc<Notify>, drop the entry (and its lock).
EnterOccupied(t) ==
  /\ in_flight[ProcOf[t]][win[t]] # NoNote
  /\ Goto(t, "enter", "holding")
  /\ note' = [note EXCEPT ![t] = in_flight[ProcOf[t]][win[t]]]
  /\ UNCHANGED <<win, in_flight, nextNote, temp, disk, result, calls>>

\* Mutant: the entry is looked up and inserted in two steps, unguarded.
EnterVacantUnguarded(t) ==
  /\ Goto(t, "enter", "fetch")
  /\ note' = [note EXCEPT ![t] = nextNote]
  /\ in_flight' = [in_flight EXCEPT ![ProcOf[t]][win[t]] = nextNote]
  /\ nextNote' = nextNote + 1
  /\ UNCHANGED <<win, temp, disk, result, calls>>

\* Entry::Vacant: insert a new Notify and become the leader.
EnterVacant(t) ==
  /\ in_flight[ProcOf[t]][win[t]] = NoNote
  /\ Goto(t, "enter", "fetch")
  /\ note' = [note EXCEPT ![t] = nextNote]
  /\ in_flight' = [in_flight EXCEPT ![ProcOf[t]][win[t]] = nextNote]
  /\ nextNote' = nextNote + 1
  /\ UNCHANGED <<win, temp, disk, result, calls>>

\* notify.notified() is created: from here on notify_waiters reaches t.
RegisterWaiter(t) ==
  /\ Goto(t, "holding", "waiting")
  /\ UNCHANGED <<win, note, in_flight, nextNote, temp, disk, result, calls>>

\* Mutant: a woken waiter trusts its leader and does not look again.
RecheckTrusting(t) ==
  /\ Return(t, "recheck", "ok")
  /\ UNCHANGED <<win, note, in_flight, nextNote, temp, disk, calls>>

\* After the wake-up: the second cache_hit; a miss goes round the loop.
Recheck(t) ==
  /\ \/ CacheHit(win[t]) /\ Return(t, "recheck", "ok")
     \/ ~CacheHit(win[t]) /\ Goto(t, "recheck", "enter") /\ UNCHANGED result
  /\ UNCHANGED <<win, note, in_flight, nextNote, temp, disk, calls>>

-----------------------------------------------------------------------------
(* The leader: fetch_window_to_path and write_window_geotiff. *)

\* get_ranges answered with the planned chunks and they decoded; the window
\* is being written to a fresh temporary file next to the canonical path.
FetchTiles(t) ==
  /\ Goto(t, "fetch", "write")
  /\ temp' = [temp EXCEPT ![t] = "partial"]
  /\ UNCHANGED <<win, note, in_flight, nextNote, disk, result, calls>>

\* Mutant: the file is published without sync_all.
WriteTempUnsynced(t) ==
  /\ Goto(t, "write", "persist")
  /\ temp' = [temp EXCEPT ![t] = "full"]
  /\ UNCHANGED <<win, note, in_flight, nextNote, disk, result, calls>>

WriteTemp(t) ==
  /\ Goto(t, "write", "sync")
  /\ temp' = [temp EXCEPT ![t] = "full"]
  /\ UNCHANGED <<win, note, in_flight, nextNote, disk, result, calls>>

SyncTemp(t) ==
  /\ Goto(t, "sync", "persist")
  /\ temp' = [temp EXCEPT ![t] = "synced"]
  /\ UNCHANGED <<win, note, in_flight, nextNote, disk, result, calls>>

\* Mutant: persist instead of persist_noclobber.
PersistClobbering(t) ==
  /\ Goto(t, "persist", "release")
  /\ disk' = [disk EXCEPT ![win[t]] = FileAt(temp[t], note[t])]
  /\ temp' = [temp EXCEPT ![t] = "none"]
  /\ result' = [result EXCEPT ![t] = "ok"]
  /\ UNCHANGED <<win, note, in_flight, nextNote, calls>>

\* Mutant: AlreadyExists is retried instead of taken for success.
PersistRetrying(t) ==
  /\ IF CacheHit(win[t])
       THEN Goto(t, "persist", "fetch") /\ UNCHANGED <<disk, result>>
       ELSE /\ Goto(t, "persist", "release")
            /\ disk' = [disk EXCEPT ![win[t]] = FileAt(temp[t], note[t])]
            /\ result' = [result EXCEPT ![t] = "ok"]
  /\ temp' = [temp EXCEPT ![t] = "none"]
  /\ UNCHANGED <<win, note, in_flight, nextNote, calls>>

\* persist_noclobber: link the temporary file to the canonical path unless
\* that exists; AlreadyExists is Ok too.
PersistNoclobber(t) ==
  /\ Goto(t, "persist", "release")
  /\ disk' = IF CacheHit(win[t])
               THEN disk
               ELSE [disk EXCEPT ![win[t]] = FileAt(temp[t], note[t])]
  /\ temp' = [temp EXCEPT ![t] = "none"]
  /\ result' = [result EXCEPT ![t] = "ok"]
  /\ UNCHANGED <<win, note, in_flight, nextNote, calls>>

\* Mutant: the error leaves get_or_fetch_window before the entry is removed.
FetchFailsEarlyReturn(t) ==
  /\ \E s \in {"fetch", "write", "sync", "persist"} : Return(t, s, "err")
  /\ temp' = [temp EXCEPT ![t] = "none"]
  /\ UNCHANGED <<win, note, in_flight, nextNote, disk, calls>>

\* Mutant: the error is swallowed and the path returned all the same.
FetchFailsSwallowed(t) ==
  /\ \E s \in {"fetch", "write", "sync", "persist"} : Goto(t, s, "release")
  /\ temp' = [temp EXCEPT ![t] = "none"]
  /\ result' = [result EXCEPT ![t] = "ok"]
  /\ UNCHANGED <<win, note, in_flight, nextNote, disk, calls>>

\* Any `?` of fetch_window_to_path: a range read, a chunk check, the decoder,
\* the encoder, the disk.  The temporary file is dropped, and the error is the
\* value of `result`: the entry is still released below.
FetchFails(t) ==
  /\ \E s \in {"fetch", "write", "sync", "persist"} : Goto(t, s, "release")
  /\ temp' = [temp EXCEPT ![t] = "none"]
  /\ result' = [result EXCEPT ![t] = "err"]
  /\ UNCHANGED <<win, note, in_flight, nextNote, disk, calls>>

\* in_flight.remove(&canonical)
Release(t) ==
  /\ Goto(t, "release", "notify")
  /\ in_flight' = [in_flight EXCEPT ![ProcOf[t]][win[t]] = NoNote]
  /\ UNCHANGED <<win, note, nextNote, temp, disk, result, calls>>

\* Mutant: notify_one instead of notify_waiters.
NotifyOne(t) ==
  LET mine == {u \in Task : pc[u] = "waiting" /\ note[u] = note[t]}
  IN  /\ pc[t] = "notify"
      /\ \E woken \in (IF mine = {} THEN {t} ELSE mine) :
           pc' = [u \in Task |-> CASE u = t -> "done"
                                   [] u # t /\ u = woken -> "recheck"
                                   [] OTHER -> pc[u]]
      /\ UNCHANGED <<win, note, in_flight, nextNote, temp, disk, result, calls>>

\* notify.notify_waiters(), then return result: every task registered on this
\* Notify wakes up; a task that only holds the Arc does not.
NotifyWaiters(t) ==
  /\ pc[t] = "notify"
  /\ pc' = [u \in Task |->
              CASE u = t -> "done"
                [] u # t /\ pc[u] = "waiting" /\ note[u] = note[t] -> "recheck"
                [] OTHER -> pc[u]]
  /\ note' = [u \in Task |-> IF pc'[u] # pc[u] THEN NoNote ELSE note[u]]
  /\ UNCHANGED <<win, in_flight, nextNote, temp, disk, result, calls>>

-----------------------------------------------------------------------------
(* Crashes. *)

\* A process dies: its threads and its in_flight map are gone, the cache
\* directory stays.  Its temporary files are never looked at again.
Crash(p) ==
  /\ pc' = [t \in Task |-> IF ProcOf[t] = p THEN "idle" ELSE pc[t]]
  /\ temp' = [t \in Task |-> IF ProcOf[t] = p THEN "none" ELSE temp[t]]
  /\ result' = [t \in Task |-> IF ProcOf[t] = p THEN "none" ELSE result[t]]
  /\ note' = [t \in Task |-> IF ProcOf[t] = p THEN NoNote ELSE note[t]]
  /\ in_flight' = [in_flight EXCEPT ![p] = [w \in Window |-> NoNote]]
  /\ UNCHANGED <<win, nextNote, disk, calls>>

\* The machine dies: every process with it, file data that had not been synced
\* and any of the names in the directory, which nobody syncs after the link.
PowerLoss ==
  /\ pc' = [t \in Task |-> "idle"]
  /\ temp' = [t \in Task |-> "none"]
  /\ result' = [t \in Task |-> "none"]
  /\ note' = [t \in Task |-> NoNote]
  /\ in_flight' = [p \in Process |-> [w \in Window |-> NoNote]]
  /\ \E lost \in SUBSET Window :
       disk' = [w \in Window |->
                  IF w \in lost THEN Absent
                  ELSE IF disk[w].data \in {"partial", "full"}
                    THEN FileAt("torn", disk[w].inode)
                    ELSE disk[w]]
  /\ UNCHANGED <<win, nextNote, calls>>

-----------------------------------------------------------------------------

\* The steps a running thread takes inside get_or_fetch_window.
Step(t) ==
  \/ PrepareWindow(t) \/ PrepareWindowFails(t)
  \/ Lookup(t) \/ LookupFails(t)
  \/ EnterOccupied(t) \/ EnterVacant(t)
  \/ RegisterWaiter(t) \/ Recheck(t)
  \/ FetchTiles(t) \/ WriteTemp(t) \/ SyncTemp(t) \/ PersistNoclobber(t)
  \/ FetchFails(t)
  \/ Release(t) \/ NotifyWaiters(t)

Next ==
  \/ \E t \in Task : Step(t) \/ (\E w \in Window : Call(t, w))
  \/ \E p \in Process : Crash(p)
  \/ PowerLoss

\* A thread that can run does run, and a remote read ends, well or badly;
\* nobody has to call, and nothing has to crash.
Fairness == \A t \in Task : WF_vars(Step(t))

Spec == Init /\ [][Next]_vars

FairSpec == Spec /\ Fairness

-----------------------------------------------------------------------------
(* Properties. *)

\* Single flight: within one process at most one thread at a time downloads
\* and writes a given window (raster_cache.rs, the Vacant arm).
SingleFlight ==
  \A t, u \in Task :
    /\ pc[t] \in Leading /\ pc[u] \in Leading
    /\ ProcOf[t] = ProcOf[u] /\ win[t] = win[u]
    => t = u

\* No leaked entry: an in_flight entry is owned by a live leader of that
\* process and window which holds the very Notify the entry hands out, so the
\* entry is always removed again, on the error paths too.
EntryHasLeader ==
  \A p \in Process, w \in Window :
    in_flight[p][w] # NoNote =>
      \E t \in Task : /\ pc[t] \in Leading
                      /\ ProcOf[t] = p /\ win[t] = w
                      /\ note[t] = in_flight[p][w]

\* A canonical path never holds a partial file: whatever crashes, what the
\* cache directory offers is a complete window whose data reached the disk
\* before its name did (write_window_geotiff: sync_all before persist).
PublishedIsDurable ==
  \A w \in Window : disk[w].data \in {"absent", "synced"}

\* Ok means a file: as long as the call's Ok is not forgotten, the path it
\* returned names a complete file.
OkHasFile ==
  \A t \in Task :
    pc[t] = "done" /\ result[t] = "ok" => disk[win[t]].data = "synced"

\* Write once: no step, not even a second fetch of the window by another
\* process, replaces a published file, and none of a process removes it: a name
\* is lost only with the machine, when no process is left that was given the
\* path (write_window_geotiff, persist_noclobber).
WriteOnceStep ==
  \A w \in Window :
    CacheHit(w) =>
      \/ disk'[w] = disk[w]
      \/ PowerLoss /\ disk'[w] = Absent /\ \A t \in Task : pc'[t] = "idle"

WriteOnce == [][WriteOnceStep]_vars

\* A thread that registered while its Notify's leader still owed the wake-up
\* is woken (or its process dies).
RegisteredWaiterWakes ==
  \A t \in Task :
    (pc[t] = "waiting" /\ \E u \in Task : pc[u] \in Owing /\ note[u] = note[t])
      ~> pc[t] # "waiting"

\* A leader's call ends, whatever fails on the way, and with it its entry.
LeaderReturns ==
  \A t \in Task : pc[t] \in Leading ~> pc[t] \in {"done", "idle"}

\* Every call of the cache ends, hence every outlet of Engine::delineate_batch
\* gets its result.
EveryCallReturns ==
  \A t \in Task : pc[t] = "prepare" ~> pc[t] \in {"done", "idle"}

-----------------------------------------------------------------------------
(* Refinement. *)

Stored == {w \in Window : disk[w].data = "synced"}

Status(t) ==
  CASE pc[t] = "idle" -> "idle"
    [] pc[t] = "done" -> result[t]
    [] OTHER -> "pending"

Abstract == INSTANCE WindowStore WITH
              stored <- Stored, want <- win, status <- [t \in Task |-> Status(t)]

\* The cache implements the store it stands for: a set of complete windows that
\* only grows while the machine runs, with Ok only for a window that is in it,
\* across concurrent fetches, failed fetches and crashes; a power loss takes
\* windows with all the callers at once, and never alters one.
ImplementsWindowStore == Abstract!Spec

\* Calls that miss one window at the same time are safe: one leader fetches it
\* per process, its in-flight entry goes with it on every path, and whoever
\* returns Ok, the waiters of a failed leader included, has a stored file.
FlightsSound == SingleFlight /\ EntryHasLeader /\ OkHasFile

\* A window once published stays as it is under the reader that was given its
\* path, whatever the other threads and processes do, and the directory is the
\* store of WindowStore, which shrinks only when every caller is gone.
KeepsWindows == WriteOnce /\ ImplementsWindowStore

=============================================================================
