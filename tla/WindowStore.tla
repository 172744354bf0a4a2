---------------------------- MODULE WindowStore ----------------------------
(***************************************************************************)
(* What the raster-window cache promises its callers, without its disk     *)
(* protocol, its in-flight map or its wake-ups: a store of windows that    *)
(* only grows as long as there are callers, in which a call ends with an   *)
(* error or with a window that is in the store.                            *)
(***************************************************************************)
CONSTANTS Task, Window

VARIABLES
  stored,   \* the windows that can be read
  want,     \* the window each call is for
  status    \* "idle", "pending", or how the last call ended: "ok", "err"

svars == <<stored, want, status>>

Init ==
  /\ stored = {}
  /\ want \in [Task -> Window]
  /\ status = [t \in Task |-> "idle"]

Begin(t, w) ==
  /\ status[t] # "pending"
  /\ status' = [status EXCEPT ![t] = "pending"]
  /\ want' = [want EXCEPT ![t] = w]
  /\ UNCHANGED stored

\* Only on behalf of a call that wants it does a window enter the store.
Store(t) ==
  /\ status[t] = "pending"
  /\ stored' = stored \cup {want[t]}
  /\ UNCHANGED <<want, status>>

EndOk(t) ==
  /\ status[t] = "pending"
  /\ want[t] \in stored
  /\ status' = [status EXCEPT ![t] = "ok"]
  /\ UNCHANGED <<stored, want>>

EndErr(t) ==
  /\ status[t] = "pending"
  /\ status' = [status EXCEPT ![t] = "err"]
  /\ UNCHANGED <<stored, want>>

\* A crash takes a set of callers with it and leaves the store alone.
Abort(dead) ==
  /\ status' = [t \in Task |-> IF t \in dead THEN "idle" ELSE status[t]]
  /\ UNCHANGED <<stored, want>>

\* The machine dies with all callers; windows may be gone, none is new.
Lose ==
  /\ stored' \in SUBSET stored
  /\ status' = [t \in Task |-> "idle"]
  /\ UNCHANGED want

Next ==
  \/ \E t \in Task : \/ \E w \in Window : Begin(t, w)
                     \/ Store(t) \/ EndOk(t) \/ EndErr(t)
  \/ \E dead \in SUBSET Task : Abort(dead)
  \/ Lose

Spec == Init /\ [][Next]_svars

=============================================================================
