--------------------------- MODULE PyEngineProofs ---------------------------
(***************************************************************************)
(* Proofs about the calls of a Python Engine, for any number of threads    *)
(* and calls, batches of any length, and whichever outlet fails.           *)
(***************************************************************************)
EXTENDS PyEngine, SequenceTheorems, FiniteSetTheorems, WellFoundedInduction, TLAPS

(***************************************************************************)
(* The strengthening that is inductive.  What is said of a call depends on *)
(* the session s and the keyword arguments kw of the engine, and of        *)
(* nothing that another call may change.                                   *)
(***************************************************************************)
Errors == {"none", "ValueError", "DatasetError", "ResolutionError", "PourpointError", "AssemblyError"}

OptionNames == {Kwargs[i] : i \in 1 .. 6}

Results == [outlet : Fates, data : Nat, options : [OptionNames -> {"asked", "default"}]]

Events == [index : Nat, total : Nat, status : {"ok", "error"}]

Opening == {"openwarn", "openlog", "open"}

Delivering == {"callback", "yielded"}

Working == {"run", "event"} \cup Delivering

Calls ==
  [pc : {"idle", "lock", "back", "done"} \cup Opening \cup Working, outlets : Seq(Fates),
   progress : BOOLEAN, finished : Seq(Nat), events : Seq(Events),
   answer : [error : Errors, results : Seq(Results)]]

Engines ==
  [state : {"unbuilt", "refused", "built"},
   error : {"none", "TypeError", "ValueError", "OverflowError", "DatasetError"},
   kwargs : [DOMAIN NoKwargs -> Passed], unknown : BOOLEAN, identity : Nat,
   caches : BOOLEAN, session : Nat]

Answered(fate, s, kw) == [outlet |-> fate, data |-> s, options |-> Options(kw)]

\* The first n outlets succeeded and are all that was answered.
Given(c, n, s, kw) ==
  /\ c.answer.error = "none" /\ Len(c.answer.results) = n
  /\ \A i \in 1 .. n : Succeeds(c.outlets[i]) /\ c.answer.results[i] = Answered(c.outlets[i], s, kw)

Told(c, i) ==
  [index |-> i - 1, total |-> Len(c.outlets),
   status |-> IF Succeeds(c.outlets[i]) THEN "ok" ELSE "error"]

\* The callback heard of the first n outlets.
Heard(c, n) == Len(c.events) = n /\ \A i \in 1 .. n : c.events[i] = Told(c, i)

\* The outlet n is the first that fails.
FailsAt(c, n) == ~Succeeds(c.outlets[n]) /\ \A i \in 1 .. n - 1 : Succeeds(c.outlets[i])

Refused(c) == HasBadCoordinate(c.outlets) /\ c.answer = Raise("ValueError") /\ Heard(c, 0)

Unopened(c) == c.answer = Raise("DatasetError") /\ Heard(c, 0)

Completed(c, s, kw) ==
  /\ ~HasBadCoordinate(c.outlets)
  /\ Given(c, Len(c.outlets), s, kw) /\ Heard(c, IF c.progress THEN Len(c.outlets) ELSE 0)

Aborted(c) ==
  /\ ~HasBadCoordinate(c.outlets)
  /\ \E n \in 1 .. Len(c.outlets) :
       /\ FailsAt(c, n) /\ c.answer = Raise(engine_err_to_py(c.outlets[n]))
       /\ Heard(c, IF c.progress THEN n ELSE 0)

CallOK(c, s, kw) ==
  /\ c \in Calls
  /\ c.pc = "idle" => c = Idle
  /\ c.pc \notin {"idle", "done"} => ~HasBadCoordinate(c.outlets)
  /\ c.pc \in {"lock"} \cup Opening => Given(c, 0, s, kw) /\ Heard(c, 0) /\ Len(c.finished) = 0
  /\ c.pc = "back" => /\ Given(c, 0, s, kw) \/ c.answer = Raise("DatasetError")
                      /\ Heard(c, 0) /\ Len(c.finished) = 0
  /\ c.pc = "run" /\ ~c.progress => Given(c, 0, s, kw) /\ Heard(c, 0)
  /\ c.pc \in Working /\ c.progress =>
       /\ Given(c, Len(c.finished), s, kw) /\ Len(c.finished) <= Len(c.outlets)
       /\ Heard(c, IF c.pc \in Delivering THEN Len(c.finished) + 1 ELSE Len(c.finished))
  /\ c.pc \in {"event"} \cup Delivering => c.progress /\ Len(c.finished) < Len(c.outlets)
  /\ c.pc = "done" => Refused(c) \/ Unopened(c) \/ Completed(c, s, kw) \/ Aborted(c)
  \* The session is opened once, before anything is answered.
  /\ c.pc \in Opening => s = 0
  /\ c.pc \in Working \/ (c.pc = "back" /\ c.answer.error = "none") \/ Len(c.answer.results) # 0
       => s # 0

PyInv ==
  /\ published \in Nat \ {0} /\ self \in Engines /\ call \in [Threads -> Calls]
  /\ self.state = "unbuilt" => self = Unbuilt
  /\ \A t \in Threads : CallOK(call[t], self.session, self.kwargs)
  /\ \A t \in Threads : call[t].pc \in Opening => slot = t
  /\ self.state # "built" => \A t \in Threads : call[t] = Idle

-----------------------------------------------------------------------------
(* Calls one at a time. *)

\* A call that differs in its program counter only.
LEMMA PcMoves ==
  ASSUME NEW c \in Calls, NEW p \in {"idle", "lock", "back", "done"} \cup Opening \cup Working, NEW d,
         d = [c EXCEPT !.pc = p], NEW s, NEW kw, NEW n
  PROVE  /\ d \in Calls /\ d.pc = p /\ d.outlets = c.outlets /\ d.progress = c.progress
         /\ d.finished = c.finished /\ d.events = c.events /\ d.answer = c.answer
         /\ Given(d, n, s, kw) <=> Given(c, n, s, kw)
         /\ Heard(d, n) <=> Heard(c, n)
<1>1. /\ d \in Calls /\ d.pc = p /\ d.outlets = c.outlets /\ d.progress = c.progress
      /\ d.finished = c.finished /\ d.events = c.events /\ d.answer = c.answer
  BY DEF Calls
<1>2. Given(d, n, s, kw) <=> Given(c, n, s, kw)
  BY <1>1 DEF Given
<1>3. Heard(d, n) <=> Heard(c, n)
  BY <1>1 DEF Heard, Told
<1>. QED
  BY <1>1, <1>2, <1>3

\* A call of t moves, the engine stays.
LEMMA OneCallMoves ==
  ASSUME PyInv, NEW t \in Threads, NEW d, CallOK(d, self.session, self.kwargs),
         call' = [call EXCEPT ![t] = d], UNCHANGED <<published, self>>,
         self.state = "built" \/ call[t].pc # "idle",
         d.pc \in Opening => slot' = t,
         \A u \in Threads : u # t /\ call[u].pc \in Opening => slot' = u
  PROVE  PyInv'
<1>1. call \in [Threads -> Calls] /\ d \in Calls
  BY DEF PyInv, CallOK
<1>2. call' \in [Threads -> Calls] /\ call'[t] = d /\ \A u \in Threads : u # t => call'[u] = call[u]
  BY <1>1
<1>3. self.state = "built"
  <2>1. Idle.pc = "idle"
    BY DEF Idle
  <2>. QED
    BY <2>1 DEF PyInv
<1>4. \A u \in Threads : CallOK(call'[u], self'.session, self'.kwargs)
  BY <1>2 DEF PyInv
<1>5. \A u \in Threads : call'[u].pc \in Opening => slot' = u
  BY <1>2
<1>. QED
  BY <1>2, <1>3, <1>4, <1>5 DEF PyInv

\* Nobody else opens while the slot is free, or while it is t's.
LEMMA OneOpens ==
  ASSUME PyEngineAssumption, PyInv, NEW t \in Threads, slot \in {Nobody, t}
  PROVE  \A u \in Threads : u # t => call[u].pc \notin Opening
BY DEF PyEngineAssumption, PyInv

LEMMA NothingGiven ==
  ASSUME NEW c \in Calls, NEW s, NEW kw, c.answer = NoAnswer
  PROVE  Given(c, 0, s, kw) /\ c.answer.error = "none" /\ Len(c.answer.results) = 0
<1>1. c.answer.error = "none" /\ c.answer.results = <<>> /\ Len(c.answer.results) = 0
  BY EmptySeq DEF NoAnswer
<1>. QED
  BY <1>1 DEF Given

LEMMA BeginKeeps ==
  ASSUME PyEngineAssumption, PyInv, NEW t \in Threads, NEW outlets \in Seq(Outlets),
         NEW progress \in BOOLEAN, Begin(t, outlets, progress)
  PROVE  PyInv'
<1>. DEFINE s == self.session
            kw == self.kwargs
<1>1. /\ self.state = "built" /\ UNCHANGED <<published, self, slot>> /\ outlets \in Seq(Fates)
  <2>1. outlets \in Seq(Fates)
    BY DEF PyEngineAssumption
  <2>. QED
    BY <2>1 DEF Begin
<1>2. \A u \in Threads : u # t /\ call[u].pc \in Opening => slot' = u
  BY <1>1 DEF PyInv
<1>3. <<>> \in Seq(Nat) /\ <<>> \in Seq(Events) /\ <<>> \in Seq(Results) /\ Len(<<>>) = 0
  BY EmptySeq
<1>4. CASE HasBadCoordinate(outlets)
  <2>. DEFINE d == [Idle EXCEPT !.pc = "done", !.outlets = outlets, !.progress = progress,
                                !.answer = Raise("ValueError")]
  <2>1. /\ d \in Calls /\ d.pc = "done" /\ d.outlets = outlets /\ d.events = <<>>
        /\ d.answer = Raise("ValueError") /\ Len(d.answer.results) = 0
    BY <1>1, <1>3 DEF Idle, Calls, Raise, Errors
  <2>2. call' = [call EXCEPT ![t] = d]
    BY <1>4 DEF Begin, Set
  <2>. HIDE DEF d
  <2>3. Refused(d)
    BY <1>3, <1>4, <2>1 DEF Refused, Heard
  <2>4. CallOK(d, s, kw)
    BY <2>1, <2>3 DEF CallOK, Opening, Working, Delivering
  <2>. QED
    BY <1>1, <1>2, <2>1, <2>2, <2>4, OneCallMoves DEF Opening
<1>5. CASE ~HasBadCoordinate(outlets)
  <2>. DEFINE d == [Idle EXCEPT !.pc = "lock", !.outlets = outlets, !.progress = progress]
  <2>1. /\ d \in Calls /\ d.pc = "lock" /\ d.outlets = outlets /\ d.events = <<>>
        /\ d.finished = <<>> /\ d.answer = NoAnswer
    BY <1>1, <1>3 DEF Idle, Calls, NoAnswer, Errors
  <2>2. call' = [call EXCEPT ![t] = d]
    BY <1>5 DEF Begin, Set
  <2>. HIDE DEF d
  <2>3. Given(d, 0, s, kw) /\ Len(d.answer.results) = 0 /\ Heard(d, 0) /\ Len(d.finished) = 0
    BY <1>3, <2>1, NothingGiven DEF Heard
  <2>4. CallOK(d, s, kw)
    BY <1>5, <2>1, <2>3 DEF CallOK, Opening, Working, Delivering
  <2>. QED
    BY <1>1, <1>2, <2>1, <2>2, <2>4, OneCallMoves DEF Opening
<1>. QED
  BY <1>4, <1>5

-----------------------------------------------------------------------------
(* Opening the session. *)

LEMMA UseEngineKeeps ==
  ASSUME PyInv, NEW t \in Threads, UseEngine(t)
  PROVE  PyInv'
<1>. DEFINE c == call[t]
            s == self.session
            kw == self.kwargs
            d == [c EXCEPT !.pc = "back"]
<1>1. /\ c.pc = "lock" /\ s # 0 /\ CallOK(c, s, kw) /\ c \in Calls
      /\ call' = [call EXCEPT ![t] = d] /\ UNCHANGED <<published, self, slot>>
  BY DEF UseEngine, Set, PyInv
<1>2. /\ d \in Calls /\ d.pc = "back" /\ d.outlets = c.outlets /\ d.finished = c.finished
      /\ d.answer = c.answer /\ Given(d, 0, s, kw) /\ Heard(d, 0)
  <2>1. Given(c, 0, s, kw) /\ Heard(c, 0)
    BY <1>1 DEF CallOK
  <2>. HIDE DEF c, s, kw
  <2>. QED
    BY <1>1, <2>1, PcMoves
<1>3. \A u \in Threads : u # t /\ call[u].pc \in Opening => slot' = u
  BY <1>1 DEF PyInv
<1>. HIDE DEF d
<1>4. CallOK(d, s, kw)
  BY <1>1, <1>2 DEF CallOK, Opening, Working, Delivering
<1>. QED
  BY <1>1, <1>2, <1>3, <1>4, OneCallMoves DEF Opening

\* A step within the opening, or into it.
LEMMA OpeningMoves ==
  ASSUME PyEngineAssumption, PyInv, NEW t \in Threads, NEW p \in Opening, self.session = 0,
         call[t].pc \in {"lock"} \cup Opening, slot \in {Nobody, t}, slot' = t,
         call' = [call EXCEPT ![t] = [call[t] EXCEPT !.pc = p]], UNCHANGED <<published, self>>
  PROVE  PyInv'
<1>. DEFINE c == call[t]
            s == self.session
            kw == self.kwargs
            d == [c EXCEPT !.pc = p]
<1>1. CallOK(c, s, kw) /\ c \in Calls /\ c.pc \notin {"idle", "done"}
  BY DEF PyInv, Opening
<1>2. /\ d \in Calls /\ d.pc = p /\ d.outlets = c.outlets /\ d.finished = c.finished
      /\ d.answer = c.answer /\ Given(d, 0, s, kw) /\ Heard(d, 0)
  <2>1. Given(c, 0, s, kw) /\ Heard(c, 0)
    BY <1>1 DEF CallOK
  <2>2. p \in {"idle", "lock", "back", "done"} \cup Opening \cup Working
    OBVIOUS
  <2>. HIDE DEF c, s, kw
  <2>. QED
    BY <1>1, <2>1, <2>2, PcMoves
<1>3. \A u \in Threads : u # t => call[u].pc \notin Opening
  BY OneOpens
<1>. HIDE DEF d
<1>4. CallOK(d, s, kw)
  <2>1. Len(d.answer.results) = 0
    BY <1>2 DEF Given
  <2>2. Len(d.finished) = 0 /\ ~HasBadCoordinate(d.outlets)
    BY <1>1, <1>2 DEF CallOK
  <2>. QED
    BY <1>1, <1>2, <2>1, <2>2 DEF CallOK, Opening, Working, Delivering
<1>. QED
  BY <1>1, <1>3, <1>4, OneCallMoves DEF d

LEMMA BeginOpenKeeps ==
  ASSUME PyEngineAssumption, PyInv, NEW t \in Threads, BeginOpen(t)
  PROVE  PyInv'
<1>1. PICK warns \in BOOLEAN :
        call' = [call EXCEPT ![t] = [call[t] EXCEPT !.pc = IF warns THEN "openwarn" ELSE "open"]]
  BY DEF BeginOpen, Set
<1>2. call[t].pc = "lock" /\ slot = Nobody /\ slot' = t /\ self.session = 0 /\ UNCHANGED <<published, self>>
  BY DEF BeginOpen
<1>3. (IF warns THEN "openwarn" ELSE "open") \in Opening
  BY DEF Opening
<1>. QED
  BY <1>1, <1>2, <1>3, OpeningMoves

LEMMA OpenWarnsKeeps ==
  ASSUME PyEngineAssumption, PyInv, NEW t \in Threads, OpenWarns(t) \/ OpenWarned(t)
  PROVE  PyInv'
<1>1. /\ call[t].pc \in Opening /\ UNCHANGED <<published, self, slot>>
      /\ \E p \in Opening : call' = [call EXCEPT ![t] = [call[t] EXCEPT !.pc = p]]
  BY DEF OpenWarns, OpenWarned, Set, Opening
<1>2. slot = t /\ self.session = 0
  BY <1>1 DEF PyInv, CallOK
<1>. QED
  BY <1>1, <1>2, OpeningMoves

\* To a call that has nothing yet it makes no difference which session it will be.
LEMMA SessionOpens ==
  ASSUME NEW c, NEW kw, CallOK(c, 0, kw), c.pc \notin Opening, NEW s \in Nat \ {0}
  PROVE  CallOK(c, s, kw)
<1>1. Len(c.answer.results) = 0
  BY DEF CallOK
<1>2. \A n \in Nat : Given(c, n, 0, kw) => Given(c, n, s, kw)
  BY <1>1 DEF Given
<1>3. c \in Calls /\ Len(c.finished) \in Nat /\ Len(c.outlets) \in Nat
  BY LenProperties DEF CallOK, Calls
<1>4. Completed(c, 0, kw) => Completed(c, s, kw)
  BY <1>2, <1>3 DEF Completed
<1>. QED
  BY <1>2, <1>3, <1>4 DEF CallOK

LEMMA OpenSucceedsKeeps ==
  ASSUME PyEngineAssumption, PyInv, NEW t \in Threads, OpenSucceeds(t)
  PROVE  PyInv'
<1>. DEFINE c == call[t]
            s == published
            kw == self.kwargs
            d == [c EXCEPT !.pc = "back"]
<1>1. /\ c.pc = "open" /\ CallOK(c, self.session, kw) /\ c \in Calls /\ call \in [Threads -> Calls]
      /\ call' = [call EXCEPT ![t] = d] /\ published' = published /\ s \in Nat \ {0}
  BY DEF OpenSucceeds, Set, PyInv
<1>2. self.session = 0 /\ slot = t
  BY <1>1 DEF PyInv, CallOK, Opening
<1>3. self' \in Engines /\ self'.session = s /\ self'.kwargs = kw /\ self'.state = self.state
  BY <1>1 DEF OpenSucceeds, PyInv, Engines
<1>4. /\ d \in Calls /\ d.pc = "back" /\ d.outlets = c.outlets /\ d.finished = c.finished
      /\ d.answer = c.answer /\ Given(d, 0, 0, kw) /\ Heard(d, 0)
  <2>1. Given(c, 0, 0, kw) /\ Heard(c, 0)
    BY <1>1, <1>2 DEF CallOK, Opening
  <2>2. /\ d \in Calls /\ d.pc = "back" /\ d.outlets = c.outlets /\ d.finished = c.finished
        /\ d.answer = c.answer /\ d.events = c.events
    BY <1>1 DEF Calls
  <2>. QED
    BY <2>1, <2>2 DEF Given, Heard, Told
<1>. HIDE DEF d
<1>5. CallOK(d, s, kw)
  <2>1. Given(d, 0, s, kw)
    BY <1>4 DEF Given
  <2>2. Len(d.finished) = 0 /\ ~HasBadCoordinate(d.outlets)
    BY <1>1, <1>4 DEF CallOK, Opening
  <2>. QED
    BY <1>1, <1>4, <2>1, <2>2 DEF CallOK, Opening, Working, Delivering
<1>6. call' \in [Threads -> Calls] /\ call'[t] = d /\ \A u \in Threads : u # t => call'[u] = call[u]
  BY <1>1, <1>4
<1>7. \A u \in Threads : u # t => call[u].pc \notin Opening
  BY <1>2, OneOpens
<1>8. ASSUME NEW u \in Threads PROVE CallOK(call'[u], self'.session, self'.kwargs)
  <2>1. CASE u = t
    BY <1>3, <1>5, <1>6, <2>1
  <2>2. CASE u # t
    <3>1. CallOK(call[u], 0, kw)
      BY <1>2 DEF PyInv
    <3>. QED
      BY <1>1, <1>3, <1>6, <1>7, <2>2, <3>1, SessionOpens
  <2>. QED
    BY <2>1, <2>2
<1>9. \A u \in Threads : call'[u].pc \in Opening => slot' = u
  BY <1>4, <1>6, <1>7 DEF Opening
<1>10. self.state = "built"
  <2>1. Idle.pc = "idle"
    BY DEF Idle
  <2>. QED
    BY <1>1, <2>1 DEF PyInv
<1>. QED
  BY <1>1, <1>3, <1>6, <1>8, <1>9, <1>10 DEF PyInv

LEMMA OpenFailsKeeps ==
  ASSUME PyEngineAssumption, PyInv, NEW t \in Threads, OpenFails(t)
  PROVE  PyInv'
<1>. DEFINE c == call[t]
            s == self.session
            kw == self.kwargs
            d == [c EXCEPT !.pc = "back", !.answer = Raise("DatasetError")]
<1>1. /\ c.pc = "open" /\ CallOK(c, s, kw) /\ c \in Calls
      /\ call' = [call EXCEPT ![t] = d] /\ UNCHANGED <<published, self>> /\ slot' = Nobody
  BY DEF OpenFails, Set, PyInv
<1>2. slot = t
  BY <1>1 DEF PyInv, Opening
<1>3. /\ d \in Calls /\ d.pc = "back" /\ d.outlets = c.outlets /\ d.finished = c.finished
      /\ d.answer = Raise("DatasetError") /\ d.events = c.events
      /\ d.answer.error = "DatasetError" /\ d.answer.results = <<>>
  BY <1>1, EmptySeq DEF Calls, Raise, Errors
<1>4. \A u \in Threads : u # t => call[u].pc \notin Opening
  BY <1>2, OneOpens
<1>. HIDE DEF d
<1>5. CallOK(d, s, kw)
  <2>1. Heard(d, 0) /\ Len(d.finished) = 0 /\ ~HasBadCoordinate(d.outlets)
    BY <1>1, <1>3 DEF CallOK, Opening, Heard
  <2>2. Len(d.answer.results) = 0
    BY <1>3, EmptySeq
  <2>. QED
    BY <1>3, <2>1, <2>2 DEF CallOK, Opening, Working, Delivering
<1>. QED
  BY <1>1, <1>3, <1>4, <1>5, OneCallMoves DEF Opening

-----------------------------------------------------------------------------
(* The work. *)

LEMMA LessWellFounded == IsWellFoundedOn({p \in Nat \X Nat : p[1] < p[2]}, Nat)
BY NatLessThanWellFounded, Zenon DEF OpToRel

\* Of the failures of a batch one is the first, and it is the one raised.
LEMMA FirstFails ==
  ASSUME NEW c \in Calls, Failing(c.outlets) # {}
  PROVE  FirstFailure(c) \in 1 .. Len(c.outlets) /\ FailsAt(c, FirstFailure(c))
<1>. DEFINE T == Failing(c.outlets)
            R == {p \in Nat \X Nat : p[1] < p[2]}
<1>1. Len(c.outlets) \in Nat /\ DOMAIN c.outlets = 1 .. Len(c.outlets)
  BY LenProperties DEF Calls
<1>2. T \subseteq 1 .. Len(c.outlets) /\ T \subseteq Nat
  BY <1>1 DEF Failing
<1>3. PICK x \in T : \A y \in T : <<y, x>> \notin R
  <2>1. IsWellFoundedOn(R, Nat)
    BY LessWellFounded
  <2>. HIDE DEF R, T
  <2>. QED
    BY <1>2, <2>1, WFMin DEF T
<1>4. ASSUME NEW y \in T PROVE x <= y
  <2>1. ~(y < x)
    BY <1>2, <1>3
  <2>. QED
    BY <1>2, <2>1
<1>5. FirstFailure(c) \in T /\ \A y \in T : FirstFailure(c) <= y
  BY <1>4 DEF FirstFailure, Min
<1>6. \A i \in 1 .. FirstFailure(c) - 1 : Succeeds(c.outlets[i])
  <2>1. ASSUME NEW i \in 1 .. FirstFailure(c) - 1, ~Succeeds(c.outlets[i]) PROVE FALSE
    <3>1. FirstFailure(c) \in 1 .. Len(c.outlets)
      BY <1>2, <1>5
    <3>2. i \in 1 .. Len(c.outlets) /\ i < FirstFailure(c)
      BY <1>1, <3>1
    <3>3. i \in T
      BY <1>1, <2>1, <3>2 DEF Failing
    <3>. QED
      BY <1>5, <3>1, <3>2, <3>3
  <2>. QED
    BY <2>1
<1>. QED
  BY <1>1, <1>2, <1>5, <1>6 DEF FailsAt, Failing

LEMMA ErrorOfEngine ==
  ASSUME NEW fate
  PROVE  /\ engine_err_to_py(fate) \in Errors \ {"none", "ValueError"}
         /\ Raise(engine_err_to_py(fate)) \in [error : Errors, results : Seq(Results)]
         /\ Len(Raise(engine_err_to_py(fate)).results) = 0
BY EmptySeq DEF engine_err_to_py, Errors, Raise

LEMMA BackKeeps ==
  ASSUME PyInv, NEW t \in Threads, Back(t)
  PROVE  PyInv'
<1>. DEFINE c == call[t]
            s == self.session
            kw == self.kwargs
            p == IF c.answer.error # "none" THEN "done" ELSE "run"
            d == [c EXCEPT !.pc = p]
<1>1. /\ c.pc = "back" /\ CallOK(c, s, kw) /\ c \in Calls
      /\ call' = [call EXCEPT ![t] = d] /\ UNCHANGED <<published, self, slot>>
  BY DEF Back, Set, PyInv
<1>2. \A u \in Threads : u # t /\ call[u].pc \in Opening => slot' = u
  BY <1>1 DEF PyInv
<1>3. /\ d \in Calls /\ d.pc = p /\ d.outlets = c.outlets /\ d.finished = c.finished
      /\ d.answer = c.answer /\ d.events = c.events /\ d.progress = c.progress
  BY <1>1 DEF Calls, Working
<1>4. Heard(d, 0) /\ Len(d.finished) = 0 /\ ~HasBadCoordinate(d.outlets)
  BY <1>1, <1>3 DEF CallOK, Heard, Told
<1>5. Len(d.outlets) \in Nat
  BY <1>3, LenProperties DEF Calls
<1>. HIDE DEF d
<1>6. CallOK(d, s, kw)
  <2>1. CASE c.answer.error = "none"
    <3>1. Given(c, 0, s, kw) /\ s # 0
      BY <1>1, <2>1 DEF CallOK, Raise
    <3>2. Given(d, 0, s, kw)
      BY <1>3, <3>1 DEF Given
    <3>3. d.pc = "run"
      BY <1>3, <2>1
    <3>. QED
      BY <1>3, <1>4, <1>5, <3>1, <3>2, <3>3 DEF CallOK, Opening, Working, Delivering
  <2>2. CASE c.answer.error # "none"
    <3>1. Unopened(d)
      BY <1>1, <1>3, <1>4, <2>2 DEF CallOK, Unopened, Given
    <3>2. d.pc = "done" /\ Len(d.answer.results) = 0
      BY <1>3, <2>2, <3>1, EmptySeq DEF Unopened, Raise
    <3>. QED
      BY <1>3, <3>1, <3>2 DEF CallOK, Opening, Working, Delivering
  <2>. QED
    BY <2>1, <2>2
<1>. QED
  BY <1>1, <1>2, <1>3, <1>6, OneCallMoves DEF Opening

LEMMA WorkKeeps ==
  ASSUME PyInv, NEW t \in Threads, NEW i \in Nat, Work(t, i)
  PROVE  PyInv'
<1>. DEFINE c == call[t]
            s == self.session
            kw == self.kwargs
            d == [c EXCEPT !.finished = Append(c.finished, i)]
<1>1. /\ c.pc = "run" /\ ~c.progress /\ CallOK(c, s, kw) /\ c \in Calls
      /\ call' = [call EXCEPT ![t] = d] /\ UNCHANGED <<published, self, slot>>
  BY DEF Work, Set, PyInv
<1>2. \A u \in Threads : u # t /\ call[u].pc \in Opening => slot' = u
  BY <1>1 DEF PyInv
<1>3. Append(c.finished, i) \in Seq(Nat)
  BY <1>1, AppendProperties DEF Calls
<1>4. /\ d \in Calls /\ d.pc = "run" /\ d.outlets = c.outlets
      /\ d.answer = c.answer /\ d.events = c.events /\ d.progress = c.progress
  BY <1>1, <1>3 DEF Calls
<1>. HIDE DEF d
<1>5. CallOK(d, s, kw)
  BY <1>1, <1>4 DEF CallOK, Opening, Working, Delivering, Given, Heard, Told
<1>. QED
  BY <1>1, <1>2, <1>4, <1>5, OneCallMoves DEF Opening

LEMMA ResultTyped ==
  ASSUME PyInv, NEW fate \in Fates
  PROVE  Result(fate) \in Results /\ Result(fate) = Answered(fate, self.session, self.kwargs)
<1>1. Options(self.kwargs) \in [OptionNames -> {"asked", "default"}]
  BY DEF Options, OptionNames
<1>2. self.session \in Nat
  BY DEF PyInv, Engines
<1>. QED
  BY <1>1, <1>2 DEF Result, Results, Answered

LEMMA CollectKeeps ==
  ASSUME PyInv, NEW t \in Threads, Collect(t)
  PROVE  PyInv'
<1>. DEFINE c == call[t]
            s == self.session
            kw == self.kwargs
            all == [i \in DOMAIN c.outlets |-> Result(c.outlets[i])]
            a == IF Failing(c.outlets) # {}
                 THEN Raise(engine_err_to_py(c.outlets[FirstFailure(c)]))
                 ELSE [error |-> "none", results |-> all]
            d == [c EXCEPT !.pc = "done", !.answer = a]
<1>1. /\ c.pc = "run" /\ ~c.progress /\ CallOK(c, s, kw) /\ c \in Calls
      /\ call' = [call EXCEPT ![t] = d] /\ UNCHANGED <<published, self, slot>>
  BY DEF Collect, Set, PyInv
<1>2. \A u \in Threads : u # t /\ call[u].pc \in Opening => slot' = u
  BY <1>1 DEF PyInv
<1>3. /\ Len(c.outlets) \in Nat /\ DOMAIN c.outlets = 1 .. Len(c.outlets)
      /\ \A i \in 1 .. Len(c.outlets) : c.outlets[i] \in Fates
  BY <1>1, LenProperties, ElementOfSeq DEF Calls
<1>4. all \in Seq(Results) /\ Len(all) = Len(c.outlets)
  <2>1. all \in [1 .. Len(c.outlets) -> Results]
    BY <1>3, ResultTyped
  <2>. HIDE DEF all
  <2>. QED
    BY <1>3, <2>1, SeqDef, LenProperties
<1>5. \A i \in 1 .. Len(c.outlets) : all[i] = Answered(c.outlets[i], s, kw)
  BY <1>3, ResultTyped
<1>. HIDE DEF all
<1>6. a \in [error : Errors, results : Seq(Results)]
  BY <1>4, ErrorOfEngine DEF Errors
<1>. HIDE DEF a
<1>7. /\ d \in Calls /\ d.pc = "done" /\ d.outlets = c.outlets /\ d.answer = a
      /\ d.events = c.events /\ ~d.progress
  BY <1>1, <1>6 DEF Calls
<1>. HIDE DEF d
<1>8. Heard(d, 0) /\ ~HasBadCoordinate(d.outlets) /\ s # 0
  BY <1>1, <1>7 DEF CallOK, Heard, Told, Working
<1>9. CASE Failing(c.outlets) = {}
  <2>1. d.answer.error = "none" /\ d.answer.results = all
    BY <1>7, <1>9 DEF a
  <2>2. \A i \in 1 .. Len(c.outlets) : Succeeds(c.outlets[i])
    BY <1>3, <1>9 DEF Failing
  <2>3. Given(d, Len(d.outlets), s, kw)
    BY <1>4, <1>5, <1>7, <2>1, <2>2 DEF Given
  <2>4. Completed(d, s, kw)
    BY <1>7, <1>8, <2>3 DEF Completed
  <2>5. CallOK(d, s, kw)
    BY <1>7, <1>8, <2>4 DEF CallOK, Opening, Working, Delivering
  <2>. QED
    BY <1>1, <1>2, <1>7, <2>5, OneCallMoves DEF Opening
<1>10. CASE Failing(c.outlets) # {}
  <2>. DEFINE n == FirstFailure(c)
  <2>1. d.answer = Raise(engine_err_to_py(c.outlets[n]))
    BY <1>7, <1>10 DEF a
  <2>2. n \in 1 .. Len(c.outlets) /\ FailsAt(c, n)
    BY <1>1, <1>10, FirstFails
  <2>3. FailsAt(d, n)
    BY <1>7, <2>2 DEF FailsAt
  <2>. HIDE DEF n
  <2>4. Aborted(d)
    BY <1>7, <1>8, <2>1, <2>2, <2>3 DEF Aborted
  <2>5. CallOK(d, s, kw)
    BY <1>7, <1>8, <2>4 DEF CallOK, Opening, Working, Delivering
  <2>. QED
    BY <1>1, <1>2, <1>7, <2>5, OneCallMoves DEF Opening
<1>. QED
  BY <1>9, <1>10

-----------------------------------------------------------------------------
(* One outlet after the other, with a callback. *)

LEMMA SequentialWorkKeeps ==
  ASSUME PyInv, NEW t \in Threads, SequentialWork(t)
  PROVE  PyInv'
<1>. DEFINE c == call[t]
            s == self.session
            kw == self.kwargs
            d == [c EXCEPT !.pc = "event"]
<1>1. /\ c.pc = "run" /\ c.progress /\ CallOK(c, s, kw) /\ c \in Calls
      /\ call' = [call EXCEPT ![t] = d] /\ UNCHANGED <<published, self, slot>>
      /\ Len(c.finished) + 1 \in DOMAIN c.outlets
  BY DEF SequentialWork, Set, PyInv, At
<1>2. \A u \in Threads : u # t /\ call[u].pc \in Opening => slot' = u
  BY <1>1 DEF PyInv
<1>3. /\ d \in Calls /\ d.pc = "event" /\ d.outlets = c.outlets /\ d.answer = c.answer
      /\ d.events = c.events /\ d.progress = c.progress /\ d.finished = c.finished
  BY <1>1 DEF Calls, Working
<1>4. Len(d.finished) < Len(d.outlets)
  <2>1. Len(c.finished) \in Nat /\ DOMAIN c.outlets = 1 .. Len(c.outlets) /\ Len(c.outlets) \in Nat
    BY <1>1, LenProperties DEF Calls
  <2>. QED
    BY <1>1, <1>3, <2>1
<1>. HIDE DEF d
<1>5. CallOK(d, s, kw)
  BY <1>1, <1>3, <1>4 DEF CallOK, Opening, Working, Delivering, Given, Heard, Told
<1>. QED
  BY <1>1, <1>2, <1>3, <1>5, OneCallMoves DEF Opening

LEMMA CallbackKeeps ==
  ASSUME PyInv, NEW t \in Threads, Callback(t)
  PROVE  PyInv'
<1>. DEFINE c == call[t]
            s == self.session
            kw == self.kwargs
            n == Len(c.finished)
            e == Event(c)
            d == [c EXCEPT !.pc = "callback", !.events = Append(c.events, e)]
<1>1. /\ c.pc = "event" /\ CallOK(c, s, kw) /\ c \in Calls
      /\ call' = [call EXCEPT ![t] = d] /\ UNCHANGED <<published, self, slot>>
  BY DEF Callback, Set, PyInv
<1>2. \A u \in Threads : u # t /\ call[u].pc \in Opening => slot' = u
  BY <1>1 DEF PyInv
<1>3. /\ c.progress /\ n \in Nat /\ Len(c.outlets) \in Nat /\ n < Len(c.outlets) /\ Heard(c, n)
      /\ c.events \in Seq(Events)
  BY <1>1, LenProperties DEF CallOK, Calls, Working, Delivering
<1>4. e = Told(c, n + 1) /\ e \in Events
  <2>1. n + 1 - 1 = n
    BY <1>3
  <2>. QED
    BY <1>3, <2>1 DEF Event, At, Told, Events
<1>. HIDE DEF e
<1>5. /\ Append(c.events, e) \in Seq(Events) /\ Len(Append(c.events, e)) = n + 1
      /\ Append(c.events, e)[n + 1] = e
      /\ \A i \in 1 .. n : Append(c.events, e)[i] = c.events[i]
  <2>1. Len(c.events) = n
    BY <1>3 DEF Heard
  <2>. HIDE DEF n
  <2>. QED
    BY <1>3, <1>4, <2>1, AppendProperties
<1>6. /\ d \in Calls /\ d.pc = "callback" /\ d.outlets = c.outlets /\ d.answer = c.answer
      /\ d.events = Append(c.events, e) /\ d.progress = c.progress /\ d.finished = c.finished
  BY <1>1, <1>5 DEF Calls, Working, Delivering
<1>. HIDE DEF d
<1>7. Heard(d, n + 1)
  <2>1. ASSUME NEW i \in 1 .. n + 1 PROVE d.events[i] = Told(d, i)
    <3>1. Told(d, i) = Told(c, i)
      BY <1>6 DEF Told
    <3>2. CASE i = n + 1
      BY <1>4, <1>5, <1>6, <3>1, <3>2
    <3>3. CASE i \in 1 .. n
      BY <1>3, <1>5, <1>6, <3>1, <3>3 DEF Heard
    <3>. QED
      BY <1>3, <3>2, <3>3
  <2>. QED
    BY <1>5, <1>6, <2>1 DEF Heard
<1>8. CallOK(d, s, kw)
  <2>1. Given(d, n, s, kw) /\ ~HasBadCoordinate(d.outlets) /\ s # 0
    BY <1>1, <1>3, <1>6 DEF CallOK, Given, Working
  <2>. QED
    BY <1>3, <1>6, <1>7, <2>1 DEF CallOK, Opening, Working, Delivering
<1>. QED
  BY <1>1, <1>2, <1>6, <1>8, OneCallMoves DEF Opening

LEMMA CallbackYieldsKeeps ==
  ASSUME PyInv, NEW t \in Threads, CallbackYields(t)
  PROVE  PyInv'
<1>. DEFINE c == call[t]
            s == self.session
            kw == self.kwargs
            d == [c EXCEPT !.pc = "yielded"]
<1>1. /\ c.pc = "callback" /\ CallOK(c, s, kw) /\ c \in Calls
      /\ call' = [call EXCEPT ![t] = d] /\ UNCHANGED <<published, self, slot>>
  BY DEF CallbackYields, Set, PyInv
<1>2. \A u \in Threads : u # t /\ call[u].pc \in Opening => slot' = u
  BY <1>1 DEF PyInv
<1>3. /\ d \in Calls /\ d.pc = "yielded" /\ d.outlets = c.outlets /\ d.answer = c.answer
      /\ d.events = c.events /\ d.progress = c.progress /\ d.finished = c.finished
  BY <1>1 DEF Calls, Working, Delivering
<1>. HIDE DEF d
<1>4. CallOK(d, s, kw)
  BY <1>1, <1>3 DEF CallOK, Opening, Working, Delivering, Given, Heard, Told
<1>. QED
  BY <1>1, <1>2, <1>3, <1>4, OneCallMoves DEF Opening

LEMMA CallbackEndsKeeps ==
  ASSUME PyInv, NEW t \in Threads, CallbackEnds(t)
  PROVE  PyInv'
<1>. DEFINE c == call[t]
            s == self.session
            kw == self.kwargs
            n == Len(c.finished)
            fate == c.outlets[n + 1]
            r == Result(fate)
            d == Record(c)
<1>1. /\ c.pc \in Delivering /\ CallOK(c, s, kw) /\ c \in Calls
      /\ call' = [call EXCEPT ![t] = d] /\ UNCHANGED <<published, self, slot>>
  BY DEF CallbackEnds, Set, PyInv, Delivering
<1>2. \A u \in Threads : u # t /\ call[u].pc \in Opening => slot' = u
  BY <1>1 DEF PyInv
<1>3. /\ c.progress /\ n \in Nat /\ Len(c.outlets) \in Nat /\ n < Len(c.outlets)
      /\ Heard(c, n + 1) /\ Given(c, n, s, kw) /\ ~HasBadCoordinate(c.outlets) /\ s # 0
      /\ n + 1 \in 1 .. Len(c.outlets)
  BY <1>1, LenProperties DEF CallOK, Calls, Working, Delivering
<1>4. fate \in Fates /\ r \in Results /\ r = Answered(fate, s, kw) /\ call[t].pc # "idle"
  <2>1. fate \in Fates
    BY <1>1, <1>3, ElementOfSeq DEF Calls
  <2>. QED
    BY <1>1, <2>1, ResultTyped DEF Delivering
<1>5. At(c) = n + 1
  BY DEF At
<1>6. CASE Succeeds(fate)
  <2>. DEFINE f == Append(c.finished, n + 1)
              a == [c.answer EXCEPT !.results = Append(c.answer.results, r)]
  <2>1. d = [c EXCEPT !.pc = "run", !.finished = f, !.answer = a]
    BY <1>1, <1>5, <1>6 DEF Record, Calls
  <2>2. f \in Seq(Nat) /\ Len(f) = n + 1
    BY <1>1, <1>3, AppendProperties DEF Calls
  <2>3. c.answer \in [error : Errors, results : Seq(Results)] /\ c.answer.results \in Seq(Results)
        /\ Len(c.answer.results) = n
    BY <1>1, <1>3 DEF Calls, Given
  <2>4. /\ Append(c.answer.results, r) \in Seq(Results)
        /\ Len(Append(c.answer.results, r)) = n + 1 /\ Append(c.answer.results, r)[n + 1] = r
        /\ \A i \in 1 .. n : Append(c.answer.results, r)[i] = c.answer.results[i]
    <3>. HIDE DEF r, n
    <3>. QED
      BY <1>4, <2>3, AppendProperties
  <2>5. /\ a \in [error : Errors, results : Seq(Results)] /\ a.error = c.answer.error
        /\ a.results = Append(c.answer.results, r)
    BY <2>3, <2>4
  <2>. HIDE DEF a, f, r
  <2>6. /\ d \in Calls /\ d.pc = "run" /\ d.outlets = c.outlets /\ d.answer = a
        /\ d.events = c.events /\ d.progress = c.progress /\ d.finished = f
    BY <1>1, <2>1, <2>2, <2>5 DEF Calls, Working
  <2>. HIDE DEF d
  <2>7. Given(d, n + 1, s, kw)
    <3>1. ASSUME NEW i \in 1 .. n + 1
          PROVE  Succeeds(d.outlets[i]) /\ d.answer.results[i] = Answered(d.outlets[i], s, kw)
      <4>1. CASE i = n + 1
        BY <1>4, <1>6, <2>4, <2>5, <2>6, <4>1
      <4>2. CASE i \in 1 .. n
        BY <1>3, <2>4, <2>5, <2>6, <4>2 DEF Given
      <4>. QED
        BY <1>3, <4>1, <4>2
    <3>. QED
      BY <1>3, <2>4, <2>5, <2>6, <3>1 DEF Given
  <2>8. Heard(d, n + 1)
    BY <1>3, <2>6 DEF Heard, Told
  <2>9. CallOK(d, s, kw)
    <3>1. /\ Given(d, Len(d.finished), s, kw) /\ Heard(d, Len(d.finished))
          /\ Len(d.finished) <= Len(d.outlets) /\ d.progress /\ ~HasBadCoordinate(d.outlets)
      BY <1>3, <2>2, <2>6, <2>7, <2>8
    <3>2. d \in Calls /\ d.pc = "run" /\ s # 0
      BY <1>3, <2>6
    <3>. HIDE DEF s, kw
    <3>. QED
      BY <3>1, <3>2 DEF CallOK, Opening, Working, Delivering
  <2>. QED
    BY <1>1, <1>2, <1>4, <2>6, <2>9, OneCallMoves DEF Opening
<1>7. CASE ~Succeeds(fate)
  <2>. DEFINE a == Raise(engine_err_to_py(fate))
  <2>1. d = [c EXCEPT !.pc = "done", !.answer = a] /\ a \in [error : Errors, results : Seq(Results)]
    BY <1>5, <1>7, ErrorOfEngine DEF Record
  <2>. HIDE DEF a
  <2>2. /\ d \in Calls /\ d.pc = "done" /\ d.outlets = c.outlets /\ d.events = c.events
        /\ d.progress = c.progress /\ d.answer = a
    BY <1>1, <2>1 DEF Calls
  <2>. USE DEF a
  <2>. HIDE DEF d
  <2>3. FailsAt(d, n + 1)
    <3>1. n + 1 - 1 = n
      BY <1>3
    <3>. QED
      BY <1>3, <1>7, <2>2, <3>1 DEF FailsAt, Given
  <2>4. Heard(d, n + 1)
    BY <1>3, <2>2 DEF Heard, Told
  <2>5. Aborted(d)
    BY <1>3, <2>2, <2>3, <2>4 DEF Aborted
  <2>6. CallOK(d, s, kw)
    BY <1>3, <2>2, <2>5 DEF CallOK, Opening, Working, Delivering
  <2>. QED
    BY <1>1, <1>2, <1>4, <2>2, <2>6, OneCallMoves DEF Opening
<1>. QED
  BY <1>6, <1>7

LEMMA SequentialEndsKeeps ==
  ASSUME PyInv, NEW t \in Threads, SequentialEnds(t)
  PROVE  PyInv'
<1>. DEFINE c == call[t]
            s == self.session
            kw == self.kwargs
            d == [c EXCEPT !.pc = "done"]
<1>1. /\ c.pc = "run" /\ c.progress /\ CallOK(c, s, kw) /\ c \in Calls
      /\ call' = [call EXCEPT ![t] = d] /\ UNCHANGED <<published, self, slot>>
      /\ Len(c.finished) + 1 > Len(c.outlets)
  BY DEF SequentialEnds, Set, PyInv, At
<1>2. \A u \in Threads : u # t /\ call[u].pc \in Opening => slot' = u
  BY <1>1 DEF PyInv
<1>3. /\ d \in Calls /\ d.pc = "done" /\ d.outlets = c.outlets /\ d.answer = c.answer
      /\ d.events = c.events /\ d.progress = c.progress
  BY <1>1 DEF Calls
<1>4. Len(c.finished) = Len(c.outlets)
  <2>1. Len(c.finished) \in Nat /\ Len(c.outlets) \in Nat /\ Len(c.finished) <= Len(c.outlets)
    BY <1>1, LenProperties DEF Calls, CallOK, Working
  <2>. QED
    BY <1>1, <2>1
<1>. HIDE DEF d
<1>5. Given(c, Len(c.outlets), s, kw) /\ Heard(c, Len(c.outlets)) /\ ~HasBadCoordinate(c.outlets) /\ s # 0
  BY <1>1, <1>4 DEF CallOK, Working, Delivering
<1>6. Completed(d, s, kw)
  BY <1>1, <1>3, <1>5 DEF Completed, Given, Heard, Told
<1>7. CallOK(d, s, kw)
  BY <1>3, <1>5, <1>6 DEF CallOK, Opening, Working, Delivering
<1>. QED
  BY <1>1, <1>2, <1>3, <1>7, OneCallMoves DEF Opening

-----------------------------------------------------------------------------
(* The engine, and the theorem. *)

LEMMA IdleOK ==
  ASSUME NEW s, NEW kw
  PROVE  CallOK(Idle, s, kw) /\ Idle \in Calls
<1>1. Idle \in Calls /\ Idle.pc = "idle" /\ Len(Idle.answer.results) = 0
  BY EmptySeq DEF Idle, Calls, NoAnswer, Errors
<1>. QED
  BY <1>1 DEF CallOK, Opening, Working, Delivering

LEMMA ConstructKeeps ==
  ASSUME PyEngineAssumption, PyInv, NEW names, NEW value \in [names -> Passed \ {"absent"}],
         NEW unknown \in BOOLEAN, NEW readable \in BOOLEAN,
         Construct(names, value, unknown, readable)
  PROVE  PyInv'
<1>. DEFINE kw == KwargsOf(names, value)
            error == ArgumentError(kw, unknown)
<1>1. /\ self.state = "unbuilt" /\ UNCHANGED <<published, slot, call>> /\ published \in Nat
      /\ call \in [Threads -> Calls] /\ \A t \in Threads : call[t] = Idle
  BY DEF Construct, PyInv
<1>2. kw \in [DOMAIN NoKwargs -> Passed]
  <2>1. "absent" \in Passed
    BY DEF Passed
  <2>. QED
    BY <2>1 DEF KwargsOf
<1>3. error \in {"none", "TypeError", "ValueError", "OverflowError"}
  BY DEF ArgumentError, ExtractError
<1>4. CacheEnabled(kw) \in BOOLEAN
  BY DEF CacheEnabled, PyEngineAssumption
<1>5. /\ Unbuilt \in Engines /\ Unbuilt.session = 0
  <2>1. NoKwargs \in [DOMAIN NoKwargs -> Passed]
    BY DEF NoKwargs, Passed
  <2>. QED
    BY <2>1 DEF Unbuilt, Engines
<1>. DEFINE refused == [Unbuilt EXCEPT !.state = "refused", !.kwargs = kw, !.unknown = unknown,
                                       !.error = IF error # "none" THEN error ELSE "DatasetError"]
            built == [Unbuilt EXCEPT !.state = "built", !.kwargs = kw,
                                     !.identity = published, !.caches = CacheEnabled(kw)]
<1>6. self' = refused \/ self' = built
  BY DEF Construct
<1>. HIDE DEF kw, error
<1>7. self' \in Engines /\ self'.state # "unbuilt"
  BY <1>1, <1>2, <1>3, <1>4, <1>5, <1>6 DEF Engines
<1>8. \A t \in Threads : CallOK(call'[t], self'.session, self'.kwargs) /\ call'[t].pc \notin Opening
  <2>1. Idle.pc \notin Opening
    BY DEF Idle, Opening
  <2>. QED
    BY <1>1, <2>1, IdleOK
<1>. QED
  BY <1>1, <1>7, <1>8 DEF PyInv

LEMMA InitPyInv ==
  ASSUME Init
  PROVE  PyInv
<1>1. /\ published = 1 /\ self = Unbuilt /\ call = [t \in Threads |-> Idle]
  BY DEF Init
<1>2. Unbuilt \in Engines /\ Unbuilt.state = "unbuilt"
  <2>1. NoKwargs \in [DOMAIN NoKwargs -> Passed]
    BY DEF NoKwargs, Passed
  <2>. QED
    BY <2>1 DEF Unbuilt, Engines
<1>3. \A t \in Threads : call[t] = Idle /\ CallOK(call[t], self.session, self.kwargs)
  BY <1>1, IdleOK
<1>4. call \in [Threads -> Calls]
  BY <1>1, IdleOK
<1>5. Idle.pc \notin Opening
  BY DEF Idle, Opening
<1>. QED
  BY <1>1, <1>2, <1>3, <1>4, <1>5 DEF PyInv

LEMMA StayKeeps ==
  ASSUME PyInv, UNCHANGED <<self, slot, call>>, published' \in Nat \ {0}
  PROVE  PyInv'
BY DEF PyInv

LEMMA StepKeeps ==
  ASSUME PyEngineAssumption, PyInv, NEW t \in Threads, Step(t)
  PROVE  PyInv'
<1>1. CASE UseEngine(t) \/ BeginOpen(t) \/ OpenWarns(t) \/ OpenWarned(t) \/ OpenSucceeds(t)
           \/ OpenFails(t)
  BY <1>1, UseEngineKeeps, BeginOpenKeeps, OpenWarnsKeeps, OpenSucceedsKeeps, OpenFailsKeeps
<1>2. CASE Back(t) \/ Collect(t) \/ \E i \in 1 .. MaxBatch : Work(t, i)
  <2>1. ASSUME NEW i \in 1 .. MaxBatch, Work(t, i) PROVE PyInv'
    <3>1. i \in DOMAIN call[t].outlets /\ call[t].outlets \in Seq(Fates)
      BY <2>1 DEF Work, PyInv, Calls
    <3>2. i \in Nat
      BY <3>1, LenProperties
    <3>. QED
      BY <2>1, <3>2, WorkKeeps
  <2>. QED
    BY <1>2, <2>1, BackKeeps, CollectKeeps
<1>3. CASE SequentialWork(t) \/ Callback(t) \/ CallbackYields(t) \/ CallbackEnds(t)
           \/ SequentialEnds(t)
  BY <1>3, SequentialWorkKeeps, CallbackKeeps, CallbackYieldsKeeps, CallbackEndsKeeps,
     SequentialEndsKeeps
<1>. QED
  BY <1>1, <1>2, <1>3 DEF Step

LEMMA NextPyInv ==
  ASSUME PyEngineAssumption, PyInv, [Next]_vars
  PROVE  PyInv'
<1>1. ASSUME NEW names \in NamesPassed, NEW unknown \in BOOLEAN, NEW readable \in BOOLEAN,
             NEW value \in [names -> Passed \ {"absent"}],
             Construct(names, value, unknown, readable)
      PROVE  PyInv'
  BY <1>1, ConstructKeeps
<1>2. ASSUME NEW t \in Threads, NEW outlet \in Outlets, delineate(t, outlet) PROVE PyInv'
  <2>1. <<outlet>> \in Seq(Outlets)
    OBVIOUS
  <2>. QED
    BY <1>2, <2>1, BeginKeeps DEF delineate
<1>3. ASSUME NEW t \in Threads, NEW outlets \in Batches, NEW progress \in BOOLEAN,
             delineate_batch(t, outlets, progress)
      PROVE  PyInv'
  <2>1. PICK n \in 1 .. MaxBatch : outlets \in [1 .. n -> Outlets]
    BY DEF Batches
  <2>2. n \in Nat
    BY <2>1
  <2>3. outlets \in Seq(Outlets)
    BY <2>1, <2>2, SeqDef
  <2>. QED
    BY <1>3, <2>3, BeginKeeps DEF delineate_batch
<1>4. ASSUME NEW t \in Threads, Step(t) PROVE PyInv'
  BY <1>4, StepKeeps
<1>5. ASSUME NEW t \in Threads, Export(t) PROVE PyInv'
  BY <1>5, StayKeeps DEF Export, PyInv
<1>6. ASSUME Republish PROVE PyInv'
  BY <1>6, StayKeeps DEF Republish, PyInv
<1>7. ASSUME UNCHANGED vars PROVE PyInv'
  BY <1>7, StayKeeps DEF vars, PyInv
<1>. QED
  BY <1>1, <1>2, <1>3, <1>4, <1>5, <1>6, <1>7 DEF Next

LEMMA BatchSays ==
  ASSUME PyInv
  PROVE  BatchLikeOneByOne
<1>. SUFFICES ASSUME NEW t \in Threads, call[t].pc = "done", call[t].answer.error # "DatasetError"
              PROVE  LET answer == call[t].answer
                         expected == OneByOne(call[t].outlets)
                     IN /\ answer.error = expected.error
                        /\ Len(answer.results) = Len(expected.results)
                        /\ \A i \in DOMAIN answer.results :
                             answer.results[i] = [outlet |-> expected.results[i],
                                data |-> self.session, options |-> Options(self.kwargs)]
  BY DEF BatchLikeOneByOne
<1>. DEFINE c == call[t]
            s == self.session
            kw == self.kwargs
<1>1. CallOK(c, s, kw) /\ c \in Calls
  BY DEF PyInv
<1>2. /\ Len(c.outlets) \in Nat /\ DOMAIN c.outlets = 1 .. Len(c.outlets)
      /\ DOMAIN c.answer.results = 1 .. Len(c.answer.results)
  BY <1>1, LenProperties DEF Calls
<1>3. \A e : Raise(e).error = e /\ Raise(e).results = <<>> /\ Len(<<>>) = 0 /\ DOMAIN <<>> = {}
  BY EmptySeq DEF Raise
<1>4. CASE Refused(c)
  <2>1. OneByOne(c.outlets) = Raise("ValueError") /\ c.answer = Raise("ValueError")
    BY <1>4 DEF Refused, OneByOne
  <2>. QED
    BY <1>3, <2>1
<1>5. CASE Completed(c, s, kw)
  <2>1. Given(c, Len(c.outlets), s, kw) /\ ~HasBadCoordinate(c.outlets)
    BY <1>5 DEF Completed
  <2>2. \A i \in DOMAIN c.outlets : Succeeds(c.outlets[i])
    BY <1>2, <2>1 DEF Given
  <2>3. OneByOne(c.outlets) = [error |-> "none", results |-> c.outlets]
    BY <2>1, <2>2 DEF OneByOne
  <2>. QED
    BY <1>2, <2>1, <2>3 DEF Given, Answered
<1>6. CASE Aborted(c)
  <2>1. ~HasBadCoordinate(c.outlets)
    BY <1>6 DEF Aborted
  <2>2. PICK n \in 1 .. Len(c.outlets) :
          FailsAt(c, n) /\ c.answer = Raise(engine_err_to_py(c.outlets[n]))
    BY <1>6 DEF Aborted
  <2>. DEFINE P(i) == ~Succeeds(c.outlets[i]) /\ \A j \in 1 .. i - 1 : Succeeds(c.outlets[j])
  <2>3. n \in DOMAIN c.outlets /\ P(n)
    BY <1>2, <2>2 DEF FailsAt
  <2>4. ASSUME NEW i \in DOMAIN c.outlets, P(i) PROVE i = n
    <3>1. i \in 1 .. Len(c.outlets) /\ n \in 1 .. Len(c.outlets)
      BY <1>2, <2>3
    <3>2. ~(i < n) /\ ~(n < i)
      BY <1>2, <2>3, <2>4, <3>1
    <3>. QED
      BY <1>2, <3>1, <3>2
  <2>5. (CHOOSE i \in DOMAIN c.outlets : P(i)) = n
    <3>. HIDE DEF P
    <3>. QED
      BY <2>3, <2>4
  <2>6. ~(\A i \in DOMAIN c.outlets : Succeeds(c.outlets[i]))
    BY <2>3
  <2>7. OneByOne(c.outlets) = Raise(engine_err_to_py(c.outlets[n]))
    BY <2>1, <2>5, <2>6 DEF OneByOne
  <2>. QED
    BY <1>3, <2>2, <2>7
<1>7. ~Unopened(c)
  BY <1>3 DEF Unopened
<1>. QED
  BY <1>1, <1>4, <1>5, <1>6, <1>7 DEF CallOK

LEMMA EventsSay ==
  ASSUME PyInv
  PROVE  EventsTellTheBatch
<1>. SUFFICES ASSUME NEW t \in Threads
              PROVE  LET c == call[t]
                         worked == IF c.answer.error = "none" THEN Len(c.answer.results)
                                   ELSE 1 + Cardinality({i \in DOMAIN c.outlets :
                                              \A j \in 1 .. i : Succeeds(c.outlets[j])})
                     IN /\ \A i \in DOMAIN c.events :
                             c.events[i] = [index |-> i - 1, total |-> Len(c.outlets),
                                status |-> IF Succeeds(c.outlets[i]) THEN "ok" ELSE "error"]
                        /\ (c.pc = "done" /\ c.progress
                              /\ c.answer.error \notin {"ValueError", "DatasetError"})
                             => Len(c.events) = worked
  BY DEF EventsTellTheBatch
<1>. DEFINE c == call[t]
            s == self.session
            kw == self.kwargs
<1>1. CallOK(c, s, kw) /\ c \in Calls
  BY DEF PyInv
<1>2. /\ Len(c.outlets) \in Nat /\ DOMAIN c.outlets = 1 .. Len(c.outlets)
      /\ DOMAIN c.events = 1 .. Len(c.events)
  BY <1>1, LenProperties DEF Calls
<1>3. \E n : Heard(c, n)
  <2>1. CASE c.pc = "idle"
    <3>1. c.events = <<>>
      BY <1>1, <2>1 DEF CallOK, Idle
    <3>. QED
      BY <3>1, EmptySeq DEF Heard
  <2>2. CASE c.pc = "done"
    BY <1>1, <2>2 DEF CallOK, Refused, Unopened, Completed, Aborted
  <2>3. CASE c.pc \in {"lock", "back"} \cup Opening
    BY <1>1, <2>3 DEF CallOK
  <2>4. CASE c.pc \in Working
    <3>1. CASE c.progress
      BY <1>1, <2>4, <3>1 DEF CallOK
    <3>2. CASE ~c.progress
      BY <1>1, <2>4, <3>2 DEF CallOK, Working
    <3>. QED
      BY <3>1, <3>2
  <2>. QED
    BY <1>1, <2>1, <2>2, <2>3, <2>4 DEF Calls
<1>4. \A i \in DOMAIN c.events : c.events[i] = Told(c, i)
  BY <1>2, <1>3 DEF Heard
<1>5. ASSUME c.pc = "done", c.progress, c.answer.error \notin {"ValueError", "DatasetError"}
      PROVE  Len(c.events) = IF c.answer.error = "none" THEN Len(c.answer.results)
                             ELSE 1 + Cardinality({i \in DOMAIN c.outlets :
                                        \A j \in 1 .. i : Succeeds(c.outlets[j])})
  <2>1. \A e : Raise(e).error = e
    BY DEF Raise
  <2>2. Completed(c, s, kw) \/ Aborted(c)
    BY <1>1, <1>5, <2>1 DEF CallOK, Refused, Unopened
  <2>3. CASE Completed(c, s, kw)
    BY <1>5, <2>3 DEF Completed, Heard, Given
  <2>4. CASE Aborted(c)
    <3>1. PICK n \in 1 .. Len(c.outlets) :
            FailsAt(c, n) /\ c.answer = Raise(engine_err_to_py(c.outlets[n])) /\ Heard(c, n)
      BY <1>5, <2>4 DEF Aborted
    <3>2. c.answer.error # "none"
      BY <2>1, <3>1, ErrorOfEngine
    <3>3. {i \in DOMAIN c.outlets : \A j \in 1 .. i : Succeeds(c.outlets[j])} = 1 .. n - 1
      <4>1. ASSUME NEW i \in DOMAIN c.outlets, \A j \in 1 .. i : Succeeds(c.outlets[j])
            PROVE  i \in 1 .. n - 1
        <5>1. i \in 1 .. Len(c.outlets)
          BY <1>2
        <5>2. n \notin 1 .. i
          BY <3>1, <4>1 DEF FailsAt
        <5>. QED
          BY <1>2, <5>1, <5>2
      <4>2. ASSUME NEW i \in 1 .. n - 1
            PROVE  i \in DOMAIN c.outlets /\ \A j \in 1 .. i : Succeeds(c.outlets[j])
        <5>1. i \in DOMAIN c.outlets
          BY <1>2
        <5>2. \A j \in 1 .. i : j \in 1 .. n - 1
          BY <1>2
        <5>. QED
          BY <3>1, <5>1, <5>2 DEF FailsAt
      <4>. QED
        BY <4>1, <4>2
    <3>4. Cardinality(1 .. n - 1) = n - 1
      BY <1>2, FS_Interval
    <3>5. 1 + (n - 1) = n /\ Len(c.events) = n
      BY <1>2, <3>1 DEF Heard
    <3>. QED
      BY <3>2, <3>3, <3>4, <3>5
  <2>. QED
    BY <2>2, <2>3, <2>4
<1>. QED
  BY <1>4, <1>5 DEF Told

\* Every call keeps the types of what it holds (PyEngine, engine.rs).
THEOREM PyEngineTypeCorrect ==
  ASSUME PyEngineAssumption
  PROVE  Spec => [](self \in Engines /\ call \in [Threads -> Calls])
<1>1. Init => PyInv
  BY InitPyInv
<1>2. PyInv /\ [Next]_vars => PyInv'
  BY NextPyInv
<1>3. PyInv => self \in Engines /\ call \in [Threads -> Calls]
  BY DEF PyInv
<1>. QED
  BY <1>1, <1>2, <1>3, PTL DEF Spec

\* For any number of Python threads and batches of any length, on the pool or one
\* after the other with a callback: a batch answers what its outlets give one
\* after the other, all of one session, and the callback heard of exactly the
\* outlets that were worked on (delineate_batch, engine.rs).
THEOREM BatchAndEventsAgreeHolds ==
  ASSUME PyEngineAssumption
  PROVE  Spec => []BatchAndEventsAgree
<1>1. Init => PyInv
  BY InitPyInv
<1>2. PyInv /\ [Next]_vars => PyInv'
  BY NextPyInv
<1>3. PyInv => BatchAndEventsAgree
  BY BatchSays, EventsSay DEF BatchAndEventsAgree
<1>. QED
  BY <1>1, <1>2, <1>3, PTL DEF Spec

\* The mutex lets one thread open the session, and an engine that has one keeps it,
\* with its identity and its options, for all calls (delineation_engine, engine.rs).
THEOREM SessionOpenedOnce ==
  ASSUME PyEngineAssumption
  PROVE  Spec => [][self.session # 0 =>
                      /\ self'.session = self.session /\ self'.identity = self.identity
                      /\ self'.kwargs = self.kwargs]_vars
<1>. DEFINE Kept == self.session # 0 =>
                      /\ self'.session = self.session /\ self'.identity = self.identity
                      /\ self'.kwargs = self.kwargs
<1>1. Init => PyInv
  BY InitPyInv
<1>2. PyInv /\ [Next]_vars => PyInv'
  BY NextPyInv
<1>3. ASSUME PyInv, [Next]_vars PROVE [Kept]_vars
  <2>1. ASSUME NEW t \in Threads, OpenSucceeds(t) PROVE self.session = 0
    <3>1. CallOK(call[t], self.session, self.kwargs) /\ call[t].pc \in Opening
      BY <1>3, <2>1 DEF OpenSucceeds, PyInv, Opening
    <3>. QED
      BY <3>1 DEF CallOK
  <2>2. ASSUME NEW names, NEW value, NEW unknown, NEW readable,
               Construct(names, value, unknown, readable)
        PROVE  self.session = 0
    <3>1. self.state = "unbuilt"
      BY <2>2 DEF Construct
    <3>2. self = Unbuilt
      BY <3>1, <1>3 DEF PyInv
    <3>. QED
      BY <3>2 DEF Unbuilt
  <2>3. ASSUME NEW t \in Threads, Step(t), ~OpenSucceeds(t) PROVE self' = self
    BY <2>3 DEF Step, UseEngine, BeginOpen, OpenWarns, OpenWarned, OpenFails, Back, Collect,
                SequentialWork, Callback, CallbackYields, CallbackEnds, SequentialEnds, Work
  <2>4. CASE UNCHANGED vars
    BY <2>4
  <2>5. CASE Next
    BY <2>1, <2>2, <2>3, <2>5 DEF Next, delineate, delineate_batch, Begin, Export, Republish
  <2>. QED
    BY <1>3, <2>4, <2>5
<1>. QED
  BY <1>1, <1>2, <1>3, PTL DEF Spec

=============================================================================
