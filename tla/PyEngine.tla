------------------------------ MODULE PyEngine ------------------------------
(***************************************************************************)
(* The Python Engine (crates/python/src: engine.rs, config.rs, kwargs.rs,  *)
(* error.rs, lib.rs): its construction from keyword arguments, the session *)
(* opened by the first call under a mutex, calls of several Python threads *)
(* that share the GIL, batches with and without a progress callback, and   *)
(* exports labelled with the identity read at construction. Native code    *)
(* that logs a warning needs the GIL (the pyo3-log bridge; Warn is the     *)
(* level set at import), so whoever waits in native code must have         *)
(* released it.                                                            *)
(***************************************************************************)
EXTENDS Naturals, Sequences, FiniteSets, FiniteSetsExt

CONSTANTS
  Threads,   \* Python threads
  Outlets,   \* outlets a caller may ask for, each named by its fate (see Fates)
  Passable,  \* the keyword arguments callers of the constructor pass
  MaxPassed, \* bound on the keyword arguments of one construction
  Remote,    \* the dataset path has a remote scheme
  MaxBatch,  \* bound on the outlets of a batch
  MaxCalls,  \* bound on the calls
  MaxPublications \* bound on the republications of the dataset

VARIABLES
  published, \* the version of the dataset at its source
  self,      \* the Engine object: state, error, config, identity, session
  gil,       \* the thread that holds the GIL, or Nobody
  slot,      \* the thread that holds the mutex of the session slot, or Nobody
  call,      \* per thread: its call
  calls,     \* calls begun
  exports    \* rows written: the version of the label and that of the data

vars == <<published, self, gil, slot, call, calls, exports>>

Nobody == "nobody"

(***************************************************************************)
(* Construction.                                                           *)
(***************************************************************************)

\* The keyword arguments of the constructor, in the order they are extracted.
Kwargs == <<"snap_radius", "snap_strategy", "snap_threshold", "clean_epsilon", "refine",
            "repair_geometry", "parquet_cache", "parquet_cache_max_mb">>

\* What is passed for one: nothing, None, a legal value other than the
\* default, a value of the right type that is out of range, a Python int that the
\* Rust type has no value for (a negative budget), another type.
Passed == {"absent", "none", "valid", "invalid", "unfit", "mistyped"}

\* The extraction of an argument fails: only repair_geometry knows None, and
\* only repair_geometry and the u32 threshold look at the value that early.
ExtractFails(kw, name) ==
  \/ kw[name] \in {"unfit", "mistyped"}
  \/ kw[name] = "none" /\ name # "repair_geometry"
  \/ kw[name] = "invalid" /\ name \in {"snap_threshold", "repair_geometry"}

\* An int for one of the numbers is of the right type; for any other it is not.
ExtractError(kw, name) ==
  IF name = "repair_geometry" /\ kw[name] = "invalid" THEN "ValueError"
  ELSE IF /\ kw[name] \in {"invalid", "unfit"}
          /\ name \in {"snap_radius", "snap_threshold", "clean_epsilon", "parquet_cache_max_mb"}
       THEN "OverflowError"
  ELSE "TypeError"

CacheEnabled(kw) == IF kw["parquet_cache"] = "valid" THEN ~Remote ELSE Remote

\* The budget is looked at only when the cache is on.
BudgetFails(kw) == CacheEnabled(kw) /\ kw["parquet_cache_max_mb"] = "invalid"

\* EngineConfig::new.
ConfigFails(kw) == kw["snap_radius"] = "invalid" \/ kw["snap_strategy"] = "invalid"

\* The error of the first check that fails, or "none".
ArgumentError(kw, unknown) ==
  LET failing == {i \in 1 .. Len(Kwargs) : ExtractFails(kw, Kwargs[i])}
  IN IF unknown THEN "TypeError"
     ELSE IF failing # {} THEN ExtractError(kw, Kwargs[Min(failing)])
     ELSE IF BudgetFails(kw) \/ ConfigFails(kw) THEN "ValueError"
     ELSE "none"

\* The options of every later call: the value asked for, or the default.
Options(kw) ==
  [name \in {Kwargs[i] : i \in 1 .. 6} |-> IF kw[name] = "valid" THEN "asked" ELSE "default"]

NoKwargs == [i \in {Kwargs[j] : j \in 1 .. Len(Kwargs)} |-> "absent"]

Unbuilt ==
  [state |-> "unbuilt", error |-> "none", kwargs |-> NoKwargs, unknown |-> FALSE,
   identity |-> 0, caches |-> FALSE, session |-> 0]

KwargsOf(names, value) == [n \in DOMAIN NoKwargs |-> IF n \in names THEN value[n] ELSE "absent"]

\* __new__: the arguments are checked before the source is touched; of the
\* source only the manifest is read, and the identity is the manifest's.
Construct(names, value, unknown, readable) ==
  LET kw == KwargsOf(names, value)
      error == ArgumentError(kw, unknown)
  IN /\ self.state = "unbuilt" /\ gil = Nobody
     /\ self' = IF error # "none" \/ ~readable
                THEN [Unbuilt EXCEPT !.state = "refused", !.kwargs = kw, !.unknown = unknown,
                                     !.error = IF error # "none" THEN error ELSE "DatasetError"]
                ELSE [Unbuilt EXCEPT !.state = "built", !.kwargs = kw,
                                     !.identity = published, !.caches = CacheEnabled(kw)]
     /\ UNCHANGED <<published, gil, slot, call, calls, exports>>

(***************************************************************************)
(* Calls.                                                                  *)
(***************************************************************************)

\* What delineating an outlet comes to: "ok" and "coarse" succeed (the second
\* with the warning of a refinement that was skipped), "bad" is a coordinate
\* outside the globe, and the rest are the errors of the engine.
EngineErrors ==
  {"Resolution", "Traversal", "TerminalCatchmentFetch", "TerminalCatchmentDecode",
   "RasterLocalize", "D8Selection", "RequiredD8RasterSourceMissing", "Refinement", "Assembly",
   "SessionLevelIndexEmpty", "SameLevelInvariant", "PreMergeCatchmentFetch",
   "PreMergeCatchmentDecode"}

Fates == {"ok", "coarse", "bad"} \cup EngineErrors

\* What the values of the constants are assumed to be.
PyEngineAssumption ==
  Outlets \subseteq Fates /\ Nobody \notin Threads /\ Remote \in BOOLEAN

engine_err_to_py(error) ==
  CASE error = "Resolution" -> "ResolutionError"
    [] error \in {"Traversal", "Refinement"} -> "PourpointError"
    [] error = "Assembly" -> "AssemblyError"
    [] OTHER -> "DatasetError"

\* The refinement of a coarse outlet warns, unless it is disabled.
Warns(fate) ==
  fate = "coarse" /\ Options(self.kwargs)["refine"] = "default"

Result(fate) == [outlet |-> fate, data |-> self.session, options |-> Options(self.kwargs)]

NoAnswer == [error |-> "none", results |-> <<>>]

Raise(error) == [error |-> error, results |-> <<>>]

Idle ==
  [pc |-> "idle", outlets |-> <<>>, progress |-> FALSE, finished |-> <<>>,
   events |-> <<>>, answer |-> NoAnswer]

\* Mutant: the GIL is kept while the thread is in native code.
AllowThreadsHeld(t) == t

\* py.allow_threads: the GIL is free while the thread is in native code.
AllowThreads(t) == Nobody

Gil(t) == gil \in {Nobody, t}

Set(t, c) == call' = [call EXCEPT ![t] = c]

\* validate_coord, for every outlet of a call.
HasBadCoordinate(outlets) == \E i \in DOMAIN outlets : outlets[i] = "bad"

\* A call: every outlet is parsed before the session is asked for, and one bad
\* coordinate refuses the call.
Begin(t, outlets, progress) ==
  /\ self.state = "built" /\ Gil(t) /\ calls < MaxCalls /\ call[t].pc \in {"idle", "done"}
  /\ calls' = calls + 1
  /\ IF HasBadCoordinate(outlets)
     THEN /\ Set(t, [Idle EXCEPT !.pc = "done", !.outlets = outlets, !.progress = progress,
                                 !.answer = Raise("ValueError")])
          /\ UNCHANGED gil
     ELSE /\ Set(t, [Idle EXCEPT !.pc = "lock", !.outlets = outlets, !.progress = progress])
          /\ gil' = AllowThreads(t)
  /\ UNCHANGED <<published, self, slot, exports>>

delineate(t, outlet) == Begin(t, <<outlet>>, FALSE)

delineate_batch(t, outlets, progress) == Begin(t, outlets, progress)

\* delineation_engine: a session that is there is used ...
UseEngine(t) ==
  /\ call[t].pc = "lock" /\ slot = Nobody /\ self.session # 0
  /\ Set(t, [call[t] EXCEPT !.pc = "back"])
  /\ UNCHANGED <<published, self, gil, slot, calls, exports>>

\* ... and otherwise opened with the lock held.
BeginOpen(t) ==
  /\ call[t].pc = "lock" /\ slot = Nobody /\ self.session = 0
  /\ slot' = t
  /\ \E warns \in BOOLEAN :
       Set(t, [call[t] EXCEPT !.pc = IF warns THEN "openwarn" ELSE "open"])
  /\ UNCHANGED <<published, self, gil, calls, exports>>

\* A warning of the open goes to Python's logging: it takes the GIL ...
OpenWarns(t) ==
  /\ call[t].pc = "openwarn" /\ gil = Nobody
  /\ gil' = t
  /\ Set(t, [call[t] EXCEPT !.pc = "openlog"])
  /\ UNCHANGED <<published, self, slot, calls, exports>>

\* ... and gives it back.
OpenWarned(t) ==
  /\ call[t].pc = "openlog"
  /\ gil' = Nobody
  /\ Set(t, [call[t] EXCEPT !.pc = "open"])
  /\ UNCHANGED <<published, self, slot, calls, exports>>

OpenSucceeds(t) ==
  /\ call[t].pc = "open"
  /\ self' = [self EXCEPT !.session = published]
  /\ slot' = Nobody
  /\ Set(t, [call[t] EXCEPT !.pc = "back"])
  /\ UNCHANGED <<published, gil, calls, exports>>

OpenFails(t) ==
  /\ call[t].pc = "open"
  /\ slot' = Nobody
  /\ Set(t, [call[t] EXCEPT !.pc = "back", !.answer = Raise("DatasetError")])
  /\ UNCHANGED <<published, self, gil, calls, exports>>

\* Back from delineation_engine, under the GIL: an error is raised, otherwise
\* the options are built and the GIL released again for the work.
Back(t) ==
  /\ call[t].pc = "back" /\ Gil(t)
  /\ IF call[t].answer.error # "none"
     THEN Set(t, [call[t] EXCEPT !.pc = "done"]) /\ gil' = Nobody
     ELSE Set(t, [call[t] EXCEPT !.pc = "run"]) /\ gil' = AllowThreads(t)
  /\ UNCHANGED <<published, self, slot, calls, exports>>

Fate(t, i) == call[t].outlets[i]

Finished(c) == {c.finished[k] : k \in DOMAIN c.finished}

Succeeds(fate) == fate \in {"ok", "coarse"}

\* delineate_batch_uniform, and delineate for a single outlet: the outlets are
\* worked on in any order; a failure stops none of them.
Work(t, i) ==
  /\ call[t].pc = "run" /\ ~call[t].progress
  /\ i \in DOMAIN call[t].outlets \ Finished(call[t])
  /\ Warns(Fate(t, i)) => gil = Nobody
  /\ Set(t, [call[t] EXCEPT !.finished = Append(@, i)])
  /\ UNCHANGED <<published, self, gil, slot, calls, exports>>

Failing(outlets) == {i \in DOMAIN outlets : ~Succeeds(outlets[i])}

\* Mutant: the failure that happened first is raised.
FirstFailureByTime(c) ==
  c.finished[Min({k \in DOMAIN c.finished : c.finished[k] \in Failing(c.outlets)})]

\* The failure that the loop over the results meets first.
FirstFailure(c) == Min(Failing(c.outlets))

\* The results are collected in input order; the first failure is raised.
Collect(t) ==
  LET c == call[t] IN
  /\ c.pc = "run" /\ ~c.progress /\ Finished(c) = DOMAIN c.outlets /\ Gil(t)
  /\ Set(t, [c EXCEPT !.pc = "done",
       !.answer = IF Failing(c.outlets) # {}
                  THEN Raise(engine_err_to_py(c.outlets[FirstFailure(c)]))
                  ELSE [error |-> "none",
                        results |-> [i \in DOMAIN c.outlets |-> Result(c.outlets[i])]]])
  /\ gil' = Nobody
  /\ UNCHANGED <<published, self, slot, calls, exports>>

At(c) == Len(c.finished) + 1

\* sequential_delineate_with_progress: one outlet, with the GIL released ...
SequentialWork(t) ==
  /\ call[t].pc = "run" /\ call[t].progress /\ At(call[t]) \in DOMAIN call[t].outlets
  /\ Warns(Fate(t, At(call[t]))) => gil = Nobody
  /\ Set(t, [call[t] EXCEPT !.pc = "event"])
  /\ UNCHANGED <<published, self, gil, slot, calls, exports>>

Event(c) ==
  [index |-> At(c) - 1, total |-> Len(c.outlets),
   status |-> IF Succeeds(c.outlets[At(c)]) THEN "ok" ELSE "error"]

\* Mutant: no event is fired for the outlet that fails.
CallbackOnSuccess(t) ==
  /\ call[t].pc = "event" /\ Gil(t)
  /\ gil' = t
  /\ Set(t, [call[t] EXCEPT !.pc = "callback",
       !.events = IF Event(call[t]).status = "ok" THEN Append(@, Event(call[t])) ELSE @])
  /\ UNCHANGED <<published, self, slot, calls, exports>>

\* ... then the callback, before the outcome is recorded. It is Python code:
\* it holds the GIL, and may let it go (see CallbackYields). The event is a dict
\* of numbers and strings; that the interpreter has no memory left for it, and
\* the loop goes on without the callback, is not modelled.
Callback(t) ==
  /\ call[t].pc = "event" /\ Gil(t)
  /\ gil' = t
  /\ Set(t, [call[t] EXCEPT !.pc = "callback", !.events = Append(@, Event(call[t]))])
  /\ UNCHANGED <<published, self, slot, calls, exports>>

CallbackYields(t) ==
  /\ call[t].pc = "callback"
  /\ gil' = Nobody
  /\ Set(t, [call[t] EXCEPT !.pc = "yielded"])
  /\ UNCHANGED <<published, self, slot, calls, exports>>

\* A success is pushed, a failure ends the batch.
Record(c) ==
  IF Succeeds(c.outlets[At(c)])
  THEN [c EXCEPT !.pc = "run", !.finished = Append(@, At(c)),
                 !.answer.results = Append(@, Result(c.outlets[At(c)]))]
  ELSE [c EXCEPT !.pc = "done", !.answer = Raise(engine_err_to_py(c.outlets[At(c)]))]

\* The callback returns or raises, which makes no difference.
CallbackEnds(t) ==
  /\ call[t].pc \in {"callback", "yielded"} /\ Gil(t)
  /\ Set(t, Record(call[t]))
  /\ gil' = IF Record(call[t]).pc = "done" THEN Nobody ELSE AllowThreads(t)
  /\ UNCHANGED <<published, self, slot, calls, exports>>

\* The loop is over.
SequentialEnds(t) ==
  /\ call[t].pc = "run" /\ call[t].progress /\ At(call[t]) > Len(call[t].outlets) /\ Gil(t)
  /\ Set(t, [call[t] EXCEPT !.pc = "done"])
  /\ gil' = Nobody
  /\ UNCHANGED <<published, self, slot, calls, exports>>

\* BasinGeoParquetWriter.write with the engine the results came from: rows are
\* labelled with the engine's identity.
Export(t) ==
  /\ call[t].pc = "done" /\ call[t].answer.results # <<>> /\ Gil(t)
  /\ exports' = exports \cup {[label |-> self.identity, data |-> call[t].answer.results[i].data]
                              : i \in DOMAIN call[t].answer.results}
  /\ UNCHANGED <<published, self, gil, slot, call, calls>>

\* The dataset is published anew at the same place.
Republish ==
  /\ published < MaxPublications
  /\ published' = published + 1
  /\ UNCHANGED <<self, gil, slot, call, calls, exports>>

Init ==
  /\ published = 1 /\ self = Unbuilt
  /\ gil = Nobody /\ slot = Nobody
  /\ call = [t \in Threads |-> Idle] /\ calls = 0 /\ exports = {}

NamesPassed == {names \in SUBSET Passable : Cardinality(names) <= MaxPassed}

Batches == UNION {[1 .. n -> Outlets] : n \in 1 .. MaxBatch}

Step(t) ==
  \/ UseEngine(t) \/ BeginOpen(t) \/ OpenWarns(t) \/ OpenWarned(t) \/ OpenSucceeds(t)
  \/ OpenFails(t) \/ Back(t) \/ Collect(t) \/ SequentialWork(t) \/ Callback(t)
  \/ CallbackYields(t) \/ CallbackEnds(t) \/ SequentialEnds(t)
  \/ \E i \in 1 .. MaxBatch : Work(t, i)

Next ==
  \/ \E names \in NamesPassed, unknown, readable \in BOOLEAN :
       \E value \in [names -> Passed \ {"absent"}] : Construct(names, value, unknown, readable)
  \/ \E t \in Threads, outlet \in Outlets : delineate(t, outlet)
  \/ \E t \in Threads, outlets \in Batches, progress \in BOOLEAN :
       delineate_batch(t, outlets, progress)
  \/ \E t \in Threads : Step(t) \/ Export(t)
  \/ Republish

Spec == Init /\ [][Next]_vars /\ \A t \in Threads : WF_vars(Step(t))

-----------------------------------------------------------------------------

\* What delineating the outlets one after the other gives: everything, or the
\* error of the first outlet that fails.
OneByOne(outlets) ==
  LET first == CHOOSE i \in DOMAIN outlets :
                 ~Succeeds(outlets[i]) /\ \A j \in 1 .. i - 1 : Succeeds(outlets[j])
  IN IF HasBadCoordinate(outlets) THEN Raise("ValueError")
     ELSE IF \A i \in DOMAIN outlets : Succeeds(outlets[i]) THEN [error |-> "none", results |-> outlets]
     ELSE Raise(engine_err_to_py(outlets[first]))

\* A batch answers what its outlets give one after the other, whichever of
\* them the pool finishes first and whether or not a callback is there to be
\* called: the results in input order, all of the engine's one session and of
\* the options asked for at construction, or the error of the first outlet, in
\* input order, that fails; a bad coordinate anywhere refuses it as a whole
\* (delineate_batch, engine.rs:494-599).
BatchLikeOneByOne ==
  \A t \in Threads :
    (call[t].pc = "done" /\ call[t].answer.error # "DatasetError") =>
      LET answer == call[t].answer
          expected == OneByOne(call[t].outlets)
      IN /\ answer.error = expected.error
         /\ Len(answer.results) = Len(expected.results)
         /\ \A i \in DOMAIN answer.results :
              answer.results[i] = [outlet |-> expected.results[i], data |-> self.session,
                                   options |-> Options(self.kwargs)]

\* The callback hears of the outlets in order, one event each, the failed one
\* included, and when the batch has returned it has heard of every outlet that
\* was worked on and of no other, whatever other threads did while a callback
\* had let the GIL go (sequential_delineate_with_progress, engine.rs:653-738).
EventsTellTheBatch ==
  \A t \in Threads :
    LET c == call[t]
        worked == IF c.answer.error = "none" THEN Len(c.answer.results)
                  ELSE 1 + Cardinality({i \in DOMAIN c.outlets :
                                          \A j \in 1 .. i : Succeeds(c.outlets[j])})
    IN /\ \A i \in DOMAIN c.events :
            c.events[i] = [index |-> i - 1, total |-> Len(c.outlets),
                           status |-> IF Succeeds(c.outlets[i]) THEN "ok" ELSE "error"]
       /\ (c.pc = "done" /\ c.progress /\ c.answer.error \notin {"ValueError", "DatasetError"})
            => Len(c.events) = worked

\* Every call returns, even when the thread that opens the session, or a
\* worker of a batch, must have the GIL for a warning while the others wait
\* for the mutex or for the workers (delineation_engine, engine.rs:603-625).
CallsReturn ==
  \A t \in Threads : (call[t].pc = "lock") ~> (call[t].pc = "done")

\* The label of an exported row names the data the row was delineated from
\* (docs/basin-geoparquet-export.md: "identifies source fabric data").
LabelNamesItsData == \A row \in exports : row.label = row.data

\* The batch and what its callback heard tell the same story, that of the
\* outlets one after the other (delineate_batch, engine.rs).
BatchAndEventsAgree == BatchLikeOneByOne /\ EventsTellTheBatch

=============================================================================
