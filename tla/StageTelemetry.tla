---------------------------- MODULE StageTelemetry ----------------------------
(***************************************************************************)
(* Stage spans and the JSONL trace (telemetry/mod.rs, telemetry/jsonl.rs). *)
(* Every thread has a stack of open spans; a stage span is made by         *)
(* StageGuard, any other one by an instrumented function.  JsonlLayer      *)
(* keeps the fields of the open stages and writes one line when a stage    *)
(* closes, through a writer that all threads share.                        *)
(*                                                                         *)
(* The value of a field is the innermost stage of the thread that gave it: *)
(* what a line may carry is a statement about those values.                *)
(***************************************************************************)
EXTENDS Naturals, Sequences, FiniteSets, FiniteSetsExt

CONSTANTS
  Threads,   \* threads that run stages
  MaxSpans,  \* bound on the spans made
  None

VARIABLES
  spans,   \* every span made: its kind, its thread and the layer's StageSpan
  stack,   \* per thread: the open spans, outermost first
  line,    \* per thread: the record it is writing, or None
  lock,    \* the thread that holds the writer
  file,    \* what has been written: pieces of lines
  broken,  \* a write has failed
  noted    \* rows given so far: pairs of a stage and the value

vars == <<spans, stack, line, lock, file, broken, noted>>

\* Fields of both ways of recording: bytes by Span::record alone (as requests,
\* cache_status and path are), rows by Span::record and an event (as row_groups
\* and matches are).  duration_ms is recorded when the guard drops, and not
\* among the keys that a line takes over.
Emitted == {"stage", "bytes", "rows"}

\* The fields of a stage, and the record that a thread writes.
Fields == UNION {[F -> 1 .. MaxSpans] : F \in SUBSET Emitted}

Record == [span : Nat, written : BOOLEAN, fields : Fields]

\* None stands for no thread, no stage, no fields and no record.
StagesAssumption ==
  /\ MaxSpans \in Nat
  /\ None \notin Threads /\ None \notin Nat /\ None \notin Fields /\ None \notin Record

Init ==
  /\ spans = <<>> /\ stack = [t \in Threads |-> <<>>]
  /\ line = [t \in Threads |-> None] /\ lock = None
  /\ file = <<>> /\ broken = FALSE /\ noted = {}

IsStage(s) == spans[s].fields # None

Quiet(t) == line[t] = None

Stages(t) == {i \in 1 .. Len(stack[t]) : IsStage(stack[t][i])}

\* on_event: the stage nearest to the event, the last from the root.
NearestStage(t) == stack[t][Max(Stages(t))]

\* What a caller on t would call its stage, and so the value it records.
Innermost(t) ==
  LET own == {s \in 1 .. Len(spans) : spans[s].thread = t /\ spans[s].open /\ IsStage(s)}
  IN  IF own = {} THEN None ELSE Max(own)

\* Fields of span s after value v was recorded for field f: on_record and
\* on_event leave a span alone that is no stage.
Recorded(s, f, v) ==
  IF ~IsStage(s) THEN spans
  ELSE [spans EXCEPT ![s].fields =
          [k \in DOMAIN spans[s].fields \cup {f} |-> IF k = f THEN v ELSE spans[s].fields[k]]]

Top(t) == stack[t][Len(stack[t])]

Push(t, fields) ==
  /\ Quiet(t) /\ Len(spans) < MaxSpans
  /\ spans' = Append(spans, [thread |-> t, open |-> TRUE, fields |-> fields])
  /\ stack' = [stack EXCEPT ![t] = Append(@, Len(spans) + 1)]
  /\ UNCHANGED <<line, lock, file, broken, noted>>

\* StageGuard::enter, stage_span, on_new_span.
EnterStage(t) == Push(t, [f \in {"stage"} |-> Len(spans) + 1])

\* A span the layer does not know.
EnterOther(t) == Push(t, None)

\* Mutant: the outermost span of the thread takes the value.
RecordBytesOutermost(t) ==
  /\ Quiet(t) /\ stack[t] # <<>>
  /\ spans' = Recorded(stack[t][1], "bytes", Innermost(t))
  /\ UNCHANGED <<stack, line, lock, file, broken, noted>>

\* record_bytes: on the current span, which has the field only when it is a stage.
RecordBytes(t) ==
  /\ Quiet(t) /\ stack[t] # <<>>
  /\ spans' = Recorded(Top(t), "bytes", Innermost(t))
  /\ UNCHANGED <<stack, line, lock, file, broken, noted>>

\* Mutant: the count goes to the current span only.
RecordRowsOnSpan(t) ==
  /\ Quiet(t) /\ stack[t] # <<>>
  /\ spans' = Recorded(Top(t), "rows", Innermost(t))
  /\ noted' = noted \cup {Innermost(t)}
  /\ UNCHANGED <<stack, line, lock, file, broken>>

\* record_rows: on the current span, and as an event that the nearest stage of
\* the thread takes.
RecordRows(t) ==
  /\ Quiet(t) /\ stack[t] # <<>>
  /\ spans' = IF Stages(t) = {} THEN spans
              ELSE Recorded(NearestStage(t), "rows", Innermost(t))
  /\ noted' = noted \cup {Innermost(t)}
  /\ UNCHANGED <<stack, line, lock, file, broken>>

\* Any other event with a field f of a stage, such as the debug message of
\* refine.rs with its `rows`: the nearest stage takes that too, in place of what
\* was recorded for f before.
LogEvent(t, f) ==
  /\ Quiet(t)
  /\ spans' = IF Stages(t) = {} THEN spans ELSE Recorded(NearestStage(t), f, Innermost(t))
  /\ UNCHANGED <<stack, line, lock, file, broken, noted>>

\* A span ends.  The guard of a stage records duration_ms first; the layer takes
\* the fields away from the registry and makes the record of them.
Close(t) ==
  /\ Quiet(t) /\ stack[t] # <<>>
  /\ stack' = [stack EXCEPT ![t] = SubSeq(@, 1, Len(@) - 1)]
  /\ spans' = [spans EXCEPT ![Top(t)].open = FALSE]
  /\ line' = [line EXCEPT ![t] =
                IF IsStage(Top(t))
                THEN [span |-> Top(t), written |-> FALSE,
                      fields |-> [f \in DOMAIN spans[Top(t)].fields \cap Emitted |->
                                    spans[Top(t)].fields[f]]]
                ELSE None]
  /\ UNCHANGED <<lock, file, broken, noted>>

Lock(t) ==
  /\ ~Quiet(t) /\ lock = None
  /\ lock' = t
  /\ UNCHANGED <<spans, stack, line, file, broken, noted>>

\* Mutant: the object is written before the writer is locked.
WriteObjectUnlocked(t) ==
  /\ ~Quiet(t) /\ ~line[t].written
  /\ file' = Append(file, [piece |-> "object", span |-> line[t].span, fields |-> line[t].fields])
  /\ line' = [line EXCEPT ![t].written = TRUE]
  /\ UNCHANGED <<spans, stack, lock, broken, noted>>

\* serde_json::to_writer.
WriteObject(t) ==
  /\ lock = t /\ ~line[t].written
  /\ file' = Append(file, [piece |-> "object", span |-> line[t].span, fields |-> line[t].fields])
  /\ line' = [line EXCEPT ![t].written = TRUE]
  /\ UNCHANGED <<spans, stack, lock, broken, noted>>

Written(t) == line' = [line EXCEPT ![t] = None] /\ lock' = None

\* The newline and the flush; the guard of the lock is dropped.
WriteNewline(t) ==
  /\ lock = t /\ line[t].written
  /\ file' = Append(file, [piece |-> "newline", span |-> line[t].span, fields |-> <<>>])
  /\ Written(t)
  /\ UNCHANGED <<spans, stack, broken, noted>>

\* A write or the flush fails: the record is given up, what was written stays.
WriteFails(t) ==
  /\ lock = t
  /\ broken' = TRUE
  /\ Written(t)
  /\ UNCHANGED <<spans, stack, file, noted>>

Next == \E t \in Threads :
  \/ EnterStage(t) \/ EnterOther(t) \/ RecordBytes(t) \/ RecordRows(t) \/ Close(t)
  \/ \E f \in Emitted \ {"stage"} : LogEvent(t, f)
  \/ Lock(t) \/ WriteObject(t) \/ WriteNewline(t) \/ WriteFails(t)

Spec == Init /\ [][Next]_vars

-----------------------------------------------------------------------------
(* Properties. *)

Lines == {i \in 1 .. Len(file) : file[i].piece = "object"}

\* A line carries only what was recorded while its stage was the innermost of
\* its thread: nothing of a nested stage, of the enclosing one, or of another
\* thread.
LineOfItsStage ==
  \A i \in Lines : \A f \in DOMAIN file[i].fields : file[i].fields[f] = file[i].span

\* Every count given by record_rows in a stage is on the line of that stage, also
\* when it was given inside an instrumented function.  (record_bytes is not:
\* there it is lost.)
CountsReachTheLine ==
  \A i \in Lines : file[i].span \in noted => "rows" \in DOMAIN file[i].fields

\* Until a write fails the trace is whole lines, one per closed stage, whatever
\* threads close their stages at the same time.
TraceIsLines ==
  ~broken =>
    /\ \A i \in 1 .. Len(file) :
         file[i].piece = IF i % 2 = 1 THEN "object" ELSE "newline"
    /\ \A i \in 1 .. Len(file) : i % 2 = 0 => file[i].span = file[i - 1].span
    /\ \A i, j \in Lines : file[i].span = file[j].span => i = j
    /\ \A s \in 1 .. Len(spans) :
         IsStage(s) /\ ~spans[s].open
           => \/ \E i \in Lines : file[i].span = s
              \/ \E t \in Threads : line[t] # None /\ line[t].span = s

\* The trace is one whole line per stage with the counts of that stage
\* (telemetry/jsonl.rs).
TraceHonest == LineOfItsStage /\ CountsReachTheLine /\ TraceIsLines

=============================================================================
