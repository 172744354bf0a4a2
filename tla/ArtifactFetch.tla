---------------------------- MODULE ArtifactFetch ----------------------------
(***************************************************************************)
(* read_remote_artifact (session.rs): a small object is read by one        *)
(* request, a large one by up to `concurrency` ranged requests whose       *)
(* answers arrive in any order.  The object may be replaced by the next    *)
(* version while the read is under way: no request carries a condition.    *)
(*                                                                         *)
(* Byte i of version v is the pair <<v, i>>.                               *)
(***************************************************************************)
EXTENDS Naturals, Sequences, FiniteSets, FiniteSetsExt, SequencesExt

CONSTANTS
  Target,          \* RANGE_GET_CHUNK_TARGET_BYTES
  MinConcurrency,  \* MIN_RANGE_GET_CONCURRENCY
  MaxConcurrency,  \* MAX_RANGE_GET_CONCURRENCY
  Default,         \* DEFAULT_RANGE_GET_CONCURRENCY
  Settings,        \* values of POURPOINT_RANGE_GET_CONCURRENCY, None included
  MaxSize,         \* bound on the size of an object
  MaxVersion,      \* bound on the versions published
  None

\* With fewer than (MaxConcurrency - 1)^2 bytes the last range could be empty;
\* the code's values are 4 MiB and 16.
TargetAssumption ==
  /\ Target \in Nat \ {0} /\ MaxConcurrency \in Nat /\ MinConcurrency \in Nat
  /\ MinConcurrency \in 1 .. MaxConcurrency
  /\ Default \in Nat /\ \A s \in Settings : s = None \/ s \in Nat
  /\ MaxSize \in Nat
  /\ Target >= (MaxConcurrency - 1) * (MaxConcurrency - 1)

VARIABLES
  sizes,   \* the size of every version published so far
  setting, \* the environment variable
  pc,      \* the stage of the read
  meta,    \* the size that HEAD reported
  chunks,  \* per range: "waiting", "sent", "failed", or "here" and the bytes
  result,  \* "none", "failed", or "here" and the bytes returned
  firstV   \* the version that HEAD saw

vars == <<sizes, setting, pc, meta, chunks, result, firstV>>

Current == Len(sizes)

Bytes(v, from, to) == [i \in 1 .. to - from |-> <<v, from + i - 1>>]

Object(v) == Bytes(v, 0, sizes[v])

Clamp(n) == IF n < MinConcurrency THEN MinConcurrency
            ELSE IF n > MaxConcurrency THEN MaxConcurrency ELSE n

\* pourpoint_get_ranges_concurrency.
Concurrency == Clamp(IF setting = None THEN Default ELSE setting)

DivCeil(a, b) == (a + b - 1) \div b

RangeCount(size, concurrency) ==
  Max({1, Min({DivCeil(size, Target), concurrency})})

\* Mutant: the size of a range is rounded down.
RangeSizeDown(size, count) == size \div count

RangeSize(size, count) == DivCeil(size, count)

\* remote_artifact_ranges: range i is [start, end).
Ranges(size, concurrency) ==
  LET count == RangeCount(size, concurrency)
      width == RangeSize(size, count)
  IN  [i \in 1 .. count |-> [start |-> (i - 1) * width, end |-> Min({i * width, size})]]

Of(state, bytes) == [state |-> state, bytes |-> bytes]

Init ==
  /\ sizes \in [1 .. 1 -> 1 .. MaxSize]
  /\ setting \in Settings
  /\ pc = "head" /\ meta = None /\ chunks = <<>> /\ result = Of("none", <<>>) /\ firstV = None

\* The producer publishes the artifact again.
Republish ==
  /\ Current < MaxVersion
  /\ pc # "done"
  /\ \E s \in 1 .. MaxSize : sizes' = Append(sizes, s)
  /\ UNCHANGED <<setting, pc, meta, chunks, result, firstV>>

Finish(r) == pc' = "done" /\ result' = r

HeadObject ==
  /\ pc = "head"
  /\ meta' = sizes[Current] /\ firstV' = Current
  /\ IF sizes[Current] > Target
     THEN /\ pc' = "ranges"
          /\ chunks' = [i \in 1 .. Len(Ranges(sizes[Current], Concurrency)) |-> Of("waiting", <<>>)]
     ELSE /\ pc' = "get" /\ chunks' = chunks
  /\ UNCHANGED <<sizes, setting, result>>

HeadFails ==
  /\ pc = "head"
  /\ Finish(Of("failed", <<>>))
  /\ UNCHANGED <<sizes, setting, meta, chunks, firstV>>

GetWhole ==
  /\ pc = "get"
  /\ Finish(Of("here", Object(Current)))
  /\ UNCHANGED <<sizes, setting, meta, chunks, firstV>>

GetFails ==
  /\ pc = "get"
  /\ Finish(Of("failed", <<>>))
  /\ UNCHANGED <<sizes, setting, meta, chunks, firstV>>

\* buffered(concurrency): requests are sent in order, at most `concurrency` of
\* those not yet handed on are under way.  Results are handed on in order.
Handed ==
  LET open == {i \in 1 .. Len(chunks) : chunks[i].state \in {"waiting", "sent"}}
  IN  IF open = {} THEN Len(chunks) ELSE Min(open) - 1

Send(i) ==
  /\ pc = "ranges" /\ chunks[i].state = "waiting"
  /\ \A j \in 1 .. i - 1 : chunks[j].state # "waiting"
  /\ i - Handed <= Concurrency
  /\ chunks' = [chunks EXCEPT ![i] = Of("sent", <<>>)]
  /\ UNCHANGED <<sizes, setting, pc, meta, result, firstV>>

\* The store answers a range of the object as it is now: it refuses a range
\* that is empty or begins behind the end and shortens one that ends there.
Answer(r) ==
  IF r.start >= r.end \/ r.start >= sizes[Current] THEN Of("failed", <<>>)
  ELSE Of("here", Bytes(Current, r.start, Min({r.end, sizes[Current]})))

Receive(i) ==
  /\ pc = "ranges" /\ chunks[i].state = "sent"
  /\ chunks' = [chunks EXCEPT ![i] = Answer(Ranges(meta, Concurrency)[i])]
  /\ UNCHANGED <<sizes, setting, pc, meta, result, firstV>>

ReceiveFails(i) ==
  /\ pc = "ranges" /\ chunks[i].state = "sent"
  /\ chunks' = [chunks EXCEPT ![i] = Of("failed", <<>>)]
  /\ UNCHANGED <<sizes, setting, pc, meta, result, firstV>>

\* Mutant: failed requests are left out of the bytes.
CollectReceived ==
  /\ pc = "ranges" /\ Handed = Len(chunks)
  /\ Finish(Of("here", FlattenSeq([i \in 1 .. Len(chunks) |-> chunks[i].bytes])))
  /\ UNCHANGED <<sizes, setting, meta, chunks, firstV>>

\* Every answer is in: the first failure is the error, else the chunks are
\* joined in the order of the ranges.
Collect ==
  /\ pc = "ranges" /\ Handed = Len(chunks)
  /\ Finish(IF \E i \in 1 .. Len(chunks) : chunks[i].state = "failed"
            THEN Of("failed", <<>>)
            ELSE Of("here", FlattenSeq([i \in 1 .. Len(chunks) |-> chunks[i].bytes])))
  /\ UNCHANGED <<sizes, setting, meta, chunks, firstV>>

Stop == pc = "done" /\ UNCHANGED vars

Next ==
  \/ Republish \/ HeadObject \/ HeadFails \/ GetWhole \/ GetFails
  \/ \E i \in 1 .. Len(chunks) : Send(i) \/ Receive(i) \/ ReceiveFails(i)
  \/ Collect \/ Stop

Spec == Init /\ [][Next]_vars

-----------------------------------------------------------------------------
(* Properties. *)

\* Without a republication the bytes returned are the object, each byte once and
\* in order, whatever the order of the answers; and the read of a small object always
\* returns one version, whole.  A ranged read has no such promise: a republication
\* between HEAD and its last range leaves bytes of two versions or of a part.
FetchedExact ==
  result.state = "here" =>
    \/ \E v \in firstV .. Current : result.bytes = Object(v)
    \/ chunks # <<>> /\ Current > firstV

\* The ranges asked for tile the object that HEAD saw: none is empty and none
\* reaches behind the end, so no request can be refused for its range.
RangesTile ==
  pc = "ranges" =>
    LET r == Ranges(meta, Concurrency)
    IN  /\ Len(r) <= Concurrency
        /\ r[1].start = 0 /\ r[Len(r)].end = meta
        /\ \A i \in 1 .. Len(r) : r[i].start < r[i].end
        /\ \A i \in 2 .. Len(r) : r[i].start = r[i - 1].end

\* A large artifact is fetched exactly: the ranges tile the object and what is
\* put together from them, in whatever order they arrive, is one version of it
\* unless it was republished meanwhile.
FetchSound == FetchedExact /\ RangesTile

=============================================================================
