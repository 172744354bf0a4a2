--------------------------- MODULE SourceTelemetry ---------------------------
(***************************************************************************)
(* The object-store counters of a benchmark run (source_telemetry.rs): a   *)
(* CountingStore adds to a total and to the counters of a path, in two     *)
(* atomic additions, while another thread takes a snapshot entry by entry. *)
(***************************************************************************)
EXTENDS Naturals, Sequences, FiniteSets, FiniteSetsExt, SequencesExt

CONSTANTS
  Threads,  \* threads that use the store
  Paths,    \* object paths, Root for the prefix of a whole listing among them
  Root,     \* "<root>"
  MaxOps,   \* bound on the operations
  MaxChunk, \* bound on the bytes of a chunk
  None

\* What the values of the constants are assumed to be.
SourceAssumption == IsFiniteSet(Threads) /\ MaxOps \in Nat /\ MaxChunk \in Nat

VARIABLES
  total,    \* total_requests, total_bytes_in, total_bytes_out
  perPath,  \* the entries of the DashMap: the counters of the paths met
  op,       \* per thread: the store operation under way, or None
  todo,     \* per thread: the additions it still has to make
  added,    \* per thread: half of its first addition is already made
  snap,     \* the snapshot under way, or the last one
  done,     \* requests and bytes that the threads have really moved
  ops       \* operations begun

vars == <<total, perPath, op, todo, added, snap, done, ops>>

Counters == {"requests", "in", "out"}

Zero == [c \in Counters |-> 0]

NoSnap == [pc |-> "none", left |-> {}, paths |-> <<>>, total |-> Zero]

Init ==
  /\ total = Zero /\ perPath = <<>>
  /\ op = [t \in Threads |-> None] /\ todo = [t \in Threads |-> <<>>]
  /\ added = [t \in Threads |-> FALSE]
  /\ snap = NoSnap /\ done = Zero /\ ops = 0

Add(counter, path, n) == [counter |-> counter, path |-> path, n |-> n]

Idle(t) == op[t] = None /\ todo[t] = <<>>

\* An operation counts its request before the store below is asked; sent is what
\* it sends.
Begin(t, kind, path, first, sent) ==
  /\ Idle(t) /\ ops < MaxOps
  /\ ops' = ops + 1
  /\ op' = [op EXCEPT ![t] = [kind |-> kind, path |-> path]]
  /\ todo' = [todo EXCEPT ![t] = first]
  /\ done' = [done EXCEPT !["requests"] = @ + 1, !["out"] = @ + sent]
  /\ UNCHANGED <<total, perPath, added, snap>>

\* put_opts counts the body too, before it is sent.
Put(t, p, n) == Begin(t, "put", p, <<Add("requests", p, 1), Add("out", p, n)>>, n)

\* Mutant: a get is not counted until it has succeeded.
GetUncounted(t, p) == Begin(t, "get", p, <<>>, 0)

\* get_opts and, through it, get, get_range and head.
Get(t, p) == Begin(t, "get", p, <<Add("requests", p, 1)>>, 0)

GetRanges(t, p) == Begin(t, "ranges", p, <<Add("requests", p, 1)>>, 0)

\* put_multipart_opts, copy_opts, rename_opts, and delete_stream per object;
\* list, list_with_offset and list_with_delimiter count under the prefix.  The
\* upload that put_multipart_opts returns is not wrapped: the bytes of its parts
\* are counted nowhere, and are no transfer of this model.
Other(t, p) == Begin(t, "other", p, <<Add("requests", p, 1)>>, 0)

Change(t) == Head(todo[t])

\* Mutant: the counter of the path is added to first.
TotalsTurnLast(t) == added[t]

\* An addition goes to the total, then to the path.
TotalsTurn(t) == ~added[t]

Advance(t) ==
  /\ added' = [added EXCEPT ![t] = ~@]
  /\ todo' = [todo EXCEPT ![t] = IF added[t] THEN Tail(@) ELSE @]
  /\ UNCHANGED <<op, snap, done, ops>>

\* fetch_add on the total.
AddTotal(t) ==
  /\ todo[t] # <<>> /\ TotalsTurn(t)
  /\ total' = [total EXCEPT ![Change(t).counter] = @ + Change(t).n]
  /\ perPath' = perPath
  /\ Advance(t)

Entry(p) == IF p \in DOMAIN perPath THEN perPath[p] ELSE Zero

\* entry().or_default() and fetch_add on the counter of the path.
AddPath(t) ==
  /\ todo[t] # <<>> /\ ~TotalsTurn(t)
  /\ LET c == Change(t)
     IN  perPath' = [q \in DOMAIN perPath \cup {c.path} |->
                       IF q = c.path THEN [Entry(q) EXCEPT ![c.counter] = @ + c.n]
                       ELSE perPath[q]]
  /\ total' = total
  /\ Advance(t)

\* The store below fails, or an operation without a body ends, or the consumer
\* drops the stream.
End(t) ==
  /\ op[t] # None /\ todo[t] = <<>>
  /\ op' = [op EXCEPT ![t] = None]
  /\ UNCHANGED <<total, perPath, todo, added, snap, done, ops>>

Received(t, n) ==
  /\ todo' = [todo EXCEPT ![t] = <<Add("in", op[t].path, n)>>]
  /\ done' = [done EXCEPT !["in"] = @ + n]
  /\ UNCHANGED <<total, perPath, added, snap, ops>>

\* wrap_get_result: a chunk of the stream of a get is counted when it arrives.
GetChunk(t, n) ==
  /\ op[t] # None /\ todo[t] = <<>> /\ op[t].kind = "get"
  /\ done["in"] + n <= MaxOps * MaxChunk
  /\ op' = op /\ Received(t, n)

\* get_ranges counts the sum of its answers once.
RangesArrive(t, n) ==
  /\ op[t] # None /\ todo[t] = <<>> /\ op[t].kind = "ranges"
  /\ op' = [op EXCEPT ![t] = None] /\ Received(t, n)

\* HttpStatsHandle::snapshot: the entries one by one, then the totals.  An entry
\* made while the map is walked may or may not be met.
BeginSnapshot ==
  /\ snap.pc \in {"none", "taken"} /\ ops > 0
  /\ \E q \in SUBSET Paths : DOMAIN perPath \subseteq q
       /\ snap' = [NoSnap EXCEPT !.pc = "walk", !.left = q]
  /\ UNCHANGED <<total, perPath, op, todo, added, done, ops>>

ReadEntry(p) ==
  /\ snap.pc = "walk" /\ p \in snap.left
  /\ snap' = [snap EXCEPT !.left = @ \ {p},
                          !.paths = IF p \in DOMAIN perPath
                                    THEN [q \in DOMAIN @ \cup {p} |->
                                            IF q = p THEN perPath[p] ELSE @[q]]
                                    ELSE @]
  /\ UNCHANGED <<total, perPath, op, todo, added, done, ops>>

ReadTotals ==
  /\ snap.pc = "walk" /\ snap.left = {}
  /\ snap' = [snap EXCEPT !.pc = "taken", !.total = total]
  /\ UNCHANGED <<total, perPath, op, todo, added, done, ops>>

Next ==
  \/ \E t \in Threads, p \in Paths :
       \/ \E n \in 1 .. MaxChunk : Put(t, p, n)
       \/ p # Root /\ (Get(t, p) \/ GetRanges(t, p))
       \/ Other(t, p)
  \/ \E t \in Threads : AddTotal(t) \/ AddPath(t) \/ End(t)
  \/ \E t \in Threads, n \in 1 .. MaxChunk : GetChunk(t, n) \/ RangesArrive(t, n)
  \/ BeginSnapshot \/ ReadTotals
  \/ \E p \in Paths : ReadEntry(p)

Spec == Init /\ [][Next]_vars

-----------------------------------------------------------------------------
(* Properties. *)

SumOf(f, c) == MapThenSumSet(LAMBDA p : f[p][c], DOMAIN f)

\* A snapshot taken while requests are under way never attributes more to the
\* paths than it counts in total: additions go to the total first, and the
\* snapshot reads the total last.
SnapshotNeverOvercounts ==
  snap.pc = "taken" => \A c \in Counters : SumOf(snap.paths, c) <= snap.total[c]

\* Between operations the totals are what the threads moved, failed requests
\* included, and every unit of them is attributed to one path.
QuietCountersExact ==
  (\A t \in Threads : Idle(t)) =>
    \A c \in Counters : total[c] = done[c] /\ SumOf(perPath, c) = done[c]

\* The counters can be trusted at any time: never more per path than in total,
\* and exact when nothing is under way (source_telemetry.rs).
CountersHonest == SnapshotNeverOvercounts /\ QuietCountersExact

=============================================================================
