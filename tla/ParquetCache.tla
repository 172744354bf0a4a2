---------------------------- MODULE ParquetCache ----------------------------
(***************************************************************************)
(* The in-memory caches of remote Parquet reads                            *)
(* (crates/core/src/parquet_cache.rs) and the engine that shares them: the *)
(* Python Engine keeps the two caches from its construction on, opens its  *)
(* session at the first call that needs one (delineation_engine in         *)
(* crates/python/src/engine.rs) and tries again at the next call when the  *)
(* open fails.  One remote object is modelled; it may be republished at    *)
(* any time.  Its version stands for what the HEAD response says of it     *)
(* (size, ETag, last_modified), which is what the cache keys are made of.  *)
(*                                                                         *)
(* Every reader is a thread that makes one call of the engine: it takes    *)
(* the engine or opens it, and then reads the footer and a list of byte    *)
(* ranges.  An open reads the footer and ranges too (the id and level      *)
(* scan), with the same CachingReader.                                     *)
(***************************************************************************)
EXTENDS Naturals, Sequences, FiniteSetsExt

CONSTANTS
  Reader,       \* threads that call the engine
  Chunk,        \* byte ranges of the object
  Request,      \* the lists of ranges a stream asks for
  Length,       \* the bytes in each range
  Capacity,     \* ParquetRowGroupCache: capacity_bytes
  MaxWeight,    \* the largest weight moka accepts, u32::MAX
  MaxVersion    \* bound on the republications

ASSUME ParquetAssumption ==
  /\ Request \subseteq Seq(Chunk)
  /\ Length \in [Chunk -> Nat]
  /\ Capacity \in Nat
  /\ MaxWeight \in Nat
  /\ MaxVersion \in Nat \ {0}

CONSTANTS NoBytes, Free

ASSUME NoBytesAssumption ==
  /\ NoBytes \notin [range : Chunk, version : 1 .. MaxVersion]
  /\ Free \notin Reader

VARIABLES
  version,      \* the object's current version
  identified,   \* does its HEAD response carry an ETag or a last_modified
  slot,         \* PyEngine.engine: the version the session was opened at, or 0
  lock,         \* the holder of that mutex
  chunks,       \* ParquetRowGroupCache.inner, by version and range
  footers,      \* ParquetFooterCache.inner, by version; 0 where there is none
  stats,        \* hits and misses of the two caches
  lookups,      \* history: the ranges and the footers looked up so far
  call          \* the readers' calls

vars == <<version, identified, slot, lock, chunks, footers, stats, lookups, call>>

Version == 1 .. MaxVersion

Bytes == [range : Chunk, version : Version]

Stat == [hits : Nat, misses : Nat, footerHits : Nat, footerMisses : Nat]

\* A call: where it is, the version its reader was built for, the footer it
\* holds, the ranges it asked for, the bytes found or fetched for each, the
\* indexes that missed, what was fetched for those, and a loop position.
Call == [pc : {"idle", "head", "metadata", "footer", "keep", "ask", "lookup",
               "fetch", "store", "answered", "failed"},
         ident : 0 .. MaxVersion,
         footer : 0 .. MaxVersion,
         request : Seq(Chunk),
         ordered : Seq(Bytes \cup {NoBytes}),
         missing : Seq(Nat),
         fetched : Seq(Bytes),
         i : Nat]

\* Storage and calls have the types of the code.
TypeOK ==
  /\ version \in Version
  /\ identified \in BOOLEAN
  /\ slot \in 0 .. MaxVersion
  /\ lock \in Reader \cup {Free}
  /\ chunks \in [Version -> [Chunk -> Bytes \cup {NoBytes}]]
  /\ footers \in [Version -> 0 .. MaxVersion]
  /\ stats \in Stat
  /\ lookups \in [ranges : Nat, footers : Nat]
  /\ call \in [Reader -> Call]

Fresh == [pc |-> "idle", ident |-> 0, footer |-> 0, request |-> <<>>,
          ordered |-> <<>>, missing |-> <<>>, fetched |-> <<>>, i |-> 1]

Init ==
  /\ version = 1
  /\ identified \in BOOLEAN
  /\ slot = 0
  /\ lock = Free
  /\ chunks = [v \in Version |-> [g \in Chunk |-> NoBytes]]
  /\ footers = [v \in Version |-> 0]
  /\ stats = [hits |-> 0, misses |-> 0, footerHits |-> 0, footerMisses |-> 0]
  /\ lookups = [ranges |-> 0, footers |-> 0]
  /\ call = [r \in Reader |-> Fresh]

-----------------------------------------------------------------------------
(* The object store, and moka.                                             *)

Republish ==
  /\ version < MaxVersion
  /\ version' = version + 1
  /\ UNCHANGED <<identified, slot, lock, chunks, footers, stats, lookups, call>>


\* The weigher: v.len().min(u32::MAX).
Weight(g) == Min({Length[g], MaxWeight})

Held == {k \in Version \X Chunk : chunks[k[1]][k[2]] # NoBytes}

WeightedSize == MapThenSumSet(LAMBDA k : Weight(k[2]), Held)

\* moka drops entries, in an order of its own and some time after an insert,
\* while their weights exceed the capacity.
Evict(v, g) ==
  /\ WeightedSize > Capacity
  /\ chunks[v][g] # NoBytes
  /\ chunks' = [chunks EXCEPT ![v][g] = NoBytes]
  /\ UNCHANGED <<version, identified, slot, lock, footers, stats, lookups, call>>

-----------------------------------------------------------------------------
(* The engine behind its mutex: delineation_engine.                        *)

\* Mutant: the mutex stays taken when an open fails.
FailHoldingLock(r) ==
  /\ call' = [call EXCEPT ![r] = [call[r] EXCEPT !.pc = "failed"]]
  /\ UNCHANGED <<version, identified, slot, lock, chunks, footers, stats, lookups>>

\* A call that returns an error; an open gives the mutex back.
Fail(r) ==
  /\ call' = [call EXCEPT ![r] = [call[r] EXCEPT !.pc = "failed"]]
  /\ lock' = IF lock = r THEN Free ELSE lock
  /\ UNCHANGED <<version, identified, slot, chunks, footers, stats, lookups>>

\* The slot holds an engine: its session is used, whatever the object is now.
UseEngine(r) ==
  /\ call[r].pc = "idle" /\ lock = Free
  /\ slot # 0
  /\ call' = [call EXCEPT ![r] = [call[r] EXCEPT !.ident = slot, !.pc = "metadata"]]
  /\ UNCHANGED <<version, identified, slot, lock, chunks, footers, stats, lookups>>

\* Mutant: the slot is not looked at again once the mutex is taken.
BeginOpenUnchecked(r) ==
  /\ call[r].pc = "idle" /\ lock = Free
  /\ lock' = r
  /\ call' = [call EXCEPT ![r] = [call[r] EXCEPT !.pc = "head"]]
  /\ UNCHANGED <<version, identified, slot, chunks, footers, stats, lookups>>

\* The slot is empty: the session is opened with the mutex held.
BeginOpen(r) ==
  /\ call[r].pc = "idle" /\ lock = Free
  /\ slot = 0
  /\ lock' = r
  /\ call' = [call EXCEPT ![r] = [call[r] EXCEPT !.pc = "head"]]
  /\ UNCHANGED <<version, identified, slot, chunks, footers, stats, lookups>>

\* The HEAD request that the cache identity is made of.
HeadObject(r) ==
  /\ call[r].pc = "head"
  /\ call' = [call EXCEPT ![r] = [call[r] EXCEPT !.ident = version, !.pc = "metadata"]]
  /\ UNCHANGED <<version, identified, slot, lock, chunks, footers, stats, lookups>>

\* The open has read what it needs; the engine is kept, and the call goes on
\* to its own reads.
OpenSucceeds(r) ==
  /\ call[r].pc = "answered" /\ lock = r
  /\ slot' = call[r].ident
  /\ lock' = Free
  /\ call' = [call EXCEPT ![r] = [Fresh EXCEPT !.pc = "metadata",
                                               !.ident = call[r].ident]]
  /\ UNCHANGED <<version, identified, chunks, footers, stats, lookups>>

\* The open fails at the HEAD request, or rejects what it read; what it
\* cached stays cached.
OpenFails(r) ==
  /\ lock = r /\ call[r].pc \in {"head", "answered"}
  /\ Fail(r)

-----------------------------------------------------------------------------
(* CachingReader::get_metadata.  Without a cache identity the reader is    *)
(* the plain object reader.                                                *)

MetadataHit(r) ==
  /\ call[r].pc = "metadata"
  /\ identified /\ footers[call[r].ident] # 0
  /\ call' = [call EXCEPT ![r] =
                [call[r] EXCEPT !.footer = footers[call[r].ident], !.pc = "ask"]]
  /\ stats' = [stats EXCEPT !.footerHits = @ + 1]
  /\ lookups' = [lookups EXCEPT !.footers = @ + 1]
  /\ UNCHANGED <<version, identified, slot, lock, chunks, footers>>

MetadataMiss(r) ==
  /\ call[r].pc = "metadata"
  /\ identified /\ footers[call[r].ident] = 0
  /\ call' = [call EXCEPT ![r] = [call[r] EXCEPT !.pc = "footer"]]
  /\ stats' = [stats EXCEPT !.footerMisses = @ + 1]
  /\ lookups' = [lookups EXCEPT !.footers = @ + 1]
  /\ UNCHANGED <<version, identified, slot, lock, chunks, footers>>

MetadataUncached(r) ==
  /\ call[r].pc = "metadata"
  /\ ~ identified
  /\ call' = [call EXCEPT ![r] = [call[r] EXCEPT !.pc = "footer"]]
  /\ UNCHANGED <<version, identified, slot, lock, chunks, footers, stats, lookups>>

FetchFooter(r) ==
  /\ call[r].pc = "footer"
  /\ call' = [call EXCEPT ![r] = [call[r] EXCEPT !.footer = version, !.pc = "keep"]]
  /\ UNCHANGED <<version, identified, slot, lock, chunks, footers, stats, lookups>>

KeepFooter(r) ==
  /\ call[r].pc = "keep"
  /\ footers' = IF identified
                THEN [footers EXCEPT ![call[r].ident] = call[r].footer]
                ELSE footers
  /\ call' = [call EXCEPT ![r] = [call[r] EXCEPT !.pc = "ask"]]
  /\ UNCHANGED <<version, identified, slot, lock, chunks, stats, lookups>>

FooterFails(r) ==
  /\ call[r].pc = "footer"
  /\ Fail(r)

-----------------------------------------------------------------------------
(* CachingReader::get_byte_ranges; get_bytes is a request of one range.    *)

\* The indexes of a request, in order.
Indexes(q) == [i \in 1 .. Len(q) |-> i]

\* The stream asks for its ranges.  The plain reader fetches all of them.
Ask(r, q) ==
  /\ call[r].pc = "ask"
  /\ call' = [call EXCEPT ![r] =
                [call[r] EXCEPT !.request = q,
                                !.ordered = [i \in 1 .. Len(q) |-> NoBytes],
                                !.missing = IF identified THEN <<>> ELSE Indexes(q),
                                !.pc = IF identified THEN "lookup" ELSE "fetch"]]
  /\ UNCHANGED <<version, identified, slot, lock, chunks, footers, stats, lookups>>

\* Mutant: the chunk key lacks the identity of the artifact.
CachedUnderAnyIdent(r) ==
  LET g == call[r].request[call[r].i]
      found == {v \in Version : chunks[v][g] # NoBytes}
  IN  IF found = {} THEN NoBytes ELSE chunks[Min(found)][g]

\* The entry under the chunk key of the i-th range: identity, offset, length.
Cached(r) ==
  chunks[call[r].ident][call[r].request[call[r].i]]

LookupHit(r) ==
  /\ call[r].pc = "lookup" /\ call[r].i <= Len(call[r].request)
  /\ Cached(r) # NoBytes
  /\ call' = [call EXCEPT ![r] =
                [call[r] EXCEPT !.ordered = [@ EXCEPT ![call[r].i] = Cached(r)],
                                !.i = @ + 1]]
  /\ stats' = [stats EXCEPT !.hits = @ + 1]
  /\ lookups' = [lookups EXCEPT !.ranges = @ + 1]
  /\ UNCHANGED <<version, identified, slot, lock, chunks, footers>>

LookupMiss(r) ==
  /\ call[r].pc = "lookup" /\ call[r].i <= Len(call[r].request)
  /\ Cached(r) = NoBytes
  /\ call' = [call EXCEPT ![r] =
                [call[r] EXCEPT !.missing = Append(@, call[r].i), !.i = @ + 1]]
  /\ lookups' = [lookups EXCEPT !.ranges = @ + 1]
  /\ UNCHANGED <<version, identified, slot, lock, chunks, footers, stats>>

\* Mutant: a request that misses counts as one miss.
LookedUpCountingOne(r) ==
  /\ call[r].pc = "lookup" /\ call[r].i > Len(call[r].request)
  /\ stats' = [stats EXCEPT !.misses = @ + (IF call[r].missing = <<>> THEN 0 ELSE 1)]
  /\ call' = [call EXCEPT ![r] =
                [call[r] EXCEPT !.pc = IF call[r].missing = <<>> THEN "answered"
                                                                 ELSE "fetch"]]
  /\ UNCHANGED <<version, identified, slot, lock, chunks, footers, lookups>>

\* After the loop the misses are counted, and fetched if there are any.
LookedUp(r) ==
  /\ call[r].pc = "lookup" /\ call[r].i > Len(call[r].request)
  /\ stats' = [stats EXCEPT !.misses = @ + Len(call[r].missing)]
  /\ call' = [call EXCEPT ![r] =
                [call[r] EXCEPT !.pc = IF call[r].missing = <<>> THEN "answered"
                                                                 ELSE "fetch"]]
  /\ UNCHANGED <<version, identified, slot, lock, chunks, footers, lookups>>

\* One more of the missing ranges arrives: each may be a request of its own.
Fetch(r) ==
  LET n == Len(call[r].fetched) + 1
  IN  /\ call[r].pc = "fetch" /\ n <= Len(call[r].missing)
      /\ call' = [call EXCEPT ![r] = [call[r] EXCEPT !.fetched =
                    Append(@, [range |-> call[r].request[call[r].missing[n]],
                               version |-> version])]]
      /\ UNCHANGED <<version, identified, slot, lock, chunks, footers, stats, lookups>>

\* The inner reader returns an error, or fewer ranges than it was asked for.
FetchFails(r) ==
  /\ call[r].pc = "fetch"
  /\ Fail(r)

Fetched(r) ==
  /\ call[r].pc = "fetch"
  /\ Len(call[r].fetched) = Len(call[r].missing)
  /\ call' = [call EXCEPT ![r] = [call[r] EXCEPT !.pc = "store", !.i = 1]]
  /\ UNCHANGED <<version, identified, slot, lock, chunks, footers, stats, lookups>>

\* Mutant: the indexes that missed are paired with the bytes back to front.
StoreBackwards(r) ==
  LET n == call[r].i
      at == call[r].missing[Len(call[r].missing) + 1 - n]
  IN  /\ call[r].pc = "store" /\ n <= Len(call[r].missing)
      /\ chunks' = IF identified
                   THEN [chunks EXCEPT ![call[r].ident][call[r].request[at]] =
                           call[r].fetched[n]]
                   ELSE chunks
      /\ call' = [call EXCEPT ![r] =
                    [call[r] EXCEPT !.ordered = [@ EXCEPT ![at] = call[r].fetched[n]],
                                    !.i = @ + 1]]
      /\ UNCHANGED <<version, identified, slot, lock, footers, stats, lookups>>

\* One turn of the loop over the parallel lists of missing indexes, their keys
\* and the bytes fetched.
Store(r) ==
  LET n == call[r].i
      at == call[r].missing[n]
  IN  /\ call[r].pc = "store" /\ n <= Len(call[r].missing)
      /\ chunks' = IF identified
                   THEN [chunks EXCEPT ![call[r].ident][call[r].request[at]] =
                           call[r].fetched[n]]
                   ELSE chunks
      /\ call' = [call EXCEPT ![r] =
                    [call[r] EXCEPT !.ordered = [@ EXCEPT ![at] = call[r].fetched[n]],
                                    !.i = @ + 1]]
      /\ UNCHANGED <<version, identified, slot, lock, footers, stats, lookups>>

Complete(r) ==
  \A i \in 1 .. Len(call[r].request) : call[r].ordered[i] # NoBytes

\* The answer is assembled; a range without bytes would be an error.
Assemble(r) ==
  /\ call[r].pc = "store" /\ call[r].i > Len(call[r].missing)
  /\ call' = [call EXCEPT ![r] =
                [call[r] EXCEPT !.pc = IF Complete(r) THEN "answered" ELSE "failed"]]
  /\ lock' = IF Complete(r) \/ lock # r THEN lock ELSE Free
  /\ UNCHANGED <<version, identified, slot, chunks, footers, stats, lookups>>

-----------------------------------------------------------------------------
Step(r) ==
  \/ UseEngine(r) \/ BeginOpen(r) \/ HeadObject(r) \/ OpenSucceeds(r) \/ OpenFails(r)
  \/ MetadataHit(r) \/ MetadataMiss(r) \/ MetadataUncached(r)
  \/ FetchFooter(r) \/ KeepFooter(r) \/ FooterFails(r)
  \/ \E q \in Request : Ask(r, q)
  \/ LookupHit(r) \/ LookupMiss(r) \/ LookedUp(r)
  \/ Fetch(r) \/ FetchFails(r) \/ Fetched(r) \/ Store(r) \/ Assemble(r)

Next ==
  \/ Republish
  \/ \E v \in Version, g \in Chunk : Evict(v, g)
  \/ \E r \in Reader : Step(r)

Spec == Init /\ [][Next]_vars

\* A thread that can go on does; a request ends with an answer or an error.
FairSpec == Spec /\ \A r \in Reader : WF_vars(Step(r))

-----------------------------------------------------------------------------
(* Properties.                                                             *)

\* The call was answered for its own reads.
Answered(r) == call[r].pc = "answered" /\ lock # r

\* Ranges are answered in the order of the request, every one, whatever was
\* cached, evicted or inserted by other threads between the lookup and the
\* assembly (get_byte_ranges reorders hits and misses).
AnswersInOrder ==
  \A r \in Reader : call[r].pc = "answered" =>
    /\ Len(call[r].ordered) = Len(call[r].request)
    /\ \A i \in 1 .. Len(call[r].request) :
         call[r].ordered[i] \in Bytes /\ call[r].ordered[i].range = call[r].request[i]

\* A session never reads bytes or a footer older than the object its HEAD
\* request saw, although it shares the caches with opens that failed before
\* the object was republished (the ArtifactIdent in the keys); nor does it
\* read two versions unless the object changed after its HEAD request.
NeverOlderThanHead ==
  \A r \in Reader : call[r].pc = "answered" =>
    /\ call[r].footer \in call[r].ident .. version
    /\ \A i \in 1 .. Len(call[r].request) :
         call[r].ordered[i].version \in call[r].ident .. version

\* Threads that race for the first use of an engine all read through the one
\* session that was kept, also after other opens failed (delineation_engine).
OneSession ==
  \A r \in Reader : Answered(r) => slot # 0 /\ call[r].ident = slot

\* Every lookup is counted once, as a hit or as a miss, also when the fetch of
\* the misses fails: the counters add up whenever no thread is in its loop.
CountersAddUp ==
  (\A r \in Reader : call[r].pc # "lookup") =>
    /\ stats.hits + stats.misses = lookups.ranges
    /\ stats.footerHits + stats.footerMisses = lookups.footers

\* Every call returns, also the ones that wait for a thread whose open fails.
CallsReturn ==
  \A r \in Reader : <>(Answered(r) \/ call[r].pc = "failed")

\* The module's documentation: chunks exceeding u32::MAX bytes are silently
\* uncached.  Stated where moka has nothing left to evict.
OversizedUncached ==
  WeightedSize <= Capacity => \A k \in Held : Length[k[2]] <= MaxWeight

\* The calls of an engine read through one session, and none of them gets bytes
\* older than the version that session was opened at.
OneCurrentSession == NeverOlderThanHead /\ OneSession

=============================================================================
