------------------------- MODULE ParquetCacheProofs -------------------------
(***************************************************************************)
(* Proofs about the Parquet caches, for any number of threads, ranges and  *)
(* republications and for every order in which moka evicts; then, in the   *)
(* specification that the run checks, about the output of the command      *)
(* line, the ranged read of an artifact, the export of basins and the      *)
(* batches of Python.                                                      *)
(***************************************************************************)
EXTENDS MCParquetCache, SequenceTheorems, FiniteSetTheorems, WellFoundedInduction, TLAPS

(***************************************************************************)
(* The strengthening that is inductive.  A cache entry under version v     *)
(* holds bytes of its own range, of a version from v to the current one,   *)
(* and so does everything a call has looked up or fetched.  CallOK is      *)
(* about one call and the current version: it stays true when the object   *)
(* is republished, and other calls do not touch it.                        *)
(***************************************************************************)
Truthful(b, g, from, to) == b.range = g /\ b.version \in from .. to

\* The lists of get_byte_ranges belong together.
Reading(c, v) ==
  /\ Len(c.ordered) = Len(c.request)
  /\ Len(c.fetched) <= Len(c.missing)
  /\ \A k \in 1 .. Len(c.missing) : c.missing[k] \in 1 .. Len(c.request)
  /\ \A k \in 1 .. Len(c.fetched) :
       Truthful(c.fetched[k], c.request[c.missing[k]], c.ident, v)
  /\ \A j \in 1 .. Len(c.request) :
       c.ordered[j] # NoBytes => Truthful(c.ordered[j], c.request[j], c.ident, v)
  /\ c.i >= 1
  /\ c.pc = "lookup" =>
       /\ c.fetched = <<>>
       /\ c.i <= Len(c.request) + 1
       /\ c.missing = <<>> => \A j \in 1 .. c.i - 1 : c.ordered[j] # NoBytes
  /\ c.pc = "store" => Len(c.fetched) = Len(c.missing)
  /\ c.pc = "answered" => \A j \in 1 .. Len(c.request) : c.ordered[j] # NoBytes

CallOK(c, v) ==
  /\ c \in Call
  /\ c.pc \notin {"idle", "head", "failed"} => c.ident \in 1 .. v
  /\ c.pc \in {"keep", "ask", "lookup", "fetch", "store", "answered"} =>
       c.footer \in c.ident .. v
  /\ c.pc \in {"idle", "head", "metadata", "footer", "keep", "ask"} =>
       c.fetched = <<>> /\ c.i = 1
  /\ c.pc \in {"lookup", "fetch", "store", "answered"} => Reading(c, v)

CallsOK == \A r \in Reader : CallOK(call[r], version)

CachesOK ==
  /\ \A v \in Version, g \in Chunk :
       chunks[v][g] # NoBytes => Truthful(chunks[v][g], g, v, version)
  /\ \A v \in Version : footers[v] # 0 => footers[v] \in v .. version

\* The mutex and the slot: whoever is past them opens the session or uses the
\* one that was kept, and the slot is filled only by the holder of the mutex.
SessionOK ==
  /\ slot <= version
  /\ lock # Free => slot = 0
  /\ \A r \in Reader :
       /\ lock = r => call[r].pc \notin {"idle", "failed"}
       /\ call[r].pc = "head" => lock = r
       /\ call[r].pc \notin {"idle", "failed"} /\ lock # r =>
            slot # 0 /\ call[r].ident = slot

ParquetInv == TypeOK /\ CallsOK /\ CachesOK /\ SessionOK

-----------------------------------------------------------------------------
(* One call's record, step by step.                                        *)

\* What was true of a call stays true when the object is republished.
LEMMA CallGrows ==
  ASSUME NEW c, NEW v \in Nat, NEW w \in Nat, v <= w, CallOK(c, v)
  PROVE  CallOK(c, w)
<1>1. c.ident \in Nat /\ c \in Call
  BY DEF CallOK, Call
<1>2. ASSUME Reading(c, v) PROVE Reading(c, w)
  BY <1>1, <1>2, SMTT(40) DEF Reading, Truthful
<1>. QED
  BY <1>1, <1>2 DEF CallOK

\* A call that has failed keeps its type and promises nothing else.
LEMMA FailedOK ==
  ASSUME NEW c, NEW v \in Nat, CallOK(c, v),
         NEW d, d = [c EXCEPT !.pc = "failed"]
  PROVE  CallOK(d, v)
BY DEF CallOK, Call

\* The stages before the ranges.
LEMMA EarlyOK ==
  ASSUME NEW c, NEW v \in Version, CallOK(c, v),
         NEW p \in {"head", "metadata", "footer", "keep", "ask"},
         c.pc \in {"idle", "head", "metadata", "footer", "keep", "ask"},
         NEW n \in 0 .. MaxVersion, NEW f \in 0 .. MaxVersion,
         p # "head" => n \in 1 .. v,
         p \in {"keep", "ask"} => f \in n .. v,
         NEW d, d \in Call,
         d.pc = p, d.ident = n, d.footer = f, d.fetched = c.fetched, d.i = c.i
  PROVE  CallOK(d, v)
BY DEF CallOK

\* The type of what get_byte_ranges keeps.
LEMMA ListTypes ==
  ASSUME NEW c \in Call
  PROVE  /\ c.request \in Seq(Chunk) /\ Len(c.request) \in Nat
         /\ c.ordered \in Seq(Bytes \cup {NoBytes}) /\ Len(c.ordered) \in Nat
         /\ c.missing \in Seq(Nat) /\ Len(c.missing) \in Nat
         /\ c.fetched \in Seq(Bytes) /\ Len(c.fetched) \in Nat
         /\ c.i \in Nat /\ c.ident \in 0 .. MaxVersion
         /\ c.footer \in 0 .. MaxVersion
<1>1. /\ c.request \in Seq(Chunk) /\ c.ordered \in Seq(Bytes \cup {NoBytes})
      /\ c.missing \in Seq(Nat) /\ c.fetched \in Seq(Bytes)
      /\ c.i \in Nat /\ c.ident \in 0 .. MaxVersion /\ c.footer \in 0 .. MaxVersion
  BY DEF Call
<1>. QED
  BY <1>1, LenProperties

\* Replacing one list, or the position, keeps the type of a call.
LEMMA MissingTyped ==
  ASSUME NEW c \in Call, NEW n \in Nat, NEW m \in Seq(Nat),
         NEW d, d = [c EXCEPT !.missing = m, !.i = n]
  PROVE  d \in Call
BY DEF Call

\* What an appended list holds.
LEMMA AppendFacts ==
  ASSUME NEW S, NEW s \in Seq(S), NEW e \in S, NEW t, t = Append(s, e)
  PROVE  /\ t \in Seq(S) /\ t # <<>> /\ Len(t) = Len(s) + 1
         /\ \A k \in 1 .. Len(s) : t[k] = s[k]
         /\ t[Len(s) + 1] = e
BY AppendProperties

\* A request begins: nothing is found, and without an identity all is missing.
LEMMA AskOK ==
  ASSUME NEW c, NEW v \in Version, CallOK(c, v), c.pc = "ask",
         NEW q \in Seq(Chunk), NEW cached \in BOOLEAN,
         NEW d,
         d = [c EXCEPT !.request = q,
                       !.ordered = [i \in 1 .. Len(q) |-> NoBytes],
                       !.missing = IF cached THEN <<>> ELSE Indexes(q),
                       !.pc = IF cached THEN "lookup" ELSE "fetch"]
  PROVE  CallOK(d, v)
<1>. DEFINE empty == [i \in 1 .. Len(q) |-> NoBytes]
<1>1. c \in Call /\ c.fetched = <<>> /\ c.i = 1 /\ c.ident \in 1 .. v
      /\ c.footer \in c.ident .. v
  BY DEF CallOK
<1>2. Len(q) \in Nat
  BY LenProperties
<1>3. empty \in Seq(Bytes \cup {NoBytes}) /\ Len(empty) = Len(q)
  BY <1>2, IsASeq
<1>4. Indexes(q) \in Seq(Nat) /\ Len(Indexes(q)) = Len(q)
      /\ \A k \in 1 .. Len(q) : Indexes(q)[k] = k
  BY <1>2 DEF Indexes
<1>5. <<>> \in Seq(Nat) /\ Len(<<>>) = 0
  BY EmptySeq
<1>6. d.missing \in Seq(Nat) /\ Len(d.missing) \in Nat
      /\ \A k \in 1 .. Len(d.missing) : d.missing[k] \in 1 .. Len(q)
  <2>1. CASE cached
    <3>1. d.missing = <<>>
      BY <1>1, <2>1 DEF Call
    <3>2. d.missing \in Seq(Nat) /\ Len(d.missing) = 0
      BY <3>1, <1>5, Zenon
    <3>. QED  BY <3>2
  <2>2. CASE ~ cached
    <3>1. d.missing = Indexes(q)
      BY <1>1, <2>2 DEF Call
    <3>. QED  BY <3>1, <1>2, <1>4
  <2>. QED  BY <2>1, <2>2
<1>7. /\ d.request = q /\ d.ordered = empty /\ d.fetched = <<>> /\ d.i = 1
      /\ d.ident = c.ident /\ d.footer = c.footer /\ d.pc \in {"lookup", "fetch"}
  BY <1>1 DEF Call
<1>8. d \in Call
  BY <1>1, <1>3, <1>6 DEF Call
<1>9. Reading(d, v)
  BY <1>2, <1>3, <1>5, <1>6, <1>7 DEF Reading
<1>. QED
  BY <1>1, <1>7, <1>8, <1>9 DEF CallOK

\* A hit puts truthful bytes at the position looked up.
LEMMA HitOK ==
  ASSUME NEW c, NEW v \in Version, CallOK(c, v), c.pc = "lookup",
         c.i <= Len(c.request), NEW b \in Bytes,
         Truthful(b, c.request[c.i], c.ident, v),
         NEW d, d = [c EXCEPT !.ordered = [@ EXCEPT ![c.i] = b], !.i = @ + 1]
  PROVE  CallOK(d, v)
<1>. DEFINE filled == [c.ordered EXCEPT ![c.i] = b]
<1>1. c \in Call /\ Reading(c, v)
  BY DEF CallOK
<1>2. c.i \in 1 .. Len(c.ordered) /\ Len(c.ordered) = Len(c.request)
  BY <1>1, ListTypes DEF Reading
<1>3. b \in Bytes \cup {NoBytes} /\ b # NoBytes
  BY NoBytesAssumption DEF Bytes, Version
<1>4. /\ filled \in Seq(Bytes \cup {NoBytes}) /\ Len(filled) = Len(c.request)
      /\ \A j \in 1 .. Len(c.request) : filled[j] = IF j = c.i THEN b ELSE c.ordered[j]
  BY <1>1, <1>2, <1>3, ListTypes, ExceptSeq
<1>5. /\ d.request = c.request /\ d.ordered = filled /\ d.fetched = c.fetched
      /\ d.missing = c.missing /\ d.i = c.i + 1 /\ d.ident = c.ident
      /\ d.footer = c.footer /\ d.pc = c.pc
  BY <1>1 DEF Call
<1>6. d \in Call
  <2>1. d = [c EXCEPT !.ordered = filled, !.i = c.i + 1]
    OBVIOUS
  <2>2. c.i + 1 \in Nat
    BY <1>1, ListTypes
  <2>. HIDE DEF filled
  <2>. QED
    BY <1>1, <1>4, <2>1, <2>2 DEF Call
<1>. HIDE DEF filled
<1>7. Reading(d, v)
  BY <1>1, <1>2, <1>3, <1>4, <1>5, ListTypes DEF Reading
<1>. QED
  BY <1>5, <1>6, <1>7 DEF CallOK

\* A miss is remembered by its position.
LEMMA MissOK ==
  ASSUME NEW c, NEW v \in Version, CallOK(c, v), c.pc = "lookup",
         c.i <= Len(c.request),
         NEW d, d = [c EXCEPT !.missing = Append(@, c.i), !.i = @ + 1]
  PROVE  CallOK(d, v)
<1>. DEFINE longer == Append(c.missing, c.i)
<1>1. c \in Call /\ Reading(c, v)
  BY DEF CallOK
<1>2. c.i \in Nat /\ c.i >= 1 /\ c.fetched = <<>> /\ Len(c.fetched) = 0
  BY <1>1, ListTypes, EmptySeq DEF Reading
<1>3. /\ longer \in Seq(Nat) /\ longer # <<>> /\ Len(longer) = Len(c.missing) + 1
      /\ \A k \in 1 .. Len(c.missing) : longer[k] = c.missing[k]
      /\ longer[Len(c.missing) + 1] = c.i
  <2>1. c.missing \in Seq(Nat) /\ c.i \in Nat
    BY <1>1, ListTypes
  <2>2. longer = Append(c.missing, c.i)
    OBVIOUS
  <2>. HIDE DEF longer
  <2>. QED
    BY <2>1, <2>2, AppendFacts
<1>4. /\ d.request = c.request /\ d.ordered = c.ordered /\ d.fetched = c.fetched
      /\ d.missing = longer /\ d.i = c.i + 1 /\ d.ident = c.ident
      /\ d.footer = c.footer /\ d.pc = c.pc
  BY <1>1 DEF Call
<1>5. d \in Call
  <2>1. d = [c EXCEPT !.missing = longer, !.i = c.i + 1]
    OBVIOUS
  <2>2. c.i + 1 \in Nat
    BY <1>2
  <2>. HIDE DEF longer
  <2>. QED
    BY <1>1, <1>3, <2>1, <2>2, MissingTyped
<1>. HIDE DEF longer
<1>6. \A k \in 1 .. Len(longer) : longer[k] \in 1 .. Len(c.request)
  <2>1. Len(c.missing) \in Nat /\ Len(c.request) \in Nat
    BY <1>1, ListTypes
  <2>2. TAKE k \in 1 .. Len(longer)
  <2>3. CASE k \in 1 .. Len(c.missing)
    BY <1>1, <1>3, <2>3 DEF Reading
  <2>4. CASE k = Len(c.missing) + 1
    BY <1>2, <1>3, <2>1, <2>4
  <2>. QED
    BY <1>3, <2>1, <2>3, <2>4
<1>7. Reading(d, v)
  <2>1. Len(c.missing) \in Nat /\ Len(c.request) \in Nat /\ Len(longer) \in Nat
    BY <1>1, <1>3, ListTypes
  <2>. QED
    <3>1. /\ Len(d.ordered) = Len(d.request) /\ Len(d.fetched) <= Len(d.missing)
          /\ d.i >= 1 /\ d.i <= Len(d.request) + 1
      BY <1>1, <1>2, <1>3, <1>4, <2>1, SMTT(40) DEF Reading
    <3>2. \A k \in 1 .. Len(d.missing) : d.missing[k] \in 1 .. Len(d.request)
      BY <1>4, <1>6
    <3>3. \A k \in 1 .. Len(d.fetched) :
            Truthful(d.fetched[k], d.request[d.missing[k]], d.ident, v)
      BY <1>2, <1>4
    <3>4. \A j \in 1 .. Len(d.request) :
            d.ordered[j] # NoBytes => Truthful(d.ordered[j], d.request[j], d.ident, v)
      BY <1>1, <1>4 DEF Reading
    <3>5. d.fetched = <<>> /\ d.missing # <<>> /\ d.pc = "lookup"
      BY <1>2, <1>3, <1>4, Zenon
    <3>. QED
      BY <3>1, <3>2, <3>3, <3>4, <3>5 DEF Reading
<1>. QED
  BY <1>4, <1>5, <1>7 DEF CallOK

\* The loop is over; when nothing missed, every position is filled.
LEMMA LookedUpOK ==
  ASSUME NEW c, NEW v \in Version, CallOK(c, v), c.pc = "lookup",
         c.i > Len(c.request),
         NEW d, d = [c EXCEPT !.pc = IF c.missing = <<>> THEN "answered" ELSE "fetch"]
  PROVE  CallOK(d, v)
<1>1. c \in Call /\ Reading(c, v)
  BY DEF CallOK
<1>2. /\ d.request = c.request /\ d.ordered = c.ordered /\ d.fetched = c.fetched
      /\ d.missing = c.missing /\ d.i = c.i /\ d.ident = c.ident /\ d.footer = c.footer
      /\ d.pc = IF c.missing = <<>> THEN "answered" ELSE "fetch"
  BY <1>1 DEF Call
<1>3. d \in Call
  BY <1>1 DEF Call
<1>4. c.missing = <<>> => \A j \in 1 .. Len(c.request) : c.ordered[j] # NoBytes
  BY <1>1, ListTypes DEF Reading
<1>5. Reading(d, v)
  BY <1>1, <1>2, <1>4, ListTypes DEF Reading
<1>. QED
  BY <1>2, <1>3, <1>5 DEF CallOK

\* What arrives is the next missing range, at the current version.
LEMMA FetchOK ==
  ASSUME NEW c, NEW v \in Version, CallOK(c, v), c.pc = "fetch",
         NEW n, n = Len(c.fetched) + 1, n <= Len(c.missing),
         NEW d, d = [c EXCEPT !.fetched =
                       Append(@, [range |-> c.request[c.missing[n]], version |-> v])]
  PROVE  CallOK(d, v)
<1>. DEFINE b == [range |-> c.request[c.missing[n]], version |-> v]
            longer == Append(c.fetched, b)
<1>1. c \in Call /\ Reading(c, v) /\ c.ident \in 1 .. v
  BY DEF CallOK
<1>2. c.missing[n] \in 1 .. Len(c.request)
  BY <1>1, ListTypes, SMTT(40) DEF Reading
<1>3. c.request[c.missing[n]] \in Chunk
  BY <1>1, <1>2, ListTypes, ElementOfSeq
<1>4. b \in Bytes
  BY <1>3 DEF Bytes
<1>5. Truthful(b, c.request[c.missing[n]], c.ident, v)
  BY <1>1 DEF Truthful, Version
<1>. HIDE DEF b
<1>6. /\ longer \in Seq(Bytes) /\ Len(longer) = n
      /\ \A k \in 1 .. Len(c.fetched) : longer[k] = c.fetched[k]
      /\ longer[n] = b
  BY <1>1, <1>4, ListTypes, AppendProperties
<1>7. /\ d.request = c.request /\ d.ordered = c.ordered /\ d.fetched = longer
      /\ d.missing = c.missing /\ d.i = c.i /\ d.ident = c.ident
      /\ d.footer = c.footer /\ d.pc = c.pc
  BY <1>1 DEF Call, b
<1>8. d \in Call
  <2>1. d = [c EXCEPT !.fetched = longer]
    BY DEF b
  <2>. QED
    BY <1>1, <1>6, <2>1 DEF Call
<1>. HIDE DEF longer
<1>9. \A k \in 1 .. Len(longer) :
        Truthful(longer[k], c.request[c.missing[k]], c.ident, v)
  <2>1. Len(c.fetched) \in Nat
    BY <1>1, ListTypes
  <2>2. TAKE k \in 1 .. Len(longer)
  <2>3. CASE k \in 1 .. Len(c.fetched)
    BY <1>1, <1>6, <2>3 DEF Reading
  <2>4. CASE k = n
    BY <1>5, <1>6, <2>4
  <2>. QED
    BY <1>6, <2>1, <2>3, <2>4
<1>10. Reading(d, v)
  BY <1>1, <1>6, <1>7, <1>9, ListTypes DEF Reading
<1>. QED
  BY <1>1, <1>7, <1>8, <1>10 DEF CallOK

\* All has arrived.
LEMMA FetchedOK ==
  ASSUME NEW c, NEW v \in Version, CallOK(c, v), c.pc = "fetch",
         Len(c.fetched) = Len(c.missing),
         NEW d, d = [c EXCEPT !.pc = "store", !.i = 1]
  PROVE  CallOK(d, v)
<1>1. c \in Call /\ Reading(c, v)
  BY DEF CallOK
<1>2. /\ d.request = c.request /\ d.ordered = c.ordered /\ d.fetched = c.fetched
      /\ d.missing = c.missing /\ d.i = 1 /\ d.ident = c.ident
      /\ d.footer = c.footer /\ d.pc = "store"
  BY <1>1 DEF Call
<1>3. d \in Call
  BY <1>1 DEF Call
<1>4. Reading(d, v)
  BY <1>1, <1>2, ListTypes DEF Reading
<1>. QED
  BY <1>2, <1>3, <1>4 DEF CallOK

\* Fetched bytes are put where their range was asked for.
LEMMA StoreOK ==
  ASSUME NEW c, NEW v \in Version, CallOK(c, v), c.pc = "store",
         c.i <= Len(c.missing),
         NEW at, at = c.missing[c.i],
         NEW d, d = [c EXCEPT !.ordered = [@ EXCEPT ![at] = c.fetched[c.i]], !.i = @ + 1]
  PROVE  /\ CallOK(d, v)
         /\ at \in 1 .. Len(c.request)
         /\ c.request[at] \in Chunk
         /\ c.fetched[c.i] \in Bytes
         /\ Truthful(c.fetched[c.i], c.request[at], c.ident, v)
<1>. DEFINE b == c.fetched[c.i]
            filled == [c.ordered EXCEPT ![at] = b]
<1>1. c \in Call /\ Reading(c, v)
  BY DEF CallOK
<1>2. c.i \in 1 .. Len(c.missing) /\ Len(c.fetched) = Len(c.missing)
      /\ Len(c.ordered) = Len(c.request)
  BY <1>1, ListTypes DEF Reading
<1>3. at \in 1 .. Len(c.request)
  BY <1>1, <1>2 DEF Reading
<1>4. c.request[at] \in Chunk
  BY <1>1, <1>3, ListTypes, ElementOfSeq
<1>5. b \in Bytes
  BY <1>1, <1>2, ListTypes, ElementOfSeq
<1>6. Truthful(b, c.request[at], c.ident, v)
  BY <1>1, <1>2 DEF Reading
<1>. HIDE DEF b
<1>7. /\ filled \in Seq(Bytes \cup {NoBytes}) /\ Len(filled) = Len(c.request)
      /\ \A j \in 1 .. Len(c.request) : filled[j] = IF j = at THEN b ELSE c.ordered[j]
  BY <1>1, <1>2, <1>3, <1>5, ListTypes, ExceptSeq
<1>8. /\ d.request = c.request /\ d.ordered = filled /\ d.fetched = c.fetched
      /\ d.missing = c.missing /\ d.i = c.i + 1 /\ d.ident = c.ident
      /\ d.footer = c.footer /\ d.pc = c.pc
  BY <1>1 DEF Call, b
<1>9. d \in Call
  <2>1. d = [c EXCEPT !.ordered = filled, !.i = c.i + 1]
    BY DEF b
  <2>2. c.i + 1 \in Nat
    BY <1>1, ListTypes
  <2>. HIDE DEF filled
  <2>. QED
    BY <1>1, <1>7, <2>1, <2>2 DEF Call
<1>. HIDE DEF filled
<1>10. Reading(d, v)
  <2>1. \A j \in 1 .. Len(c.request) :
          filled[j] # NoBytes => Truthful(filled[j], c.request[j], c.ident, v)
    BY <1>1, <1>6, <1>7 DEF Reading
  <2>2. /\ Len(filled) = Len(c.request) /\ Len(c.fetched) <= Len(c.missing)
        /\ \A k \in 1 .. Len(c.missing) : c.missing[k] \in 1 .. Len(c.request)
        /\ \A k \in 1 .. Len(c.fetched) :
             Truthful(c.fetched[k], c.request[c.missing[k]], c.ident, v)
        /\ c.i + 1 >= 1 /\ Len(c.fetched) = Len(c.missing)
    BY <1>1, <1>2, <1>7, ListTypes DEF Reading
  <2>. QED
    BY <1>8, <2>1, <2>2 DEF Reading
<1>11. CallOK(d, v)
  BY <1>8, <1>9, <1>10 DEF CallOK
<1>. QED
  BY <1>3, <1>4, <1>5, <1>6, <1>11 DEF b

\* The answer has no holes.
LEMMA AssembleOK ==
  ASSUME NEW c, NEW v \in Version, CallOK(c, v), c.pc = "store",
         \A i \in 1 .. Len(c.request) : c.ordered[i] # NoBytes,
         NEW d, d = [c EXCEPT !.pc = "answered"]
  PROVE  CallOK(d, v)
<1>1. c \in Call /\ Reading(c, v)
  BY DEF CallOK
<1>2. /\ d.request = c.request /\ d.ordered = c.ordered /\ d.fetched = c.fetched
      /\ d.missing = c.missing /\ d.i = c.i /\ d.ident = c.ident
      /\ d.footer = c.footer /\ d.pc = "answered"
  BY <1>1 DEF Call
<1>3. d \in Call
  BY <1>1 DEF Call
<1>4. Reading(d, v)
  BY <1>1, <1>2 DEF Reading
<1>. QED
  BY <1>2, <1>3, <1>4 DEF CallOK

-----------------------------------------------------------------------------
(* The steps of the system.                                                *)

\* A step of one thread that replaces its record by a good one keeps every
\* call good.
LEMMA CallsFrame ==
  ASSUME ParquetInv, NEW r \in Reader, version' = version,
         NEW d, CallOK(d, version), call' = [call EXCEPT ![r] = d]
  PROVE  /\ CallsOK' /\ call' \in [Reader -> Call]
         /\ call'[r] = d /\ \A s \in Reader \ {r} : call'[s] = call[s]
<1>1. call \in [Reader -> Call] /\ d \in Call
  BY DEF ParquetInv, TypeOK, CallOK
<1>2. call'[r] = d /\ \A s \in Reader \ {r} : call'[s] = call[s]
  BY <1>1
<1>3. call' \in [Reader -> Call]
  BY <1>1
<1>4. \A s \in Reader : CallOK(call'[s], version')
  BY <1>2 DEF ParquetInv, CallsOK
<1>. QED
  BY <1>2, <1>3, <1>4 DEF CallsOK

\* A call that begins is typed and holds nothing.
LEMMA FreshTyped == Fresh \in Call /\ Fresh.fetched = <<>> /\ Fresh.i = 1
<1>1. <<>> \in Seq(Chunk) /\ <<>> \in Seq(Bytes \cup {NoBytes})
      /\ <<>> \in Seq(Nat) /\ <<>> \in Seq(Bytes)
  BY EmptySeq
<1>. QED
  BY <1>1, ParquetAssumption DEF Fresh, Call

\* Everything starts empty.
LEMMA InitHolds == Init => ParquetInv
<1>. SUFFICES ASSUME Init PROVE ParquetInv
  OBVIOUS
<1>. USE ParquetAssumption
<1>1. Fresh \in Call
  BY FreshTyped
<1>2. TypeOK
  <2>1. identified \in BOOLEAN
    BY DEF Init
  <2>2. stats \in Stat /\ lookups \in [ranges : Nat, footers : Nat]
    BY DEF Init, Stat
  <2>3. version \in Version /\ slot \in 0 .. MaxVersion /\ lock \in Reader \cup {Free}
    BY DEF Init, Version
  <2>4. chunks \in [Version -> [Chunk -> Bytes \cup {NoBytes}]]
    BY DEF Init
  <2>5. footers \in [Version -> 0 .. MaxVersion]
    BY DEF Init
  <2>6. call \in [Reader -> Call]
    BY <1>1 DEF Init
  <2>. QED
    BY <2>1, <2>2, <2>3, <2>4, <2>5, <2>6 DEF TypeOK
<1>3. CallsOK
  <2>1. CallOK(Fresh, 1)
    BY <1>1 DEF CallOK, Fresh
  <2>. QED
    BY <2>1 DEF Init, CallsOK
<1>4. CachesOK
  BY DEF Init, CachesOK
<1>5. SessionOK
  BY NoBytesAssumption DEF Init, SessionOK, Fresh
<1>. QED
  BY <1>2, <1>3, <1>4, <1>5 DEF ParquetInv

\* The object is republished: every bound on a version widens.
LEMMA RepublishKeeps == ParquetInv /\ Republish => ParquetInv'
<1>. SUFFICES ASSUME ParquetInv, Republish PROVE ParquetInv'
  OBVIOUS
<1>. USE ParquetAssumption
<1>1. version \in Nat /\ version' \in Version /\ version <= version' /\ version' \in Nat
  BY DEF ParquetInv, TypeOK, Republish, Version
<1>2. TypeOK'
  BY <1>1 DEF ParquetInv, TypeOK, Republish
<1>3. CallsOK'
  <2>. SUFFICES ASSUME NEW r \in Reader PROVE CallOK(call'[r], version')
    BY DEF CallsOK
  <2>1. CallOK(call[r], version) /\ call'[r] = call[r]
    BY DEF ParquetInv, CallsOK, Republish
  <2>. QED
    BY <1>1, <2>1, CallGrows
<1>4. CachesOK'
  BY <1>1 DEF ParquetInv, CachesOK, Truthful, Republish, Version
<1>5. SessionOK'
  BY <1>1 DEF ParquetInv, TypeOK, SessionOK, Republish
<1>. QED
  BY <1>2, <1>3, <1>4, <1>5 DEF ParquetInv

\* An eviction takes an entry away.
LEMMA EvictKeeps ==
  ASSUME ParquetInv, NEW v \in Version, NEW g \in Chunk, Evict(v, g)
  PROVE  ParquetInv'
<1>1. chunks' \in [Version -> [Chunk -> Bytes \cup {NoBytes}]]
      /\ \A w \in Version, h \in Chunk : chunks'[w][h] \in {chunks[w][h], NoBytes}
  BY DEF ParquetInv, TypeOK, Evict
<1>2. TypeOK'
  BY <1>1 DEF ParquetInv, TypeOK, Evict
<1>3. CachesOK'
  BY <1>1 DEF ParquetInv, CachesOK, Evict
<1>4. CallsOK' /\ SessionOK'
  BY DEF ParquetInv, CallsOK, SessionOK, Evict
<1>. QED
  BY <1>2, <1>3, <1>4 DEF ParquetInv

\* A failing call leaves the caches alone and gives the mutex back.
LEMMA FailKeeps ==
  ASSUME ParquetInv, NEW r \in Reader, Fail(r), call[r].pc # "idle"
  PROVE  ParquetInv'
<1>. DEFINE d == [call[r] EXCEPT !.pc = "failed"]
<1>1. version' = version /\ call' = [call EXCEPT ![r] = d]
  BY DEF Fail
<1>2. CallOK(d, version)
  BY FailedOK DEF ParquetInv, TypeOK, CallsOK, Version
<1>3. call[r] \in Call
  BY DEF ParquetInv, TypeOK
<1>4. d.pc = "failed"
  BY <1>3 DEF Call
<1>. HIDE DEF d
<1>5. CallsOK' /\ call' \in [Reader -> Call] /\ call'[r] = d
      /\ \A s \in Reader \ {r} : call'[s] = call[s]
  BY <1>1, <1>2, CallsFrame
<1>6. TypeOK'
  BY <1>5 DEF ParquetInv, TypeOK, Fail
<1>7. CachesOK'
  BY DEF ParquetInv, CachesOK, Fail
<1>8. SessionOK'
  BY <1>4, <1>5, NoBytesAssumption DEF ParquetInv, SessionOK, Fail
<1>. QED
  BY <1>5, <1>6, <1>7, <1>8 DEF ParquetInv

\* The engine behind its mutex.
LEMMA UseEngineKeeps ==
  ASSUME ParquetInv, NEW r \in Reader, UseEngine(r)
  PROVE  ParquetInv'
<1>. DEFINE d == [call[r] EXCEPT !.ident = slot, !.pc = "metadata"]
<1>1. /\ call[r] \in Call /\ CallOK(call[r], version) /\ version \in Version
      /\ slot \in 1 .. version /\ slot \in 0 .. MaxVersion
  BY DEF ParquetInv, TypeOK, CallsOK, SessionOK, UseEngine, Version
<1>2. /\ d \in Call /\ d.pc = "metadata" /\ d.ident = slot /\ d.footer = call[r].footer
      /\ d.fetched = call[r].fetched /\ d.i = call[r].i
  BY <1>1 DEF Call
<1>3. call' = [call EXCEPT ![r] = d] /\ version' = version /\ call[r].pc = "idle"
  BY DEF UseEngine
<1>. HIDE DEF d
<1>4. call[r].footer \in 0 .. MaxVersion
  BY <1>1 DEF Call
<1>5. CallOK(d, version)
  BY <1>1, <1>2, <1>3, <1>4, EarlyOK
<1>6. CallsOK' /\ call' \in [Reader -> Call] /\ call'[r] = d
      /\ \A s \in Reader \ {r} : call'[s] = call[s]
  BY <1>3, <1>5, CallsFrame
<1>7. TypeOK'
  BY <1>6 DEF ParquetInv, TypeOK, UseEngine
<1>8. CachesOK'
  BY DEF ParquetInv, CachesOK, UseEngine
<1>9. SessionOK'
  BY <1>2, <1>6, NoBytesAssumption DEF ParquetInv, SessionOK, UseEngine
<1>. QED
  BY <1>6, <1>7, <1>8, <1>9 DEF ParquetInv

\* The slot is empty: the mutex is taken.
LEMMA BeginOpenKeeps ==
  ASSUME ParquetInv, NEW r \in Reader, BeginOpen(r)
  PROVE  ParquetInv'
<1>. DEFINE d == [call[r] EXCEPT !.pc = "head"]
<1>1. call[r] \in Call /\ CallOK(call[r], version) /\ version \in Version
  BY DEF ParquetInv, TypeOK, CallsOK
<1>2. /\ d \in Call /\ d.pc = "head" /\ d.ident = call[r].ident
      /\ d.footer = call[r].footer /\ d.fetched = call[r].fetched /\ d.i = call[r].i
  BY <1>1 DEF Call
<1>3. call' = [call EXCEPT ![r] = d] /\ version' = version /\ call[r].pc = "idle"
  BY DEF BeginOpen
<1>. HIDE DEF d
<1>4. call[r].footer \in 0 .. MaxVersion /\ call[r].ident \in 0 .. MaxVersion
  BY <1>1 DEF Call
<1>5. CallOK(d, version)
  BY <1>1, <1>2, <1>3, <1>4, EarlyOK
<1>6. CallsOK' /\ call' \in [Reader -> Call] /\ call'[r] = d
      /\ \A s \in Reader \ {r} : call'[s] = call[s]
  BY <1>3, <1>5, CallsFrame
<1>7. TypeOK'
  BY <1>6 DEF ParquetInv, TypeOK, BeginOpen
<1>8. CachesOK'
  BY DEF ParquetInv, CachesOK, BeginOpen
<1>9. SessionOK'
  BY <1>2, <1>6, NoBytesAssumption DEF ParquetInv, SessionOK, BeginOpen
<1>. QED
  BY <1>6, <1>7, <1>8, <1>9 DEF ParquetInv

\* The identity is the current version.
LEMMA HeadObjectKeeps ==
  ASSUME ParquetInv, NEW r \in Reader, HeadObject(r)
  PROVE  ParquetInv'
<1>. DEFINE d == [call[r] EXCEPT !.ident = version, !.pc = "metadata"]
<1>1. /\ call[r] \in Call /\ CallOK(call[r], version) /\ version \in Version
      /\ version \in 1 .. version /\ version \in 0 .. MaxVersion
  BY ParquetAssumption DEF ParquetInv, TypeOK, CallsOK, Version
<1>2. /\ d \in Call /\ d.pc = "metadata" /\ d.ident = version
      /\ d.footer = call[r].footer /\ d.fetched = call[r].fetched /\ d.i = call[r].i
  BY <1>1 DEF Call
<1>3. call' = [call EXCEPT ![r] = d] /\ version' = version /\ call[r].pc = "head"
  BY DEF HeadObject
<1>. HIDE DEF d
<1>4. call[r].footer \in 0 .. MaxVersion
  BY <1>1 DEF Call
<1>5. CallOK(d, version)
  BY <1>1, <1>2, <1>3, <1>4, EarlyOK
<1>6. CallsOK' /\ call' \in [Reader -> Call] /\ call'[r] = d
      /\ \A s \in Reader \ {r} : call'[s] = call[s]
  BY <1>3, <1>5, CallsFrame
<1>7. TypeOK'
  BY <1>6 DEF ParquetInv, TypeOK, HeadObject
<1>8. CachesOK'
  BY DEF ParquetInv, CachesOK, HeadObject
<1>9. SessionOK'
  BY <1>2, <1>3, <1>6 DEF ParquetInv, SessionOK, HeadObject
<1>. QED
  BY <1>6, <1>7, <1>8, <1>9 DEF ParquetInv

\* The slot is filled while every other call is outside.
LEMMA OpenSucceedsKeeps ==
  ASSUME ParquetInv, NEW r \in Reader, OpenSucceeds(r)
  PROVE  ParquetInv'
<1>. DEFINE d == [Fresh EXCEPT !.pc = "metadata", !.ident = call[r].ident]
<1>1. /\ call[r] \in Call /\ CallOK(call[r], version) /\ version \in Version
      /\ call[r].ident \in 1 .. version /\ call[r].ident \in 0 .. MaxVersion
  BY ParquetAssumption, SMTT(40) DEF ParquetInv, TypeOK, CallsOK, CallOK, OpenSucceeds, Version
<1>2. /\ d \in Call /\ d.pc = "metadata" /\ d.ident = call[r].ident
      /\ d.fetched = <<>> /\ d.i = 1
  BY <1>1, FreshTyped DEF Call
<1>3. call' = [call EXCEPT ![r] = d] /\ version' = version /\ call[r].pc = "answered"
  BY DEF OpenSucceeds
<1>. HIDE DEF d
<1>4. CallOK(d, version)
  BY <1>1, <1>2 DEF CallOK
<1>5. CallsOK' /\ call' \in [Reader -> Call] /\ call'[r] = d
      /\ \A s \in Reader \ {r} : call'[s] = call[s]
  BY <1>3, <1>4, CallsFrame
<1>6. TypeOK'
  BY <1>1, <1>5 DEF ParquetInv, TypeOK, OpenSucceeds
<1>7. CachesOK'
  BY DEF ParquetInv, CachesOK, OpenSucceeds
<1>8. SessionOK'
  <2>1. lock = r /\ lock' = Free /\ lock # Free /\ slot = 0 /\ slot' = call[r].ident
    BY NoBytesAssumption DEF ParquetInv, SessionOK, OpenSucceeds
  <2>2. \A s \in Reader \ {r} : call[s].pc \in {"idle", "failed"}
    BY <2>1 DEF ParquetInv, SessionOK
  <2>. QED
    BY <1>1, <1>2, <1>3, <1>5, <2>1, <2>2, NoBytesAssumption DEF SessionOK
<1>. QED
  BY <1>5, <1>6, <1>7, <1>8 DEF ParquetInv

\* A step of a call that is past the mutex and stays there.
LEMMA ReadKeeps ==
  ASSUME ParquetInv, NEW r \in Reader,
         NEW d, CallOK(d, version), call' = [call EXCEPT ![r] = d],
         call[r].pc \notin {"idle", "head", "failed"},
         d.pc \notin {"idle", "head", "failed"}, d.ident = call[r].ident,
         UNCHANGED <<version, identified, slot, lock>>,
         stats' \in Stat, lookups' \in [ranges : Nat, footers : Nat],
         chunks' \in [Version -> [Chunk -> Bytes \cup {NoBytes}]],
         footers' \in [Version -> 0 .. MaxVersion],
         CachesOK'
  PROVE  ParquetInv'
<1>1. CallsOK' /\ call' \in [Reader -> Call] /\ call'[r] = d
      /\ \A s \in Reader \ {r} : call'[s] = call[s]
  BY CallsFrame
<1>2. TypeOK'
  <2>1. identified' \in BOOLEAN
    BY DEF ParquetInv, TypeOK
  <2>. QED
    BY <1>1, <2>1 DEF ParquetInv, TypeOK
<1>3. SessionOK'
  BY <1>1 DEF ParquetInv, SessionOK
<1>. QED
  BY <1>1, <1>2, <1>3 DEF ParquetInv

\* A footer from the cache is as recent as the identity it was kept under.
LEMMA MetadataHitKeeps ==
  ASSUME ParquetInv, NEW r \in Reader, MetadataHit(r)
  PROVE  ParquetInv'
<1>. DEFINE d == [call[r] EXCEPT !.footer = footers[call[r].ident], !.pc = "ask"]
<1>1. /\ call[r] \in Call /\ CallOK(call[r], version) /\ version \in Version
      /\ version \in Nat
  BY ParquetAssumption DEF ParquetInv, TypeOK, CallsOK, Version
<1>2. /\ call[r].pc = "metadata" /\ call[r].ident \in 1 .. version
      /\ call[r].ident \in Version
  BY <1>1, ParquetAssumption DEF CallOK, MetadataHit, Version
<1>3. call[r].footer \in 0 .. MaxVersion /\ call[r].ident \in 0 .. MaxVersion
  BY <1>1 DEF Call
<1>4. /\ footers[call[r].ident] \in call[r].ident .. version
      /\ footers[call[r].ident] \in 0 .. MaxVersion
  BY <1>2 DEF ParquetInv, TypeOK, CachesOK, MetadataHit
<1>5. /\ d \in Call /\ d.pc = "ask" /\ d.ident = call[r].ident
      /\ d.footer = footers[call[r].ident] /\ d.fetched = call[r].fetched /\ d.i = call[r].i
  BY <1>1, <1>4 DEF Call
<1>6. call' = [call EXCEPT ![r] = d]
  BY DEF MetadataHit
<1>. HIDE DEF d
<1>7. CallOK(d, version)
  BY <1>1, <1>2, <1>3, <1>4, <1>5, EarlyOK
<1>8. stats' \in Stat /\ lookups' \in [ranges : Nat, footers : Nat]
  BY DEF ParquetInv, TypeOK, Stat, MetadataHit
<1>9. /\ UNCHANGED <<version, identified, slot, lock>>
      /\ chunks' \in [Version -> [Chunk -> Bytes \cup {NoBytes}]]
      /\ footers' \in [Version -> 0 .. MaxVersion]
      /\ CachesOK'
  BY DEF ParquetInv, TypeOK, CachesOK, MetadataHit
<1>. QED
  BY <1>2, <1>5, <1>6, <1>7, <1>8, <1>9, ReadKeeps

\* A footer that is not cached is going to be fetched.
LEMMA MetadataMissKeeps ==
  ASSUME ParquetInv, NEW r \in Reader, MetadataMiss(r)
  PROVE  ParquetInv'
<1>. DEFINE d == [call[r] EXCEPT !.pc = "footer"]
<1>1. /\ call[r] \in Call /\ CallOK(call[r], version) /\ version \in Version
      /\ version \in Nat
  BY ParquetAssumption DEF ParquetInv, TypeOK, CallsOK, Version
<1>2. /\ call[r].pc = "metadata" /\ call[r].ident \in 1 .. version
      /\ call[r].ident \in Version
  BY <1>1, ParquetAssumption DEF CallOK, MetadataMiss, Version
<1>3. call[r].footer \in 0 .. MaxVersion /\ call[r].ident \in 0 .. MaxVersion
  BY <1>1 DEF Call
<1>5. /\ d \in Call /\ d.pc = "footer" /\ d.ident = call[r].ident
      /\ d.footer = call[r].footer /\ d.fetched = call[r].fetched /\ d.i = call[r].i
  BY <1>1 DEF Call
<1>6. call' = [call EXCEPT ![r] = d]
  BY DEF MetadataMiss
<1>. HIDE DEF d
<1>7. CallOK(d, version)
  BY <1>1, <1>2, <1>3, <1>5, EarlyOK
<1>8. stats' \in Stat /\ lookups' \in [ranges : Nat, footers : Nat]
  BY DEF ParquetInv, TypeOK, Stat, MetadataMiss
<1>9. /\ UNCHANGED <<version, identified, slot, lock>>
      /\ chunks' \in [Version -> [Chunk -> Bytes \cup {NoBytes}]]
      /\ footers' \in [Version -> 0 .. MaxVersion]
      /\ CachesOK'
  BY DEF ParquetInv, TypeOK, CachesOK, MetadataMiss
<1>. QED
  BY <1>2, <1>5, <1>6, <1>7, <1>8, <1>9, ReadKeeps

\* Without an identity the footer is fetched.
LEMMA MetadataUncachedKeeps ==
  ASSUME ParquetInv, NEW r \in Reader, MetadataUncached(r)
  PROVE  ParquetInv'
<1>. DEFINE d == [call[r] EXCEPT !.pc = "footer"]
<1>1. /\ call[r] \in Call /\ CallOK(call[r], version) /\ version \in Version
      /\ version \in Nat
  BY ParquetAssumption DEF ParquetInv, TypeOK, CallsOK, Version
<1>2. /\ call[r].pc = "metadata" /\ call[r].ident \in 1 .. version
      /\ call[r].ident \in Version
  BY <1>1, ParquetAssumption DEF CallOK, MetadataUncached, Version
<1>3. call[r].footer \in 0 .. MaxVersion /\ call[r].ident \in 0 .. MaxVersion
  BY <1>1 DEF Call
<1>5. /\ d \in Call /\ d.pc = "footer" /\ d.ident = call[r].ident
      /\ d.footer = call[r].footer /\ d.fetched = call[r].fetched /\ d.i = call[r].i
  BY <1>1 DEF Call
<1>6. call' = [call EXCEPT ![r] = d]
  BY DEF MetadataUncached
<1>. HIDE DEF d
<1>7. CallOK(d, version)
  BY <1>1, <1>2, <1>3, <1>5, EarlyOK
<1>8. stats' \in Stat /\ lookups' \in [ranges : Nat, footers : Nat]
  BY DEF ParquetInv, TypeOK, Stat, MetadataUncached
<1>9. /\ UNCHANGED <<version, identified, slot, lock>>
      /\ chunks' \in [Version -> [Chunk -> Bytes \cup {NoBytes}]]
      /\ footers' \in [Version -> 0 .. MaxVersion]
      /\ CachesOK'
  BY DEF ParquetInv, TypeOK, CachesOK, MetadataUncached
<1>. QED
  BY <1>2, <1>5, <1>6, <1>7, <1>8, <1>9, ReadKeeps

\* A fetched footer is of the current version.
LEMMA FetchFooterKeeps ==
  ASSUME ParquetInv, NEW r \in Reader, FetchFooter(r)
  PROVE  ParquetInv'
<1>. DEFINE d == [call[r] EXCEPT !.footer = version, !.pc = "keep"]
<1>1. /\ call[r] \in Call /\ CallOK(call[r], version) /\ version \in Version
      /\ version \in Nat
  BY ParquetAssumption DEF ParquetInv, TypeOK, CallsOK, Version
<1>2. /\ call[r].pc = "footer" /\ call[r].ident \in 1 .. version
      /\ call[r].ident \in Version
  BY <1>1, ParquetAssumption DEF CallOK, FetchFooter, Version
<1>3. call[r].footer \in 0 .. MaxVersion /\ call[r].ident \in 0 .. MaxVersion
  BY <1>1 DEF Call
<1>4. version \in call[r].ident .. version /\ version \in 0 .. MaxVersion
  BY <1>1, <1>2, ParquetAssumption DEF Version
<1>5. /\ d \in Call /\ d.pc = "keep" /\ d.ident = call[r].ident
      /\ d.footer = version /\ d.fetched = call[r].fetched /\ d.i = call[r].i
  BY <1>1, <1>4 DEF Call
<1>6. call' = [call EXCEPT ![r] = d]
  BY DEF FetchFooter
<1>. HIDE DEF d
<1>7. CallOK(d, version)
  BY <1>1, <1>2, <1>3, <1>4, <1>5, EarlyOK
<1>8. stats' \in Stat /\ lookups' \in [ranges : Nat, footers : Nat]
  BY DEF ParquetInv, TypeOK, Stat, FetchFooter
<1>9. /\ UNCHANGED <<version, identified, slot, lock>>
      /\ chunks' \in [Version -> [Chunk -> Bytes \cup {NoBytes}]]
      /\ footers' \in [Version -> 0 .. MaxVersion]
      /\ CachesOK'
  BY DEF ParquetInv, TypeOK, CachesOK, FetchFooter
<1>. QED
  BY <1>2, <1>5, <1>6, <1>7, <1>8, <1>9, ReadKeeps

\* The fetched footer is kept under the identity of the reader.
LEMMA KeepFooterKeeps ==
  ASSUME ParquetInv, NEW r \in Reader, KeepFooter(r)
  PROVE  ParquetInv'
<1>. DEFINE d == [call[r] EXCEPT !.pc = "ask"]
<1>1. /\ call[r] \in Call /\ CallOK(call[r], version) /\ version \in Version
      /\ version \in Nat
  BY ParquetAssumption DEF ParquetInv, TypeOK, CallsOK, Version
<1>2. /\ call[r].pc = "keep" /\ call[r].ident \in 1 .. version
      /\ call[r].ident \in Version
  BY <1>1, ParquetAssumption DEF CallOK, KeepFooter, Version
<1>3. call[r].footer \in 0 .. MaxVersion /\ call[r].ident \in 0 .. MaxVersion
  BY <1>1 DEF Call
<1>4. call[r].footer \in call[r].ident .. version
  BY <1>1, <1>2 DEF CallOK
<1>5. /\ d \in Call /\ d.pc = "ask" /\ d.ident = call[r].ident
      /\ d.footer = call[r].footer /\ d.fetched = call[r].fetched /\ d.i = call[r].i
  BY <1>1, <1>4 DEF Call
<1>6. call' = [call EXCEPT ![r] = d]
  BY DEF KeepFooter
<1>. HIDE DEF d
<1>7. CallOK(d, version)
  BY <1>1, <1>2, <1>3, <1>4, <1>5, EarlyOK
<1>8. stats' \in Stat /\ lookups' \in [ranges : Nat, footers : Nat]
  BY DEF ParquetInv, TypeOK, Stat, KeepFooter
<1>9. /\ UNCHANGED <<version, identified, slot, lock>>
      /\ chunks' \in [Version -> [Chunk -> Bytes \cup {NoBytes}]]
      /\ footers' \in [Version -> 0 .. MaxVersion]
      /\ CachesOK'
  <2>1. UNCHANGED <<version, identified, slot, lock, chunks>>
    BY DEF KeepFooter
  <2>2. chunks' \in [Version -> [Chunk -> Bytes \cup {NoBytes}]]
    BY <2>1 DEF ParquetInv, TypeOK
  <2>3. footers' \in [Version -> 0 .. MaxVersion]
        /\ \A w \in Version : footers'[w] = footers[w]
                              \/ (w = call[r].ident /\ footers'[w] = call[r].footer)
    BY <1>2, <1>3 DEF ParquetInv, TypeOK, KeepFooter
  <2>4. CachesOK'
    BY <1>4, <2>1, <2>3 DEF ParquetInv, CachesOK
  <2>. QED
    BY <2>1, <2>2, <2>3, <2>4
<1>. QED
  BY <1>2, <1>5, <1>6, <1>7, <1>8, <1>9, ReadKeeps

\* A request begins.
LEMMA AskKeeps ==
  ASSUME ParquetInv, NEW r \in Reader, NEW q \in Request, Ask(r, q)
  PROVE  ParquetInv'
<1>. DEFINE d == [call[r] EXCEPT !.request = q,
                                !.ordered = [i \in 1 .. Len(q) |-> NoBytes],
                                !.missing = IF identified THEN <<>> ELSE Indexes(q),
                                !.pc = IF identified THEN "lookup" ELSE "fetch"]
<1>1. CallOK(call[r], version) /\ version \in Version /\ call[r] \in Call
  BY DEF ParquetInv, TypeOK, CallsOK
<1>2. call' = [call EXCEPT ![r] = d] /\ call[r].pc = "ask"
  BY DEF Ask
<1>a. q \in Seq(Chunk) /\ identified \in BOOLEAN
  BY ParquetAssumption DEF ParquetInv, TypeOK
<1>3. CallOK(d, version)
  BY <1>1, <1>2, <1>a, AskOK DEF Ask
<1>4. d.pc \in {"lookup", "fetch"} /\ d.ident = call[r].ident
  BY <1>1, <1>2 DEF Call
<1>. HIDE DEF d
<1>5. /\ UNCHANGED <<version, identified, slot, lock>>
      /\ chunks' \in [Version -> [Chunk -> Bytes \cup {NoBytes}]]
      /\ footers' \in [Version -> 0 .. MaxVersion]
      /\ CachesOK'
  BY DEF ParquetInv, TypeOK, CachesOK, Ask
<1>6. stats' \in Stat /\ lookups' \in [ranges : Nat, footers : Nat]
  BY DEF ParquetInv, TypeOK, Stat, Ask
<1>. QED
  BY <1>2, <1>3, <1>4, <1>5, <1>6, ReadKeeps

\* What is found under the key is truthful, so the position holds it.
LEMMA LookupHitKeeps ==
  ASSUME ParquetInv, NEW r \in Reader, LookupHit(r)
  PROVE  ParquetInv'
<1>. DEFINE d == [call[r] EXCEPT !.ordered = [@ EXCEPT ![call[r].i] = Cached(r)], !.i = @ + 1]
<1>1. CallOK(call[r], version) /\ version \in Version /\ call[r] \in Call
  BY DEF ParquetInv, TypeOK, CallsOK
<1>2. call' = [call EXCEPT ![r] = d] /\ call[r].pc = "lookup"
  BY DEF LookupHit
<1>a. /\ call[r].ident \in Version /\ call[r].i \in 1 .. Len(call[r].request)
  BY <1>1, <1>2, ListTypes, ParquetAssumption, SMTT(40) DEF CallOK, Reading, LookupHit, Version
<1>b. call[r].request[call[r].i] \in Chunk
  BY <1>1, <1>a, ListTypes, ElementOfSeq
<1>c. Cached(r) \in Bytes
      /\ Truthful(Cached(r), call[r].request[call[r].i], call[r].ident, version)
  BY <1>a, <1>b DEF ParquetInv, TypeOK, CachesOK, LookupHit, Cached
<1>3. CallOK(d, version)
  BY <1>1, <1>2, <1>a, <1>c, HitOK DEF LookupHit
<1>4. d.pc \in {"lookup"} /\ d.ident = call[r].ident
  BY <1>1, <1>2 DEF Call
<1>. HIDE DEF d
<1>5. /\ UNCHANGED <<version, identified, slot, lock>>
      /\ chunks' \in [Version -> [Chunk -> Bytes \cup {NoBytes}]]
      /\ footers' \in [Version -> 0 .. MaxVersion]
      /\ CachesOK'
  BY DEF ParquetInv, TypeOK, CachesOK, LookupHit
<1>6. stats' \in Stat /\ lookups' \in [ranges : Nat, footers : Nat]
  <2>1. stats \in Stat /\ lookups \in [ranges : Nat, footers : Nat]
    BY DEF ParquetInv, TypeOK
  <2>2. /\ stats' = [stats EXCEPT !.hits = @ + 1]
        /\ lookups' = [lookups EXCEPT !.ranges = @ + 1]
    BY DEF LookupHit
  <2>. QED
    BY <2>1, <2>2 DEF Stat
<1>. QED
  BY <1>2, <1>3, <1>4, <1>5, <1>6, ReadKeeps

\* What is not found is remembered.
LEMMA LookupMissKeeps ==
  ASSUME ParquetInv, NEW r \in Reader, LookupMiss(r)
  PROVE  ParquetInv'
<1>. DEFINE d == [call[r] EXCEPT !.missing = Append(@, call[r].i), !.i = @ + 1]
<1>1. CallOK(call[r], version) /\ version \in Version /\ call[r] \in Call
  BY DEF ParquetInv, TypeOK, CallsOK
<1>2. call' = [call EXCEPT ![r] = d] /\ call[r].pc = "lookup"
  BY DEF LookupMiss
<1>3. CallOK(d, version)
  BY <1>1, <1>2, MissOK DEF LookupMiss
<1>4. d.pc \in {"lookup"} /\ d.ident = call[r].ident
  BY <1>1, <1>2 DEF Call
<1>. HIDE DEF d
<1>5. /\ UNCHANGED <<version, identified, slot, lock>>
      /\ chunks' \in [Version -> [Chunk -> Bytes \cup {NoBytes}]]
      /\ footers' \in [Version -> 0 .. MaxVersion]
      /\ CachesOK'
  BY DEF ParquetInv, TypeOK, CachesOK, LookupMiss
<1>6. stats' \in Stat /\ lookups' \in [ranges : Nat, footers : Nat]
  BY SMTT(40) DEF ParquetInv, TypeOK, Stat, LookupMiss
<1>. QED
  BY <1>2, <1>3, <1>4, <1>5, <1>6, ReadKeeps

\* The misses are counted.
LEMMA LookedUpKeeps ==
  ASSUME ParquetInv, NEW r \in Reader, LookedUp(r)
  PROVE  ParquetInv'
<1>. DEFINE d == [call[r] EXCEPT !.pc = IF call[r].missing = <<>> THEN "answered" ELSE "fetch"]
<1>1. CallOK(call[r], version) /\ version \in Version /\ call[r] \in Call
  BY DEF ParquetInv, TypeOK, CallsOK
<1>2. call' = [call EXCEPT ![r] = d] /\ call[r].pc = "lookup"
  BY DEF LookedUp
<1>3. CallOK(d, version)
  BY <1>1, <1>2, LookedUpOK DEF LookedUp
<1>4. d.pc \in {"answered", "fetch"} /\ d.ident = call[r].ident
  BY <1>1, <1>2 DEF Call
<1>. HIDE DEF d
<1>5. /\ UNCHANGED <<version, identified, slot, lock>>
      /\ chunks' \in [Version -> [Chunk -> Bytes \cup {NoBytes}]]
      /\ footers' \in [Version -> 0 .. MaxVersion]
      /\ CachesOK'
  BY DEF ParquetInv, TypeOK, CachesOK, LookedUp
<1>6. stats' \in Stat /\ lookups' \in [ranges : Nat, footers : Nat]
  <2>1. Len(call[r].missing) \in Nat
    BY <1>1, ListTypes
  <2>. QED
    <3>1. stats \in Stat /\ stats.misses + Len(call[r].missing) \in Nat
      BY <2>1 DEF ParquetInv, TypeOK, Stat
    <3>2. stats' = [stats EXCEPT !.misses = stats.misses + Len(call[r].missing)]
          /\ lookups' = lookups
      BY DEF LookedUp
    <3>3. stats' \in Stat
      BY <3>1, <3>2 DEF Stat
    <3>. QED
      BY <3>2, <3>3 DEF ParquetInv, TypeOK
<1>. QED
  BY <1>2, <1>3, <1>4, <1>5, <1>6, ReadKeeps

\* The next missing range arrives.
LEMMA FetchKeeps ==
  ASSUME ParquetInv, NEW r \in Reader, Fetch(r)
  PROVE  ParquetInv'
<1>. DEFINE d == [call[r] EXCEPT !.fetched =
                Append(@, [range |-> call[r].request[call[r].missing[Len(call[r].fetched) + 1]],
                           version |-> version])]
<1>1. CallOK(call[r], version) /\ version \in Version /\ call[r] \in Call
  BY DEF ParquetInv, TypeOK, CallsOK
<1>2. call' = [call EXCEPT ![r] = d] /\ call[r].pc = "fetch"
  BY DEF Fetch
<1>3. CallOK(d, version)
  BY <1>1, <1>2, FetchOK DEF Fetch
<1>4. d.pc \in {"fetch"} /\ d.ident = call[r].ident
  BY <1>1, <1>2 DEF Call
<1>. HIDE DEF d
<1>5. /\ UNCHANGED <<version, identified, slot, lock>>
      /\ chunks' \in [Version -> [Chunk -> Bytes \cup {NoBytes}]]
      /\ footers' \in [Version -> 0 .. MaxVersion]
      /\ CachesOK'
  BY DEF ParquetInv, TypeOK, CachesOK, Fetch
<1>6. stats' \in Stat /\ lookups' \in [ranges : Nat, footers : Nat]
  BY DEF ParquetInv, TypeOK, Stat, Fetch
<1>. QED
  BY <1>2, <1>3, <1>4, <1>5, <1>6, ReadKeeps

\* All that was missing has arrived.
LEMMA FetchedKeeps ==
  ASSUME ParquetInv, NEW r \in Reader, Fetched(r)
  PROVE  ParquetInv'
<1>. DEFINE d == [call[r] EXCEPT !.pc = "store", !.i = 1]
<1>1. CallOK(call[r], version) /\ version \in Version /\ call[r] \in Call
  BY DEF ParquetInv, TypeOK, CallsOK
<1>2. call' = [call EXCEPT ![r] = d] /\ call[r].pc = "fetch"
  BY DEF Fetched
<1>3. CallOK(d, version)
  BY <1>1, <1>2, FetchedOK DEF Fetched
<1>4. d.pc \in {"store"} /\ d.ident = call[r].ident
  BY <1>1, <1>2 DEF Call
<1>. HIDE DEF d
<1>5. /\ UNCHANGED <<version, identified, slot, lock>>
      /\ chunks' \in [Version -> [Chunk -> Bytes \cup {NoBytes}]]
      /\ footers' \in [Version -> 0 .. MaxVersion]
      /\ CachesOK'
  BY DEF ParquetInv, TypeOK, CachesOK, Fetched
<1>6. stats' \in Stat /\ lookups' \in [ranges : Nat, footers : Nat]
  BY DEF ParquetInv, TypeOK, Stat, Fetched
<1>. QED
  BY <1>2, <1>3, <1>4, <1>5, <1>6, ReadKeeps

\* The bytes are kept under the key of the range they are of.
LEMMA StoreKeeps ==
  ASSUME ParquetInv, NEW r \in Reader, Store(r)
  PROVE  ParquetInv'
<1>. DEFINE d == [call[r] EXCEPT !.ordered = [@ EXCEPT ![call[r].missing[call[r].i]] =
                                               call[r].fetched[call[r].i]],
                                !.i = @ + 1]
<1>1. CallOK(call[r], version) /\ version \in Version /\ call[r] \in Call
  BY DEF ParquetInv, TypeOK, CallsOK
<1>2. call' = [call EXCEPT ![r] = d] /\ call[r].pc = "store"
  BY DEF Store
<1>. DEFINE g == call[r].request[call[r].missing[call[r].i]]
            b == call[r].fetched[call[r].i]
<1>a. /\ g \in Chunk /\ b \in Bytes /\ Truthful(b, g, call[r].ident, version)
      /\ CallOK(d, version)
  BY <1>1, <1>2, StoreOK DEF Store
<1>b. call[r].ident \in Version
  BY <1>1, <1>2, ParquetAssumption DEF CallOK, Version
<1>3. CallOK(d, version)
  BY <1>1, <1>2, <1>a, StoreOK DEF Store
<1>4. d.pc \in {"store"} /\ d.ident = call[r].ident
  BY <1>1, <1>2 DEF Call
<1>. HIDE DEF d
<1>5. /\ UNCHANGED <<version, identified, slot, lock>>
      /\ chunks' \in [Version -> [Chunk -> Bytes \cup {NoBytes}]]
      /\ footers' \in [Version -> 0 .. MaxVersion]
      /\ CachesOK'
  <2>1. UNCHANGED <<version, identified, slot, lock, footers>>
    BY DEF Store
  <2>2. chunks' = IF identified THEN [chunks EXCEPT ![call[r].ident][g] = b] ELSE chunks
    BY DEF Store
  <2>. HIDE DEF g, b
  <2>3. chunks' \in [Version -> [Chunk -> Bytes \cup {NoBytes}]]
    BY <1>a, <1>b, <2>2 DEF ParquetInv, TypeOK
  <2>4. \A w \in Version, h \in Chunk :
          chunks'[w][h] = chunks[w][h]
          \/ (w = call[r].ident /\ h = g /\ chunks'[w][h] = b)
    BY <1>a, <1>b, <2>2 DEF ParquetInv, TypeOK
  <2>5. CachesOK'
    BY <1>a, <2>1, <2>4 DEF ParquetInv, CachesOK
  <2>. QED
    BY <2>1, <2>3, <2>5 DEF ParquetInv, TypeOK
<1>6. stats' \in Stat /\ lookups' \in [ranges : Nat, footers : Nat]
  BY DEF ParquetInv, TypeOK, Stat, Store
<1>. QED
  BY <1>2, <1>3, <1>4, <1>5, <1>6, ReadKeeps

\* The answer is complete, or the call fails.
LEMMA AssembleKeeps ==
  ASSUME ParquetInv, NEW r \in Reader, Assemble(r)
  PROVE  ParquetInv'
<1>1. CallOK(call[r], version) /\ version \in Version /\ call[r] \in Call
  BY DEF ParquetInv, TypeOK, CallsOK
<1>2. CASE ~ Complete(r)
  <2>1. Fail(r) /\ call[r].pc # "idle"
    BY <1>2 DEF Assemble, Fail
  <2>. QED
    BY <2>1, FailKeeps
<1>3. CASE Complete(r)
  <2>. DEFINE d == [call[r] EXCEPT !.pc = "answered"]
  <2>1. /\ call' = [call EXCEPT ![r] = d] /\ call[r].pc = "store"
        /\ UNCHANGED <<version, identified, slot, lock, chunks, footers, stats, lookups>>
    BY <1>3 DEF Assemble
  <2>2. CallOK(d, version)
    BY <1>1, <1>3, <2>1, AssembleOK DEF Complete
  <2>3. d.pc = "answered" /\ d.ident = call[r].ident
    BY <1>1 DEF Call
  <2>. HIDE DEF d
  <2>4. /\ stats' \in Stat /\ lookups' \in [ranges : Nat, footers : Nat]
        /\ chunks' \in [Version -> [Chunk -> Bytes \cup {NoBytes}]]
        /\ footers' \in [Version -> 0 .. MaxVersion]
        /\ CachesOK'
    BY <2>1 DEF ParquetInv, TypeOK, CachesOK
  <2>. QED
    BY <2>1, <2>2, <2>3, <2>4, ReadKeeps
<1>. QED
  BY <1>2, <1>3

-----------------------------------------------------------------------------
\* Every step of every thread, of the object store and of moka keeps the
\* invariant.
LEMMA NextKeeps == ParquetInv /\ [Next]_vars => ParquetInv'
<1>. SUFFICES ASSUME ParquetInv, [Next]_vars PROVE ParquetInv'
  OBVIOUS
<1>1. CASE UNCHANGED vars
  BY <1>1 DEF ParquetInv, TypeOK, CallsOK, CachesOK, SessionOK, vars
<1>2. CASE Republish
  BY <1>2, RepublishKeeps
<1>3. CASE \E v \in Version, g \in Chunk : Evict(v, g)
  BY <1>3, EvictKeeps
<1>4. ASSUME NEW r \in Reader, Step(r) PROVE ParquetInv'
  <2>1. CASE UseEngine(r)
    BY <2>1, UseEngineKeeps
  <2>2. CASE BeginOpen(r)
    BY <2>2, BeginOpenKeeps
  <2>3. CASE HeadObject(r)
    BY <2>3, HeadObjectKeeps
  <2>4. CASE OpenSucceeds(r)
    BY <2>4, OpenSucceedsKeeps
  <2>5. CASE OpenFails(r) \/ FooterFails(r) \/ FetchFails(r)
    BY <2>5, FailKeeps DEF OpenFails, FooterFails, FetchFails
  <2>6. CASE MetadataHit(r)
    BY <2>6, MetadataHitKeeps
  <2>7. CASE MetadataMiss(r)
    BY <2>7, MetadataMissKeeps
  <2>8. CASE MetadataUncached(r)
    BY <2>8, MetadataUncachedKeeps
  <2>9. CASE FetchFooter(r)
    BY <2>9, FetchFooterKeeps
  <2>10. CASE KeepFooter(r)
    BY <2>10, KeepFooterKeeps
  <2>11. CASE \E q \in Request : Ask(r, q)
    BY <2>11, AskKeeps
  <2>12. CASE LookupHit(r)
    BY <2>12, LookupHitKeeps
  <2>13. CASE LookupMiss(r)
    BY <2>13, LookupMissKeeps
  <2>14. CASE LookedUp(r)
    BY <2>14, LookedUpKeeps
  <2>15. CASE Fetch(r)
    BY <2>15, FetchKeeps
  <2>16. CASE Fetched(r)
    BY <2>16, FetchedKeeps
  <2>17. CASE Store(r)
    BY <2>17, StoreKeeps
  <2>18. CASE Assemble(r)
    BY <2>18, AssembleKeeps
  <2>. QED
    BY <1>4, <2>1, <2>2, <2>3, <2>4, <2>5, <2>6, <2>7, <2>8, <2>9, <2>10, <2>11,
       <2>12, <2>13, <2>14, <2>15, <2>16, <2>17, <2>18 DEF Step
<1>. QED
  BY <1>1, <1>2, <1>3, <1>4 DEF Next

\* The strengthening holds in every reachable state.
LEMMA ParquetInvHolds == Spec => []ParquetInv
<1>1. Init => ParquetInv
  BY InitHolds
<1>2. ParquetInv /\ [Next]_vars => ParquetInv'
  BY NextKeeps
<1>. QED
  BY <1>1, <1>2, PTL DEF Spec

\* The caches, the engine's slot and the calls keep their types, for any
\* requests, capacity and number of republications.
THEOREM ParquetTypeCorrect == Spec => []TypeOK
<1>1. ParquetInv => TypeOK
  BY DEF ParquetInv
<1>. QED
  BY <1>1, ParquetInvHolds, PTL

\* get_byte_ranges answers every range of every request with bytes of that
\* range, in the order asked, however hits, misses, evictions and the inserts
\* of other threads interleave.
THEOREM AnswersInOrderHolds == Spec => []AnswersInOrder
<1>1. ParquetInv => AnswersInOrder
  <2>. SUFFICES ASSUME ParquetInv, NEW r \in Reader, call[r].pc = "answered"
               PROVE  /\ Len(call[r].ordered) = Len(call[r].request)
                      /\ \A i \in 1 .. Len(call[r].request) :
                           /\ call[r].ordered[i] \in Bytes
                           /\ call[r].ordered[i].range = call[r].request[i]
    BY DEF AnswersInOrder
  <2>1. call[r] \in Call /\ Reading(call[r], version)
    BY DEF ParquetInv, CallsOK, CallOK
  <2>2. ASSUME NEW i \in 1 .. Len(call[r].request)
        PROVE  /\ call[r].ordered[i] \in Bytes
               /\ call[r].ordered[i].range = call[r].request[i]
    <3>1. i \in 1 .. Len(call[r].ordered) /\ call[r].ordered[i] # NoBytes
      BY <2>1 DEF Reading
    <3>2. call[r].ordered[i] \in Bytes \cup {NoBytes}
      BY <2>1, <3>1, ListTypes, ElementOfSeq
    <3>. QED
      BY <2>1, <3>1, <3>2 DEF Reading, Truthful
  <2>. QED
    BY <2>1, <2>2 DEF Reading
<1>. QED
  BY <1>1, ParquetInvHolds, PTL

\* No session reads bytes or a footer older than its own HEAD request saw, and
\* it reads two versions only when the object changed after that, although all
\* sessions and failed opens of an engine share the caches.
THEOREM NeverOlderThanHeadHolds == Spec => []NeverOlderThanHead
<1>1. ParquetInv => NeverOlderThanHead
  BY DEF ParquetInv, CallsOK, CallOK, Reading, Truthful, NeverOlderThanHead
<1>. QED
  BY <1>1, ParquetInvHolds, PTL

\* All calls of an engine that are answered were answered through the one
\* session in its slot.
THEOREM OneSessionHolds == Spec => []OneSession
<1>1. ParquetInv => OneSession
  BY DEF ParquetInv, SessionOK, OneSession, Answered
<1>. QED
  BY <1>1, ParquetInvHolds, PTL

\* One session per engine, and no answer older than its HEAD.
THEOREM OneCurrentSessionHolds == Spec => []OneCurrentSession
BY NeverOlderThanHeadHolds, OneSessionHolds, PTL DEF OneCurrentSession

-----------------------------------------------------------------------------
(***************************************************************************)
(* The counters.  A miss is counted after the loop, so what is looked up   *)
(* and not yet counted are the missing ranges of the calls in their loops. *)
(* They are counted as a set of pairs: each step of a call adds one pair   *)
(* or removes all of its own, whatever the other calls hold.               *)
(***************************************************************************)
Uncounted ==
  {p \in Reader \X Nat : /\ call[p[1]].pc = "lookup"
                         /\ p[2] \in 1 .. Len(call[p[1]].missing)}

CountInv ==
  /\ IsFiniteSet(Uncounted)
  /\ stats.hits + stats.misses + Cardinality(Uncounted) = lookups.ranges
  /\ stats.footerHits + stats.footerMisses = lookups.footers

\* A call outside its loop, or without a miss so far, owes no count.
OwesNothing(c) == c.pc # "lookup" \/ c.missing = <<>>

LEMMA UncountedFrame ==
  ASSUME NEW r \in Reader, TypeOK, NEW d, call' = [call EXCEPT ![r] = d],
         OwesNothing(call[r]), OwesNothing(d)
  PROVE  Uncounted' = Uncounted
<1>1. DOMAIN call = Reader
  BY DEF TypeOK
<1>2. ASSUME NEW c, OwesNothing(c) PROVE ~(c.pc = "lookup" /\ \E n \in Nat : n \in 1 .. Len(c.missing))
  BY <1>2 DEF OwesNothing
<1>. QED
  BY <1>1, <1>2 DEF Uncounted

LEMMA CountFrame ==
  ASSUME CountInv, Uncounted' = Uncounted, stats' = stats, lookups' = lookups
  PROVE  CountInv'
BY DEF CountInv

\* A hit is one lookup and one hit.
LEMMA HitCounted ==
  ASSUME ParquetInv, CountInv, NEW r \in Reader, LookupHit(r)
  PROVE  CountInv'
<1>1. \A x \in Reader : /\ call'[x].pc = call[x].pc
                        /\ call'[x].missing = call[x].missing
  <2>1. call \in [Reader -> Call]
    BY DEF ParquetInv, TypeOK
  <2>2. /\ [call[r] EXCEPT !.ordered = [@ EXCEPT ![call[r].i] = Cached(r)], !.i = @ + 1].pc = call[r].pc
        /\ [call[r] EXCEPT !.ordered = [@ EXCEPT ![call[r].i] = Cached(r)], !.i = @ + 1].missing = call[r].missing
    BY <2>1 DEF Call
  <2>. QED
    BY <2>1, <2>2 DEF LookupHit
<1>2. Uncounted' = Uncounted
  BY <1>1 DEF Uncounted
<1>3. /\ stats' = [stats EXCEPT !.hits = @ + 1]
      /\ lookups' = [lookups EXCEPT !.ranges = @ + 1]
      /\ stats \in Stat /\ lookups \in [ranges : Nat, footers : Nat]
  BY DEF LookupHit, ParquetInv, TypeOK
<1>4. Cardinality(Uncounted) \in Nat
  BY FS_CardinalityType DEF CountInv
<1>. QED
  BY <1>2, <1>3, <1>4 DEF CountInv, Stat

\* A miss is one lookup, and one more range to count.
LEMMA MissCounted ==
  ASSUME ParquetInv, CountInv, NEW r \in Reader, LookupMiss(r)
  PROVE  CountInv'
<1>. DEFINE n == Len(call[r].missing) + 1
<1>1. /\ call \in [Reader -> Call] /\ call[r].missing \in Seq(Nat) /\ call[r].i \in Nat
      /\ stats \in Stat /\ lookups \in [ranges : Nat, footers : Nat]
      /\ call[r].pc = "lookup" /\ n \in Nat
  BY ListTypes DEF ParquetInv, TypeOK, LookupMiss
<1>2. /\ call'[r].pc = "lookup" /\ Len(call'[r].missing) = n
      /\ \A x \in Reader : x # r => call'[x] = call[x]
  <2>1. call'[r] = [call[r] EXCEPT !.missing = Append(@, call[r].i), !.i = @ + 1]
    BY <1>1 DEF LookupMiss
  <2>2. call'[r].pc = call[r].pc /\ call'[r].missing = Append(call[r].missing, call[r].i)
    BY <1>1, <2>1 DEF Call
  <2>. QED
    BY <1>1, <2>2, AppendFacts DEF LookupMiss
<1>3. Uncounted' = Uncounted \cup {<<r, n>>}
  <2>1. ASSUME NEW x \in Reader, NEW k \in Nat
        PROVE  <<x, k>> \in Uncounted' <=> <<x, k>> \in Uncounted \/ <<x, k>> = <<r, n>>
    <3>1. CASE x = r
      <4>1. <<r, k>> \in Uncounted <=> k \in 1 .. Len(call[r].missing)
        BY <1>1 DEF Uncounted
      <4>2. <<r, k>> \in Uncounted' <=> k \in 1 .. Len(call'[r].missing)
        BY <1>2 DEF Uncounted
      <4>3. Len(call[r].missing) \in Nat
        BY <1>1, LenProperties
      <4>4. k \in 1 .. n <=> k \in 1 .. Len(call[r].missing) \/ k = n
        BY <4>3
      <4>5. <<r, k>> = <<r, n>> <=> k = n
        OBVIOUS
      <4>. QED
        BY <1>2, <3>1, <4>1, <4>2, <4>4, <4>5
    <3>2. CASE x # r
      BY <1>2, <3>2 DEF Uncounted
    <3>. QED
      BY <3>1, <3>2
  <2>2. Uncounted \subseteq Reader \X Nat /\ Uncounted' \subseteq Reader \X Nat
    BY DEF Uncounted
  <2>. QED
    BY <1>1, <2>1, <2>2
<1>4. <<r, n>> \notin Uncounted
  BY <1>1, ListTypes DEF Uncounted
<1>5. IsFiniteSet(Uncounted') /\ Cardinality(Uncounted') = Cardinality(Uncounted) + 1
  BY <1>3, <1>4, FS_AddElement DEF CountInv
<1>6. Cardinality(Uncounted) \in Nat
  BY FS_CardinalityType DEF CountInv
<1>7. stats' = stats /\ lookups' = [lookups EXCEPT !.ranges = @ + 1]
  BY DEF LookupMiss
<1>. QED
  BY <1>1, <1>5, <1>6, <1>7 DEF CountInv, Stat

\* After the loop, all the misses of the call are counted at once.
LEMMA LoopCounted ==
  ASSUME ParquetInv, CountInv, NEW r \in Reader, LookedUp(r)
  PROVE  CountInv'
<1>. DEFINE n == Len(call[r].missing)  Own == {r} \X (1 .. n)
<1>1. /\ call \in [Reader -> Call] /\ n \in Nat /\ call[r].pc = "lookup"
      /\ stats \in Stat /\ lookups \in [ranges : Nat, footers : Nat]
  BY ListTypes DEF ParquetInv, TypeOK, LookedUp
<1>2. call'[r].pc # "lookup" /\ \A x \in Reader : x # r => call'[x] = call[x]
  BY <1>1 DEF LookedUp, Call
<1>3. Uncounted' = Uncounted \ Own
  <2>1. ASSUME NEW x \in Reader, NEW k \in Nat
        PROVE  <<x, k>> \in Uncounted' <=> <<x, k>> \in Uncounted /\ <<x, k>> \notin Own
    <3>1. CASE x = r
      BY <1>1, <1>2, <3>1 DEF Uncounted
    <3>2. CASE x # r
      BY <1>2, <3>2 DEF Uncounted
    <3>. QED
      BY <3>1, <3>2
  <2>2. Uncounted \subseteq Reader \X Nat /\ Uncounted' \subseteq Reader \X Nat
    BY DEF Uncounted
  <2>. QED
    BY <2>1, <2>2
<1>4. Uncounted \cap Own = Own
  BY <1>1 DEF Uncounted
<1>5. Cardinality(Own) = n
  <2>1. IsFiniteSet({r}) /\ Cardinality({r}) = 1
    BY FS_Singleton
  <2>2. IsFiniteSet(1 .. n) /\ Cardinality(1 .. n) = n
    <3>. HIDE DEF n
    <3>1. n \in Int /\ 1 \in Int /\ n >= 0
      BY <1>1
    <3>2. IsFiniteSet(1 .. n) /\ Cardinality(1 .. n) = IF 1 > n THEN 0 ELSE n - 1 + 1
      BY <3>1, FS_Interval
    <3>. QED
      BY <3>1, <3>2
  <2>3. Cardinality({r} \X (1 .. n)) = Cardinality({r}) * Cardinality(1 .. n)
    <3>. DEFINE A == {r}  B == 1 .. n
    <3>1. IsFiniteSet(A) /\ IsFiniteSet(B)
      BY <2>1, <2>2
    <3>2. Cardinality(A \X B) = Cardinality(A) * Cardinality(B)
      <4>. HIDE DEF A, B
      <4>. QED
        BY <3>1, FS_Product
    <3>. QED
      BY <3>2
  <2>4. Cardinality(Own) = 1 * n
    BY <2>1, <2>2, <2>3
  <2>. QED
    BY <1>1, <2>4
<1>6. IsFiniteSet(Uncounted') /\ Cardinality(Uncounted') = Cardinality(Uncounted) - n
  <2>. HIDE DEF Own, n
  <2>. QED
    BY <1>3, <1>4, <1>5, FS_Difference DEF CountInv
<1>7. Cardinality(Uncounted) \in Nat
  BY FS_CardinalityType DEF CountInv
<1>8. stats' = [stats EXCEPT !.misses = @ + n] /\ lookups' = lookups
  BY DEF LookedUp
<1>. QED
  BY <1>1, <1>6, <1>7, <1>8, SMTT(40) DEF CountInv, Stat

LEMMA InitCounted == Init => CountInv
<1>. SUFFICES ASSUME Init PROVE CountInv
  OBVIOUS
<1>1. Uncounted = {}
  BY DEF Init, Uncounted, Fresh
<1>. QED
  BY <1>1, FS_EmptySet DEF Init, CountInv

LEMMA NextCounted == ParquetInv /\ CountInv /\ [Next]_vars => CountInv'
<1>. SUFFICES ASSUME ParquetInv, CountInv, [Next]_vars PROVE CountInv'
  OBVIOUS
<1>t. TypeOK /\ call \in [Reader -> Call] /\ stats \in Stat /\ lookups \in [ranges : Nat, footers : Nat]
  BY DEF ParquetInv, TypeOK
<1>1. CASE call' = call /\ stats' = stats /\ lookups' = lookups
  BY <1>1, CountFrame DEF Uncounted
<1>2. ASSUME NEW r \in Reader, NEW d, call' = [call EXCEPT ![r] = d],
             call[r].pc # "lookup", OwesNothing(d), stats' = stats, lookups' = lookups
      PROVE  CountInv'
  <2>1. Uncounted' = Uncounted
    BY <1>t, <1>2, UncountedFrame DEF OwesNothing
  <2>. QED
    BY <1>2, <2>1, CountFrame
<1>3. ASSUME NEW r \in Reader, Step(r) PROVE CountInv'
  <2>0. call[r] \in Call
    BY <1>t
  <2>1. CASE UseEngine(r) \/ BeginOpen(r) \/ HeadObject(r) \/ MetadataUncached(r) \/ FetchFooter(r)
             \/ KeepFooter(r)
    BY <1>2, <2>0, <2>1 DEF UseEngine, BeginOpen, HeadObject, MetadataUncached, FetchFooter,
                    KeepFooter, OwesNothing, Call
  <2>2. CASE OpenSucceeds(r)
    BY <1>2, <2>0, <2>2 DEF OpenSucceeds, OwesNothing, Fresh
  <2>3. CASE OpenFails(r) \/ FooterFails(r) \/ FetchFails(r)
    BY <1>2, <2>0, <2>3 DEF OpenFails, FooterFails, FetchFails, Fail, OwesNothing, Call
  <2>4. CASE MetadataHit(r) \/ MetadataMiss(r)
    <3>1. Uncounted' = Uncounted
      BY <1>t, <2>0, <2>4, UncountedFrame DEF MetadataHit, MetadataMiss, OwesNothing, Call
    <3>2. Cardinality(Uncounted) \in Nat
      BY FS_CardinalityType DEF CountInv
    <3>. QED
      BY <1>t, <2>4, <3>1, <3>2 DEF MetadataHit, MetadataMiss, CountInv, Stat
  <2>5. CASE \E q \in Request : Ask(r, q)
    <3>1. PICK q \in Request : Ask(r, q)
      BY <2>5
    <3>. DEFINE d == [call[r] EXCEPT !.request = q,
                        !.ordered = [i \in 1 .. Len(q) |-> NoBytes],
                        !.missing = IF identified THEN <<>> ELSE Indexes(q),
                        !.pc = IF identified THEN "lookup" ELSE "fetch"]
    <3>2. OwesNothing(d)
      BY <1>t, <2>0 DEF OwesNothing, Call, TypeOK
    <3>. QED
      BY <1>2, <3>1, <3>2 DEF Ask
  <2>6. CASE LookupHit(r)
    BY <2>6, HitCounted
  <2>7. CASE LookupMiss(r)
    BY <2>7, MissCounted
  <2>8. CASE LookedUp(r)
    BY <2>8, LoopCounted
  <2>9. CASE Fetch(r) \/ Fetched(r)
    BY <1>2, <2>0, <2>9 DEF Fetch, Fetched, OwesNothing, Call
  <2>10. CASE Store(r)
    BY <1>2, <2>0, <2>10 DEF Store, OwesNothing, Call
  <2>11. CASE Assemble(r)
    BY <1>2, <2>0, <2>11 DEF Assemble, OwesNothing, Call
  <2>. QED
    BY <1>3, <2>1, <2>2, <2>3, <2>4, <2>5, <2>6, <2>7, <2>8, <2>9, <2>10, <2>11 DEF Step
<1>4. CASE Republish \/ (\E v \in Version, g \in Chunk : Evict(v, g)) \/ UNCHANGED vars
  BY <1>1, <1>4 DEF Republish, Evict, vars
<1>. QED
  BY <1>3, <1>4 DEF Next

\* Whenever no call is in its lookup loop, every range and every footer looked up
\* so far has been counted exactly once, as a hit or as a miss, also where the
\* fetch of the misses failed, for any number of threads (get_byte_ranges and
\* get_metadata).
THEOREM CountersAddUpHolds == Spec => []CountersAddUp
<1>1. ParquetInv /\ CountInv => CountersAddUp
  <2>. SUFFICES ASSUME ParquetInv, CountInv, \A r \in Reader : call[r].pc # "lookup"
               PROVE  /\ stats.hits + stats.misses = lookups.ranges
                      /\ stats.footerHits + stats.footerMisses = lookups.footers
    BY DEF CountersAddUp
  <2>1. Uncounted = {}
    BY DEF Uncounted
  <2>2. stats.hits + stats.misses \in Nat
    BY DEF ParquetInv, TypeOK, Stat
  <2>. QED
    BY <2>1, <2>2, FS_EmptySet DEF CountInv
<1>2. ParquetInv /\ CountInv /\ [Next]_vars => CountInv'
  BY NextCounted
<1>. QED
  BY <1>1, <1>2, InitCounted, ParquetInvHolds, PTL DEF Spec

-----------------------------------------------------------------------------
(* What the command line tells of a batch, in the specification that the     *)
(* run checks.                                                               *)

LEMMA LessWellFounded == IsWellFoundedOn({p \in Nat \X Nat : p[1] < p[2]}, Nat)
BY NatLessThanWellFounded, Zenon DEF OpToRel

LEMMA LeastElement ==
  ASSUME NEW T, T \subseteq Nat, T # {}
  PROVE  \E x \in T : \A y \in T : x <= y
<1>. DEFINE R == {p \in Nat \X Nat : p[1] < p[2]}
<1>1. \E x \in T : \A y \in T : <<y, x>> \notin R
  <2>1. IsWellFoundedOn(R, Nat)
    BY LessWellFounded
  <2>. HIDE DEF R
  <2>. QED
    BY <2>1, WFMin
<1>2. PICK x \in T : \A y \in T : <<y, x>> \notin R
  BY <1>1
<1>3. ASSUME NEW y \in T, y < x PROVE FALSE
  <2>1. <<y, x>> \in R
    BY <1>3
  <2>. QED
    BY <1>2, <2>1
<1>. QED
  BY <1>3

\* The entry that the loop keeps of an outlet.
Entry(csv, i) == [id |-> csv[i].id, row |-> i]

\* f is what the loop over the first n outlets has kept after each of them.
Kept(f, csv, fate, n) ==
  f = [i \in 0 .. n |->
         IF i = 0 THEN <<>>
         ELSE IF csv[i].fate = fate THEN Append(f[i - 1], Entry(csv, i))
         ELSE f[i - 1]]

\* The recursion has a solution: it is the one that CHOOSE takes.
LEMMA KeptExists ==
  ASSUME NEW csv, NEW fate, NEW n \in Nat
  PROVE  \E f : Kept(f, csv, fate, n)
<1>. DEFINE T == {m \in Nat : ~\E f : Kept(f, csv, fate, m)}
<1>1. ASSUME T # {} PROVE FALSE
  <2>1. PICK m \in T : \A y \in T : m <= y
    BY <1>1, LeastElement
  <2>2. CASE m = 0
    <3>1. Kept([i \in 0 .. 0 |-> <<>>], csv, fate, 0)
      BY DEF Kept
    <3>. QED
      BY <2>1, <2>2, <3>1
  <2>3. CASE m # 0
    <3>1. m - 1 \in Nat /\ m - 1 \notin T
      BY <2>1, <2>3
    <3>2. PICK f : Kept(f, csv, fate, m - 1)
      BY <3>1
    <3>. DEFINE g == [i \in 0 .. m |->
                        IF i = m THEN IF csv[m].fate = fate THEN Append(f[m - 1], Entry(csv, m))
                                      ELSE f[m - 1]
                        ELSE f[i]]
                body(h, i) == IF i = 0 THEN <<>>
                              ELSE IF csv[i].fate = fate THEN Append(h[i - 1], Entry(csv, i))
                              ELSE h[i - 1]
    <3>3. ASSUME NEW i \in 0 .. m - 1 PROVE f[i] = body(f, i)
      BY <3>1, <3>2 DEF Kept
    <3>4. ASSUME NEW i \in 0 .. m PROVE g[i] = body(g, i)
      <4>1. CASE i = m
        BY <2>3, <4>1, <3>1
      <4>2. CASE i # m
        <5>1. i \in 0 .. m - 1 /\ g[i] = f[i]
          BY <4>2, <3>1
        <5>2. i # 0 => i - 1 \in 0 .. m /\ i - 1 # m /\ g[i - 1] = f[i - 1]
          BY <5>1, <3>1
        <5>. QED
          BY <5>1, <5>2, <3>3
      <4>. QED
        BY <4>1, <4>2
    <3>5. g = [i \in 0 .. m |-> body(g, i)]
      <4>1. g = [i \in 0 .. m |-> g[i]]
        OBVIOUS
      <4>. HIDE DEF g, body
      <4>. QED
        BY <4>1, <3>4
    <3>6. Kept(g, csv, fate, m)
      BY <3>5 DEF Kept
    <3>. QED
      BY <2>1, <3>6
  <2>. QED
    BY <2>2, <2>3
<1>. QED
  BY <1>1

\* A list of the outlets of a fate among the first n: each once, in order,
\* with its own id.
Listed(l, csv, fate, n) ==
  /\ \E S : l \in Seq(S)
  /\ \A j, k \in 1 .. Len(l) : j < k => l[j].row < l[k].row
  /\ \A k \in 1 .. Len(l) : /\ l[k].row \in 1 .. n
                            /\ csv[l[k].row].fate = fate
                            /\ l[k].id = csv[l[k].row].id
  /\ \A r \in 1 .. n : csv[r].fate = fate => \E k \in 1 .. Len(l) : l[k].row = r

LEMMA ListedAppend ==
  ASSUME NEW csv, NEW fate, NEW n \in Nat \ {0}, NEW l, Listed(l, csv, fate, n - 1)
  PROVE  /\ csv[n].fate = fate => Listed(Append(l, Entry(csv, n)), csv, fate, n)
         /\ csv[n].fate # fate => Listed(l, csv, fate, n)
<1>1. PICK S : l \in Seq(S)
  BY DEF Listed
<1>2. Len(l) \in Nat
  BY <1>1
<1>3. ASSUME csv[n].fate # fate PROVE Listed(l, csv, fate, n)
  <2>1. \A r \in 1 .. n : csv[r].fate = fate => r \in 1 .. n - 1
    BY <1>3
  <2>2. \A k \in 1 .. Len(l) : l[k].row \in 1 .. n
    BY <1>2 DEF Listed
  <2>. QED
    BY <1>1, <2>1, <2>2 DEF Listed
<1>4. ASSUME csv[n].fate = fate PROVE Listed(Append(l, Entry(csv, n)), csv, fate, n)
  <2>. DEFINE m == Append(l, Entry(csv, n))
  <2>1. l \in Seq(S \cup {Entry(csv, n)})
    BY <1>1, SeqMonotonic
  <2>2. /\ m \in Seq(S \cup {Entry(csv, n)})
        /\ Len(m) = Len(l) + 1
        /\ \A k \in 1 .. Len(l) : m[k] = l[k]
        /\ m[Len(l) + 1] = Entry(csv, n)
    BY <2>1, AppendProperties
  <2>. HIDE DEF m
  <2>3. Entry(csv, n).row = n /\ Entry(csv, n).id = csv[n].id
    BY DEF Entry
  <2>4. \A k \in 1 .. Len(m) : k \in 1 .. Len(l) \/ k = Len(l) + 1
    BY <1>2, <2>2
  <2>5. \A j, k \in 1 .. Len(m) : j < k => m[j].row < m[k].row
    <3>. SUFFICES ASSUME NEW j \in 1 .. Len(m), NEW k \in 1 .. Len(m), j < k
         PROVE  m[j].row < m[k].row
      OBVIOUS
    <3>1. j \in 1 .. Len(l) /\ m[j].row = l[j].row /\ l[j].row \in 1 .. n - 1
      BY <1>2, <2>2 DEF Listed
    <3>2. CASE k \in 1 .. Len(l)
      BY <3>1, <3>2, <2>2 DEF Listed
    <3>3. CASE k = Len(l) + 1
      BY <3>1, <3>3, <2>2, <2>3
    <3>. QED
      BY <2>4, <3>2, <3>3
  <2>6. \A k \in 1 .. Len(m) : /\ m[k].row \in 1 .. n
                               /\ csv[m[k].row].fate = fate
                               /\ m[k].id = csv[m[k].row].id
    <3>. SUFFICES ASSUME NEW k \in 1 .. Len(m)
         PROVE  m[k].row \in 1 .. n /\ csv[m[k].row].fate = fate /\ m[k].id = csv[m[k].row].id
      OBVIOUS
    <3>1. CASE k \in 1 .. Len(l)
      <4>1. l[k].row \in 1 .. n - 1 /\ csv[l[k].row].fate = fate /\ l[k].id = csv[l[k].row].id
        BY <3>1 DEF Listed
      <4>. QED
        BY <3>1, <4>1, <2>2
    <3>2. CASE k = Len(l) + 1
      BY <3>2, <2>2, <2>3, <1>4
    <3>. QED
      BY <2>4, <3>1, <3>2
  <2>7. \A r \in 1 .. n : csv[r].fate = fate => \E k \in 1 .. Len(m) : m[k].row = r
    <3>. SUFFICES ASSUME NEW r \in 1 .. n, csv[r].fate = fate
         PROVE  \E k \in 1 .. Len(m) : m[k].row = r
      OBVIOUS
    <3>1. CASE r = n
      <4>1. Len(l) + 1 \in 1 .. Len(m)
        BY <1>2, <2>2
      <4>. QED
        BY <3>1, <4>1, <2>2, <2>3
    <3>2. CASE r # n
      <4>1. PICK k \in 1 .. Len(l) : l[k].row = r
        BY <3>2 DEF Listed
      <4>2. k \in 1 .. Len(m)
        BY <4>1, <1>2, <2>2
      <4>. QED
        BY <4>1, <4>2, <2>2
    <3>. QED
      BY <3>1, <3>2
  <2>. QED
    BY <2>2, <2>5, <2>6, <2>7 DEF Listed, m
<1>. QED
  BY <1>3, <1>4

LEMMA KeptListed ==
  ASSUME NEW csv, NEW fate, NEW n \in Nat, NEW f, Kept(f, csv, fate, n)
  PROVE  Listed(f[n], csv, fate, n)
<1>. DEFINE T == {m \in 0 .. n : ~Listed(f[m], csv, fate, m)}
<1>0. ASSUME NEW m \in 0 .. n
      PROVE  f[m] = IF m = 0 THEN <<>>
                    ELSE IF csv[m].fate = fate THEN Append(f[m - 1], Entry(csv, m))
                    ELSE f[m - 1]
  BY DEF Kept
<1>1. ASSUME T # {} PROVE FALSE
  <2>0. T \subseteq Nat
    OBVIOUS
  <2>1. PICK m \in T : \A y \in T : m <= y
    BY <1>1, <2>0, LeastElement
  <2>2. CASE m = 0
    <3>1. f[0] = <<>> /\ Len(<<>>) = 0 /\ <<>> \in Seq({})
      BY <1>0
    <3>2. Listed(f[0], csv, fate, 0)
      BY <3>1 DEF Listed
    <3>. QED
      BY <2>1, <2>2, <3>2
  <2>3. CASE m # 0
    <3>1. m - 1 \in 0 .. n /\ m \in Nat \ {0} /\ m \in 0 .. n
      BY <2>1, <2>3
    <3>2. Listed(f[m - 1], csv, fate, m - 1)
      BY <2>1, <2>3, <3>1
    <3>3. Listed(f[m], csv, fate, m)
      <4>1. f[m] = IF csv[m].fate = fate THEN Append(f[m - 1], Entry(csv, m)) ELSE f[m - 1]
        BY <1>0, <2>3, <3>1
      <4>. QED
        BY <3>1, <3>2, <4>1, ListedAppend
    <3>. QED
      BY <2>1, <3>3
  <2>. QED
    BY <2>2, <2>3
<1>. QED
  BY <1>1

LEMMA SelectKept ==
  ASSUME NEW fate, Len(args.rows) \in Nat
  PROVE  \E f : Kept(f, args.rows, fate, Len(args.rows))
                /\ Main!Select(fate) = f[Len(args.rows)]
<1>1. \E f : Kept(f, args.rows, fate, Len(args.rows))
  BY KeptExists
<1>. QED
  BY <1>1 DEF Main!Select, Kept, Entry

\* What the lists of the output hold.
LEMMA SelectListed ==
  ASSUME NEW fate, Len(args.rows) \in Nat
  PROVE  Listed(Main!Select(fate), args.rows, fate, Len(args.rows))
BY SelectKept, KeptListed

LEMMA RowsAre ==
  ASSUME args \in Main!Invocations
  PROVE  /\ Len(args.rows) \in Nat /\ DOMAIN args.rows = 1 .. Len(args.rows)
         /\ \A i \in 1 .. Len(args.rows) : args.rows[i].fate \in {"ok", "fails", "bad"}
         /\ args.json \in BOOLEAN /\ args.output \in BOOLEAN
<1>1. PICK n \in 0 .. MaxCliRows : args.rows \in [1 .. n -> CliRows]
  BY DEF Main!Invocations
<1>2. n \in Nat
  BY CommandLineAssumption DEF Main!CliAssumption
<1>3. args.rows \in Seq(CliRows) /\ Len(args.rows) = n /\ DOMAIN args.rows = 1 .. n
  BY <1>1, <1>2, IsASeq, LenProperties
<1>. QED
  BY <1>1, <1>2, <1>3, CommandLineAssumption DEF Main!Invocations, Main!CliAssumption

\* The documents that the process may write.
Documents ==
  {[kind |-> "error"], [kind |-> "features", features |-> Main!Features], Main!Envelope}

Late == {"envelope", "features", "file", "fill"}

Early == {"parse", "open", "options"}

\* The strengthening that is inductive: the csv never change, and the step that
\* the process has come to says what has been done and what has been written.
CliTypes ==
  /\ args \in Main!Invocations
  /\ running \in Early \cup {"run"} \cup Late \cup {"end"}
  /\ done \in Seq(1 .. Len(args.rows))
  /\ Cardinality(Main!Delineated) = Len(done)

WorkDone ==
  /\ running \notin {"parse", "end"} => \A i \in DOMAIN args.rows : args.rows[i].fate # "bad"
  /\ running \notin {"parse", "end"} => args.rows # <<>>
  /\ running \in Early => done = <<>>
  /\ running = "run" => Len(done) < Len(args.rows)
  /\ running \in Late => Len(done) = Len(args.rows)
  /\ running = "envelope" => args.json
  /\ running = "features" => ~args.json
  /\ running \in {"file", "fill"} => args.output

Written ==
  /\ stdout \in Seq(Documents)
  /\ running \notin {"file", "fill", "end"} => stdout = <<>>
  /\ running \in {"file", "fill"} => Len(stdout) = (IF args.json THEN 1 ELSE 0)
  /\ running # "end" <=> exit = None
  /\ file.state = "written" => file.features = Main!Features

CliInv == CliTypes /\ WorkDone /\ Written /\ Main!SuccessIsComplete

\* The documents are functions of the csv.
LEMMA SameDocuments ==
  ASSUME args' = args
  PROVE  Main!Features' = Main!Features /\ Main!Envelope' = Main!Envelope /\ Documents' = Documents
<1>1. ASSUME NEW fate PROVE Main!Select(fate)' = Main!Select(fate)
  BY DEF Main!Select
<1>2. Main!Features' = Main!Features
  BY DEF Main!Features, Main!Select
<1>3. Main!Envelope' = Main!Envelope
  BY DEF Main!Envelope, Main!Select
<1>. QED
  BY <1>2, <1>3 DEF Documents

LEMMA InitCli ==
  ASSUME Main!Init
  PROVE  CliInv
<1>1. args \in Main!Invocations /\ running = "parse" /\ done = <<>> /\ stdout = <<>> /\ exit = None
  BY DEF Main!Init
<1>2. Len(args.rows) \in Nat
  BY <1>1, RowsAre
<1>3. Main!Delineated = {} /\ Cardinality({}) = 0
  BY <1>1, FS_EmptySet DEF Main!Delineated
<1>4. CliTypes
  BY <1>1, <1>2, <1>3 DEF CliTypes, Early
<1>5. WorkDone
  BY <1>1 DEF WorkDone, Early, Late
<1>6. Written
  BY <1>1 DEF Written, Main!Init
<1>7. Main!SuccessIsComplete
  BY <1>1, CommandLineAssumption DEF Main!SuccessIsComplete, Main!CliAssumption
<1>. QED
  BY <1>4, <1>5, <1>6, <1>7 DEF CliInv

\* A step that ends in failure, whatever it tells.
LEMMA FailsKept ==
  ASSUME CliInv, Main!Fails, UNCHANGED <<args, done, file>>
  PROVE  CliInv'
<1>1. /\ args' = args /\ done' = done /\ file' = file /\ running' = "end" /\ exit' = "failure"
      /\ stdout' = stdout \/ stdout' = Append(stdout, [kind |-> "error"])
  BY DEF Main!Fails
<1>2. Main!Features' = Main!Features /\ Documents' = Documents
  BY <1>1, SameDocuments
<1>3. CliTypes'
  <2>1. Main!Delineated' = Main!Delineated
    BY <1>1 DEF Main!Delineated
  <2>2. Main!Invocations' = Main!Invocations
    BY DEF Main!Invocations
  <2>. QED
    BY <1>1, <2>1, <2>2 DEF CliInv, CliTypes
<1>4. WorkDone'
  BY <1>1 DEF WorkDone, Early, Late
<1>5. Written'
  <2>1. stdout' \in Seq(Documents)
    BY <1>1, AppendProperties DEF CliInv, Written, Documents
  <2>2. exit' # None
    BY <1>1, CommandLineAssumption DEF Main!CliAssumption
  <2>. QED
    BY <1>1, <1>2, <2>1, <2>2 DEF CliInv, Written
<1>6. Main!SuccessIsComplete'
  BY <1>1 DEF Main!SuccessIsComplete
<1>. QED
  BY <1>3, <1>4, <1>5, <1>6 DEF CliInv

\* Every outlet has been delineated when the output is written.
LEMMA AllDelineated ==
  ASSUME CliInv, running \in Late
  PROVE  Main!Delineated = DOMAIN args.rows
<1>1. Len(args.rows) \in Nat /\ DOMAIN args.rows = 1 .. Len(args.rows)
  BY RowsAre DEF CliInv, CliTypes
<1>2. done \in Seq(1 .. Len(args.rows)) /\ Len(done) = Len(args.rows)
  BY DEF CliInv, CliTypes, WorkDone
<1>3. Main!Delineated \subseteq 1 .. Len(args.rows)
  BY <1>2 DEF Main!Delineated
<1>4. IsFiniteSet(1 .. Len(args.rows)) /\ Cardinality(1 .. Len(args.rows)) = Len(args.rows)
  BY <1>1, FS_Interval
<1>5. Cardinality(Main!Delineated) = Cardinality(1 .. Len(args.rows))
  BY <1>2, <1>4 DEF CliInv, CliTypes
<1>. QED
  BY <1>1, <1>3, <1>4, <1>5, FS_Subset

\* The last step: everything asked for is written.
LEMMA FinishKept ==
  ASSUME CliInv, running \in Late, Main!Finish, UNCHANGED <<args, done>>,
         stdout' \in Seq(Documents), Len(stdout') = IF args.json \/ ~args.output THEN 1 ELSE 0,
         file'.state = "written" => file'.features = Main!Features,
         args.output => file'.state = "written"
  PROVE  CliInv'
<1>1. /\ args' = args /\ done' = done /\ running' = "end"
      /\ exit' = IF Main!AnyFailed THEN "failure" ELSE "success"
  BY DEF Main!Finish
<1>2. Main!Features' = Main!Features /\ Documents' = Documents
  BY <1>1, SameDocuments
<1>3. Main!Delineated' = Main!Delineated
  BY <1>1 DEF Main!Delineated
<1>4. CliTypes'
  <2>1. Main!Invocations' = Main!Invocations
    BY DEF Main!Invocations
  <2>. QED
    BY <1>1, <1>3, <2>1 DEF CliInv, CliTypes
<1>5. WorkDone'
  BY <1>1 DEF WorkDone, Early, Late
<1>6. Written'
  <2>1. exit' # None
    BY <1>1, CommandLineAssumption DEF Main!CliAssumption
  <2>. QED
    BY <1>1, <1>2, <2>1 DEF CliInv, Written
<1>7. Main!SuccessIsComplete'
  <2>. SUFFICES ASSUME exit' = "success"
       PROVE  /\ \A i \in DOMAIN args'.rows : args'.rows[i].fate = "ok"
              /\ Main!Delineated' = DOMAIN args'.rows
              /\ args'.output => file'.state = "written"
              /\ Len(stdout') = IF args'.json \/ ~args'.output THEN 1 ELSE 0
    BY DEF Main!SuccessIsComplete
  <2>1. ~Main!AnyFailed
    BY <1>1
  <2>2. \A i \in DOMAIN args.rows : args.rows[i].fate \in {"ok", "fails", "bad"}
    BY RowsAre DEF CliInv, CliTypes
  <2>3. \A i \in DOMAIN args.rows : args.rows[i].fate # "bad"
    BY DEF CliInv, WorkDone, Late
  <2>4. \A i \in DOMAIN args.rows : args.rows[i].fate = "ok"
    BY <2>1, <2>2, <2>3 DEF Main!AnyFailed
  <2>. QED
    BY <1>1, <1>3, <2>4, AllDelineated
<1>. QED
  BY <1>4, <1>5, <1>6, <1>7 DEF CliInv

\* A step on the way: no output is finished by it.
LEMMA GoesOn ==
  ASSUME CliInv, running # "end", UNCHANGED <<args, exit>>, CliTypes', WorkDone',
         running' # "end", stdout' \in Seq(Documents),
         running' \notin {"file", "fill", "end"} => stdout' = <<>>,
         running' \in {"file", "fill"} => Len(stdout') = (IF args.json THEN 1 ELSE 0),
         file'.state = "written" => file'.features = Main!Features
  PROVE  CliInv'
<1>1. Main!Features' = Main!Features /\ Documents' = Documents
  BY SameDocuments
<1>2. exit = None /\ exit' = None
  BY DEF CliInv, Written
<1>3. Written'
  BY <1>1, <1>2 DEF Written
<1>4. Main!SuccessIsComplete'
  BY <1>2, CommandLineAssumption DEF Main!SuccessIsComplete, Main!CliAssumption
<1>. QED
  BY <1>3, <1>4 DEF CliInv

LEMMA TypesKept ==
  ASSUME CliInv, UNCHANGED <<args, done>>, running' \in Early \cup {"run"} \cup Late
  PROVE  CliTypes'
<1>1. Main!Delineated' = Main!Delineated
  BY DEF Main!Delineated
<1>2. Main!Invocations' = Main!Invocations
  BY DEF Main!Invocations
<1>. QED
  BY <1>1, <1>2 DEF CliInv, CliTypes

LEMMA ParseOutletsCli ==
  ASSUME CliInv, Main!ParseOutlets
  PROVE  CliInv'
<1>1. CASE Main!Fails
  BY <1>1, FailsKept DEF Main!ParseOutlets
<1>2. CASE ~Main!Fails
  <2>1. /\ running = "parse" /\ running' = "open" /\ UNCHANGED <<args, done, stdout, file, exit>>
        /\ args.rows # <<>> /\ \A i \in DOMAIN args.rows : args.rows[i].fate # "bad"
    BY <1>2 DEF Main!ParseOutlets
  <2>2. CliTypes'
    BY <2>1, TypesKept DEF Early
  <2>3. WorkDone'
    BY <2>1 DEF CliInv, WorkDone, Early, Late
  <2>. QED
    BY <2>1, <2>2, <2>3, GoesOn DEF CliInv, Written
<1>. QED
  BY <1>1, <1>2

LEMMA OpenSessionCli ==
  ASSUME CliInv, Main!OpenSession
  PROVE  CliInv'
<1>1. CASE Main!Fails
  BY <1>1, FailsKept DEF Main!OpenSession
<1>2. CASE ~Main!Fails
  <2>1. running = "open" /\ running' = "options" /\ UNCHANGED <<args, done, stdout, file, exit>>
    BY <1>2 DEF Main!OpenSession
  <2>2. CliTypes'
    BY <2>1, TypesKept DEF Early
  <2>3. WorkDone'
    BY <2>1 DEF CliInv, WorkDone, Early, Late
  <2>. QED
    BY <2>1, <2>2, <2>3, GoesOn DEF CliInv, Written
<1>. QED
  BY <1>1, <1>2

LEMMA BuildOptionsCli ==
  ASSUME CliInv, Main!BuildOptions
  PROVE  CliInv'
<1>1. CASE Main!Fails
  BY <1>1, FailsKept DEF Main!BuildOptions
<1>2. CASE ~Main!Fails
  <2>1. running = "options" /\ running' = "run" /\ UNCHANGED <<args, done, stdout, file, exit>>
    BY <1>2 DEF Main!BuildOptions
  <2>2. CliTypes'
    BY <2>1, TypesKept
  <2>3. Len(args.rows) \in Nat /\ (args.rows # <<>> => Len(args.rows) # 0) /\ Len(<<>>) = 0
    <3>1. Len(args.rows) \in Nat /\ DOMAIN args.rows = 1 .. Len(args.rows)
      BY RowsAre DEF CliInv, CliTypes
    <3>2. args.rows \in UNION {[1 .. n -> CliRows] : n \in 0 .. MaxCliRows}
      BY DEF CliInv, CliTypes, Main!Invocations
    <3>3. args.rows \in Seq(CliRows)
      BY <3>2, CommandLineAssumption, IsASeq DEF Main!CliAssumption
    <3>. QED
      BY <3>1, <3>3, EmptySeq
  <2>4. WorkDone'
    BY <2>1, <2>3 DEF CliInv, WorkDone, Early, Late
  <2>. QED
    BY <2>1, <2>2, <2>4, GoesOn DEF CliInv, Written
<1>. QED
  BY <1>1, <1>2

LEMMA DelineateCli ==
  ASSUME CliInv, NEW i, Main!Delineate(i)
  PROVE  CliInv'
<1>1. /\ running = "run" /\ i \in DOMAIN args.rows /\ i \notin Main!Delineated
      /\ done' = Append(done, i) /\ UNCHANGED <<args, stdout, file, exit>>
      /\ running' = IF Len(done') < Len(args.rows) THEN "run"
                    ELSE IF args.json THEN "envelope" ELSE "features"
  BY DEF Main!Delineate
<1>2. Len(args.rows) \in Nat /\ DOMAIN args.rows = 1 .. Len(args.rows) /\ args.json \in BOOLEAN
  BY RowsAre DEF CliInv, CliTypes
<1>3. done \in Seq(1 .. Len(args.rows)) /\ Len(done) \in Nat /\ Len(done) < Len(args.rows)
  BY <1>1, LenProperties DEF CliInv, CliTypes, WorkDone
<1>4. /\ done' \in Seq(1 .. Len(args.rows)) /\ Len(done') = Len(done) + 1
      /\ DOMAIN done = 1 .. Len(done) /\ DOMAIN done' = 1 .. Len(done) + 1
      /\ \A k \in 1 .. Len(done) : done'[k] = done[k]
      /\ done'[Len(done) + 1] = i
  BY <1>1, <1>2, <1>3, AppendProperties, LenProperties
<1>5. Main!Delineated' = Main!Delineated \cup {i}
  <2>1. ASSUME NEW x PROVE x \in Main!Delineated' <=> x \in Main!Delineated \cup {i}
    BY <1>3, <1>4, SMTT(40) DEF Main!Delineated
  <2>. QED
    BY <2>1
<1>6. IsFiniteSet(Main!Delineated)
  <2>1. Main!Delineated \subseteq 1 .. Len(args.rows)
    BY <1>3, <1>4 DEF Main!Delineated
  <2>2. IsFiniteSet(1 .. Len(args.rows))
    BY <1>2, FS_Interval
  <2>. QED
    BY <2>1, <2>2, FS_Subset
<1>7. Cardinality(Main!Delineated') = Len(done')
  <2>1. Cardinality(Main!Delineated) = Len(done)
    BY DEF CliInv, CliTypes
  <2>2. Cardinality(Main!Delineated \cup {i}) = Cardinality(Main!Delineated) + 1
    BY <1>1, <1>6, FS_AddElement
  <2>. QED
    BY <1>4, <1>5, <2>1, <2>2
<1>8. CliTypes'
  <2>1. Main!Invocations' = Main!Invocations
    BY DEF Main!Invocations
  <2>. QED
    BY <1>1, <1>2, <1>4, <1>7, <2>1 DEF CliInv, CliTypes, Early, Late
<1>9. WorkDone'
  BY <1>1, <1>2, <1>3, <1>4 DEF CliInv, WorkDone, Early, Late
<1>10. running' \in {"run", "envelope", "features"}
  BY <1>1
<1>. QED
  BY <1>1, <1>8, <1>9, <1>10, GoesOn DEF CliInv, Written

LEMMA WriteEnvelopeCli ==
  ASSUME CliInv, Main!WriteEnvelope
  PROVE  CliInv'
<1>1. CASE Main!Fails
  BY <1>1, FailsKept DEF Main!WriteEnvelope
<1>2. CASE ~Main!Fails
  <2>1. /\ running = "envelope" /\ UNCHANGED <<args, done, file>>
        /\ stdout' = Append(stdout, Main!Envelope)
        /\ IF args.output THEN running' = "file" /\ exit' = exit ELSE Main!Finish
    BY <1>2 DEF Main!WriteEnvelope
  <2>2. stdout' \in Seq(Documents) /\ Len(stdout') = 1 /\ args.json
    <3>1. stdout = <<>> /\ args.json
      BY <2>1 DEF CliInv, Written, WorkDone
    <3>2. Main!Envelope \in Documents
      BY DEF Documents
    <3>. QED
      BY <2>1, <3>1, <3>2
  <2>3. CASE args.output
    <3>1. CliTypes'
      BY <2>1, <2>3, TypesKept DEF Late
    <3>2. WorkDone'
      BY <2>1, <2>3 DEF CliInv, WorkDone, Early, Late
    <3>. QED
      BY <2>1, <2>2, <2>3, <3>1, <3>2, GoesOn DEF CliInv, Written
  <2>4. CASE ~args.output
    BY <2>1, <2>2, <2>4, FinishKept DEF CliInv, Written, Late
  <2>. QED
    BY <2>3, <2>4
<1>. QED
  BY <1>1, <1>2

LEMMA WriteFeaturesCli ==
  ASSUME CliInv, Main!WriteFeatures
  PROVE  CliInv'
<1>1. CASE Main!Fails
  BY <1>1, FailsKept DEF Main!WriteFeatures
<1>2. CASE ~Main!Fails
  <2>0. running = "features" /\ UNCHANGED <<args, done, file>> /\ stdout = <<>> /\ ~args.json
    BY DEF Main!WriteFeatures, CliInv, Written, WorkDone
  <2>1. CASE args.output
    <3>1. running' = "file" /\ stdout' = stdout /\ exit' = exit
      BY <2>1 DEF Main!WriteFeatures
    <3>2. CliTypes'
      BY <2>0, <3>1, TypesKept DEF Late
    <3>3. WorkDone'
      BY <2>0, <2>1, <3>1 DEF CliInv, WorkDone, Early, Late
    <3>. QED
      BY <2>0, <3>1, <3>2, <3>3, GoesOn DEF CliInv, Written
  <2>2. CASE ~args.output
    <3>. DEFINE d == [kind |-> "features", features |-> Main!Features]
    <3>1. stdout' = Append(stdout, d) /\ Main!Finish
      BY <1>2, <2>2 DEF Main!WriteFeatures
    <3>2. d \in Documents
      BY DEF Documents
    <3>. HIDE DEF d
    <3>3. stdout' \in Seq(Documents) /\ Len(stdout') = 1
      BY <2>0, <3>1, <3>2
    <3>. QED
      BY <2>0, <2>2, <3>1, <3>3, FinishKept DEF CliInv, Written, Late
  <2>. QED
    BY <2>1, <2>2
<1>. QED
  BY <1>1, <1>2

LEMMA CreateFileCli ==
  ASSUME CliInv, Main!CreateFile
  PROVE  CliInv'
<1>1. CASE Main!Fails /\ UNCHANGED file
  BY <1>1, FailsKept DEF Main!CreateFile
<1>2. CASE ~(Main!Fails /\ UNCHANGED file)
  <2>1. /\ running = "file" /\ running' = "fill" /\ UNCHANGED <<args, done, stdout, exit>>
        /\ file' = [state |-> "torn", features |-> <<>>]
    BY <1>2 DEF Main!CreateFile
  <2>2. CliTypes'
    BY <2>1, TypesKept DEF Late
  <2>3. WorkDone'
    BY <2>1 DEF CliInv, WorkDone, Early, Late
  <2>4. file'.state # "written"
    BY <2>1
  <2>. QED
    BY <2>1, <2>2, <2>3, <2>4, GoesOn DEF CliInv, Written
<1>. QED
  BY <1>1, <1>2

LEMMA FillFileCli ==
  ASSUME CliInv, Main!FillFile
  PROVE  CliInv'
<1>1. CASE Main!Fails /\ UNCHANGED file
  BY <1>1, FailsKept DEF Main!FillFile
<1>2. CASE ~(Main!Fails /\ UNCHANGED file)
  <2>1. /\ running = "fill" /\ UNCHANGED <<args, done, stdout>> /\ Main!Finish
        /\ file' = [state |-> "written", features |-> Main!Features]
    BY <1>2 DEF Main!FillFile
  <2>2. args.output /\ Len(stdout) = (IF args.json THEN 1 ELSE 0)
    BY <2>1 DEF CliInv, Written, WorkDone
  <2>3. file'.state = "written" /\ file'.features = Main!Features
    BY <2>1
  <2>. QED
    BY <2>1, <2>2, <2>3, FinishKept DEF CliInv, Written, Late
<1>. QED
  BY <1>1, <1>2

LEMMA KillCli ==
  ASSUME CliInv, Main!Kill
  PROVE  CliInv'
<1>1. exit' = "killed" /\ running' = "end" /\ UNCHANGED <<args, done, stdout, file>>
  BY DEF Main!Kill
<1>2. Main!Features' = Main!Features /\ Documents' = Documents
  BY <1>1, SameDocuments
<1>3. CliTypes'
  <2>1. Main!Delineated' = Main!Delineated
    BY <1>1 DEF Main!Delineated
  <2>2. Main!Invocations' = Main!Invocations
    BY DEF Main!Invocations
  <2>. QED
    BY <1>1, <2>1, <2>2 DEF CliInv, CliTypes
<1>4. WorkDone'
  BY <1>1 DEF WorkDone, Early, Late
<1>5. Written'
  <2>1. exit' # None
    BY <1>1, CommandLineAssumption DEF Main!CliAssumption
  <2>. QED
    BY <1>1, <1>2, <2>1 DEF CliInv, Written
<1>6. Main!SuccessIsComplete'
  BY <1>1 DEF Main!SuccessIsComplete
<1>. QED
  BY <1>3, <1>4, <1>5, <1>6 DEF CliInv

LEMMA NextCli ==
  ASSUME CliInv, [Main!Next]_cli
  PROVE  CliInv'
<1>1. CASE UNCHANGED cli
  <2>1. UNCHANGED <<args, running, done, stdout, file, exit>>
    BY <1>1 DEF cli
  <2>2. Main!Features' = Main!Features /\ Documents' = Documents
    BY <2>1, SameDocuments
  <2>3. Main!Delineated' = Main!Delineated
    BY <2>1 DEF Main!Delineated
  <2>4. Main!Invocations' = Main!Invocations
    BY DEF Main!Invocations
  <2>5. CliTypes'
    BY <2>1, <2>3, <2>4 DEF CliInv, CliTypes
  <2>6. WorkDone'
    BY <2>1 DEF CliInv, WorkDone
  <2>7. Written'
    BY <2>1, <2>2 DEF CliInv, Written
  <2>8. Main!SuccessIsComplete'
    BY <2>1, <2>3 DEF CliInv, Main!SuccessIsComplete
  <2>. QED
    BY <2>5, <2>6, <2>7, <2>8 DEF CliInv
<1>2. CASE Main!Next
  BY <1>2, ParseOutletsCli, OpenSessionCli, BuildOptionsCli, DelineateCli, WriteEnvelopeCli,
     WriteFeaturesCli, CreateFileCli, FillFileCli, KillCli DEF Main!Next
<1>. QED
  BY <1>1, <1>2

LEMMA CliSays ==
  ASSUME CliInv
  PROVE  Main!OutputHonest
<1>1. Len(args.rows) \in Nat /\ DOMAIN args.rows = 1 .. Len(args.rows)
  BY RowsAre DEF CliInv, CliTypes
<1>. DEFINE Faithful(list, fate) ==
       /\ \A j, k \in DOMAIN list : j < k => list[j].row < list[k].row
       /\ \A k \in DOMAIN list : list[k].id = args.rows[list[k].row].id
       /\ {list[k].row : k \in DOMAIN list} = {i \in DOMAIN args.rows : args.rows[i].fate = fate}
<1>2. ASSUME NEW fate PROVE Faithful(Main!Select(fate), fate)
  <2>. DEFINE l == Main!Select(fate)
  <2>1. Listed(l, args.rows, fate, Len(args.rows))
    BY <1>1, SelectListed
  <2>. HIDE DEF l
  <2>2. DOMAIN l = 1 .. Len(l)
    BY <2>1, LenProperties DEF Listed
  <2>3. \A j, k \in DOMAIN l : j < k => l[j].row < l[k].row
    BY <2>1, <2>2 DEF Listed
  <2>4. \A k \in DOMAIN l : l[k].id = args.rows[l[k].row].id
    BY <2>1, <2>2 DEF Listed
  <2>5. {l[k].row : k \in DOMAIN l} = {i \in DOMAIN args.rows : args.rows[i].fate = fate}
    <3>. DEFINE A == {l[k].row : k \in DOMAIN l}
                B == {i \in DOMAIN args.rows : args.rows[i].fate = fate}
    <3>1. ASSUME NEW x \in A PROVE x \in B
      BY <1>1, <2>1, <2>2 DEF Listed
    <3>2. ASSUME NEW x \in B PROVE x \in A
      <4>1. x \in 1 .. Len(args.rows) /\ args.rows[x].fate = fate
        BY <1>1
      <4>. QED
        BY <2>1, <2>2, <4>1 DEF Listed
    <3>. QED
      BY <3>1, <3>2
  <2>. QED
    BY <2>3, <2>4, <2>5 DEF l
<1>. HIDE DEF Faithful
<1>3. file.state = "written" => Faithful(file.features, "ok")
  BY <1>2 DEF CliInv, Written, Main!Features
<1>4. ASSUME NEW d \in DOMAIN stdout
      PROVE  CASE stdout[d].kind = "features" -> Faithful(stdout[d].features, "ok")
               [] stdout[d].kind = "envelope" -> /\ Faithful(stdout[d].successes, "ok")
                                                 /\ Faithful(stdout[d].failures, "fails")
               [] OTHER -> TRUE
  <2>1. stdout[d] \in Documents
    BY LenProperties, ElementOfSeq DEF CliInv, Written
  <2>2. CASE stdout[d] = [kind |-> "error"]
    BY <2>2
  <2>3. CASE stdout[d] = [kind |-> "features", features |-> Main!Features]
    BY <1>2, <2>3 DEF Main!Features
  <2>4. CASE stdout[d] = Main!Envelope
    BY <1>2, <2>4 DEF Main!Envelope
  <2>. QED
    BY <2>1, <2>2, <2>3, <2>4 DEF Documents
<1>5. Main!OutputTellsTheBatch
  BY <1>3, <1>4 DEF Main!OutputTellsTheBatch, Faithful
<1>. QED
  BY <1>5 DEF Main!OutputHonest, CliInv

\* What the command line writes and the code it exits with agree with what
\* happened to the outlets, for CSV files of any length, whichever outlets the
\* pool finishes first, whatever fails and wherever the process is killed
\* (write_output and main, main.rs).
THEOREM OutputHonestHolds == MCSpec => []OutputHonest
<1>. DEFINE CliKept == part = "cli" => CliInv
            all == <<part, vars, fetch, python, export, cli>>
<1>1. MCInit => CliKept
  BY InitCli DEF MCInit
<1>2. CliKept /\ [MCNext]_all => CliKept'
  <2>. SUFFICES ASSUME CliKept, [MCNext]_all PROVE CliKept'
    OBVIOUS
  <2>1. part' = part /\ (part = "cli" => [Main!Next]_cli)
    BY DEF MCNext
  <2>. QED
    BY <2>1, NextCli
<1>3. CliKept => OutputHonest
  BY CliSays DEF OutputHonest
<1>. QED
  BY <1>1, <1>2, <1>3, PTL DEF MCSpec

-----------------------------------------------------------------------------
(* The ranged read of an artifact.                                           *)

LEMMA DivCeilBounds ==
  ASSUME NEW a \in Nat, NEW b \in Nat \ {0}
  PROVE  /\ Artifact!DivCeil(a, b) \in Nat
         /\ a <= b * Artifact!DivCeil(a, b)
         /\ b * Artifact!DivCeil(a, b) <= a + b - 1
<1>. DEFINE q == Artifact!DivCeil(a, b)
<1>1. q = (a + b - 1) \div b
  BY DEF Artifact!DivCeil
<1>2. q \in Int /\ b * q <= a + b - 1 /\ a + b - 1 < b * (q + 1)
  BY <1>1
<1>3. q \in Nat
  BY <1>2
<1>. QED
  BY <1>2, <1>3

LEMMA MinOfTwo ==
  ASSUME NEW a \in Nat, NEW b \in Nat
  PROVE  Artifact!Min({a, b}) = IF a <= b THEN a ELSE b
BY DEF Artifact!Min

LEMMA MaxOfTwo ==
  ASSUME NEW a \in Nat, NEW b \in Nat
  PROVE  Artifact!Max({a, b}) = IF a >= b THEN a ELSE b
BY DEF Artifact!Max

LEMMA FunctionIsSequence ==
  ASSUME NEW T, NEW n \in Nat, NEW f \in [1 .. n -> T]
  PROVE  f \in Seq(T) /\ Len(f) = n
OBVIOUS

\* The last range of a large object is not empty: K ranges of width W.
LEMMA LastRangeNotEmpty ==
  ASSUME NEW S \in Nat, NEW K \in Nat \ {0}, NEW W \in Nat,
         S <= K * W, K * W <= S + K - 1, (K - 1) * (K - 1) < S
  PROVE  W > 0 /\ (K - 1) * W < S
<1>0. (K - 1) * W = K * W - W /\ (K - 1) * (K - 1) = K * (K - 2) + 1
  OBVIOUS
<1>1. W >= K - 1
  <2>. SUFFICES ASSUME W <= K - 2 PROVE FALSE
    OBVIOUS
  <2>1. K * W <= K * (K - 2)
    OBVIOUS
  <2>. QED
    BY <1>0, <2>1
<1>2. CASE W >= K
  BY <1>0, <1>2
<1>3. CASE W = K - 1
  BY <1>3
<1>4. W > 0
  BY <1>0
<1>. QED
  BY <1>1, <1>2, <1>3, <1>4

\* The width of a range, and the byte behind range i.
Width(S, C) == Artifact!RangeSize(S, Artifact!RangeCount(S, C))

EndOf(S, C, i) == LET e == i * Width(S, C) IN IF e <= S THEN e ELSE S

\* The ranges of a large object tile it.
LEMMA RangesOf ==
  ASSUME NEW S \in Nat, S > FetchTarget, NEW C \in Nat, C >= 1, C <= FetchMax
  PROVE  LET r == Artifact!Ranges(S, C)
             K == Artifact!RangeCount(S, C)
             W == Width(S, C)
         IN  /\ K \in 1 .. C /\ r \in Seq([start : Nat, end : Nat]) /\ Len(r) = K
             /\ W \in Nat /\ W > 0 /\ (K - 1) * W < S /\ S <= K * W
             /\ \A i \in 1 .. K : r[i] = [start |-> (i - 1) * W, end |-> EndOf(S, C, i)]
<1>. DEFINE D == Artifact!DivCeil(S, FetchTarget)
            K == Artifact!RangeCount(S, C)
            W == Width(S, C)
            r == Artifact!Ranges(S, C)
<1>1. FetchTarget \in Nat \ {0} /\ FetchMax \in Nat /\ FetchTarget >= (FetchMax - 1) * (FetchMax - 1)
  BY FetchAssumption DEF Artifact!TargetAssumption
<1>2. D \in Nat
  BY <1>1, DivCeilBounds
<1>3. K \in Nat /\ K >= 1 /\ K <= C
  <2>1. K = Artifact!Max({1, Artifact!Min({D, C})})
    BY DEF Artifact!RangeCount
  <2>. HIDE DEF D, K
  <2>2. Artifact!Min({D, C}) = IF D <= C THEN D ELSE C
    BY <1>2, MinOfTwo
  <2>3. Artifact!Min({D, C}) \in Nat /\ Artifact!Min({D, C}) <= C
    BY <1>2, <2>2
  <2>4. K = IF 1 >= Artifact!Min({D, C}) THEN 1 ELSE Artifact!Min({D, C})
    BY <2>1, <2>3, MaxOfTwo
  <2>. QED
    BY <2>3, <2>4
<1>4. W = Artifact!DivCeil(S, K)
  BY DEF Width, Artifact!RangeSize
<1>. HIDE DEF K, W
<1>5. W \in Nat /\ S <= K * W /\ K * W <= S + K - 1
  BY <1>3, <1>4, DivCeilBounds
<1>6. (K - 1) * (K - 1) < S
  <2>1. K - 1 \in Nat /\ FetchMax - 1 \in Nat /\ K - 1 <= FetchMax - 1
    BY <1>1, <1>3
  <2>2. (K - 1) * (K - 1) <= (FetchMax - 1) * (FetchMax - 1)
    BY <2>1
  <2>. QED
    BY <1>1, <2>1, <2>2
<1>7. W > 0 /\ (K - 1) * W < S
  BY <1>3, <1>5, <1>6, LastRangeNotEmpty
<1>8. \A i \in 1 .. K : i * W \in Nat /\ (i - 1) * W \in Nat
  BY <1>3, <1>5
<1>9. r = [i \in 1 .. K |-> [start |-> (i - 1) * W, end |-> Artifact!Min({i * W, S})]]
  BY <1>4 DEF Artifact!Ranges, K, W, Width
<1>. HIDE DEF r
<1>10. \A i \in 1 .. K : Artifact!Min({i * W, S}) = EndOf(S, C, i) /\ EndOf(S, C, i) \in Nat
  <2>. TAKE i \in 1 .. K
  <2>1. i * W \in Nat
    BY <1>8
  <2>2. Artifact!Min({i * W, S}) = IF i * W <= S THEN i * W ELSE S
    BY <2>1, MinOfTwo
  <2>. QED
    BY <2>1, <2>2 DEF EndOf, W
<1>11. \A i \in 1 .. K : r[i] = [start |-> (i - 1) * W, end |-> EndOf(S, C, i)]
  BY <1>9, <1>10
<1>12. r \in Seq([start : Nat, end : Nat]) /\ Len(r) = K
  <2>1. r \in [1 .. K -> [start : Nat, end : Nat]]
    BY <1>8, <1>9, <1>10
  <2>2. K \in Nat
    BY <1>3
  <2>. DEFINE T == [start : Nat, end : Nat]
  <2>. HIDE DEF T
  <2>3. r \in [1 .. K -> T]
    BY <2>1 DEF T
  <2>4. r \in Seq(T) /\ Len(r) = K
    BY <2>2, <2>3, FunctionIsSequence
  <2>. QED
    BY <2>4 DEF T
<1>. QED
  BY <1>3, <1>5, <1>7, <1>11, <1>12 DEF K, W, r

\* Where the ranges meet.
LEMMA EndsMeet ==
  ASSUME NEW S \in Nat, S > FetchTarget, NEW C \in Nat, C >= 1, C <= FetchMax
  PROVE  LET r == Artifact!Ranges(S, C)
             K == Len(r)
         IN  /\ EndOf(S, C, 0) = 0 /\ EndOf(S, C, K) = S
             /\ \A i \in 1 .. K : /\ EndOf(S, C, i - 1) \in Nat /\ EndOf(S, C, i) \in Nat
                                  /\ EndOf(S, C, i - 1) < EndOf(S, C, i) /\ EndOf(S, C, i) <= S
                                  /\ r[i].start = EndOf(S, C, i - 1) /\ r[i].end = EndOf(S, C, i)
<1>. DEFINE r == Artifact!Ranges(S, C)
            K == Len(r)
            W == Width(S, C)
<1>1. /\ K \in 1 .. C /\ W \in Nat /\ W > 0 /\ (K - 1) * W < S /\ S <= K * W
      /\ \A i \in 1 .. K : r[i] = [start |-> (i - 1) * W, end |-> EndOf(S, C, i)]
  BY RangesOf
<1>2. \A i : EndOf(S, C, i) = IF i * W <= S THEN i * W ELSE S
  BY DEF EndOf
<1>. HIDE DEF r, K, W
<1>3. EndOf(S, C, 0) = 0 /\ EndOf(S, C, K) = S
  BY <1>1, <1>2
<1>4. ASSUME NEW i \in 1 .. K
      PROVE  /\ EndOf(S, C, i - 1) \in Nat /\ EndOf(S, C, i) \in Nat
             /\ EndOf(S, C, i - 1) < EndOf(S, C, i) /\ EndOf(S, C, i) <= S
             /\ r[i].start = EndOf(S, C, i - 1) /\ r[i].end = EndOf(S, C, i)
  <2>0. K \in Nat /\ i \in Nat /\ i - 1 \in Nat /\ i - 1 <= K - 1 /\ K - 1 \in Nat
    BY <1>1
  <2>1. (i - 1) * W \in Nat /\ i * W \in Nat /\ i * W = (i - 1) * W + W
    BY <1>1, <2>0
  <2>2. (i - 1) * W <= (K - 1) * W
    BY <1>1, <2>0
  <2>3. (i - 1) * W < S
    BY <1>1, <2>0, <2>1, <2>2
  <2>4. EndOf(S, C, i - 1) = (i - 1) * W
    BY <1>2, <2>1, <2>3
  <2>5. EndOf(S, C, i) \in Nat /\ EndOf(S, C, i) <= S /\ (i - 1) * W < EndOf(S, C, i)
    BY <1>1, <1>2, <2>1, <2>3
  <2>6. r[i].start = (i - 1) * W /\ r[i].end = EndOf(S, C, i)
    <3>1. r[i] = [start |-> (i - 1) * W, end |-> EndOf(S, C, i)]
      BY <1>1, Zenon
    <3>. DEFINE x == (i - 1) * W
                y == EndOf(S, C, i)
    <3>. HIDE DEF x, y
    <3>2. r[i] = [start |-> x, end |-> y]
      BY <3>1 DEF x, y
    <3>. QED
      BY <3>2 DEF x, y
  <2>. QED
    BY <2>1, <2>4, <2>5, <2>6
<1>. QED
  BY <1>3, <1>4 DEF r, K

LEMMA BytesJoin ==
  ASSUME NEW v, NEW a \in Nat, NEW b \in Nat, NEW c \in Nat, a <= b, b <= c
  PROVE  Artifact!Bytes(v, a, b) \o Artifact!Bytes(v, b, c) = Artifact!Bytes(v, a, c)
<1>. DEFINE x == Artifact!Bytes(v, a, b)
            y == Artifact!Bytes(v, b, c)
            z == Artifact!Bytes(v, a, c)
<1>1. /\ x = [i \in 1 .. b - a |-> <<v, a + i - 1>>]
      /\ y = [i \in 1 .. c - b |-> <<v, b + i - 1>>]
      /\ z = [i \in 1 .. c - a |-> <<v, a + i - 1>>]
  BY DEF Artifact!Bytes
<1>. HIDE DEF x, y, z
<1>. DEFINE P == {v} \X Int
<1>2. /\ \A i \in 1 .. b - a : <<v, a + i - 1>> \in P
      /\ \A i \in 1 .. c - b : <<v, b + i - 1>> \in P
      /\ \A i \in 1 .. c - a : <<v, a + i - 1>> \in P
  OBVIOUS
<1>3. x \in Seq(P) /\ Len(x) = b - a
  <2>. DEFINE n == b - a
  <2>1. n \in Nat
    OBVIOUS
  <2>. HIDE DEF P, n
  <2>2. x = [i \in 1 .. n |-> <<v, a + i - 1>>] /\ \A i \in 1 .. n : <<v, a + i - 1>> \in P
    BY <1>1, <1>2 DEF n
  <2>3. x \in [1 .. n -> P]
    BY <2>2
  <2>. QED
    BY <2>1, <2>3, FunctionIsSequence DEF n
<1>4. y \in Seq(P) /\ Len(y) = c - b
  <2>. DEFINE n == c - b
  <2>1. n \in Nat
    OBVIOUS
  <2>. HIDE DEF P, n
  <2>2. y = [i \in 1 .. n |-> <<v, b + i - 1>>] /\ \A i \in 1 .. n : <<v, b + i - 1>> \in P
    BY <1>1, <1>2 DEF n
  <2>3. y \in [1 .. n -> P]
    BY <2>2
  <2>. QED
    BY <2>1, <2>3, FunctionIsSequence DEF n
<1>5. z \in Seq(P) /\ Len(z) = c - a
  <2>. DEFINE n == c - a
  <2>1. n \in Nat
    OBVIOUS
  <2>. HIDE DEF P, n
  <2>2. z = [i \in 1 .. n |-> <<v, a + i - 1>>] /\ \A i \in 1 .. n : <<v, a + i - 1>> \in P
    BY <1>1, <1>2 DEF n
  <2>3. z \in [1 .. n -> P]
    BY <2>2
  <2>. QED
    BY <2>1, <2>3, FunctionIsSequence DEF n
<1>. HIDE DEF P
<1>6. x \o y \in Seq(P) /\ Len(x \o y) = c - a
  BY <1>3, <1>4
<1>7. ASSUME NEW i \in 1 .. c - a PROVE (x \o y)[i] = z[i]
  <2>1. CASE i <= b - a
    BY <1>1, <1>3, <1>4, <2>1
  <2>2. CASE i > b - a
    <3>1. (x \o y)[i] = y[i - (b - a)] /\ i - (b - a) \in 1 .. c - b
      BY <1>3, <1>4, <2>2
    <3>2. y[i - (b - a)] = <<v, b + (i - (b - a)) - 1>>
      BY <1>1, <3>1
    <3>3. b + (i - (b - a)) - 1 = a + i - 1
      OBVIOUS
    <3>. QED
      BY <1>1, <3>1, <3>2, <3>3
  <2>3. i <= b - a \/ i > b - a
    OBVIOUS
  <2>. QED
    BY <2>1, <2>2, <2>3
<1>8. Len(x \o y) = Len(z) /\ \A i \in 1 .. Len(x \o y) : (x \o y)[i] = z[i]
  BY <1>5, <1>6, <1>7
<1>9. x \o y = z
  BY <1>5, <1>6, <1>8, SeqEqual
<1>. QED
  BY <1>9 DEF x, y, z

\* What the loop of FlattenSeq has joined after each sequence.
Joins(f, s, n) == f = [i \in 1 .. n |-> IF i = 1 THEN s[i] ELSE f[i - 1] \o s[i]]

LEMMA JoinsExists ==
  ASSUME NEW s, NEW n \in Nat
  PROVE  \E f : Joins(f, s, n)
<1>. DEFINE T == {m \in Nat : ~\E f : Joins(f, s, m)}
<1>1. ASSUME T # {} PROVE FALSE
  <2>1. PICK m \in T : \A y \in T : m <= y
    BY <1>1, LeastElement
  <2>2. CASE m = 0
    <3>1. Joins([i \in 1 .. 0 |-> 0], s, 0)
      BY DEF Joins
    <3>. QED
      BY <2>1, <2>2, <3>1
  <2>3. CASE m # 0
    <3>1. m - 1 \in Nat /\ m - 1 \notin T
      BY <2>1, <2>3
    <3>2. PICK f : Joins(f, s, m - 1)
      BY <3>1
    <3>. DEFINE body(h, i) == IF i = 1 THEN s[i] ELSE h[i - 1] \o s[i]
                g == [i \in 1 .. m |-> IF i = m THEN body(f, m) ELSE f[i]]
    <3>3. ASSUME NEW i \in 1 .. m - 1 PROVE f[i] = body(f, i)
      BY <3>1, <3>2 DEF Joins
    <3>4. ASSUME NEW i \in 1 .. m PROVE g[i] = body(g, i)
      <4>1. i # 1 => i - 1 \in 1 .. m /\ i - 1 # m /\ i - 1 \in 1 .. m - 1
        BY <3>1
      <4>2. i # 1 => g[i - 1] = f[i - 1]
        BY <4>1
      <4>3. body(g, i) = body(f, i)
        BY <4>2
      <4>4. CASE i = m
        BY <4>3, <4>4
      <4>5. CASE i # m
        <5>1. i \in 1 .. m - 1 /\ g[i] = f[i]
          BY <4>5, <3>1
        <5>. QED
          BY <3>3, <4>3, <5>1
      <4>. QED
        BY <4>4, <4>5
    <3>5. g = [i \in 1 .. m |-> body(g, i)]
      <4>1. g = [i \in 1 .. m |-> g[i]]
        OBVIOUS
      <4>. HIDE DEF g, body
      <4>. QED
        BY <4>1, <3>4
    <3>6. \E h : Joins(h, s, m)
      <4>. HIDE DEF g
      <4>1. Joins(g, s, m)
        BY <3>5 DEF Joins
      <4>. QED
        BY <4>1
    <3>. QED
      BY <2>1, <3>6
  <2>. QED
    BY <2>2, <2>3
<1>. QED
  BY <1>1

\* s is n consecutive pieces of a version; e[i] is the byte behind piece i.
Pieces(v, n, s, e) ==
  /\ Len(s) = n /\ e[0] = 0
  /\ \A i \in 1 .. n : /\ e[i - 1] \in Nat /\ e[i] \in Nat /\ e[i - 1] <= e[i]
                       /\ s[i] = Artifact!Bytes(v, e[i - 1], e[i])

\* Consecutive pieces, joined, are the piece from the first byte to the last.
LEMMA FlattenPieces ==
  ASSUME NEW v, NEW n \in Nat \ {0}, NEW s, NEW e, Pieces(v, n, s, e)
  PROVE  Artifact!FlattenSeq(s) = Artifact!Bytes(v, 0, e[n])
<1>1. \E f : Joins(f, s, n)
  BY JoinsExists
<1>2. Artifact!FlattenSeq(s) = (CHOOSE f : Joins(f, s, n))[n]
  BY DEF Artifact!FlattenSeq, Joins, Pieces
<1>3. PICK f : Joins(f, s, n) /\ Artifact!FlattenSeq(s) = f[n]
  BY <1>1, <1>2
<1>4. ASSUME NEW i \in 1 .. n
      PROVE  f[i] = IF i = 1 THEN s[i] ELSE f[i - 1] \o s[i]
  BY <1>3 DEF Joins
<1>. DEFINE T == {m \in 1 .. n : f[m] # Artifact!Bytes(v, 0, e[m])}
<1>5. ASSUME T # {} PROVE FALSE
  <2>0. T \subseteq Nat
    OBVIOUS
  <2>1. PICK m \in T : \A y \in T : m <= y
    BY <1>5, <2>0, LeastElement
  <2>2. m \in 1 .. n /\ f[m] # Artifact!Bytes(v, 0, e[m])
    BY <2>1
  <2>3. s[m] = Artifact!Bytes(v, e[m - 1], e[m]) /\ e[m - 1] \in Nat /\ e[m] \in Nat
        /\ e[m - 1] <= e[m]
    BY <2>2 DEF Pieces
  <2>4. m # 1
    <3>. SUFFICES ASSUME m = 1 PROVE FALSE
      OBVIOUS
    <3>0. f[m] = IF m = 1 THEN s[m] ELSE f[m - 1] \o s[m]
      BY <1>4, <2>2, Zenon
    <3>1. f[m] = s[m] /\ m - 1 = 0
      BY <3>0
    <3>. QED
      BY <2>2, <2>3, <3>1 DEF Pieces
  <2>5. m - 1 \in 1 .. n /\ m - 1 \notin T
    BY <2>1, <2>2, <2>4
  <2>6. f[m - 1] = Artifact!Bytes(v, 0, e[m - 1])
    BY <2>5
  <2>7. f[m] = f[m - 1] \o s[m]
    BY <1>4, <2>2, <2>4
  <2>8. f[m] = Artifact!Bytes(v, 0, e[m - 1]) \o Artifact!Bytes(v, e[m - 1], e[m])
    BY <2>3, <2>6, <2>7
  <2>9. f[m] = Artifact!Bytes(v, 0, e[m])
    <3>. DEFINE a == e[m - 1]
                b == e[m]
    <3>1. a \in Nat /\ b \in Nat /\ 0 <= a /\ a <= b /\ 0 \in Nat
      BY <2>3
    <3>. HIDE DEF a, b
    <3>2. \A x, y, z \in Nat : x <= y /\ y <= z =>
            Artifact!Bytes(v, x, y) \o Artifact!Bytes(v, y, z) = Artifact!Bytes(v, x, z)
      BY BytesJoin
    <3>3. Artifact!Bytes(v, 0, a) \o Artifact!Bytes(v, a, b) = Artifact!Bytes(v, 0, b)
      BY <3>1, <3>2
    <3>. QED
      BY <2>8, <3>3 DEF a, b
  <2>. QED
    BY <2>2, <2>9
<1>6. n \in 1 .. n
  OBVIOUS
<1>. QED
  BY <1>3, <1>5, <1>6

-----------------------------------------------------------------------------
(***************************************************************************)
(* The strengthening that is inductive.  What HEAD saw is the version      *)
(* firstV, published by now; while the ranges are fetched there is one     *)
(* chunk per range of it, and as long as nothing newer is published each   *)
(* chunk that is here holds the bytes of its range.                        *)
(***************************************************************************)

FetchStates == {"waiting", "sent", "failed", "here"}

FetchChunk == [state : FetchStates, bytes : Seq(Nat \X Int)]

FetchTypes ==
  /\ sizes \in Seq(1 .. FetchSize) /\ Len(sizes) >= 1
  /\ setting \in FetchSettings
  /\ fetching \in {"head", "get", "ranges", "done"}
  /\ ranges \in Seq(FetchChunk)

HeadSeen ==
  /\ fetching = "head" => ranges = <<>>
  /\ fetching # "done" => result.state = "none"
  /\ fetching \in {"get", "ranges"} => firstV \in 1 .. Len(sizes) /\ meta = sizes[firstV]

RangeBytes(i) ==
  LET r == Artifact!Ranges(meta, Artifact!Concurrency)[i]
  IN  Artifact!Bytes(firstV, r.start, r.end)

ChunksOfTheObject ==
  fetching = "ranges" =>
    /\ meta > FetchTarget
    /\ Len(ranges) = Len(Artifact!Ranges(meta, Artifact!Concurrency))
    /\ Len(sizes) = firstV =>
         \A i \in 1 .. Len(ranges) : ranges[i].state = "here" => ranges[i].bytes = RangeBytes(i)

FetchInv == FetchTypes /\ HeadSeen /\ ChunksOfTheObject /\ Artifact!FetchedExact

LEMMA ConcurrencyBounds ==
  ASSUME setting \in FetchSettings
  PROVE  Artifact!Concurrency \in Nat /\ Artifact!Concurrency >= 1 /\ Artifact!Concurrency <= FetchMax
<1>1. /\ FetchMax \in Nat /\ FetchMin \in Nat /\ FetchMin >= 1 /\ FetchMin <= FetchMax
      /\ FetchDefault \in Nat /\ (setting = None \/ setting \in Nat)
  BY FetchAssumption DEF Artifact!TargetAssumption
<1>2. \A k \in Nat : LET c == Artifact!Clamp(k) IN c \in Nat /\ c >= 1 /\ c <= FetchMax
  BY <1>1 DEF Artifact!Clamp
<1>. QED
  BY <1>1, <1>2 DEF Artifact!Concurrency

LEMMA InitFetch ==
  ASSUME Artifact!Init
  PROVE  FetchInv
<1>1. /\ sizes \in [1 .. 1 -> 1 .. FetchSize] /\ setting \in FetchSettings
      /\ fetching = "head" /\ ranges = <<>> /\ result.state = "none"
  BY DEF Artifact!Init, Artifact!Of
<1>2. sizes \in Seq(1 .. FetchSize) /\ Len(sizes) = 1
  BY <1>1, FunctionIsSequence
<1>3. FetchTypes
  <2>1. ranges \in Seq(FetchChunk)
    BY <1>1
  <2>. QED
    BY <1>1, <1>2, <2>1 DEF FetchTypes
<1>. QED
  BY <1>1, <1>3 DEF FetchInv, HeadSeen, ChunksOfTheObject, Artifact!FetchedExact

LEMMA BytesType ==
  ASSUME NEW v \in Nat, NEW a \in Nat, NEW b \in Nat, a <= b
  PROVE  Artifact!Bytes(v, a, b) \in Seq(Nat \X Int)
<1>. DEFINE n == b - a
            P == Nat \X Int
<1>1. n \in Nat /\ \A i \in 1 .. n : <<v, a + i - 1>> \in P
  OBVIOUS
<1>2. Artifact!Bytes(v, a, b) = [i \in 1 .. n |-> <<v, a + i - 1>>]
  BY DEF Artifact!Bytes
<1>. HIDE DEF n, P
<1>3. Artifact!Bytes(v, a, b) \in [1 .. n -> P]
  BY <1>1, <1>2
<1>4. Artifact!Bytes(v, a, b) \in Seq(P)
  BY <1>1, <1>3, FunctionIsSequence
<1>. QED
  BY <1>4 DEF P

LEMMA FetchSizes ==
  ASSUME FetchTypes, NEW v \in 1 .. Len(sizes)
  PROVE  sizes[v] \in Nat /\ sizes[v] >= 1 /\ Len(sizes) \in Nat
BY FetchAssumption DEF FetchTypes, Artifact!TargetAssumption

LEMMA RepublishFetch ==
  ASSUME FetchInv, Artifact!Republish
  PROVE  FetchInv'
<1>1. PICK s \in 1 .. FetchSize : sizes' = Append(sizes, s)
  BY DEF Artifact!Republish
<1>2. fetching # "done" /\ UNCHANGED <<setting, fetching, meta, ranges, result, firstV>>
  BY DEF Artifact!Republish
<1>3. FetchTypes /\ HeadSeen /\ ChunksOfTheObject
  BY DEF FetchInv
<1>4. /\ sizes' \in Seq(1 .. FetchSize) /\ Len(sizes') = Len(sizes) + 1 /\ Len(sizes) \in Nat
      /\ \A v \in 1 .. Len(sizes) : sizes'[v] = sizes[v]
  <2>. DEFINE Z == 1 .. FetchSize
  <2>. HIDE DEF Z
  <2>1. sizes \in Seq(Z) /\ s \in Z
    BY <1>3 DEF FetchTypes, Z
  <2>2. /\ Append(sizes, s) \in Seq(Z) /\ Len(Append(sizes, s)) = Len(sizes) + 1
        /\ Len(sizes) \in Nat /\ \A v \in 1 .. Len(sizes) : Append(sizes, s)[v] = sizes[v]
    BY <2>1
  <2>. QED
    BY <1>1, <2>2 DEF Z
<1>5. FetchTypes'
  BY <1>2, <1>3, <1>4 DEF FetchTypes
<1>6. HeadSeen'
  BY <1>2, <1>3, <1>4 DEF HeadSeen
<1>7. ChunksOfTheObject'
  <2>. SUFFICES ASSUME fetching = "ranges"
       PROVE  /\ meta > FetchTarget
              /\ Len(ranges) = Len(Artifact!Ranges(meta, Artifact!Concurrency))
              /\ Len(sizes') # firstV
    BY <1>2 DEF ChunksOfTheObject, Artifact!Concurrency
  <2>. QED
    BY <1>3, <1>4 DEF ChunksOfTheObject, HeadSeen
<1>8. Artifact!FetchedExact'
  BY <1>2, <1>3 DEF HeadSeen, Artifact!FetchedExact
<1>. QED
  BY <1>5, <1>6, <1>7, <1>8 DEF FetchInv

LEMMA HeadObjectFetch ==
  ASSUME FetchInv, Artifact!HeadObject
  PROVE  FetchInv'
<1>. DEFINE v == Len(sizes)
            S == sizes[v]
            r == Artifact!Ranges(S, Artifact!Concurrency)
<1>1. /\ fetching = "head" /\ meta' = S /\ firstV' = v
      /\ \/ /\ S > FetchTarget /\ fetching' = "ranges"
            /\ ranges' = [i \in 1 .. Len(r) |-> [state |-> "waiting", bytes |-> <<>>]]
         \/ fetching' = "get" /\ ranges' = ranges
      /\ UNCHANGED <<sizes, setting, result>>
  BY DEF Artifact!HeadObject, Artifact!Current, Artifact!Of
<1>2. FetchTypes /\ HeadSeen
  BY DEF FetchInv
<1>3. v \in 1 .. v /\ v \in Nat /\ S \in Nat
  BY <1>2, FetchSizes DEF FetchTypes
<1>4. result'.state = "none"
  BY <1>1, <1>2 DEF HeadSeen
<1>5. HeadSeen' /\ Artifact!FetchedExact'
  BY <1>1, <1>3, <1>4 DEF HeadSeen, Artifact!FetchedExact
<1>6. Artifact!Concurrency' = Artifact!Concurrency
  BY <1>1 DEF Artifact!Concurrency
<1>7. CASE fetching' = "ranges"
  <2>1. S > FetchTarget /\ ranges' = [i \in 1 .. Len(r) |-> [state |-> "waiting", bytes |-> <<>>]]
    BY <1>1, <1>7
  <2>2. Len(r) \in Nat
    <3>1. Artifact!Concurrency \in Nat /\ Artifact!Concurrency >= 1 /\ Artifact!Concurrency <= FetchMax
      BY <1>2, ConcurrencyBounds DEF FetchTypes
    <3>2. Len(r) \in 1 .. Artifact!Concurrency
      BY <1>3, <2>1, <3>1, RangesOf
    <3>. QED
      BY <3>1, <3>2
  <2>. HIDE DEF r
  <2>3. [state |-> "waiting", bytes |-> <<>>] \in FetchChunk
    BY DEF FetchChunk, FetchStates
  <2>. DEFINE w == [state |-> "waiting", bytes |-> <<>>]
  <2>4. w.state = "waiting"
    OBVIOUS
  <2>. HIDE DEF w
  <2>5. ranges' \in [1 .. Len(r) -> FetchChunk] /\ \A i \in 1 .. Len(r) : ranges'[i] = w
    BY <2>1, <2>3 DEF w
  <2>6. ranges' \in Seq(FetchChunk) /\ Len(ranges') = Len(r)
    BY <2>2, <2>5, FunctionIsSequence
  <2>7. FetchTypes'
    BY <1>1, <1>2, <1>7, <2>6 DEF FetchTypes
  <2>8. ChunksOfTheObject'
    <3>1. \A i \in 1 .. Len(ranges') : ranges'[i].state # "here"
      BY <2>4, <2>5, <2>6
    <3>2. Len(ranges') = Len(Artifact!Ranges(meta', Artifact!Concurrency'))
      BY <1>1, <1>6, <2>6 DEF r
    <3>. QED
      BY <1>1, <2>1, <3>1, <3>2 DEF ChunksOfTheObject
  <2>. QED
    BY <1>5, <2>7, <2>8 DEF FetchInv
<1>8. CASE fetching' = "get"
  BY <1>1, <1>2, <1>5, <1>8 DEF FetchInv, FetchTypes, ChunksOfTheObject
<1>. QED
  BY <1>1, <1>7, <1>8

\* What FetchedExact asks of the bytes of an answer.
OfOneVersion(bytes) ==
  \/ \E v \in firstV .. Len(sizes) : bytes = Artifact!Object(v)
  \/ ranges # <<>> /\ Len(sizes) > firstV

\* A read that ends leaves the object as it is and has its answer.
LEMMA EndFetch ==
  ASSUME FetchInv, NEW r, Artifact!Finish(r), UNCHANGED <<sizes, setting, meta, ranges, firstV>>,
         r.state = "here" => OfOneVersion(r.bytes)
  PROVE  FetchInv'
<1>1. fetching' = "done" /\ result' = r
  BY DEF Artifact!Finish
<1>2. FetchTypes' /\ HeadSeen' /\ ChunksOfTheObject'
  BY <1>1 DEF FetchInv, FetchTypes, HeadSeen, ChunksOfTheObject
<1>3. Artifact!FetchedExact'
  <2>1. \A v : Artifact!Object(v)' = Artifact!Object(v)
    BY DEF Artifact!Object
  <2>. QED
    BY <1>1, <2>1 DEF Artifact!FetchedExact, Artifact!Current, Artifact!Object, OfOneVersion
<1>. QED
  BY <1>2, <1>3 DEF FetchInv

LEMMA FailFetch ==
  ASSUME FetchInv, Artifact!HeadFails \/ Artifact!GetFails
  PROVE  FetchInv'
<1>. DEFINE r == [state |-> "failed", bytes |-> <<>>]
<1>1. Artifact!Finish(r) /\ UNCHANGED <<sizes, setting, meta, ranges, firstV>>
  BY DEF Artifact!HeadFails, Artifact!GetFails, Artifact!Of
<1>2. r.state # "here"
  OBVIOUS
<1>. HIDE DEF r
<1>. QED
  BY <1>1, <1>2, EndFetch

LEMMA GetWholeFetch ==
  ASSUME FetchInv, Artifact!GetWhole
  PROVE  FetchInv'
<1>. DEFINE r == [state |-> "here", bytes |-> Artifact!Object(Len(sizes))]
<1>1. /\ fetching = "get"
      /\ Artifact!Finish(r) /\ UNCHANGED <<sizes, setting, meta, ranges, firstV>>
  BY DEF Artifact!GetWhole, Artifact!Of, Artifact!Current
<1>2. Len(sizes) \in firstV .. Len(sizes)
  <2>1. Len(sizes) \in Nat /\ firstV \in 1 .. Len(sizes)
    BY <1>1 DEF FetchInv, FetchTypes, HeadSeen
  <2>. QED
    BY <2>1
<1>3. \E v \in firstV .. Len(sizes) : r.bytes = Artifact!Object(v)
  BY <1>2
<1>. HIDE DEF r
<1>4. r.state = "here" => OfOneVersion(r.bytes)
  BY <1>3 DEF OfOneVersion
<1>. QED
  BY <1>1, <1>4, EndFetch

\* One chunk changes, to what its range of the current version is.
LEMMA ChunkFetch ==
  ASSUME FetchInv, fetching = "ranges", NEW i \in 1 .. Len(ranges), NEW c \in FetchChunk,
         c.state = "here" /\ Len(sizes) = firstV => c.bytes = RangeBytes(i),
         ranges' = [ranges EXCEPT ![i] = c],
         UNCHANGED <<sizes, setting, fetching, meta, result, firstV>>
  PROVE  FetchInv'
<1>1. FetchTypes /\ HeadSeen /\ ChunksOfTheObject
  BY DEF FetchInv
<1>2. /\ ranges' \in Seq(FetchChunk) /\ Len(ranges') = Len(ranges)
      /\ \A j \in 1 .. Len(ranges) : ranges'[j] = IF j = i THEN c ELSE ranges[j]
  <2>1. ranges \in Seq(FetchChunk)
    BY <1>1 DEF FetchTypes
  <2>. QED
    BY <2>1
<1>3. FetchTypes'
  BY <1>1, <1>2 DEF FetchTypes
<1>4. HeadSeen'
  BY <1>1 DEF HeadSeen
<1>5. Artifact!Concurrency' = Artifact!Concurrency
  BY DEF Artifact!Concurrency
<1>6. ChunksOfTheObject'
  <2>1. \A j : RangeBytes(j)' = RangeBytes(j)
    BY <1>5 DEF RangeBytes
  <2>2. /\ meta > FetchTarget
        /\ Len(ranges') = Len(Artifact!Ranges(meta, Artifact!Concurrency))
        /\ Len(sizes) = firstV =>
             \A j \in 1 .. Len(ranges') : ranges'[j].state = "here" => ranges'[j].bytes = RangeBytes(j)
    BY <1>1, <1>2 DEF ChunksOfTheObject
  <2>3. /\ meta' > FetchTarget
        /\ Len(ranges') = Len(Artifact!Ranges(meta', Artifact!Concurrency'))
    BY <1>5, <2>2
  <2>. QED
    BY <2>1, <2>2, <2>3 DEF ChunksOfTheObject
<1>7. Artifact!FetchedExact'
  <2>1. result'.state = "none"
    BY <1>1 DEF HeadSeen
  <2>. QED
    BY <2>1 DEF Artifact!FetchedExact
<1>. QED
  BY <1>3, <1>4, <1>6, <1>7 DEF FetchInv

LEMMA SendFetch ==
  ASSUME FetchInv, NEW i \in 1 .. Len(ranges), Artifact!Send(i) \/ Artifact!ReceiveFails(i)
  PROVE  FetchInv'
<1>1. PICK w \in {"sent", "failed"} : ranges' = [ranges EXCEPT ![i] = [state |-> w, bytes |-> <<>>]]
  BY DEF Artifact!Send, Artifact!ReceiveFails, Artifact!Of
<1>2. fetching = "ranges" /\ UNCHANGED <<sizes, setting, fetching, meta, result, firstV>>
  BY DEF Artifact!Send, Artifact!ReceiveFails
<1>. DEFINE c == [state |-> w, bytes |-> <<>>]
<1>3. c \in FetchChunk /\ c.state # "here"
  BY DEF FetchChunk, FetchStates
<1>. HIDE DEF c
<1>4. ranges' = [ranges EXCEPT ![i] = c]
  BY <1>1 DEF c
<1>. QED
  BY <1>2, <1>3, <1>4, ChunkFetch

\* The ranges of the read under way.
LEMMA RangesNow ==
  ASSUME FetchInv, fetching = "ranges"
  PROVE  LET C == Artifact!Concurrency
             r == Artifact!Ranges(meta, C)
         IN  /\ meta \in Nat /\ meta > FetchTarget /\ firstV \in 1 .. Len(sizes) /\ meta = sizes[firstV]
             /\ Len(r) = Len(ranges) /\ Len(r) \in 1 .. C /\ C \in Nat
             /\ EndOf(meta, C, 0) = 0 /\ EndOf(meta, C, Len(r)) = meta
             /\ \A i \in 1 .. Len(r) :
                  /\ EndOf(meta, C, i - 1) \in Nat /\ EndOf(meta, C, i) \in Nat
                  /\ EndOf(meta, C, i - 1) < EndOf(meta, C, i) /\ EndOf(meta, C, i) <= meta
                  /\ r[i].start = EndOf(meta, C, i - 1) /\ r[i].end = EndOf(meta, C, i)
<1>1. FetchTypes /\ HeadSeen /\ ChunksOfTheObject
  BY DEF FetchInv
<1>2. firstV \in 1 .. Len(sizes) /\ meta = sizes[firstV] /\ meta > FetchTarget
      /\ Len(ranges) = Len(Artifact!Ranges(meta, Artifact!Concurrency))
  BY <1>1 DEF HeadSeen, ChunksOfTheObject
<1>3. meta \in Nat
  BY <1>1, <1>2, FetchSizes
<1>4. Artifact!Concurrency \in Nat /\ Artifact!Concurrency >= 1 /\ Artifact!Concurrency <= FetchMax
  BY <1>1, ConcurrencyBounds DEF FetchTypes
<1>. DEFINE C == Artifact!Concurrency
            r == Artifact!Ranges(meta, C)
<1>. HIDE DEF C
<1>5. C \in Nat /\ C >= 1 /\ C <= FetchMax
  BY <1>4 DEF C
<1>6. Len(r) \in 1 .. C
  BY <1>2, <1>3, <1>5, RangesOf
<1>7. /\ EndOf(meta, C, 0) = 0 /\ EndOf(meta, C, Len(r)) = meta
      /\ \A i \in 1 .. Len(r) :
           /\ EndOf(meta, C, i - 1) \in Nat /\ EndOf(meta, C, i) \in Nat
           /\ EndOf(meta, C, i - 1) < EndOf(meta, C, i) /\ EndOf(meta, C, i) <= meta
           /\ r[i].start = EndOf(meta, C, i - 1) /\ r[i].end = EndOf(meta, C, i)
  BY <1>2, <1>3, <1>5, EndsMeet
<1>. HIDE DEF r
<1>. QED
  BY <1>2, <1>3, <1>5, <1>6, <1>7 DEF C, r

LEMMA ReceiveFetch ==
  ASSUME FetchInv, NEW i \in 1 .. Len(ranges), Artifact!Receive(i)
  PROVE  FetchInv'
<1>. DEFINE r == Artifact!Ranges(meta, Artifact!Concurrency)[i]
            c == Artifact!Answer(r)
            v == Len(sizes)
            b == Artifact!Min({r.end, sizes[v]})
<1>1. /\ fetching = "ranges" /\ ranges' = [ranges EXCEPT ![i] = c]
      /\ UNCHANGED <<sizes, setting, fetching, meta, result, firstV>>
  BY DEF Artifact!Receive
<1>2. /\ r.start \in Nat /\ r.end \in Nat /\ r.start < r.end /\ r.end <= meta
      /\ firstV \in 1 .. v /\ meta = sizes[firstV]
  <2>1. i \in 1 .. Len(Artifact!Ranges(meta, Artifact!Concurrency))
    BY <1>1, RangesNow
  <2>. QED
    BY <1>1, <2>1, RangesNow
<1>3. c = IF r.start >= r.end \/ r.start >= sizes[v] THEN [state |-> "failed", bytes |-> <<>>]
          ELSE [state |-> "here", bytes |-> Artifact!Bytes(v, r.start, b)]
  BY DEF Artifact!Answer, Artifact!Of, Artifact!Current
<1>. HIDE DEF r, c
<1>4. v \in Nat /\ v \in 1 .. v /\ sizes[v] \in Nat
  BY FetchSizes DEF FetchInv, FetchTypes
<1>5. b = IF r.end <= sizes[v] THEN r.end ELSE sizes[v]
  BY <1>2, <1>4, MinOfTwo
<1>. HIDE DEF b
<1>6. c \in FetchChunk
  <2>1. CASE r.start >= sizes[v]
    BY <1>3, <2>1 DEF FetchChunk, FetchStates
  <2>2. CASE r.start < sizes[v]
    <3>1. b \in Nat /\ r.start <= b
      BY <1>2, <1>4, <1>5, <2>2
    <3>2. Artifact!Bytes(v, r.start, b) \in Seq(Nat \X Int)
      BY <1>2, <1>4, <3>1, BytesType
    <3>3. c = [state |-> "here", bytes |-> Artifact!Bytes(v, r.start, b)]
      BY <1>2, <1>3, <1>4, <2>2
    <3>. QED
      BY <3>2, <3>3 DEF FetchChunk, FetchStates
  <2>. QED
    BY <1>2, <1>4, <2>1, <2>2
<1>7. ASSUME c.state = "here", v = firstV PROVE c.bytes = RangeBytes(i)
  <2>1. c = [state |-> "here", bytes |-> Artifact!Bytes(v, r.start, b)]
    BY <1>3, <1>7
  <2>2. b = r.end
    BY <1>2, <1>5, <1>7
  <2>3. c.bytes = Artifact!Bytes(firstV, r.start, r.end)
    BY <1>7, <2>1, <2>2
  <2>. QED
    BY <2>3 DEF RangeBytes, r
<1>. QED
  BY <1>1, <1>6, <1>7, ChunkFetch

\* Every answer is in.
LEMMA AllHanded ==
  ASSUME ranges \in Seq(FetchChunk), Artifact!Handed = Len(ranges)
  PROVE  \A i \in 1 .. Len(ranges) : ranges[i].state \in {"failed", "here"}
<1>. DEFINE open == {i \in 1 .. Len(ranges) : ranges[i].state \in {"waiting", "sent"}}
<1>1. Len(ranges) \in Nat /\ open \subseteq Nat
  OBVIOUS
<1>2. ASSUME open # {} PROVE FALSE
  <2>1. \E x \in open : \A y \in open : x <= y
    BY <1>1, <1>2, LeastElement
  <2>2. Artifact!Min(open) \in open
    BY <2>1 DEF Artifact!Min
  <2>3. Artifact!Handed = Artifact!Min(open) - 1
    BY <1>2 DEF Artifact!Handed
  <2>4. Artifact!Min(open) \in 1 .. Len(ranges)
    BY <2>2
  <2>. HIDE DEF open
  <2>. QED
    BY <1>1, <2>3, <2>4
<1>3. \A i \in 1 .. Len(ranges) : ranges[i].state \in FetchStates
  <2>1. \A i \in 1 .. Len(ranges) : ranges[i] \in FetchChunk
    OBVIOUS
  <2>. QED
    BY <2>1 DEF FetchChunk
<1>. QED
  BY <1>2, <1>3 DEF FetchStates

LEMMA CollectFetch ==
  ASSUME FetchInv, Artifact!Collect
  PROVE  FetchInv'
<1>. DEFINE s == [i \in 1 .. Len(ranges) |-> ranges[i].bytes]
            r == IF \E i \in 1 .. Len(ranges) : ranges[i].state = "failed"
                 THEN [state |-> "failed", bytes |-> <<>>]
                 ELSE [state |-> "here", bytes |-> Artifact!FlattenSeq(s)]
            C == Artifact!Concurrency
            n == Len(ranges)
<1>1. /\ fetching = "ranges" /\ Artifact!Handed = Len(ranges)
      /\ Artifact!Finish(r) /\ UNCHANGED <<sizes, setting, meta, ranges, firstV>>
  BY DEF Artifact!Collect, Artifact!Of
<1>2. FetchTypes /\ ChunksOfTheObject
  BY DEF FetchInv
<1>3. /\ n = Len(Artifact!Ranges(meta, C)) /\ n \in 1 .. C /\ C \in Nat
      /\ firstV \in 1 .. Len(sizes) /\ meta = sizes[firstV]
      /\ EndOf(meta, C, 0) = 0 /\ EndOf(meta, C, n) = meta
      /\ \A i \in 1 .. n :
           /\ EndOf(meta, C, i - 1) \in Nat /\ EndOf(meta, C, i) \in Nat
           /\ EndOf(meta, C, i - 1) < EndOf(meta, C, i)
           /\ Artifact!Ranges(meta, C)[i].start = EndOf(meta, C, i - 1)
           /\ Artifact!Ranges(meta, C)[i].end = EndOf(meta, C, i)
  BY <1>1, RangesNow
<1>4. \A i \in 1 .. n : ranges[i].state \in {"failed", "here"}
  BY <1>1, <1>2, AllHanded DEF FetchTypes
<1>5. n \in Nat \ {0} /\ ranges # <<>> /\ Len(sizes) \in Nat
  BY <1>2, <1>3 DEF FetchTypes
<1>6. ASSUME r.state = "here", Len(sizes) = firstV PROVE r.bytes = Artifact!Object(firstV)
  <2>1. \A i \in 1 .. n : ranges[i].state = "here"
    BY <1>4, <1>6
  <2>2. r.bytes = Artifact!FlattenSeq(s)
    BY <2>1
  <2>. HIDE DEF r, C
  <2>3. \A i \in 1 .. n : s[i] = Artifact!Bytes(firstV, EndOf(meta, C, i - 1), EndOf(meta, C, i))
    <3>. TAKE i \in 1 .. n
    <3>1. ranges[i].bytes = RangeBytes(i)
      BY <1>1, <1>2, <1>6, <2>1 DEF ChunksOfTheObject
    <3>2. RangeBytes(i) = Artifact!Bytes(firstV, EndOf(meta, C, i - 1), EndOf(meta, C, i))
      BY <1>3 DEF RangeBytes, C
    <3>. QED
      BY <3>1, <3>2
  <2>4. Len(s) = n
    BY <1>5
  <2>. DEFINE e == [i \in 0 .. n |-> EndOf(meta, C, i)]
  <2>5. /\ e[0] = 0 /\ e[n] = meta
        /\ \A i \in 1 .. n : e[i - 1] = EndOf(meta, C, i - 1) /\ e[i] = EndOf(meta, C, i)
    BY <1>3, <1>5
  <2>. HIDE DEF s, e, n
  <2>6. Pieces(firstV, n, s, e)
    <3>1. ASSUME NEW i \in 1 .. n
          PROVE  /\ e[i - 1] \in Nat /\ e[i] \in Nat /\ e[i - 1] <= e[i]
                 /\ s[i] = Artifact!Bytes(firstV, e[i - 1], e[i])
      <4>1. e[i - 1] = EndOf(meta, C, i - 1) /\ e[i] = EndOf(meta, C, i)
        BY <2>5
      <4>. QED
        BY <1>3, <2>3, <4>1
    <3>. QED
      BY <2>4, <2>5, <3>1 DEF Pieces
  <2>7. Artifact!FlattenSeq(s) = Artifact!Bytes(firstV, 0, e[n])
    BY <1>5, <2>6, FlattenPieces
  <2>. QED
    BY <1>3, <2>2, <2>5, <2>7 DEF Artifact!Object
<1>7. r.state = "here" => OfOneVersion(r.bytes)
  <2>. HIDE DEF r
  <2>1. Len(sizes) = firstV \/ Len(sizes) > firstV
    BY <1>3, <1>5
  <2>2. firstV \in firstV .. Len(sizes)
    BY <1>3, <1>5
  <2>3. r.state = "here" /\ Len(sizes) = firstV =>
          \E v \in firstV .. Len(sizes) : r.bytes = Artifact!Object(v)
    BY <1>6, <2>2
  <2>. QED
    BY <1>5, <2>1, <2>3 DEF OfOneVersion
<1>. HIDE DEF r
<1>. QED
  BY <1>1, <1>7, EndFetch

LEMMA StutterFetch ==
  ASSUME FetchInv, UNCHANGED fetch
  PROVE  FetchInv'
<1>1. UNCHANGED <<sizes, setting, fetching, meta, ranges, result, firstV>>
  BY DEF fetch
<1>2. FetchTypes' /\ HeadSeen'
  BY <1>1 DEF FetchInv, FetchTypes, HeadSeen
<1>3. ChunksOfTheObject'
  BY <1>1 DEF FetchInv, ChunksOfTheObject, RangeBytes, Artifact!Concurrency
<1>4. Artifact!FetchedExact'
  BY <1>1 DEF FetchInv, Artifact!FetchedExact, Artifact!Object, Artifact!Current
<1>. QED
  BY <1>2, <1>3, <1>4 DEF FetchInv

LEMMA NextFetch ==
  ASSUME FetchInv, Artifact!Next
  PROVE  FetchInv'
<1>1. \/ Artifact!Republish \/ Artifact!HeadObject \/ Artifact!HeadFails \/ Artifact!GetWhole
      \/ Artifact!GetFails \/ Artifact!Collect \/ Artifact!Stop
      \/ \E i \in 1 .. Len(ranges) :
           Artifact!Send(i) \/ Artifact!Receive(i) \/ Artifact!ReceiveFails(i)
  BY DEF Artifact!Next
<1>2. Artifact!Stop => UNCHANGED fetch
  BY DEF Artifact!Stop, Artifact!vars, fetch
<1>. QED
  BY <1>1, <1>2, RepublishFetch, HeadObjectFetch, FailFetch, GetWholeFetch, CollectFetch,
     StutterFetch, SendFetch, ReceiveFetch

\* The bytes are one version unless it was republished, and the ranges tile.
LEMMA FetchSays ==
  ASSUME FetchInv
  PROVE  Artifact!FetchSound
<1>1. Artifact!RangesTile
  <2>. SUFFICES ASSUME fetching = "ranges"
       PROVE  LET r == Artifact!Ranges(meta, Artifact!Concurrency)
              IN  /\ Len(r) <= Artifact!Concurrency
                  /\ r[1].start = 0 /\ r[Len(r)].end = meta
                  /\ \A i \in 1 .. Len(r) : r[i].start < r[i].end
                  /\ \A i \in 2 .. Len(r) : r[i].start = r[i - 1].end
    BY DEF Artifact!RangesTile
  <2>. DEFINE C == Artifact!Concurrency
              r == Artifact!Ranges(meta, C)
              n == Len(r)
  <2>1. /\ n \in 1 .. C /\ C \in Nat
        /\ EndOf(meta, C, 0) = 0 /\ EndOf(meta, C, n) = meta
        /\ \A i \in 1 .. n :
             /\ EndOf(meta, C, i - 1) \in Nat /\ EndOf(meta, C, i) \in Nat
             /\ EndOf(meta, C, i - 1) < EndOf(meta, C, i)
             /\ r[i].start = EndOf(meta, C, i - 1) /\ r[i].end = EndOf(meta, C, i)
    BY RangesNow
  <2>. HIDE DEF C, r, n
  <2>2. 1 \in 1 .. n /\ n \in 1 .. n /\ n <= C
    BY <2>1
  <2>3. r[1].start = 0 /\ r[n].end = meta
    <3>1. r[1].start = EndOf(meta, C, 1 - 1)
      BY <2>1, <2>2
    <3>. QED
      BY <2>1, <2>2, <3>1
  <2>4. \A i \in 1 .. n : r[i].start < r[i].end
    BY <2>1
  <2>5. ASSUME NEW i \in 2 .. n PROVE r[i].start = r[i - 1].end
    <3>1. i \in 1 .. n /\ i - 1 \in 1 .. n
      BY <2>1
    <3>. QED
      BY <2>1, <3>1
  <2>. QED
    BY <2>2, <2>3, <2>4, <2>5 DEF C, r, n
<1>. QED
  BY <1>1 DEF FetchInv, Artifact!FetchSound

\* A large artifact is fetched exactly, for objects of any size, any number of
\* requests at once and any order of their answers: the ranges tile the object,
\* and what is put together from them is one version of it unless it was
\* republished meanwhile (remote_artifact_ranges, session.rs).
THEOREM FetchSoundHolds == MCSpec => []FetchSound
<1>. DEFINE FetchKept == part = "fetch" => FetchInv
            all == <<part, vars, fetch, python, export, cli>>
<1>1. MCInit => FetchKept
  BY InitFetch DEF MCInit
<1>2. FetchKept /\ [MCNext]_all => FetchKept'
  <2>. SUFFICES ASSUME FetchKept, [MCNext]_all PROVE FetchKept'
    OBVIOUS
  <2>1. part' = part /\ (part = "fetch" => Artifact!Next \/ UNCHANGED fetch)
    BY DEF MCNext
  <2>. QED
    BY <2>1, NextFetch, StutterFetch
<1>3. FetchKept => FetchSound
  BY FetchSays DEF FetchSound
<1>. QED
  BY <1>1, <1>2, <1>3, PTL DEF MCSpec

-----------------------------------------------------------------------------
(* Powers of two, as the number of subsets.                                  *)

LEMMA TwoToIsCount ==
  ASSUME NEW n \in Nat
  PROVE  /\ IsFiniteSet(SUBSET (1 .. n)) /\ Cardinality(SUBSET (1 .. n)) = 2 ^ n
         /\ 2 ^ n \in Nat
<1>1. IsFiniteSet(1 .. n) /\ Cardinality(1 .. n) = n
  <2>1. 1 \in Int /\ n \in Int
    OBVIOUS
  <2>. QED
    BY <2>1, FS_Interval
<1>2. IsFiniteSet(SUBSET (1 .. n)) /\ Cardinality(SUBSET (1 .. n)) = 2 ^ n
  BY <1>1, FS_SUBSET
<1>. QED
  BY <1>2, FS_CardinalityType

LEMMA TwoToNext ==
  ASSUME NEW n \in Nat
  PROVE  2 ^ (n + 1) = 2 * 2 ^ n
<1>. DEFINE A == SUBSET (1 .. n)
            B == {s \cup {n + 1} : s \in A}
            f == [s \in A |-> s \cup {n + 1}]
<1>1. IsFiniteSet(A) /\ Cardinality(A) = 2 ^ n /\ 2 ^ n \in Nat
  BY TwoToIsCount
<1>2. Cardinality(SUBSET (1 .. n + 1)) = 2 ^ (n + 1)
  <2>. DEFINE m == n + 1
  <2>1. m \in Nat
    OBVIOUS
  <2>. HIDE DEF m
  <2>2. Cardinality(SUBSET (1 .. m)) = 2 ^ m
    BY <2>1, TwoToIsCount
  <2>. QED
    BY <2>2 DEF m
<1>3. SUBSET (1 .. n + 1) = A \cup B
  <2>1. 1 .. n + 1 = (1 .. n) \cup {n + 1} /\ n + 1 \notin 1 .. n
    OBVIOUS
  <2>2. ASSUME NEW s \in SUBSET (1 .. n + 1) PROVE s \in A \cup B
    <3>1. CASE n + 1 \in s
      <4>1. s \ {n + 1} \in A /\ s = (s \ {n + 1}) \cup {n + 1}
        BY <2>1, <3>1
      <4>. QED
        BY <4>1
    <3>2. CASE n + 1 \notin s
      BY <2>1, <3>2
    <3>. QED
      BY <3>1, <3>2
  <2>3. A \cup B \subseteq SUBSET (1 .. n + 1)
    BY <2>1
  <2>. QED
    BY <2>2, <2>3
<1>4. \A s \in A : n + 1 \notin s
  OBVIOUS
<1>5. A \cap B = {}
  BY <1>4
<1>6. f \in Bijection(A, B)
  <2>1. f \in [A -> B]
    OBVIOUS
  <2>2. ASSUME NEW s \in A, NEW t \in A, f[s] = f[t] PROVE s = t
    <3>1. s \cup {n + 1} = t \cup {n + 1}
      BY <2>2
    <3>2. s = (s \cup {n + 1}) \ {n + 1} /\ t = (t \cup {n + 1}) \ {n + 1}
      BY <1>4
    <3>. QED
      BY <3>1, <3>2
  <2>3. \A b \in B : \E s \in A : f[s] = b
    OBVIOUS
  <2>. HIDE DEF A, B, f
  <2>. QED
    BY <2>1, <2>2, <2>3 DEF Bijection, Injection, Surjection, IsInjective
<1>7. IsFiniteSet(B) /\ Cardinality(B) = Cardinality(A)
  <2>1. ExistsBijection(A, B)
    BY <1>6 DEF ExistsBijection
  <2>. QED
    BY <1>1, <2>1, FS_Bijection
<1>8. Cardinality(A \cup B) = Cardinality(A) + Cardinality(B) - Cardinality(A \cap B)
  <2>. HIDE DEF A, B
  <2>. QED
    BY <1>1, <1>7, FS_Union
<1>9. Cardinality(A \cap B) = 0
  BY <1>5, FS_EmptySet
<1>10. Cardinality(A \cup B) = 2 * Cardinality(A)
  BY <1>1, <1>7, <1>8, <1>9
<1>. QED
  BY <1>1, <1>2, <1>3, <1>10, Zenon

LEMMA TwoToZero == 2 ^ 0 = 1
OBVIOUS

LEMMA TwoToPositive ==
  ASSUME NEW n \in Nat
  PROVE  2 ^ n \in Nat \ {0}
<1>1. Cardinality(SUBSET (1 .. n)) = 2 ^ n /\ 2 ^ n \in Nat /\ IsFiniteSet(SUBSET (1 .. n))
  BY TwoToIsCount
<1>2. SUBSET (1 .. n) # {}
  OBVIOUS
<1>3. Cardinality(SUBSET (1 .. n)) # 0
  BY <1>1, <1>2, FS_EmptySet
<1>. QED
  BY <1>1, <1>3

LEMMA TwoToSum ==
  ASSUME NEW k \in Nat, NEW n \in Nat
  PROVE  2 ^ (k + n) = 2 ^ k * 2 ^ n
<1>. DEFINE T == {m \in Nat : 2 ^ (k + m) # 2 ^ k * 2 ^ m}
<1>1. ASSUME T # {} PROVE FALSE
  <2>1. PICK m \in T : \A y \in T : m <= y
    BY <1>1, LeastElement
  <2>2. 2 ^ k \in Nat /\ 2 ^ 0 = 1
    BY TwoToIsCount, TwoToZero
  <2>3. m # 0
    <3>1. ASSUME m = 0 PROVE FALSE
      <4>1. k + m = k /\ 2 ^ m = 1
        BY <3>1, <2>2
      <4>2. 2 ^ (k + m) = 2 ^ k * 2 ^ m
        BY <4>1, <2>2
      <4>. QED
        BY <2>1, <4>2
    <3>. QED
      BY <3>1
  <2>4. m - 1 \in Nat /\ m - 1 \notin T
    BY <2>1, <2>3
  <2>. DEFINE p == m - 1
  <2>5. 2 ^ (k + p) = 2 ^ k * 2 ^ p
    BY <2>4
  <2>6. p \in Nat /\ k + p \in Nat /\ m = p + 1 /\ k + m = (k + p) + 1
    BY <2>4
  <2>. HIDE DEF p
  <2>7. 2 ^ m = 2 * 2 ^ p /\ 2 ^ (k + m) = 2 * 2 ^ (k + p)
    BY <2>6, TwoToNext
  <2>8. 2 ^ p \in Nat
    BY <2>6, TwoToIsCount
  <2>. DEFINE a == 2 ^ k
              b == 2 ^ p
  <2>9. a \in Nat /\ b \in Nat /\ 2 * (a * b) = a * (2 * b)
    BY <2>2, <2>8
  <2>10. 2 ^ (k + m) = 2 ^ k * 2 ^ m
    BY <2>5, <2>7, <2>9
  <2>. QED
    BY <2>1, <2>10
<1>. QED
  BY <1>1

-----------------------------------------------------------------------------
(* The Hilbert curve, for every number of bits.                              *)

LEMMA QuotientBounds ==
  ASSUME NEW x \in Int, NEW p \in Nat \ {0}
  PROVE  x \div p \in Int /\ p * (x \div p) <= x /\ x < p * (x \div p) + p
<1>. DEFINE q == x \div p
<1>1. q \in Int /\ p * q <= x /\ x < p * (q + 1)
  OBVIOUS
<1>. HIDE DEF q
<1>2. p * (q + 1) = p * q + p
  BY <1>1
<1>. QED
  BY <1>1, <1>2 DEF q

LEMMA QuotientIs ==
  ASSUME NEW x \in Int, NEW p \in Nat \ {0}, NEW a \in Int, p * a <= x, x < p * a + p
  PROVE  x \div p = a
<1>. DEFINE q == x \div p
<1>1. q \in Int /\ p * q <= x /\ x < p * q + p
  BY QuotientBounds
<1>. HIDE DEF q
<1>2. ASSUME q < a PROVE FALSE
  <2>1. a = q + 1 + (a - q - 1) /\ a - q - 1 \in Nat
    BY <1>1, <1>2
  <2>. DEFINE r == a - q - 1
  <2>. HIDE DEF r
  <2>2. r \in Nat /\ a = q + 1 + r
    BY <2>1 DEF r
  <2>3. p * (q + 1 + r) = p * q + p + p * r /\ p * r >= 0
    BY <1>1, <2>2
  <2>. QED
    BY <1>1, <2>2, <2>3
<1>3. ASSUME q > a PROVE FALSE
  <2>. DEFINE r == q - a - 1
  <2>1. r \in Nat /\ q = a + 1 + r
    BY <1>1, <1>3
  <2>. HIDE DEF r
  <2>2. p * (a + 1 + r) = p * a + p + p * r /\ p * r >= 0
    BY <1>1, <2>1
  <2>. QED
    BY <1>1, <2>1, <2>2
<1>. QED
  BY <1>1, <1>2, <1>3 DEF q

LEMMA QuotientShifted ==
  ASSUME NEW x \in Int, NEW p \in Nat \ {0}, NEW m \in Int
  PROVE  (x - p * m) \div p = x \div p - m
<1>. DEFINE q == x \div p
<1>1. q \in Int /\ p * q <= x /\ x < p * q + p
  BY QuotientBounds
<1>. HIDE DEF q
<1>2. p * (q - m) = p * q - p * m
  BY <1>1
<1>3. p * (q - m) <= x - p * m /\ x - p * m < p * (q - m) + p /\ q - m \in Int /\ x - p * m \in Int
  BY <1>1, <1>2
<1>4. (x - p * m) \div p = q - m
  BY <1>3, QuotientIs
<1>. QED
  BY <1>4 DEF q

LEMMA QuotientMirrored ==
  ASSUME NEW x \in Int, NEW p \in Nat \ {0}, NEW m \in Int
  PROVE  (p * m - 1 - x) \div p = m - 1 - x \div p
<1>. DEFINE q == x \div p
<1>1. q \in Int /\ p * q <= x /\ x < p * q + p
  BY QuotientBounds
<1>. HIDE DEF q
<1>2. p * (m - 1 - q) = p * m - p - p * q
  BY <1>1
<1>3. /\ p * (m - 1 - q) <= p * m - 1 - x /\ p * m - 1 - x < p * (m - 1 - q) + p
      /\ m - 1 - q \in Int /\ p * m - 1 - x \in Int
  BY <1>1, <1>2
<1>4. (p * m - 1 - x) \div p = m - 1 - q
  BY <1>3, QuotientIs
<1>. QED
  BY <1>4 DEF q

LEMMA QuotientSides ==
  ASSUME NEW x \in Int, NEW y \in Int, NEW p \in Nat \ {0}, NEW m \in Int,
         x \div p = y \div p, x < p * m
  PROVE  y < p * m
<1>. DEFINE q == x \div p
<1>1. q \in Int /\ p * q <= x /\ x < p * q + p /\ y < p * q + p
  BY QuotientBounds
<1>. HIDE DEF q
<1>2. q < m
  <2>1. ASSUME q >= m PROVE FALSE
    <3>. DEFINE r == q - m
    <3>1. r \in Nat /\ q = m + r
      BY <1>1, <2>1
    <3>. HIDE DEF r
    <3>2. p * (m + r) = p * m + p * r /\ p * r >= 0
      BY <3>1
    <3>. QED
      BY <1>1, <3>1, <3>2
  <2>. QED
    BY <1>1, <2>1
<1>. DEFINE r == m - q - 1
<1>3. r \in Nat /\ m = q + 1 + r
  BY <1>1, <1>2
<1>. HIDE DEF r
<1>4. p * (q + 1 + r) = p * q + p + p * r /\ p * r >= 0
  BY <1>1, <1>3
<1>. QED
  BY <1>1, <1>3, <1>4

\* The cells of a square grid.
Cells(n) == (0 .. n - 1) \X (0 .. n - 1)

\* The quadrant of a cell in the order of the curve, and the cell's place in it.
Quad(half, c) ==
  IF c[1] < half THEN IF c[2] < half THEN 0 ELSE 1 ELSE IF c[2] >= half THEN 2 ELSE 3

Turn(half, c) ==
  IF c[1] < half THEN IF c[2] < half THEN <<c[2], c[1]>> ELSE <<c[1], c[2] - half>>
  ELSE IF c[2] >= half THEN <<c[1] - half, c[2] - half>>
  ELSE <<half - 1 - c[2], half - 1 - (c[1] - half)>>

\* Two cells of the same aligned square of side p.
Together(p, c, d) == c[1] \div p = d[1] \div p /\ c[2] \div p = d[2] \div p

Beside(c, d) == <<d[1] - c[1], d[2] - c[2]>> \in {<<1, 0>>, <<-1, 0>>, <<0, 1>>, <<0, -1>>}

LEMMA CellParts ==
  ASSUME NEW n \in Int, NEW c \in Cells(n)
  PROVE  /\ c = <<c[1], c[2]>> /\ c[1] \in Int /\ c[2] \in Int
         /\ 0 <= c[1] /\ c[1] < n /\ 0 <= c[2] /\ c[2] < n
BY DEF Cells

LEMMA CellIs ==
  ASSUME NEW n \in Int, NEW x \in Int, NEW y \in Int, 0 <= x, x < n, 0 <= y, y < n
  PROVE  <<x, y>> \in Cells(n)
BY DEF Cells

LEMMA TurnPlace ==
  ASSUME NEW half \in Nat \ {0}, NEW c \in Cells(2 * half)
  PROVE  Turn(half, c) \in Cells(half) /\ Quad(half, c) \in 0 .. 3
<1>1. /\ c[1] \in Int /\ c[2] \in Int
      /\ 0 <= c[1] /\ c[1] < 2 * half /\ 0 <= c[2] /\ c[2] < 2 * half
  BY CellParts
<1>2. CASE c[1] < half /\ c[2] < half
  BY <1>1, <1>2, CellIs DEF Turn, Quad
<1>3. CASE c[1] < half /\ ~(c[2] < half)
  BY <1>1, <1>3, CellIs DEF Turn, Quad
<1>4. CASE ~(c[1] < half) /\ c[2] >= half
  BY <1>1, <1>4, CellIs, SMTT(40) DEF Turn, Quad
<1>5. CASE ~(c[1] < half) /\ ~(c[2] >= half)
  <2>1. half - 1 - c[2] \in Int /\ half - 1 - (c[1] - half) \in Int
        /\ 0 <= half - 1 - c[2] /\ half - 1 - c[2] < half
        /\ 0 <= half - 1 - (c[1] - half) /\ half - 1 - (c[1] - half) < half
    BY <1>1, <1>5
  <2>. QED
    BY <1>1, <1>5, <2>1, CellIs DEF Turn, Quad
<1>. QED
  BY <1>1, <1>2, <1>3, <1>4, <1>5

\* Turning a quadrant keeps neighbours neighbours.
LEMMA TurnBeside ==
  ASSUME NEW half \in Nat \ {0}, NEW c \in Cells(2 * half), NEW d \in Cells(2 * half),
         Quad(half, c) = Quad(half, d), Beside(Turn(half, c), Turn(half, d))
  PROVE  Beside(c, d)
<1>1. /\ c[1] \in Int /\ c[2] \in Int /\ d[1] \in Int /\ d[2] \in Int
  BY CellParts
<1>2. \A a, b, x, y \in Int :
        <<a, b>> \in {<<1, 0>>, <<-1, 0>>, <<0, 1>>, <<0, -1>>} <=>
          (a = 1 /\ b = 0) \/ (a = -1 /\ b = 0) \/ (a = 0 /\ b = 1) \/ (a = 0 /\ b = -1)
  OBVIOUS
<1>. QED
  BY <1>1, <1>2 DEF Beside, Turn, Quad

LEMMA TurnTogether ==
  ASSUME NEW p \in Nat \ {0}, NEW m \in Nat \ {0}, NEW half, half = p * m, half \in Nat \ {0},
         NEW c \in Cells(2 * half), NEW d \in Cells(2 * half)
  PROVE  Together(p, c, d) <=>
           Quad(half, c) = Quad(half, d) /\ Together(p, Turn(half, c), Turn(half, d))
<1>1. /\ c[1] \in Int /\ c[2] \in Int /\ d[1] \in Int /\ d[2] \in Int
  BY CellParts
<1>0. m \in Int
  OBVIOUS
<1>2. \A x \in Int : (x - half) \div p = x \div p - m
  <2>1. \A x \in Int : (x - p * m) \div p = x \div p - m
    BY <1>0, QuotientShifted, Zenon
  <2>. QED
    BY <2>1, Zenon
<1>3. \A x \in Int : (half - 1 - x) \div p = m - 1 - x \div p
  <2>1. \A x \in Int : (p * m - 1 - x) \div p = m - 1 - x \div p
    BY <1>0, QuotientMirrored, Zenon
  <2>. QED
    BY <2>1, Zenon
<1>4. \A x, y \in Int : x \div p = y \div p => (x < half <=> y < half)
  <2>1. \A x, y \in Int : x \div p = y \div p /\ x < p * m => y < p * m
    BY <1>0, QuotientSides, Zenon
  <2>. QED
    BY <2>1, Zenon
<1>5. \A x \in Int : x \div p \in Int
  BY QuotientBounds
<1>6. \A x \in Int : (half - 1 - (x - half)) \div p = m - 1 - (x \div p - m)
  <2>. TAKE x \in Int
  <2>1. x - half \in Int
    OBVIOUS
  <2>. QED
    BY <1>2, <1>3, <2>1
<1>7. ASSUME Together(p, c, d) PROVE Quad(half, c) = Quad(half, d)
  <2>1. (c[1] < half <=> d[1] < half) /\ (c[2] < half <=> d[2] < half)
    BY <1>1, <1>4, <1>7 DEF Together
  <2>. QED
    BY <1>1, <2>1 DEF Quad
<1>8. ASSUME Quad(half, c) = Quad(half, d)
      PROVE  Together(p, c, d) <=> Together(p, Turn(half, c), Turn(half, d))
  <2>1. (c[1] < half <=> d[1] < half) /\ (c[2] < half <=> d[2] < half)
    BY <1>1, <1>8 DEF Quad
  <2>. DEFINE a == c[1] \div p
              b == c[2] \div p
              e == d[1] \div p
              f == d[2] \div p
  <2>2. a \in Int /\ b \in Int /\ e \in Int /\ f \in Int
    BY <1>1, <1>5
  <2>3. /\ (c[1] - half) \div p = a - m /\ (d[1] - half) \div p = e - m
        /\ (c[2] - half) \div p = b - m /\ (d[2] - half) \div p = f - m
    BY <1>1, <1>2
  <2>4. /\ (half - 1 - c[2]) \div p = m - 1 - b /\ (half - 1 - d[2]) \div p = m - 1 - f
        /\ (half - 1 - (c[1] - half)) \div p = m - 1 - (a - m)
        /\ (half - 1 - (d[1] - half)) \div p = m - 1 - (e - m)
    BY <1>1, <1>3, <1>6
  <2>5. Together(p, c, d) <=> a = e /\ b = f
    BY DEF Together
  <2>6. CASE c[1] < half /\ c[2] < half
    <3>1. Turn(half, c) = <<c[2], c[1]>> /\ Turn(half, d) = <<d[2], d[1]>>
      BY <2>1, <2>6 DEF Turn
    <3>2. Together(p, Turn(half, c), Turn(half, d)) <=> b = f /\ a = e
      BY <3>1 DEF Together
    <3>. QED
      BY <2>5, <3>2
  <2>7. CASE c[1] < half /\ ~(c[2] < half)
    <3>1. Turn(half, c) = <<c[1], c[2] - half>> /\ Turn(half, d) = <<d[1], d[2] - half>>
      BY <2>1, <2>7 DEF Turn
    <3>2. Together(p, Turn(half, c), Turn(half, d)) <=> a = e /\ b - m = f - m
      BY <3>1, <2>3 DEF Together
    <3>. QED
      BY <2>2, <2>5, <3>2
  <2>8. CASE ~(c[1] < half) /\ ~(c[2] < half)
    <3>1. Turn(half, c) = <<c[1] - half, c[2] - half>> /\ Turn(half, d) = <<d[1] - half, d[2] - half>>
      BY <1>1, <2>1, <2>8 DEF Turn
    <3>2. Together(p, Turn(half, c), Turn(half, d)) <=> a - m = e - m /\ b - m = f - m
      BY <3>1, <2>3 DEF Together
    <3>. QED
      BY <2>2, <2>5, <3>2
  <2>9. CASE ~(c[1] < half) /\ c[2] < half
    <3>1. /\ Turn(half, c) = <<half - 1 - c[2], half - 1 - (c[1] - half)>>
          /\ Turn(half, d) = <<half - 1 - d[2], half - 1 - (d[1] - half)>>
      BY <1>1, <2>1, <2>9 DEF Turn
    <3>2. Together(p, Turn(half, c), Turn(half, d)) <=>
            m - 1 - b = m - 1 - f /\ m - 1 - (a - m) = m - 1 - (e - m)
      BY <3>1, <2>4 DEF Together
    <3>. QED
      BY <2>2, <2>5, <3>2
  <2>. QED
    BY <2>6, <2>7, <2>8, <2>9
<1>. QED
  BY <1>7, <1>8

\* g is a curve through all cells of a grid of side n that starts in the first
\* corner and ends in the second, steps from neighbour to neighbour, and leaves
\* no aligned square of side 2^k, k up to b, before it is through with it.
Curve(g, n, b) ==
  /\ g \in [Cells(n) -> 0 .. n * n - 1]
  /\ \A c \in Cells(n) : (g[c] = 0 => c = <<0, 0>>) /\ (g[c] = n * n - 1 => c = <<n - 1, 0>>)
  /\ \A c, d \in Cells(n) : g[d] = g[c] + 1 => Beside(c, d)
  /\ \A k \in 0 .. b : \A c, d, e \in Cells(n) :
       Together(2 ^ k, c, d) /\ g[c] <= g[e] /\ g[e] <= g[d] => Together(2 ^ k, c, e)

\* A cell's place on a curve of one bit more.
Onward(g, half, c) == Quad(half, c) * (half * half) + g[Turn(half, c)]

LEMMA OnwardParts ==
  ASSUME NEW half \in Nat \ {0}, NEW g \in [Cells(half) -> 0 .. half * half - 1],
         NEW c \in Cells(2 * half)
  PROVE  /\ Turn(half, c) \in Cells(half) /\ Quad(half, c) \in 0 .. 3
         /\ half * half \in Nat
         /\ g[Turn(half, c)] \in Int /\ 0 <= g[Turn(half, c)] /\ g[Turn(half, c)] < half * half
         /\ Onward(g, half, c) \in Int
         /\ 0 <= Onward(g, half, c) /\ Onward(g, half, c) < 4 * (half * half)
<1>. DEFINE q == half * half
            t == Turn(half, c)
            u == Quad(half, c)
<1>1. t \in Cells(half) /\ u \in 0 .. 3
  BY TurnPlace
<1>2. q \in Nat
  OBVIOUS
<1>3. g[t] \in 0 .. q - 1
  BY <1>1
<1>4. Onward(g, half, c) = u * q + g[t]
  BY DEF Onward
<1>. HIDE DEF q, t, u
<1>5. u = 0 \/ u = 1 \/ u = 2 \/ u = 3
  BY <1>1
<1>6. /\ u * q + g[t] \in Int /\ 0 <= u * q + g[t] /\ u * q + g[t] < 4 * q
  BY <1>2, <1>3, <1>5
<1>7. g[t] \in Int /\ 0 <= g[t] /\ g[t] < q
  BY <1>2, <1>3
<1>. QED
  BY <1>1, <1>2, <1>4, <1>6, <1>7 DEF q, t, u

\* Whoever lies between two cells of a quadrant is in it.
LEMMA OnwardBetween ==
  ASSUME NEW q \in Nat, NEW u \in 0 .. 3, NEW v \in 0 .. 3,
         NEW x \in Int, 0 <= x, x < q, NEW y \in Int, 0 <= y, y < q, NEW z \in Int, 0 <= z, z < q,
         u * q + x <= v * q + z, v * q + z <= u * q + y
  PROVE  u = v /\ x <= z /\ z <= y
<1>1. (u = 0 \/ u = 1 \/ u = 2 \/ u = 3) /\ (v = 0 \/ v = 1 \/ v = 2 \/ v = 3)
  OBVIOUS
<1>2. u = v
  BY <1>1
<1>. QED
  BY <1>1, <1>2

\* Four turned copies of a curve make a curve of twice the side.
LEMMA CurveGrows ==
  ASSUME NEW b \in Nat, NEW half, half = 2 ^ b, half \in Nat \ {0}, NEW g, Curve(g, half, b),
         NEW f, f = [c \in Cells(2 * half) |-> Onward(g, half, c)]
  PROVE  Curve(f, 2 * half, b + 1)
<1>. DEFINE q == half * half
            n == 2 * half
<1>1. g \in [Cells(half) -> 0 .. half * half - 1]
  BY DEF Curve
<1>2. q \in Nat /\ n \in Nat \ {0} /\ n * n = 4 * q
  OBVIOUS
<1>3. ASSUME NEW c \in Cells(n)
      PROVE  /\ Turn(half, c) \in Cells(half) /\ Quad(half, c) \in 0 .. 3
             /\ g[Turn(half, c)] \in Int /\ 0 <= g[Turn(half, c)] /\ g[Turn(half, c)] < q
             /\ f[c] \in Int /\ 0 <= f[c] /\ f[c] < 4 * q
             /\ f[c] = Quad(half, c) * q + g[Turn(half, c)]
  <2>1. f[c] = Onward(g, half, c)
    OBVIOUS
  <2>2. c \in Cells(2 * half)
    OBVIOUS
  <2>3. Onward(g, half, c) = Quad(half, c) * (half * half) + g[Turn(half, c)]
    BY DEF Onward
  <2>. QED
    BY <1>1, <2>1, <2>2, <2>3, OnwardParts
<1>4. f \in [Cells(n) -> 0 .. n * n - 1]
  <2>1. \A c \in Cells(n) : Onward(g, half, c) \in 0 .. n * n - 1
    <3>. TAKE c \in Cells(n)
    <3>1. f[c] = Onward(g, half, c)
      OBVIOUS
    <3>2. f[c] \in Int /\ 0 <= f[c] /\ f[c] < 4 * q
      BY <1>3
    <3>. QED
      BY <1>2, <3>1, <3>2
  <2>. QED
    BY <2>1
<1>5. \A c \in Cells(half) : (g[c] = 0 => c = <<0, 0>>) /\ (g[c] = q - 1 => c = <<half - 1, 0>>)
  BY DEF Curve
<1>. HIDE DEF q, n
<1>6. ASSUME NEW c \in Cells(n)
      PROVE  (f[c] = 0 => c = <<0, 0>>) /\ (f[c] = n * n - 1 => c = <<n - 1, 0>>)
  <2>. DEFINE t == Turn(half, c)
              u == Quad(half, c)
  <2>1. t \in Cells(half) /\ u \in 0 .. 3 /\ g[t] \in Int /\ 0 <= g[t] /\ g[t] < q /\ f[c] = u * q + g[t]
    BY <1>3
  <2>2. /\ c = <<c[1], c[2]>> /\ c[1] \in Int /\ c[2] \in Int
        /\ 0 <= c[1] /\ c[1] < n /\ 0 <= c[2] /\ c[2] < n
    BY <1>2, CellParts
  <2>3. ASSUME f[c] = 0 PROVE c = <<0, 0>>
    <3>1. u = 0 /\ g[t] = 0
      <4>. HIDE DEF t, u
      <4>1. u = 0 \/ u = 1 \/ u = 2 \/ u = 3
        BY <2>1
      <4>. QED
        BY <1>2, <2>1, <2>3, <4>1
    <3>2. t = <<0, 0>>
      BY <1>5, <2>1, <3>1
    <3>3. t = <<c[2], c[1]>>
      BY <3>1 DEF Turn, Quad
    <3>4. c[2] = 0 /\ c[1] = 0
      BY <3>2, <3>3
    <3>. QED
      BY <2>2, <3>4
  <2>4. ASSUME f[c] = n * n - 1 PROVE c = <<n - 1, 0>>
    <3>1. u = 3 /\ g[t] = q - 1
      <4>. HIDE DEF t, u
      <4>1. u = 0 \/ u = 1 \/ u = 2 \/ u = 3
        BY <2>1
      <4>. QED
        BY <1>2, <2>1, <2>4, <4>1
    <3>2. t = <<half - 1, 0>>
      BY <1>5, <2>1, <3>1
    <3>3. t = <<half - 1 - c[2], half - 1 - (c[1] - half)>>
      BY <3>1 DEF Turn, Quad
    <3>4. half - 1 - c[2] = half - 1 /\ half - 1 - (c[1] - half) = 0
      BY <3>2, <3>3
    <3>5. c[2] = 0 /\ c[1] = n - 1
      <4>1. \A h, x, y \in Int : h - 1 - y = h - 1 /\ h - 1 - (x - h) = 0 => y = 0 /\ x = 2 * h - 1
        OBVIOUS
      <4>2. half \in Int
        OBVIOUS
      <4>. QED
        BY <2>2, <3>4, <4>1, <4>2 DEF n
    <3>. QED
      BY <2>2, <3>5
  <2>. QED
    BY <2>3, <2>4
<1>7. ASSUME NEW c \in Cells(n), NEW d \in Cells(n), f[d] = f[c] + 1
      PROVE  Beside(c, d)
  <2>. DEFINE s == Turn(half, c)
              t == Turn(half, d)
              u == Quad(half, c)
              v == Quad(half, d)
  <2>1. /\ s \in Cells(half) /\ u \in 0 .. 3 /\ g[s] \in Int /\ 0 <= g[s] /\ g[s] < q /\ f[c] = u * q + g[s]
        /\ t \in Cells(half) /\ v \in 0 .. 3 /\ g[t] \in Int /\ 0 <= g[t] /\ g[t] < q /\ f[d] = v * q + g[t]
    BY <1>3
  <2>2. (u = v /\ g[t] = g[s] + 1) \/ (v = u + 1 /\ g[s] = q - 1 /\ g[t] = 0)
    <3>. HIDE DEF s, t, u, v
    <3>1. (u = 0 \/ u = 1 \/ u = 2 \/ u = 3) /\ (v = 0 \/ v = 1 \/ v = 2 \/ v = 3)
      BY <2>1
    <3>. QED
      BY <1>2, <1>7, <2>1, <3>1
  <2>3. CASE u = v /\ g[t] = g[s] + 1
    <3>1. Beside(s, t)
      BY <2>1, <2>3 DEF Curve
    <3>2. c \in Cells(2 * half) /\ d \in Cells(2 * half)
      BY DEF n
    <3>. QED
      BY <2>3, <3>1, <3>2, TurnBeside
  <2>4. CASE v = u + 1 /\ g[s] = q - 1 /\ g[t] = 0
    <3>1. s = <<half - 1, 0>> /\ t = <<0, 0>>
      BY <1>5, <2>1, <2>4
    <3>2. /\ c[1] \in Int /\ c[2] \in Int /\ d[1] \in Int /\ d[2] \in Int
      BY <1>2, CellParts
    <3>3. CASE u = 0
      <4>1. c[1] < half /\ c[2] < half /\ d[1] < half /\ ~(d[2] < half)
        BY <2>4, <3>3 DEF Quad
      <4>2. s = <<c[2], c[1]>> /\ t = <<d[1], d[2] - half>>
        BY <4>1 DEF Turn
      <4>3. c[2] = half - 1 /\ c[1] = 0 /\ d[1] = 0 /\ d[2] - half = 0
        BY <3>1, <4>2
      <4>4. d[1] - c[1] = 0 /\ d[2] - c[2] = 1
        BY <3>2, <4>3
      <4>. QED
        BY <4>4 DEF Beside
    <3>4. CASE u = 1
      <4>1. c[1] < half /\ ~(c[2] < half) /\ ~(d[1] < half) /\ d[2] >= half
        BY <2>4, <3>4 DEF Quad
      <4>2. s = <<c[1], c[2] - half>> /\ t = <<d[1] - half, d[2] - half>>
        BY <4>1 DEF Turn
      <4>3. c[1] = half - 1 /\ c[2] - half = 0 /\ d[1] - half = 0 /\ d[2] - half = 0
        BY <3>1, <4>2
      <4>4. d[1] - c[1] = 1 /\ d[2] - c[2] = 0
        BY <3>2, <4>3
      <4>. QED
        BY <4>4 DEF Beside
    <3>5. CASE u = 2
      <4>1. ~(c[1] < half) /\ c[2] >= half /\ ~(d[1] < half) /\ ~(d[2] >= half)
        BY <2>4, <3>5 DEF Quad
      <4>2. s = <<c[1] - half, c[2] - half>> /\ t = <<half - 1 - d[2], half - 1 - (d[1] - half)>>
        BY <4>1 DEF Turn
      <4>3. c[1] - half = half - 1 /\ c[2] - half = 0 /\ half - 1 - d[2] = 0 /\ half - 1 - (d[1] - half) = 0
        BY <3>1, <4>2
      <4>4. d[1] - c[1] = 0 /\ d[2] - c[2] = -1
        <5>1. \A h, x, y, z, w \in Int :
                x - h = h - 1 /\ y - h = 0 /\ h - 1 - w = 0 /\ h - 1 - (z - h) = 0
                  => z - x = 0 /\ w - y = -1
          OBVIOUS
        <5>2. half \in Int
          OBVIOUS
        <5>. QED
          BY <3>2, <4>3, <5>1, <5>2
      <4>. QED
        BY <4>4 DEF Beside
    <3>6. u = 0 \/ u = 1 \/ u = 2
      <4>. HIDE DEF u, v
      <4>. QED
        BY <2>1, <2>4
    <3>. QED
      BY <3>3, <3>4, <3>5, <3>6
  <2>. QED
    BY <2>2, <2>3, <2>4
<1>8. ASSUME NEW k \in 0 .. b + 1, NEW c \in Cells(n), NEW d \in Cells(n), NEW e \in Cells(n),
             Together(2 ^ k, c, d), f[c] <= f[e], f[e] <= f[d]
      PROVE  Together(2 ^ k, c, e)
  <2>. DEFINE p == 2 ^ k
  <2>1. p \in Nat \ {0}
    BY TwoToPositive
  <2>2. CASE k = b + 1
    <3>1. p = n
      BY <2>2, TwoToNext DEF n
    <3>2. ASSUME NEW x \in Int, 0 <= x, x < n PROVE x \div p = 0
      <4>1. p * 0 <= x /\ x < p * 0 + p /\ 0 \in Int
        BY <2>1, <3>1, <3>2
      <4>. QED
        BY <2>1, <4>1, QuotientIs
    <3>3. /\ c[1] \in Int /\ 0 <= c[1] /\ c[1] < n /\ c[2] \in Int /\ 0 <= c[2] /\ c[2] < n
          /\ e[1] \in Int /\ 0 <= e[1] /\ e[1] < n /\ e[2] \in Int /\ 0 <= e[2] /\ e[2] < n
      BY <1>2, CellParts
    <3>4. c[1] \div p = 0 /\ c[2] \div p = 0 /\ e[1] \div p = 0 /\ e[2] \div p = 0
      BY <3>2, <3>3
    <3>. QED
      BY <3>4 DEF Together
  <2>3. CASE k # b + 1
    <3>1. k \in 0 .. b /\ k \in Nat /\ b - k \in Nat /\ k + (b - k) = b
      BY <2>3
    <3>. DEFINE m == 2 ^ (b - k)
    <3>2. m \in Nat \ {0}
      BY <3>1, TwoToPositive
    <3>3. half = p * m
      <4>1. 2 ^ (k + (b - k)) = 2 ^ k * 2 ^ (b - k)
        BY <3>1, TwoToSum, Zenon
      <4>. QED
        BY <3>1, <4>1, Zenon
    <3>. HIDE DEF p, m
    <3>4. \A x, y \in Cells(n) :
            Together(p, x, y) <=> Quad(half, x) = Quad(half, y) /\ Together(p, Turn(half, x), Turn(half, y))
      BY <2>1, <3>2, <3>3, TurnTogether DEF n
    <3>5. Quad(half, c) = Quad(half, d) /\ Together(p, Turn(half, c), Turn(half, d))
      BY <1>8, <3>4 DEF p
    <3>. DEFINE r == Turn(half, c)
                s == Turn(half, d)
                t == Turn(half, e)
                u == Quad(half, c)
                v == Quad(half, e)
    <3>6. /\ r \in Cells(half) /\ s \in Cells(half) /\ t \in Cells(half)
          /\ u \in 0 .. 3 /\ v \in 0 .. 3
          /\ g[r] \in Int /\ 0 <= g[r] /\ g[r] < q
          /\ g[s] \in Int /\ 0 <= g[s] /\ g[s] < q
          /\ g[t] \in Int /\ 0 <= g[t] /\ g[t] < q
          /\ f[c] = u * q + g[r] /\ f[e] = v * q + g[t] /\ f[d] = u * q + g[s]
      BY <1>3, <3>5
    <3>. HIDE DEF r, s, t, u, v
    <3>7. u * q + g[r] <= v * q + g[t] /\ v * q + g[t] <= u * q + g[s]
      BY <1>8, <3>6
    <3>8. u = v /\ g[r] <= g[t] /\ g[t] <= g[s]
      BY <1>2, <3>6, <3>7, OnwardBetween
    <3>9. Together(2 ^ k, r, s)
      BY <3>5 DEF r, s, p
    <3>10. Together(2 ^ k, r, t)
      BY <3>1, <3>6, <3>8, <3>9 DEF Curve
    <3>. QED
      BY <3>4, <3>8, <3>10 DEF u, v, r, t, p
  <2>. QED
    BY <2>2, <2>3
<1>9. /\ f \in [Cells(n) -> 0 .. n * n - 1]
      /\ \A c \in Cells(n) : (f[c] = 0 => c = <<0, 0>>) /\ (f[c] = n * n - 1 => c = <<n - 1, 0>>)
      /\ \A c, d \in Cells(n) : f[d] = f[c] + 1 => Beside(c, d)
      /\ \A k \in 0 .. b + 1 : \A c, d, e \in Cells(n) :
           Together(2 ^ k, c, d) /\ f[c] <= f[e] /\ f[e] <= f[d] => Together(2 ^ k, c, e)
  BY <1>4, <1>6, <1>7, <1>8
<1>10. Curve(f, n, b + 1)
  BY <1>9, Zenon DEF Curve
<1>. QED
  BY <1>10 DEF n

\* h holds the curves of 0 to n bits.
Curves(h, n) ==
  h = [b \in 0 .. n |-> [c \in Export!Grid(b) |-> IF b = 0 THEN 0 ELSE Export!CurveStep(h[b - 1], b, c)]]

LEMMA CurvesExist ==
  ASSUME NEW n \in Nat
  PROVE  \E h : Curves(h, n)
<1>. DEFINE T == {m \in Nat : ~\E h : Curves(h, m)}
<1>1. ASSUME T # {} PROVE FALSE
  <2>1. PICK m \in T : \A y \in T : m <= y
    BY <1>1, LeastElement
  <2>. DEFINE body(h, b) == [c \in Export!Grid(b) |-> IF b = 0 THEN 0 ELSE Export!CurveStep(h[b - 1], b, c)]
  <2>0. \A h, k : Curves(h, k) <=> h = [b \in 0 .. k |-> body(h, b)]
    BY DEF Curves
  <2>2. CASE m = 0
    <3>. DEFINE g == [b \in 0 .. 0 |-> body(<<>>, 0)]
    <3>1. \A h : body(h, 0) = body(<<>>, 0)
      OBVIOUS
    <3>. HIDE DEF body
    <3>2. g = [b \in 0 .. 0 |-> body(g, b)]
      <4>1. \A b \in 0 .. 0 : body(g, b) = body(<<>>, 0)
        <5>. TAKE b \in 0 .. 0
        <5>1. b = 0
          OBVIOUS
        <5>. QED
          BY <3>1, <5>1
      <4>. HIDE DEF g
      <4>2. g = [b \in 0 .. 0 |-> body(<<>>, 0)]
        BY DEF g
      <4>. QED
        BY <4>1, <4>2
    <3>. HIDE DEF g
    <3>3. Curves(g, 0)
      BY <2>0, <3>2
    <3>. QED
      BY <2>1, <2>2, <3>3
  <2>3. CASE m # 0
    <3>1. m - 1 \in Nat /\ m - 1 \notin T
      BY <2>1, <2>3
    <3>2. PICK f : Curves(f, m - 1)
      BY <3>1
    <3>. DEFINE g == [b \in 0 .. m |-> IF b = m THEN body(f, m) ELSE f[b]]
    <3>3. f = [b \in 0 .. m - 1 |-> body(f, b)]
      BY <2>0, <3>2
    <3>4. \A h, k, b : b = 0 \/ h[b - 1] = k[b - 1] => body(h, b) = body(k, b)
      OBVIOUS
    <3>. HIDE DEF body
    <3>5. ASSUME NEW b \in 0 .. m PROVE g[b] = body(g, b)
      <4>1. b # 0 => b - 1 \in 0 .. m /\ b - 1 # m /\ b - 1 \in 0 .. m - 1
        BY <3>1
      <4>2. b # 0 => g[b - 1] = f[b - 1]
        BY <4>1
      <4>3. body(g, b) = body(f, b)
        <5>. HIDE DEF g
        <5>. QED
          BY <3>4, <4>2
      <4>4. CASE b = m
        BY <4>3, <4>4
      <4>5. CASE b # m
        <5>1. b \in 0 .. m - 1 /\ g[b] = f[b]
          BY <4>5, <3>1
        <5>2. f[b] = body(f, b)
          BY <3>3, <5>1
        <5>. QED
          BY <4>3, <5>1, <5>2
      <4>. QED
        BY <4>4, <4>5
    <3>6. g = [b \in 0 .. m |-> body(g, b)]
      <4>1. g = [b \in 0 .. m |-> g[b]]
        OBVIOUS
      <4>. HIDE DEF g
      <4>. QED
        BY <4>1, <3>5
    <3>. HIDE DEF g
    <3>7. Curves(g, m)
      BY <2>0, <3>6
    <3>. QED
      BY <2>1, <3>7
  <2>. QED
    BY <2>2, <2>3
<1>. QED
  BY <1>1

LEMMA GridIs ==
  ASSUME NEW b \in Nat
  PROVE  Export!Grid(b) = Cells(2 ^ b)
BY DEF Export!Grid, Cells

LEMMA StepIs ==
  ASSUME NEW b \in Nat, NEW half, half = 2 ^ b, half \in Nat \ {0},
         NEW g \in [Cells(half) -> 0 .. half * half - 1], NEW c \in Cells(2 * half)
  PROVE  Export!CurveStep(g, b + 1, c) = Onward(g, half, c)
<1>. DEFINE q == half * half
            a == g[<<c[2], c[1]>>]
            t == Turn(half, c)
<1>0. b + 1 - 1 = b
  OBVIOUS
<1>1. Export!CurveStep(g, b + 1, c) =
        IF c[1] < half
        THEN IF c[2] < half THEN g[<<c[2], c[1]>>] ELSE half * half + g[<<c[1], c[2] - half>>]
        ELSE IF c[2] >= half THEN 2 * half * half + g[<<c[1] - half, c[2] - half>>]
             ELSE 3 * half * half + g[<<half - 1 - c[2], half - 1 - (c[1] - half)>>]
  BY <1>0 DEF Export!CurveStep
<1>2. t \in Cells(half) /\ g[t] \in Int /\ q \in Int
  BY OnwardParts
<1>3. 2 * half * half = 2 * q /\ 3 * half * half = 3 * q
  OBVIOUS
<1>4. \A x, y \in Int : 0 * x + y = y /\ 1 * x + y = x + y
  OBVIOUS
<1>5. Onward(g, half, c) = Quad(half, c) * q + g[t]
  BY DEF Onward
<1>6. CASE c[1] < half /\ c[2] < half
  <2>1. Quad(half, c) = 0 /\ t = <<c[2], c[1]>>
    BY <1>6 DEF Quad, Turn
  <2>2. Onward(g, half, c) = 0 * q + g[t]
    BY <1>5, <2>1, Zenon
  <2>3. Onward(g, half, c) = g[t]
    BY <1>2, <1>4, <2>2
  <2>4. Export!CurveStep(g, b + 1, c) = g[<<c[2], c[1]>>]
    BY <1>1, <1>6, Zenon
  <2>. QED
    BY <2>1, <2>3, <2>4, Zenon
<1>7. CASE c[1] < half /\ ~(c[2] < half)
  <2>1. Quad(half, c) = 1 /\ t = <<c[1], c[2] - half>>
    BY <1>7 DEF Quad, Turn
  <2>2. Onward(g, half, c) = 1 * q + g[t]
    BY <1>5, <2>1, Zenon
  <2>3. Onward(g, half, c) = q + g[t]
    BY <1>2, <1>4, <2>2
  <2>4. Export!CurveStep(g, b + 1, c) = half * half + g[<<c[1], c[2] - half>>]
    BY <1>1, <1>7, Zenon
  <2>. QED
    BY <2>1, <2>3, <2>4, Zenon
<1>8. CASE ~(c[1] < half) /\ c[2] >= half
  <2>1. Quad(half, c) = 2 /\ t = <<c[1] - half, c[2] - half>>
    BY <1>8 DEF Quad, Turn
  <2>2. Onward(g, half, c) = 2 * q + g[t]
    BY <1>5, <2>1, Zenon
  <2>4. Export!CurveStep(g, b + 1, c) = 2 * half * half + g[<<c[1] - half, c[2] - half>>]
    BY <1>1, <1>8, Zenon
  <2>. QED
    BY <1>3, <2>1, <2>2, <2>4, Zenon
<1>9. CASE ~(c[1] < half) /\ ~(c[2] >= half)
  <2>1. Quad(half, c) = 3 /\ t = <<half - 1 - c[2], half - 1 - (c[1] - half)>>
    BY <1>9 DEF Quad, Turn
  <2>2. Onward(g, half, c) = 3 * q + g[t]
    BY <1>5, <2>1, Zenon
  <2>4. Export!CurveStep(g, b + 1, c) = 3 * half * half + g[<<half - 1 - c[2], half - 1 - (c[1] - half)>>]
    BY <1>1, <1>9, Zenon
  <2>. QED
    BY <1>3, <2>1, <2>2, <2>4, Zenon
<1>. QED
  BY <1>6, <1>7, <1>8, <1>9

LEMMA FirstCurve ==
  ASSUME NEW g, g = [c \in Cells(1) |-> 0]
  PROVE  Curve(g, 1, 0)
<1>1. \A c \in Cells(1) : c = <<0, 0>> /\ g[c] = 0
  BY DEF Cells
<1>2. g \in [Cells(1) -> 0 .. 1 * 1 - 1]
  OBVIOUS
<1>3. \A k \in 0 .. 0 : \A c, d, e \in Cells(1) : Together(2 ^ k, c, e)
  BY <1>1 DEF Together
<1>4. \A c, d \in Cells(1) : g[d] # g[c] + 1
  BY <1>1
<1>5. 1 - 1 = 0
  OBVIOUS
<1>. QED
  BY <1>1, <1>2, <1>3, <1>4, <1>5 DEF Curve

\* The curve of every number of bits is one.
LEMMA CurvesAre ==
  ASSUME NEW n \in Nat, NEW h, Curves(h, n), NEW b \in 0 .. n
  PROVE  Curve(h[b], 2 ^ b, b)
<1>. DEFINE T == {m \in 0 .. n : ~Curve(h[m], 2 ^ m, m)}
<1>1. ASSUME NEW m \in 0 .. n
      PROVE  h[m] = [c \in Cells(2 ^ m) |-> IF m = 0 THEN 0 ELSE Export!CurveStep(h[m - 1], m, c)]
  <2>1. h[m] = [c \in Export!Grid(m) |-> IF m = 0 THEN 0 ELSE Export!CurveStep(h[m - 1], m, c)]
    BY DEF Curves
  <2>2. m \in Nat
    OBVIOUS
  <2>. QED
    BY <2>1, <2>2, GridIs
<1>2. ASSUME T # {} PROVE FALSE
  <2>0. T \subseteq Nat
    OBVIOUS
  <2>1. PICK m \in T : \A y \in T : m <= y
    BY <1>2, <2>0, LeastElement
  <2>2. CASE m = 0
    <3>1. h[m] = [c \in Cells(2 ^ 0) |-> 0]
      BY <1>1, <2>1, <2>2
    <3>2. h[m] = [c \in Cells(1) |-> 0]
      BY <3>1, TwoToZero
    <3>3. Curve(h[m], 2 ^ m, m)
      BY <3>2, <2>2, FirstCurve, TwoToZero
    <3>. QED
      BY <2>1, <3>3
  <2>3. CASE m # 0
    <3>. DEFINE p == m - 1
                half == 2 ^ p
    <3>1. p \in 0 .. n /\ p \in Nat /\ p \notin T /\ m = p + 1 /\ m \in 0 .. n
      BY <2>1, <2>3
    <3>2. Curve(h[p], 2 ^ p, p)
      BY <3>1
    <3>. HIDE DEF p
    <3>3. half \in Nat \ {0} /\ 2 ^ m = 2 * half
      BY <3>1, TwoToPositive, TwoToNext
    <3>4. h[m] = [c \in Cells(2 ^ m) |-> Export!CurveStep(h[p], m, c)]
      BY <1>1, <2>3, <3>1 DEF p
    <3>5. h[p] \in [Cells(half) -> 0 .. half * half - 1]
      BY <3>2 DEF Curve
    <3>6. \A c \in Cells(2 * half) : Export!CurveStep(h[p], p + 1, c) = Onward(h[p], half, c)
      <4>1. half = 2 ^ p
        OBVIOUS
      <4>. HIDE DEF half
      <4>. QED
        BY <3>1, <3>3, <3>5, <4>1, StepIs
    <3>7. h[m] = [c \in Cells(2 * half) |-> Onward(h[p], half, c)]
      <4>. HIDE DEF half
      <4>. QED
        BY <3>1, <3>3, <3>4, <3>6
    <3>8. Curve(h[m], 2 * half, p + 1)
      <4>1. half = 2 ^ p
        OBVIOUS
      <4>. HIDE DEF half
      <4>. QED
        BY <3>1, <3>2, <3>3, <3>7, <4>1, CurveGrows
    <3>. QED
      BY <2>1, <3>1, <3>3, <3>8
  <2>. QED
    BY <2>2, <2>3
<1>. QED
  BY <1>2

LEMMA HilbertIsCurve ==
  \E g : /\ Curve(g, 2 ^ ExportBits, ExportBits)
         /\ \A c \in Export!Grid(ExportBits) : Export!Hilbert(c) = g[c]
<1>1. ExportBits \in Nat
  BY WriterAssumption DEF Export!ExportAssumption
<1>2. \E h : Curves(h, ExportBits)
  BY <1>1, CurvesExist
<1>. DEFINE h == CHOOSE h : Curves(h, ExportBits)
<1>3. Curves(h, ExportBits)
  BY <1>2
<1>4. \A c : Export!Hilbert(c) = h[ExportBits][c]
  BY DEF Export!Hilbert, Curves
<1>. HIDE DEF h
<1>5. Curve(h[ExportBits], 2 ^ ExportBits, ExportBits)
  BY <1>1, <1>3, CurvesAre
<1>. QED
  BY <1>4, <1>5

-----------------------------------------------------------------------------
(* The numbers of a row and of the plan.                                     *)

LEMMA ExportSizes ==
  /\ ExportGroup \in Nat \ {0} /\ ExportBits \in Nat
  /\ ExportX \in Int /\ ExportY \in Int /\ -ExportX < ExportX /\ -ExportY < ExportY
  /\ -ExportX \in Int /\ -ExportY \in Int
<1>1. /\ ExportGroup \in Nat \ {0} /\ ExportBits \in Nat \ {0}
      /\ {-ExportX, ExportX, -ExportY, ExportY} \subseteq Int /\ -ExportX < ExportX /\ -ExportY < ExportY
  BY WriterAssumption DEF Export!ExportAssumption
<1>. QED
  BY <1>1

LEMMA QuantizeInGrid ==
  ASSUME NEW twice \in Int, NEW min \in Int, NEW max \in Int, min < max
  PROVE  Export!Quantize(twice, min, max) \in 0 .. 2 ^ ExportBits - 1
<1>. DEFINE lo == 2 * min
            hi == 2 * max
            v == IF twice < lo THEN lo ELSE IF twice > hi THEN hi ELSE twice
            n == 2 ^ ExportBits - 1
            w == v - lo
            d == hi - lo
            x == 2 * w * n + d
            q == x \div (2 * d)
<1>1. Export!Quantize(twice, min, max) = q
  BY DEF Export!Quantize
<1>2. n \in Nat
  <2>1. 2 ^ ExportBits \in Nat \ {0}
    BY ExportSizes, TwoToPositive
  <2>. QED
    BY <2>1
<1>3. w \in Nat /\ d \in Nat \ {0} /\ w <= d
  OBVIOUS
<1>. HIDE DEF w, d, n
<1>4. 2 * d \in Nat \ {0} /\ x \in Int
  BY <1>2, <1>3
<1>. HIDE DEF x
<1>5. q \in Int /\ (2 * d) * q <= x /\ x < (2 * d) * q + 2 * d
  BY <1>4, QuotientBounds
<1>. HIDE DEF q
<1>6. w * n >= 0 /\ w * n <= d * n
  <2>. DEFINE r == d - w
  <2>1. r \in Nat /\ d = w + r
    BY <1>3
  <2>. HIDE DEF r
  <2>2. (w + r) * n = w * n + r * n /\ r * n >= 0 /\ w * n >= 0
    BY <1>2, <1>3, <2>1
  <2>3. d * n = (w + r) * n /\ w * n \in Int /\ r * n \in Int
    BY <1>2, <1>3, <2>1
  <2>. QED
    BY <2>2, <2>3
<1>7. w * n \in Int /\ d * n \in Int /\ x = 2 * (w * n) + d
  BY <1>2, <1>3 DEF x
<1>8. 0 <= x /\ x < 2 * (d * n) + 2 * d
  BY <1>3, <1>6, <1>7
<1>9. q >= 0
  <2>1. ASSUME q < 0 PROVE FALSE
    <3>. DEFINE r == -1 - q
    <3>1. r \in Nat /\ q = -1 - r
      BY <1>5, <2>1
    <3>. HIDE DEF r
    <3>2. (2 * d) * (-1 - r) = -(2 * d) - (2 * d) * r /\ (2 * d) * r >= 0
      BY <1>3, <3>1
    <3>. QED
      BY <1>3, <1>4, <1>5, <1>8, <3>1, <3>2
  <2>. QED
    BY <1>5, <2>1
<1>10. q <= n
  <2>1. ASSUME q > n PROVE FALSE
    <3>. DEFINE r == q - n - 1
    <3>1. r \in Nat /\ q = n + 1 + r
      BY <1>2, <1>5, <2>1
    <3>. HIDE DEF r
    <3>2. (2 * d) * (n + 1 + r) = 2 * (d * n) + 2 * d + (2 * d) * r /\ (2 * d) * r >= 0
      BY <1>2, <1>3, <3>1
    <3>3. (2 * d) * q >= 2 * (d * n) + 2 * d
      BY <1>3, <1>7, <3>1, <3>2
    <3>. QED
      BY <1>3, <1>4, <1>5, <1>7, <1>8, <3>3
  <2>. QED
    BY <1>2, <1>5, <2>1
<1>. QED
  BY <1>1, <1>5, <1>9, <1>10 DEF n

LEMMA CellInGrid ==
  ASSUME NEW g \in Export!Rectangle
  PROVE  Export!Cell(g) \in Export!Grid(ExportBits)
<1>1. g.x0 + g.x1 \in Int /\ g.y0 + g.y1 \in Int
  BY DEF Export!Rectangle
<1>2. /\ Export!Quantize(g.x0 + g.x1, -ExportX, ExportX) \in 0 .. 2 ^ ExportBits - 1
      /\ Export!Quantize(g.y0 + g.y1, -ExportY, ExportY) \in 0 .. 2 ^ ExportBits - 1
  BY <1>1, ExportSizes, QuantizeInGrid
<1>. QED
  BY <1>2 DEF Export!Cell, Export!Grid

LEMMA FloorIs ==
  ASSUME NEW c \in Int
  PROVE  Export!Floor(c) \in Int /\ Export!Floor(c) % 2 = 0 /\ Export!Floor(c) - c \in {-1, 0}
<1>1. c % 2 = 0 \/ c % 2 = 1
  OBVIOUS
<1>. QED
  BY <1>1 DEF Export!Floor, Export!RoundSingle, Export!NextDown

LEMMA CeilIs ==
  ASSUME NEW c \in Int
  PROVE  Export!Ceil(c) \in Int /\ Export!Ceil(c) % 2 = 0 /\ Export!Ceil(c) - c \in {0, 1}
<1>1. c % 2 = 0 \/ c % 2 = 1
  OBVIOUS
<1>. QED
  BY <1>1 DEF Export!Ceil, Export!RoundSingle, Export!NextUp

\* The float32 box contains the geometry and is less than an ulp away.
LEMMA OutwardIs ==
  ASSUME NEW g \in Export!Rectangle
  PROVE  /\ Export!Covers(Export!Outward(g), g)
         /\ \A c \in {"x0", "y0", "x1", "y1"} :
              Export!Outward(g)[c] % 2 = 0 /\ Export!Outward(g)[c] - g[c] \in -1 .. 1
<1>1. g.x0 \in Int /\ g.y0 \in Int /\ g.x1 \in Int /\ g.y1 \in Int
  BY DEF Export!Rectangle
<1>2. /\ Export!Floor(g.x0) \in Int /\ Export!Floor(g.x0) % 2 = 0 /\ Export!Floor(g.x0) - g.x0 \in {-1, 0}
      /\ Export!Floor(g.y0) \in Int /\ Export!Floor(g.y0) % 2 = 0 /\ Export!Floor(g.y0) - g.y0 \in {-1, 0}
      /\ Export!Ceil(g.x1) \in Int /\ Export!Ceil(g.x1) % 2 = 0 /\ Export!Ceil(g.x1) - g.x1 \in {0, 1}
      /\ Export!Ceil(g.y1) \in Int /\ Export!Ceil(g.y1) % 2 = 0 /\ Export!Ceil(g.y1) - g.y1 \in {0, 1}
  BY <1>1, FloorIs, CeilIs
<1>. DEFINE o == Export!Outward(g)
<1>3. /\ o["x0"] = Export!Floor(g.x0) /\ o["y0"] = Export!Floor(g.y0)
      /\ o["x1"] = Export!Ceil(g.x1) /\ o["y1"] = Export!Ceil(g.y1)
  BY DEF Export!Outward
<1>. HIDE DEF o
<1>4. Export!Covers(o, g)
  BY <1>1, <1>2, <1>3 DEF Export!Covers
<1>5. /\ o["x0"] % 2 = 0 /\ o["x0"] - g["x0"] \in -1 .. 1
      /\ o["y0"] % 2 = 0 /\ o["y0"] - g["y0"] \in -1 .. 1
      /\ o["x1"] % 2 = 0 /\ o["x1"] - g["x1"] \in -1 .. 1
      /\ o["y1"] % 2 = 0 /\ o["y1"] - g["y1"] \in -1 .. 1
  BY <1>1, <1>2, <1>3
<1>. QED
  BY <1>4, <1>5 DEF o

\* The number of row groups of n rows.
GroupsOf(n) == -((-n) \div (2 * ExportGroup))

LEMMA GroupBounds ==
  ASSUME NEW n \in Nat, n >= ExportGroup
  PROVE  LET g == GroupsOf(n)
             m == ExportGroup
         IN  /\ g \in Nat \ {0}
             /\ n \div g \in Nat /\ n % g \in Nat /\ n % g < g /\ n = g * (n \div g) + (n % g)
             /\ m <= n \div g
             /\ IF n % g = 0 THEN n \div g <= 2 * m ELSE n \div g < 2 * m
<1>. DEFINE m == ExportGroup
            q == (-n) \div (2 * m)
            g == GroupsOf(n)
<1>1. m \in Nat \ {0}
  BY ExportSizes
<1>2. g = -q
  BY DEF GroupsOf
<1>. HIDE DEF g, m
<1>3. q \in Int /\ (2 * m) * q <= -n /\ -n < (2 * m) * q + 2 * m
  <2>1. -n \in Int /\ 2 * m \in Nat \ {0}
    BY <1>1
  <2>. QED
    BY <2>1, QuotientBounds
<1>. HIDE DEF q
<1>4. g \in Int /\ (2 * m) * q = -(2 * (m * g)) /\ m * g \in Int
  BY <1>1, <1>2, <1>3
<1>5. n <= 2 * (m * g) /\ 2 * (m * g) < n + 2 * m
  BY <1>1, <1>3, <1>4
<1>6. g >= 1
  <2>1. ASSUME g <= 0 PROVE FALSE
    <3>. DEFINE r == -g
    <3>1. r \in Nat /\ g = -r
      BY <1>4, <2>1
    <3>. HIDE DEF r
    <3>2. m * (-r) = -(m * r) /\ m * r >= 0 /\ m * r \in Int
      BY <1>1, <3>1
    <3>3. n <= 0
      BY <1>5, <3>1, <3>2
    <3>. QED
      BY <1>1, <3>3 DEF m
  <2>. QED
    BY <1>4, <2>1
<1>7. g \in Nat \ {0}
  BY <1>4, <1>6
<1>. DEFINE b == n \div g
            r == n % g
<1>8. b \in Int /\ r \in Nat /\ r < g /\ n = g * b + r
  BY <1>7
<1>. HIDE DEF b, r
<1>9. g * b \in Int
  BY <1>7, <1>8
<1>10. m <= b
  <2>1. ASSUME b < m PROVE FALSE
    <3>. DEFINE s == m - 1 - b
    <3>1. s \in Nat /\ b = m - 1 - s
      BY <1>1, <1>8, <2>1
    <3>. HIDE DEF s
    <3>2. g * (m - 1 - s) = m * g - g - g * s /\ g * s >= 0 /\ g * s \in Int
      BY <1>1, <1>7, <3>1
    <3>3. g * b <= m * g - g
      BY <1>4, <1>9, <3>1, <3>2
    <3>4. n < m * g
      BY <1>4, <1>8, <1>9, <3>3
    <3>5. m * g < 2 * m
      BY <1>1, <1>4, <1>5, <3>4
    <3>6. g = 1
      <4>1. ASSUME g # 1 PROVE FALSE
        <5>. DEFINE t == g - 2
        <5>1. t \in Nat /\ g = t + 2
          BY <1>7, <4>1
        <5>. HIDE DEF t
        <5>2. m * (t + 2) = m * t + 2 * m /\ m * t >= 0 /\ m * t \in Int
          BY <1>1, <5>1
        <5>. QED
          BY <1>1, <3>5, <5>1, <5>2
      <4>. QED
        BY <4>1
    <3>7. m * 1 = m
      BY <1>1
    <3>. QED
      BY <1>1, <3>4, <3>6, <3>7 DEF m
  <2>. QED
    BY <1>1, <1>8, <2>1
<1>11. b <= 2 * m /\ (r # 0 => b < 2 * m)
  <2>1. ASSUME b > 2 * m \/ (r # 0 /\ b = 2 * m) PROVE FALSE
    <3>. DEFINE s == b - 2 * m
    <3>1. s \in Nat /\ b = 2 * m + s
      BY <1>1, <1>8, <2>1
    <3>. HIDE DEF s
    <3>2. g * (2 * m + s) = 2 * (m * g) + g * s /\ g * s >= 0 /\ g * s \in Int
      BY <1>1, <1>7, <3>1
    <3>3. r = 0 /\ g * s = 0
      BY <1>4, <1>5, <1>8, <3>1, <3>2
    <3>4. s > 0
      BY <1>1, <1>8, <2>1, <3>1, <3>3
    <3>5. g * s > 0
      BY <1>7, <3>1, <3>4
    <3>. QED
      BY <3>2, <3>3, <3>5
  <2>. QED
    BY <1>1, <1>8, <2>1
<1>12. b \in Nat
  BY <1>1, <1>8, <1>10
<1>13. /\ g \in Nat \ {0}
       /\ b \in Nat /\ r \in Nat /\ r < g /\ n = g * b + r
       /\ m <= b
       /\ IF r = 0 THEN b <= 2 * m ELSE b < 2 * m
  BY <1>7, <1>8, <1>10, <1>11, <1>12
<1>. QED
  BY <1>13, Zenon DEF g, b, r, m

\* The rows before the k + 1st row group.
Begins(n, k) ==
  IF n < ExportGroup THEN k * n
  ELSE k * (n \div GroupsOf(n)) + (IF k <= n % GroupsOf(n) THEN k ELSE n % GroupsOf(n))

\* The plan: groups of legal sizes that are the rows, one after the other.
LEMMA PlanIs ==
  ASSUME NEW n \in Nat \ {0}
  PROVE  LET s == Export!PlanSizes(n)
         IN  /\ s \in Seq(Nat) /\ Len(s) >= 1
             /\ \A i \in 1 .. Len(s) :
                  /\ s[i] <= 2 * ExportGroup
                  /\ n >= ExportGroup => s[i] >= ExportGroup
             /\ Len(s) > 1 => n >= ExportGroup
             /\ Begins(n, 0) = 0 /\ Begins(n, Len(s)) = n
             /\ \A i \in 1 .. Len(s) : Begins(n, i) = Begins(n, i - 1) + s[i]
             /\ \A i \in 0 .. Len(s) : Begins(n, i) \in 0 .. n
<1>. DEFINE s == Export!PlanSizes(n)
            m == ExportGroup
<1>1. m \in Nat \ {0}
  BY ExportSizes
<1>2. CASE n < m
  <2>1. s = <<n>>
    BY <1>2 DEF Export!PlanSizes
  <2>2. s \in Seq(Nat) /\ Len(s) = 1 /\ s[1] = n
    BY <2>1
  <2>3. \A k : Begins(n, k) = k * n
    BY <1>2 DEF Begins
  <2>. HIDE DEF s
  <2>4. \A i \in 1 .. Len(s) : i = 1
    BY <2>2
  <2>5. \A i \in 0 .. Len(s) : i = 0 \/ i = 1
    BY <2>2
  <2>6. Begins(n, 0) = 0 /\ Begins(n, 1) = n
    BY <2>3
  <2>7. \A i \in 1 .. Len(s) : Begins(n, i) = Begins(n, i - 1) + s[i]
    BY <2>2, <2>4, <2>6
  <2>8. \A i \in 0 .. Len(s) : Begins(n, i) \in 0 .. n
    BY <2>5, <2>6
  <2>9. \A i \in 1 .. Len(s) : s[i] <= 2 * m
    BY <1>1, <1>2, <2>2, <2>4
  <2>. QED
    BY <1>1, <1>2, <2>2, <2>6, <2>7, <2>8, <2>9 DEF s, m
<1>3. CASE ~(n < m)
  <2>. DEFINE g == GroupsOf(n)
              b == n \div g
              r == n % g
  <2>1. s = [i \in 1 .. g |-> b + (IF i <= r THEN 1 ELSE 0)]
    BY <1>3 DEF Export!PlanSizes, GroupsOf
  <2>2. /\ g \in Nat \ {0} /\ b \in Nat /\ r \in Nat /\ r < g /\ n = g * b + r
        /\ m <= b /\ (IF r = 0 THEN b <= 2 * m ELSE b < 2 * m)
    <3>1. n \in Nat /\ n >= ExportGroup
      BY <1>1, <1>3
    <3>. QED
      BY <3>1, GroupBounds, Zenon
  <2>3. \A k : Begins(n, k) = k * b + (IF k <= r THEN k ELSE r)
    BY <1>3 DEF Begins
  <2>. HIDE DEF g, b, r, s, m
  <2>4. \A i \in 1 .. g : b + (IF i <= r THEN 1 ELSE 0) \in Nat
    BY <2>2
  <2>5. s \in [1 .. g -> Nat]
    BY <2>1, <2>4
  <2>6. s \in Seq(Nat) /\ Len(s) = g
    BY <2>2, <2>5, FunctionIsSequence
  <2>7. \A i \in 1 .. g : s[i] = b + (IF i <= r THEN 1 ELSE 0)
    BY <2>1
  <2>8. \A i \in 1 .. g : s[i] <= 2 * m /\ s[i] >= m
    BY <1>1, <2>2, <2>7
  <2>9. Begins(n, 0) = 0 /\ Begins(n, g) = n
    <3>1. 0 * b = 0 /\ g * b \in Int
      BY <2>2
    <3>2. Begins(n, 0) = 0 * b + 0
      BY <2>2, <2>3
    <3>3. Begins(n, g) = g * b + r
      BY <2>2, <2>3
    <3>. QED
      BY <2>2, <3>1, <3>2, <3>3
  <2>10. ASSUME NEW i \in 1 .. g
         PROVE  Begins(n, i) = Begins(n, i - 1) + s[i] /\ Begins(n, i - 1) \in Nat /\ Begins(n, i) \in Nat
    <3>. DEFINE k == i - 1
    <3>1. k \in Nat /\ i = k + 1
      BY <2>2
    <3>. HIDE DEF k
    <3>2. (k + 1) * b = k * b + b /\ k * b \in Nat
      BY <2>2, <3>1
    <3>3. Begins(n, k) = k * b + (IF k <= r THEN k ELSE r)
      BY <2>3
    <3>4. Begins(n, k + 1) = k * b + b + (IF k + 1 <= r THEN k + 1 ELSE r)
      BY <2>3, <3>2
    <3>5. s[k + 1] = b + (IF k + 1 <= r THEN 1 ELSE 0)
      BY <2>7, <3>1
    <3>6. Begins(n, k + 1) = Begins(n, k) + s[k + 1] /\ Begins(n, k) \in Nat /\ Begins(n, k + 1) \in Nat
      BY <2>2, <3>1, <3>2, <3>3, <3>4, <3>5
    <3>. QED
      BY <3>1, <3>6 DEF k
  <2>11. ASSUME NEW i \in 0 .. g PROVE Begins(n, i) \in 0 .. n
    <3>. DEFINE t == g - i
    <3>1. t \in Nat /\ g = i + t /\ i \in Nat
      BY <2>2
    <3>. HIDE DEF t
    <3>2. (i + t) * b = i * b + t * b /\ i * b \in Nat /\ t * b \in Nat
      BY <2>2, <3>1
    <3>3. Begins(n, i) = i * b + (IF i <= r THEN i ELSE r)
      BY <2>3
    <3>4. n = i * b + t * b + r
      BY <2>2, <3>1, <3>2
    <3>. QED
      BY <2>2, <3>1, <3>2, <3>3, <3>4
  <2>. QED
    BY <1>1, <1>3, <2>2, <2>6, <2>8, <2>9, <2>10, <2>11 DEF s, m
<1>. QED
  BY <1>2, <1>3

\* The plan is legal for every number of rows.
LEMMA PlanLegal ==
  ASSUME NEW n \in Nat \ {0}
  PROVE  Export!PlanOk(n)
<1>. DEFINE s == Export!PlanSizes(n)
<1>1. /\ s \in Seq(Nat)
      /\ \A i \in 1 .. Len(s) : s[i] <= 2 * ExportGroup /\ (n >= ExportGroup => s[i] >= ExportGroup)
  BY PlanIs
<1>2. ExportGroup \in Nat
  BY ExportSizes
<1>. HIDE DEF s
<1>3. n < ExportGroup \/ \A i \in 1 .. Len(s) : s[i] \in ExportGroup .. 2 * ExportGroup
  <2>1. \A i \in 1 .. Len(s) : s[i] \in Nat
    BY <1>1
  <2>. QED
    BY <1>1, <1>2, <2>1
<1>. QED
  BY <1>3 DEF Export!PlanOk, s

-----------------------------------------------------------------------------
(* The order of the rows.                                                    *)

LEMMA BeforeIs ==
  ASSUME NEW a \in Seq(Int), NEW b \in Seq(Int)
  PROVE  Export!Before(a, b) <=>
           \E i \in 1 .. Len(b) :
             /\ \A k \in 1 .. i - 1 : k <= Len(a) /\ a[k] = b[k]
             /\ i <= Len(a) => a[i] < b[i]
<1>1. \A i \in 1 .. Len(b) : i > Len(a) <=> ~(i <= Len(a))
  OBVIOUS
<1>2. \A i \in 1 .. Len(b) :
        (i > Len(a) \/ (i <= Len(a) /\ a[i] < b[i])) <=> (i <= Len(a) => a[i] < b[i])
  BY <1>1, Zenon
<1>. QED
  BY <1>2, Zenon DEF Export!Before

LEMMA BeforeIrreflexive ==
  ASSUME NEW a \in Seq(Int)
  PROVE  ~Export!Before(a, a)
<1>1. \A i \in 1 .. Len(a) : i <= Len(a) /\ a[i] \in Int
  OBVIOUS
<1>. QED
  BY <1>1, BeforeIs

LEMMA BeforeTransitive ==
  ASSUME NEW a \in Seq(Int), NEW b \in Seq(Int), NEW c \in Seq(Int),
         Export!Before(a, b), Export!Before(b, c)
  PROVE  Export!Before(a, c)
<1>0. /\ Len(a) \in Nat /\ Len(b) \in Nat /\ Len(c) \in Nat
      /\ \A i \in 1 .. Len(a) : a[i] \in Int
      /\ \A i \in 1 .. Len(b) : b[i] \in Int
      /\ \A i \in 1 .. Len(c) : c[i] \in Int
  OBVIOUS
<1>1. PICK i \in 1 .. Len(b) :
        /\ \A k \in 1 .. i - 1 : k <= Len(a) /\ a[k] = b[k]
        /\ i <= Len(a) => a[i] < b[i]
  BY BeforeIs
<1>2. PICK j \in 1 .. Len(c) :
        /\ \A k \in 1 .. j - 1 : k <= Len(b) /\ b[k] = c[k]
        /\ j <= Len(b) => b[j] < c[j]
  BY BeforeIs
<1>3. CASE i < j
  <2>1. i \in 1 .. Len(c) /\ i \in 1 .. j - 1
    BY <1>0, <1>1, <1>2, <1>3
  <2>2. \A k \in 1 .. i - 1 : k \in 1 .. j - 1
    BY <1>0, <1>1, <1>2, <1>3
  <2>3. \A k \in 1 .. i - 1 : k <= Len(a) /\ a[k] = c[k]
    BY <1>1, <1>2, <2>2
  <2>4. i <= Len(a) => a[i] < c[i]
    BY <1>1, <1>2, <2>1
  <2>. QED
    BY <2>1, <2>3, <2>4, BeforeIs
<1>4. CASE i >= j
  <2>1. \A k \in 1 .. j - 1 : k \in 1 .. i - 1
    BY <1>0, <1>1, <1>2, <1>4
  <2>2. \A k \in 1 .. j - 1 : k <= Len(a) /\ a[k] = c[k]
    BY <1>1, <1>2, <2>1
  <2>3. j <= Len(b) /\ j \in 1 .. Len(b)
    BY <1>0, <1>1, <1>2, <1>4
  <2>4. ASSUME j <= Len(a) PROVE a[j] < c[j]
    <3>1. a[j] \in Int /\ b[j] \in Int /\ c[j] \in Int /\ b[j] < c[j]
      BY <1>0, <1>2, <2>3, <2>4
    <3>2. CASE i = j
      BY <1>1, <2>4, <3>1, <3>2, SMTT(40)
    <3>3. CASE i # j
      <4>1. j \in 1 .. i - 1
        BY <1>0, <1>1, <1>2, <1>4, <3>3
      <4>. QED
        BY <1>1, <3>1, <4>1
    <3>. QED
      BY <3>2, <3>3
  <2>. QED
    BY <2>2, <2>4, BeforeIs
<1>. QED
  BY <1>1, <1>2, <1>3, <1>4

LEMMA BeforeTotal ==
  ASSUME NEW a \in Seq(Int), NEW b \in Seq(Int), a # b
  PROVE  Export!Before(a, b) \/ Export!Before(b, a)
<1>0. /\ Len(a) \in Nat /\ Len(b) \in Nat
      /\ \A i \in 1 .. Len(a) : a[i] \in Int
      /\ \A i \in 1 .. Len(b) : b[i] \in Int
  OBVIOUS
<1>. DEFINE T == {i \in Nat : i >= 1 /\ (i <= Len(a) \/ i <= Len(b))
                               /\ ~(i <= Len(a) /\ i <= Len(b) /\ a[i] = b[i])}
<1>1. T # {}
  <2>. SUFFICES ASSUME T = {} PROVE FALSE
    OBVIOUS
  <2>1. \A i \in Nat : i >= 1 /\ (i <= Len(a) \/ i <= Len(b)) =>
          i <= Len(a) /\ i <= Len(b) /\ a[i] = b[i]
    OBVIOUS
  <2>. HIDE DEF T
  <2>2. Len(a) = Len(b)
    <3>1. Len(a) >= 1 => Len(a) <= Len(b)
      BY <1>0, <2>1
    <3>2. Len(b) >= 1 => Len(b) <= Len(a)
      BY <1>0, <2>1
    <3>. QED
      BY <1>0, <3>1, <3>2
  <2>3. \A i \in 1 .. Len(a) : a[i] = b[i]
    BY <1>0, <2>1
  <2>4. a = b
    BY <2>2, <2>3, SeqEqual
  <2>. QED
    BY <2>4
<1>2. PICK i \in T : \A y \in T : i <= y
  BY <1>1, LeastElement
<1>3. /\ i \in Nat /\ i >= 1 /\ (i <= Len(a) \/ i <= Len(b))
      /\ ~(i <= Len(a) /\ i <= Len(b) /\ a[i] = b[i])
  BY <1>2
<1>4. ASSUME NEW k \in 1 .. i - 1
      PROVE  k <= Len(a) /\ k <= Len(b) /\ a[k] = b[k]
  <2>1. k \in Nat /\ k >= 1 /\ (k <= Len(a) \/ k <= Len(b)) /\ ~(i <= k)
    BY <1>0, <1>3
  <2>2. k \notin T
    BY <1>2, <2>1
  <2>. QED
    BY <2>1, <2>2
<1>. HIDE DEF T
<1>5. CASE i <= Len(b) /\ (i <= Len(a) => a[i] < b[i])
  <2>1. i \in 1 .. Len(b)
    BY <1>0, <1>3, <1>5
  <2>. QED
    BY <1>4, <1>5, <2>1, BeforeIs
<1>6. CASE i <= Len(a) /\ (i <= Len(b) => b[i] < a[i])
  <2>1. i \in 1 .. Len(a)
    BY <1>0, <1>3, <1>6
  <2>. QED
    BY <1>4, <1>6, <2>1, BeforeIs
<1>7. \/ i <= Len(b) /\ (i <= Len(a) => a[i] < b[i])
      \/ i <= Len(a) /\ (i <= Len(b) => b[i] < a[i])
  <2>1. CASE i <= Len(a) /\ i <= Len(b)
    <3>1. a[i] \in Int /\ b[i] \in Int
      BY <1>0, <1>3, <2>1
    <3>. QED
      BY <1>3, <2>1, <3>1
  <2>2. CASE ~(i <= Len(a) /\ i <= Len(b))
    BY <1>3, <2>2
  <2>. QED
    BY <2>1, <2>2
<1>. QED
  BY <1>5, <1>6, <1>7

\* What a row is sorted by.
Keyed(r) == r.hilbert \in Int /\ r.id \in Seq(Int) /\ r.label \in Seq(Int)

SameKey(r, s) == r.hilbert = s.hilbert /\ r.id = s.id /\ r.label = s.label

LEMMA KeyBeforeOrders ==
  ASSUME NEW r, NEW s, NEW t, Keyed(r), Keyed(s), Keyed(t)
  PROVE  /\ ~Export!KeyBefore(r, r)
         /\ Export!KeyBefore(r, s) /\ Export!KeyBefore(s, t) => Export!KeyBefore(r, t)
         /\ ~SameKey(r, s) => Export!KeyBefore(r, s) \/ Export!KeyBefore(s, r)
<1>0. /\ r.hilbert \in Int /\ s.hilbert \in Int /\ t.hilbert \in Int
      /\ r.id \in Seq(Int) /\ s.id \in Seq(Int) /\ t.id \in Seq(Int)
      /\ r.label \in Seq(Int) /\ s.label \in Seq(Int) /\ t.label \in Seq(Int)
  BY DEF Keyed
<1>1. \A a \in Seq(Int) : ~Export!Before(a, a)
  BY BeforeIrreflexive
<1>2. \A a, b, c \in Seq(Int) : Export!Before(a, b) /\ Export!Before(b, c) => Export!Before(a, c)
  BY BeforeTransitive
<1>3. \A a, b \in Seq(Int) : a # b => Export!Before(a, b) \/ Export!Before(b, a)
  BY BeforeTotal
<1>4. ~Export!KeyBefore(r, r)
  BY <1>0, <1>1 DEF Export!KeyBefore
<1>5. ASSUME Export!KeyBefore(r, s), Export!KeyBefore(s, t) PROVE Export!KeyBefore(r, t)
  <2>1. CASE r.hilbert < t.hilbert
    BY <2>1 DEF Export!KeyBefore
  <2>2. CASE ~(r.hilbert < t.hilbert)
    <3>1. r.hilbert = s.hilbert /\ s.hilbert = t.hilbert
      BY <1>0, <1>5, <2>2 DEF Export!KeyBefore
    <3>2. /\ Export!Before(r.id, s.id) \/ (r.id = s.id /\ Export!Before(r.label, s.label))
          /\ Export!Before(s.id, t.id) \/ (s.id = t.id /\ Export!Before(s.label, t.label))
      BY <1>0, <1>5, <3>1 DEF Export!KeyBefore
    <3>3. Export!Before(r.id, t.id) \/ (r.id = t.id /\ Export!Before(r.label, t.label))
      BY <1>0, <1>2, <3>2
    <3>. QED
      BY <3>1, <3>3 DEF Export!KeyBefore
  <2>. QED
    BY <2>1, <2>2
<1>6. ASSUME ~SameKey(r, s) PROVE Export!KeyBefore(r, s) \/ Export!KeyBefore(s, r)
  BY <1>0, <1>3, <1>6 DEF Export!KeyBefore, SameKey
<1>. QED
  BY <1>4, <1>5, <1>6

\* Rows whose keys are all different.
Distinct(s) ==
  /\ s = [i \in 1 .. Len(s) |-> s[i]] /\ Len(s) \in Nat
  /\ \A i \in 1 .. Len(s) : Keyed(s[i])
  /\ \A i, k \in 1 .. Len(s) : i # k => ~SameKey(s[i], s[k])

\* t has the rows of s, each once, in order.
SortOf(t, s) ==
  /\ t = [i \in 1 .. Len(s) |-> t[i]]
  /\ \E p \in [1 .. Len(s) -> 1 .. Len(s)] :
       /\ \A i \in 1 .. Len(s) : t[i] = s[p[i]]
       /\ \A i, k \in 1 .. Len(s) : p[i] = p[k] => i = k
       /\ \A k \in 1 .. Len(s) : \E i \in 1 .. Len(s) : p[i] = k
  /\ \A i, k \in 1 .. Len(s) : i < k => Export!KeyBefore(t[i], t[k])

LEMMA ExportCardinality == \A S : Export!Cardinality(S) = Cardinality(S)
BY DEF Export!Cardinality, Cardinality, Export!IsFiniteSet, IsFiniteSet

LEMMA SortedIs ==
  ASSUME NEW s, Distinct(s)
  PROVE  SortOf(Export!Sorted(s), s)
<1>. DEFINE n == Len(s)
            Before(i, k) == Export!KeyBefore(s[i], s[k])
            A(k) == {i \in 1 .. n : Before(i, k)}
            rank == [k \in 1 .. n |-> Cardinality(A(k))]
<1>1. n \in Nat /\ IsFiniteSet(1 .. n) /\ Cardinality(1 .. n) = n
      /\ IsFiniteSet(0 .. n - 1) /\ Cardinality(0 .. n - 1) = n
  <2>1. n \in Nat /\ 0 \in Int /\ 1 \in Int /\ n \in Int /\ n - 1 \in Int
    BY DEF Distinct
  <2>. HIDE DEF n
  <2>2. IsFiniteSet(1 .. n) /\ Cardinality(1 .. n) = IF 1 > n THEN 0 ELSE n - 1 + 1
    BY <2>1, FS_Interval
  <2>3. IsFiniteSet(0 .. n - 1) /\ Cardinality(0 .. n - 1) = IF 0 > n - 1 THEN 0 ELSE n - 1 - 0 + 1
    BY <2>1, FS_Interval
  <2>. QED
    BY <2>1, <2>2, <2>3
<1>2. /\ \A i \in 1 .. n : ~Before(i, i)
      /\ \A i, k, j \in 1 .. n : Before(i, k) /\ Before(k, j) => Before(i, j)
      /\ \A i, k \in 1 .. n : i # k => Before(i, k) \/ Before(k, i)
  <2>1. \A i \in 1 .. n : Keyed(s[i])
    BY DEF Distinct
  <2>2. \A i, k \in 1 .. n : i # k => ~SameKey(s[i], s[k])
    BY DEF Distinct
  <2>. QED
    BY <2>1, <2>2, KeyBeforeOrders
<1>. HIDE DEF Before
<1>3. \A k \in 1 .. n : Export!Ahead(s, k) = A(k)
  <2>. TAKE k \in 1 .. n
  <2>1. \A i \in 1 .. n : (Before(i, k) \/ (i < k /\ ~Before(k, i))) <=> Before(i, k)
    <3>. TAKE i \in 1 .. n
    <3>1. i < k => i # k
      BY <1>1
    <3>. QED
      BY <1>2, <3>1
  <2>2. Export!Ahead(s, k) = {i \in 1 .. n : Before(i, k) \/ (i < k /\ ~Before(k, i))}
    BY DEF Export!Ahead, Before
  <2>. QED
    BY <2>1, <2>2
<1>4. \A k \in 1 .. n : IsFiniteSet(A(k)) /\ rank[k] = Cardinality(A(k)) /\ rank[k] \in Nat
  <2>. TAKE k \in 1 .. n
  <2>1. A(k) \in SUBSET (1 .. n)
    OBVIOUS
  <2>2. IsFiniteSet(A(k))
    BY <1>1, <2>1, FS_Subset
  <2>. QED
    BY <2>2, FS_CardinalityType
<1>5. ASSUME NEW i \in 1 .. n, NEW k \in 1 .. n, Before(i, k) PROVE rank[i] < rank[k]
  <2>1. A(i) \in SUBSET A(k) /\ i \in A(k) /\ i \notin A(i)
    BY <1>2, <1>5
  <2>2. Cardinality(A(i)) <= Cardinality(A(k)) /\ (Cardinality(A(k)) = Cardinality(A(i)) => A(k) = A(i))
    BY <1>4, <2>1, FS_Subset
  <2>3. Cardinality(A(i)) # Cardinality(A(k))
    BY <2>1, <2>2
  <2>. HIDE DEF A, rank
  <2>. QED
    BY <1>4, <2>2, <2>3
<1>6. \A i, k \in 1 .. n : rank[i] = rank[k] => i = k
  <2>. HIDE DEF A, rank
  <2>. TAKE i, k \in 1 .. n
  <2>1. rank[i] \in Nat /\ rank[k] \in Nat
    BY <1>4
  <2>2. CASE Before(i, k)
    BY <1>5, <2>1, <2>2
  <2>3. CASE Before(k, i)
    BY <1>5, <2>1, <2>3
  <2>. QED
    BY <1>2, <2>2, <2>3
<1>7. \A k \in 1 .. n : rank[k] \in 0 .. n - 1
  <2>. TAKE k \in 1 .. n
  <2>1. A(k) \in SUBSET (1 .. n) /\ k \notin A(k)
    BY <1>2
  <2>2. Cardinality(A(k)) <= Cardinality(1 .. n) /\ (Cardinality(1 .. n) = Cardinality(A(k)) => 1 .. n = A(k))
    BY <1>1, <2>1, FS_Subset
  <2>3. Cardinality(A(k)) # n
    BY <1>1, <2>1, <2>2
  <2>. HIDE DEF A, rank
  <2>. QED
    BY <1>1, <1>4, <2>2, <2>3
<1>8. \A x \in 0 .. n - 1 : \E k \in 1 .. n : rank[k] = x
  <2>1. rank \in [1 .. n -> 0 .. n - 1]
    BY <1>7
  <2>. HIDE DEF rank, n
  <2>2. rank \in Injection(1 .. n, 0 .. n - 1)
    BY <1>6, <2>1 DEF Injection, IsInjective
  <2>3. rank \in Surjection(1 .. n, 0 .. n - 1)
    BY <1>1, <2>2, FS_Injection
  <2>. QED
    BY <2>3 DEF Surjection
<1>. DEFINE at(i) == CHOOSE k \in 1 .. n : rank[k] = i - 1
            p == [i \in 1 .. n |-> at(i)]
            t == Export!Sorted(s)
<1>9. \A i \in 1 .. n : at(i) \in 1 .. n /\ rank[at(i)] = i - 1
  <2>. TAKE i \in 1 .. n
  <2>1. i - 1 \in 0 .. n - 1
    BY <1>1
  <2>. HIDE DEF rank
  <2>. QED
    BY <1>8, <2>1
<1>10. t = [i \in 1 .. n |-> s[at(i)]]
  <2>1. t = [i \in 1 .. n |-> s[CHOOSE k \in 1 .. n : Export!Cardinality(Export!Ahead(s, k)) = i - 1]]
    BY DEF Export!Sorted
  <2>2. \A k \in 1 .. n : Export!Cardinality(Export!Ahead(s, k)) = rank[k]
    BY <1>3, ExportCardinality
  <2>. HIDE DEF rank
  <2>3. \A i \in 1 .. n : (CHOOSE k \in 1 .. n : Export!Cardinality(Export!Ahead(s, k)) = i - 1) = at(i)
    <3>. TAKE i \in 1 .. n
    <3>1. \A k : (k \in 1 .. n /\ Export!Cardinality(Export!Ahead(s, k)) = i - 1) <=> (k \in 1 .. n /\ rank[k] = i - 1)
      BY <2>2
    <3>. QED
      BY <3>1, Zenon
  <2>. QED
    BY <2>1, <2>3
<1>. HIDE DEF at, A, rank, t
<1>11. p \in [1 .. n -> 1 .. n] /\ \A i \in 1 .. n : p[i] = at(i)
  BY <1>9
<1>. HIDE DEF p
<1>12. \A i \in 1 .. n : t[i] = s[p[i]]
  BY <1>10, <1>11
<1>13. \A i, k \in 1 .. n : p[i] = p[k] => i = k
  <2>1. \A i, k \in 1 .. n : p[i] = p[k] => i - 1 = k - 1
    BY <1>9, <1>11
  <2>. QED
    BY <1>1, <2>1
<1>14. \A k \in 1 .. n : \E i \in 1 .. n : p[i] = k
  <2>. TAKE k \in 1 .. n
  <2>1. rank[k] \in 0 .. n - 1
    BY <1>7
  <2>. DEFINE i == rank[k] + 1
  <2>2. i \in 1 .. n /\ i - 1 = rank[k]
    BY <1>1, <2>1
  <2>. HIDE DEF i
  <2>3. rank[at(i)] = rank[k] /\ at(i) \in 1 .. n
    BY <1>9, <2>2
  <2>4. at(i) = k
    BY <1>6, <2>3
  <2>. QED
    BY <1>11, <2>2, <2>4
<1>15. ASSUME NEW i \in 1 .. n, NEW k \in 1 .. n, i < k PROVE Export!KeyBefore(t[i], t[k])
  <2>1. p[i] \in 1 .. n /\ p[k] \in 1 .. n /\ rank[p[i]] = i - 1 /\ rank[p[k]] = k - 1
    BY <1>9, <1>11
  <2>2. rank[p[i]] < rank[p[k]]
    BY <1>1, <1>15, <2>1
  <2>3. ~Before(p[k], p[i]) /\ p[i] # p[k]
    <3>1. p[i] # p[k]
      BY <1>1, <1>15, <2>1
    <3>2. ASSUME Before(p[k], p[i]) PROVE FALSE
      <4>1. rank[p[k]] < rank[p[i]]
        BY <1>5, <2>1, <3>2
      <4>. QED
        BY <1>1, <1>15, <2>1, <4>1
    <3>. QED
      BY <3>1, <3>2
  <2>4. Before(p[i], p[k])
    BY <1>2, <2>1, <2>3
  <2>. QED
    BY <1>12, <2>4 DEF Before
<1>16. t = [i \in 1 .. n |-> t[i]]
  BY <1>10
<1>. QED
  BY <1>11, <1>12, <1>13, <1>14, <1>15, <1>16 DEF SortOf, t, n

-----------------------------------------------------------------------------
(* The digits of an id.                                                      *)

Digits(d, n) == d = [k \in 0 .. n |-> IF k < 10 THEN <<k>> ELSE Append(d[k \div 10], k % 10)]

LEMMA TenthIsLess ==
  ASSUME NEW k \in Nat, ~(k < 10)
  PROVE  k \div 10 \in 0 .. k - 1
OBVIOUS

LEMMA DigitsExist ==
  ASSUME NEW n \in Nat
  PROVE  \E d : Digits(d, n)
<1>. DEFINE T == {m \in Nat : ~\E d : Digits(d, m)}
<1>1. ASSUME T # {} PROVE FALSE
  <2>1. PICK m \in T : \A y \in T : m <= y
    BY <1>1, LeastElement
  <2>. DEFINE body(h, k) == IF k < 10 THEN <<k>> ELSE Append(h[k \div 10], k % 10)
  <2>0. \A h, i : Digits(h, i) <=> h = [k \in 0 .. i |-> body(h, k)]
    BY DEF Digits
  <2>2. PICK f : m = 0 \/ (m - 1 \in Nat /\ f = [k \in 0 .. m - 1 |-> body(f, k)])
    <3>1. CASE m = 0
      BY <3>1
    <3>2. CASE m # 0
      <4>1. m - 1 \in Nat /\ m - 1 \notin T
        BY <2>1, <3>2
      <4>2. PICK f : Digits(f, m - 1)
        BY <4>1
      <4>. QED
        BY <2>0, <4>1, <4>2
    <3>. QED
      BY <3>1, <3>2
  <2>. DEFINE g == [k \in 0 .. m |-> IF k = m THEN body(f, m) ELSE f[k]]
  <2>3. \A h, i, k : k < 10 \/ h[k \div 10] = i[k \div 10] => body(h, k) = body(i, k)
    OBVIOUS
  <2>. HIDE DEF body
  <2>4. ASSUME NEW k \in 0 .. m PROVE g[k] = body(g, k)
    <3>1. ~(k < 10) => k \div 10 \in 0 .. m /\ k \div 10 # m
      BY TenthIsLess
    <3>2. ~(k < 10) => g[k \div 10] = f[k \div 10]
      BY <3>1
    <3>3. body(g, k) = body(f, k)
      <4>. HIDE DEF g
      <4>. QED
        BY <2>3, <3>2
    <3>4. CASE k = m
      BY <3>3, <3>4
    <3>5. CASE k # m
      <4>1. k \in 0 .. m - 1 /\ g[k] = f[k] /\ m # 0
        BY <3>5
      <4>2. f[k] = body(f, k)
        BY <2>2, <4>1
      <4>. QED
        BY <3>3, <4>1, <4>2
    <3>. QED
      BY <3>4, <3>5
  <2>5. g = [k \in 0 .. m |-> body(g, k)]
    <3>1. g = [k \in 0 .. m |-> g[k]]
      OBVIOUS
    <3>. HIDE DEF g
    <3>. QED
      BY <3>1, <2>4
  <2>. HIDE DEF g
  <2>6. Digits(g, m)
    BY <2>0, <2>5
  <2>. QED
    BY <2>1, <2>6
<1>. QED
  BY <1>1

LEMMA DecimalIs ==
  ASSUME NEW n \in Nat
  PROVE  Export!Decimal(n) \in Seq(Int)
<1>. DEFINE d == CHOOSE d : Digits(d, n)
<1>1. Digits(d, n)
  BY DigitsExist
<1>2. Export!Decimal(n) = d[n]
  BY DEF Export!Decimal, Digits
<1>. HIDE DEF d
<1>. DEFINE T == {m \in 0 .. n : d[m] \notin Seq(Int)}
<1>3. ASSUME T # {} PROVE FALSE
  <2>0. T \subseteq Nat
    OBVIOUS
  <2>1. PICK m \in T : \A y \in T : m <= y
    BY <1>3, <2>0, LeastElement
  <2>2. m \in 0 .. n /\ m \in Nat /\ d[m] \notin Seq(Int)
    BY <2>1
  <2>3. d[m] = IF m < 10 THEN <<m>> ELSE Append(d[m \div 10], m % 10)
    BY <1>1, <2>2 DEF Digits
  <2>4. CASE m < 10
    BY <2>2, <2>3, <2>4
  <2>5. CASE ~(m < 10)
    <3>1. m \div 10 \in 0 .. n /\ m \div 10 < m
      BY <2>2, <2>5, TenthIsLess
    <3>2. d[m \div 10] \in Seq(Int)
      BY <2>1, <3>1
    <3>3. m % 10 \in Int
      BY <2>2
    <3>. QED
      BY <2>2, <2>3, <2>5, <3>2, <3>3
  <2>. QED
    BY <2>4, <2>5
<1>. QED
  BY <1>2, <1>3

-----------------------------------------------------------------------------
(* Sequences joined, and what is left of one.                                *)

LEMMA FlattenJoins ==
  ASSUME NEW s, Len(s) \in Nat \ {0}
  PROVE  \E f : Joins(f, s, Len(s)) /\ Export!FlattenSeq(s) = f[Len(s)]
<1>1. \E f : Joins(f, s, Len(s))
  BY JoinsExists
<1>2. Export!FlattenSeq(s) = (CHOOSE f : Joins(f, s, Len(s)))[Len(s)]
  BY DEF Export!FlattenSeq, Joins
<1>. QED
  BY <1>1, <1>2

LEMMA FlattenTyped ==
  ASSUME NEW S, NEW s \in Seq(Seq(S))
  PROVE  Export!FlattenSeq(s) \in Seq(S)
<1>1. CASE Len(s) = 0
  <2>1. s = <<>> /\ Export!FlattenSeq(s) = s
    BY <1>1, EmptySeq DEF Export!FlattenSeq
  <2>. QED
    BY <2>1, EmptySeq
<1>2. CASE Len(s) # 0
  <2>. DEFINE n == Len(s)
  <2>1. n \in Nat \ {0}
    BY <1>2
  <2>2. PICK f : Joins(f, s, n) /\ Export!FlattenSeq(s) = f[n]
    BY <2>1, FlattenJoins
  <2>3. ASSUME NEW i \in 1 .. n PROVE f[i] = IF i = 1 THEN s[i] ELSE f[i - 1] \o s[i]
    BY <2>2 DEF Joins
  <2>4. \A i \in 1 .. n : s[i] \in Seq(S)
    OBVIOUS
  <2>. HIDE DEF n
  <2>. DEFINE T == {m \in 1 .. n : f[m] \notin Seq(S)}
  <2>5. ASSUME T # {} PROVE FALSE
    <3>0. T \subseteq Nat
      OBVIOUS
    <3>1. PICK m \in T : \A y \in T : m <= y
      BY <2>5, <3>0, LeastElement
    <3>2. m \in 1 .. n /\ f[m] \notin Seq(S) /\ s[m] \in Seq(S)
      BY <2>4, <3>1
    <3>3. f[m] = IF m = 1 THEN s[m] ELSE f[m - 1] \o s[m]
      BY <2>3, <3>2, Zenon
    <3>4. m # 1
      BY <3>2, <3>3
    <3>5. m - 1 \in 1 .. n /\ m - 1 < m
      BY <2>1, <3>2, <3>4
    <3>6. f[m - 1] \in Seq(S)
      BY <3>1, <3>5
    <3>7. f[m - 1] \o s[m] \in Seq(S)
      BY <3>2, <3>6, ConcatProperties
    <3>. QED
      BY <3>2, <3>3, <3>4, <3>7
  <2>. QED
    BY <2>1, <2>2, <2>5
<1>. QED
  BY <1>1, <1>2

\* g cuts the first e[k] elements of s into k parts.
Cuts(s, k, e, g) ==
  /\ g = [i \in 1 .. k |-> SubSeq(s, e[i - 1] + 1, e[i])]
  /\ e[0] = 0
  /\ \A i \in 0 .. k : e[i] \in 0 .. Len(s)
  /\ \A i \in 1 .. k : e[i - 1] <= e[i]

LEMMA FlattenParts ==
  ASSUME NEW S, NEW s \in Seq(S), NEW k \in Nat, NEW e, NEW g, Cuts(s, k, e, g)
  PROVE  g \in Seq(Seq(S)) /\ Len(g) = k /\ Export!FlattenSeq(g) = SubSeq(s, 1, e[k])
<1>1. /\ e[0] = 0 /\ Len(s) \in Nat
      /\ \A i \in 0 .. k : e[i] \in 0 .. Len(s)
      /\ \A i \in 1 .. k : e[i - 1] \in 0 .. Len(s) /\ e[i] \in 0 .. Len(s) /\ e[i - 1] <= e[i]
  BY DEF Cuts
<1>2. ASSUME NEW i \in 1 .. k PROVE SubSeq(s, e[i - 1] + 1, e[i]) \in Seq(S)
  <2>. DEFINE a == e[i - 1] + 1
              b == e[i]
  <2>1. a \in Int /\ b \in Int /\ a >= 1 /\ b <= Len(s)
    BY <1>1
  <2>. HIDE DEF a, b
  <2>2. \A j \in a .. b : j \in 1 .. Len(s)
    BY <1>1, <2>1
  <2>3. \A j \in a .. b : s[j] \in S
    BY <2>2
  <2>4. SubSeq(s, a, b) \in Seq(S)
    BY <2>1, <2>3, SubSeqProperties
  <2>. QED
    BY <2>4 DEF a, b
<1>3. g \in [1 .. k -> Seq(S)] /\ \A i \in 1 .. k : g[i] = SubSeq(s, e[i - 1] + 1, e[i])
  BY <1>2 DEF Cuts
<1>4. g \in Seq(Seq(S)) /\ Len(g) = k
  BY <1>3, FunctionIsSequence
<1>5. CASE k = 0
  <2>1. g = <<>> /\ Export!FlattenSeq(g) = g
    BY <1>4, <1>5, EmptySeq DEF Export!FlattenSeq
  <2>2. SubSeq(s, 1, 0) = <<>>
    BY SubSeqEmpty
  <2>. QED
    BY <1>1, <1>4, <1>5, <2>1, <2>2
<1>6. CASE k # 0
  <2>1. PICK f : Joins(f, g, k) /\ Export!FlattenSeq(g) = f[k]
    BY <1>4, <1>6, FlattenJoins
  <2>2. ASSUME NEW i \in 1 .. k PROVE f[i] = IF i = 1 THEN g[i] ELSE f[i - 1] \o g[i]
    BY <2>1 DEF Joins
  <2>. DEFINE T == {m \in 1 .. k : f[m] # SubSeq(s, 1, e[m])}
  <2>3. ASSUME T # {} PROVE FALSE
    <3>0. T \subseteq Nat
      OBVIOUS
    <3>1. PICK m \in T : \A y \in T : m <= y
      BY <2>3, <3>0, LeastElement
    <3>2. m \in 1 .. k /\ f[m] # SubSeq(s, 1, e[m]) /\ g[m] = SubSeq(s, e[m - 1] + 1, e[m])
      BY <1>3, <3>1
    <3>3. f[m] = IF m = 1 THEN g[m] ELSE f[m - 1] \o g[m]
      BY <2>2, <3>2, Zenon
    <3>4. m # 1
      <4>. SUFFICES ASSUME m = 1 PROVE FALSE
        OBVIOUS
      <4>1. f[m] = g[m] /\ m - 1 = 0
        BY <3>3
      <4>2. e[m - 1] + 1 = 1
        BY <1>1, <4>1
      <4>. QED
        BY <3>2, <4>1, <4>2
    <3>5. m - 1 \in 1 .. k /\ m - 1 < m
      BY <3>2, <3>4
    <3>6. f[m - 1] = SubSeq(s, 1, e[m - 1])
      BY <3>1, <3>5
    <3>7. e[m - 1] \in 1 - 1 .. Len(s) /\ e[m] \in e[m - 1] .. Len(s) /\ 1 \in 1 .. Len(s) + 1
      BY <1>1, <3>2
    <3>8. SubSeq(s, 1, e[m - 1]) \o SubSeq(s, e[m - 1] + 1, e[m]) = SubSeq(s, 1, e[m])
      BY <3>7, ConcatAdjacentSubSeq
    <3>. QED
      BY <3>2, <3>3, <3>4, <3>6, <3>8
  <2>4. k \in 1 .. k
    BY <1>6
  <2>. QED
    BY <1>4, <2>1, <2>3, <2>4
<1>. QED
  BY <1>5, <1>6

\* What is left of a sequence after its first k elements.
RestOf(s, k) == SubSeq(s, k + 1, Len(s))

LEMMA RestIs ==
  ASSUME NEW S, NEW s \in Seq(S), NEW k \in 0 .. Len(s)
  PROVE  /\ RestOf(s, k) = <<>> => k = Len(s)
         /\ k = Len(s) => RestOf(s, k) = <<>>
         /\ k < Len(s) => Head(RestOf(s, k)) = s[k + 1] /\ Tail(RestOf(s, k)) = RestOf(s, k + 1)
<1>1. CASE k = Len(s)
  <2>1. SubSeq(s, k + 1, Len(s)) = <<>>
    BY <1>1, SubSeqEmpty
  <2>. QED
    BY <1>1, <2>1 DEF RestOf
<1>2. CASE k < Len(s)
  <2>1. k + 1 \in 1 .. Len(s) /\ Len(s) \in k + 1 .. Len(s)
    BY <1>2
  <2>2. Head(SubSeq(s, k + 1, Len(s))) = s[k + 1]
        /\ Tail(SubSeq(s, k + 1, Len(s))) = SubSeq(s, k + 1 + 1, Len(s))
    BY <2>1, HeadTailOfSubSeq
  <2>3. \A i \in k + 1 .. Len(s) : s[i] \in S
    OBVIOUS
  <2>4. Len(SubSeq(s, k + 1, Len(s))) = Len(s) - (k + 1) + 1
    BY <2>1, <2>3, SubSeqProperties
  <2>5. SubSeq(s, k + 1, Len(s)) # <<>>
    <3>1. Len(SubSeq(s, k + 1, Len(s))) # 0
      BY <1>2, <2>4
    <3>2. Len(<<>>) = 0
      OBVIOUS
    <3>. QED
      BY <3>1, <3>2, Zenon
  <2>. QED
    BY <1>2, <2>2, <2>5 DEF RestOf
<1>. QED
  BY <1>1, <1>2

LEMMA RestOfNone ==
  ASSUME NEW S, NEW s \in Seq(S)
  PROVE  RestOf(s, 0) = s
<1>1. SubSeq(s, 1, Len(s)) = s
  BY SubSeqFull
<1>. QED
  BY <1>1 DEF RestOf

LEMMA LeastOf ==
  ASSUME NEW n \in Nat \ {0}, NEW f \in [1 .. n -> Int]
  PROVE  \E i \in 1 .. n : \A k \in 1 .. n : f[i] <= f[k]
<1>. DEFINE P(m) == \E i \in 1 .. m : \A k \in 1 .. m : f[i] <= f[k]
            T == {m \in 1 .. n : ~P(m)}
<1>1. ASSUME T # {} PROVE FALSE
  <2>0. T \subseteq Nat
    OBVIOUS
  <2>1. PICK m \in T : \A y \in T : m <= y
    BY <1>1, <2>0, LeastElement
  <2>2. m \in 1 .. n /\ ~P(m)
    BY <2>1
  <2>3. \A k \in 1 .. n : f[k] \in Int
    OBVIOUS
  <2>4. CASE m = 1
    <3>1. 1 \in 1 .. m /\ \A k \in 1 .. m : k = 1
      BY <2>4
    <3>2. f[1] \in Int
      BY <2>3
    <3>3. f[1] <= f[1]
      BY <3>2
    <3>4. \A k \in 1 .. m : f[1] <= f[k]
      BY <3>1, <3>3
    <3>. QED
      BY <2>2, <3>1, <3>4
  <2>5. CASE m # 1
    <3>1. m - 1 \in 1 .. n /\ m - 1 < m
      BY <2>2, <2>5
    <3>2. P(m - 1)
      <4>1. m - 1 \notin T
        <5>. HIDE DEF T, P
        <5>1. m - 1 \in T => m <= m - 1
          BY <2>1
        <5>. QED
          BY <2>2, <3>1, <5>1
      <4>. QED
        BY <3>1, <4>1
    <3>3. PICK i \in 1 .. m - 1 : \A k \in 1 .. m - 1 : f[i] <= f[k]
      BY <3>2
    <3>4. \A k \in 1 .. m : k \in 1 .. n /\ (k = m \/ k \in 1 .. m - 1)
      BY <2>2
    <3>5. i \in 1 .. m /\ m \in 1 .. m /\ f[i] \in Int /\ f[m] \in Int
      BY <2>2, <2>3, <3>1, <3>3
    <3>6. CASE f[i] <= f[m]
      <4>1. \A k \in 1 .. m : f[i] <= f[k]
        BY <3>3, <3>4, <3>6
      <4>. QED
        BY <2>2, <3>5, <4>1
    <3>7. CASE ~(f[i] <= f[m])
      <4>1. \A k \in 1 .. m : f[m] <= f[k]
        <5>. TAKE k \in 1 .. m
        <5>1. f[k] \in Int
          BY <2>3, <3>4
        <5>2. CASE k = m
          BY <3>5, <5>2
        <5>3. CASE k # m
          <6>1. f[i] <= f[k]
            BY <3>3, <3>4, <5>3
          <6>. QED
            BY <3>5, <3>7, <5>1, <6>1
        <5>. QED
          BY <5>2, <5>3
      <4>. QED
        BY <2>2, <3>5, <4>1
    <3>. QED
      BY <3>6, <3>7
  <2>. QED
    BY <2>4, <2>5
<1>2. n \notin T
  BY <1>1
<1>. QED
  BY <1>2

LEMMA MinOfAll ==
  ASSUME NEW n \in Nat \ {0}, NEW f \in [1 .. n -> Int], NEW M, M = {f[i] : i \in 1 .. n}
  PROVE  \A i \in 1 .. n : Export!Min(M) <= f[i]
<1>1. PICK i \in 1 .. n : \A k \in 1 .. n : f[i] <= f[k]
  BY LeastOf
<1>2. f[i] \in M /\ \A y \in M : f[i] <= y
  BY <1>1
<1>3. Export!Min(M) \in M /\ \A y \in M : Export!Min(M) <= y
  <2>1. \E x \in M : \A y \in M : x <= y
    BY <1>2, Zenon
  <2>2. Export!Min(M) = CHOOSE x \in M : \A y \in M : x <= y
    BY Zenon DEF Export!Min
  <2>. QED
    BY <2>1, <2>2, Zenon
<1>4. \A k \in 1 .. n : f[k] \in M
  OBVIOUS
<1>. QED
  BY <1>3, <1>4, Zenon

LEMMA MaxOfAll ==
  ASSUME NEW n \in Nat \ {0}, NEW f \in [1 .. n -> Int], NEW M, M = {f[i] : i \in 1 .. n}
  PROVE  \A i \in 1 .. n : f[i] <= Export!Max(M)
<1>. DEFINE h == [i \in 1 .. n |-> -f[i]]
<1>0. \A i \in 1 .. n : f[i] \in Int /\ h[i] = -f[i]
  OBVIOUS
<1>1. h \in [1 .. n -> Int]
  BY <1>0
<1>. HIDE DEF h
<1>2. PICK i \in 1 .. n : \A k \in 1 .. n : h[i] <= h[k]
  BY <1>1, LeastOf
<1>3. \A k \in 1 .. n : f[i] >= f[k]
  BY <1>0, <1>2
<1>4. f[i] \in M /\ \A y \in M : f[i] >= y
  BY <1>3
<1>5. Export!Max(M) \in M /\ \A y \in M : Export!Max(M) >= y
  <2>1. \E x \in M : \A y \in M : x >= y
    BY <1>4, Zenon
  <2>2. Export!Max(M) = CHOOSE x \in M : \A y \in M : x >= y
    BY Zenon DEF Export!Max
  <2>. QED
    BY <2>1, <2>2, Zenon
<1>6. \A k \in 1 .. n : f[k] \in M
  OBVIOUS
<1>7. \A y \in M : y \in Int
  BY <1>0
<1>8. \A y \in M : y <= Export!Max(M)
  BY <1>5, <1>7
<1>. QED
  BY <1>6, <1>8, Zenon

-----------------------------------------------------------------------------
(* Rows and their sources.                                                   *)

Row ==
  {r \in [id : Seq(Int), label : Seq(Int), hilbert : Int, true : Export!Rectangle,
          box : Export!Rectangle, terminal : Int, status : STRING] :
     r.hilbert = Export!Hilbert(Export!Cell(r.true)) /\ r.box = Export!Outward(r.true)}

LEMMA HullCovers ==
  ASSUME NEW s \in Seq(Row), s # <<>>
  PROVE  \A i \in 1 .. Len(s) : Export!Covers(Export!Hull(Export!ToSet(s)), s[i].true)
<1>. DEFINE n == Len(s)
            R == Export!ToSet(s)
<1>1. n \in Nat \ {0}
  BY EmptySeq
<1>2. R = {s[i] : i \in 1 .. n}
  BY DEF Export!ToSet
<1>3. \A i \in 1 .. n : s[i].true \in Export!Rectangle
  BY DEF Row
<1>4. \A i \in 1 .. n : /\ s[i].true.x0 \in Int /\ s[i].true.y0 \in Int
                        /\ s[i].true.x1 \in Int /\ s[i].true.y1 \in Int
  BY <1>3 DEF Export!Rectangle
<1>. HIDE DEF n, R
<1>5. \A i \in 1 .. n : Export!Min({r.true.x0 : r \in R}) <= s[i].true.x0
  <2>. DEFINE f == [i \in 1 .. n |-> s[i].true.x0]
              M == {r.true.x0 : r \in R}
  <2>1. f \in [1 .. n -> Int] /\ M = {f[i] : i \in 1 .. n}
    BY <1>2, <1>4
  <2>2. \A i \in 1 .. n : f[i] = s[i].true.x0
    OBVIOUS
  <2>. HIDE DEF f, M
  <2>3. \A i \in 1 .. n : Export!Min(M) <= f[i]
    BY <1>1, <2>1, MinOfAll
  <2>. QED
    BY <2>2, <2>3, Zenon DEF M
<1>6. \A i \in 1 .. n : Export!Min({r.true.y0 : r \in R}) <= s[i].true.y0
  <2>. DEFINE f == [i \in 1 .. n |-> s[i].true.y0]
              M == {r.true.y0 : r \in R}
  <2>1. f \in [1 .. n -> Int] /\ M = {f[i] : i \in 1 .. n}
    BY <1>2, <1>4
  <2>2. \A i \in 1 .. n : f[i] = s[i].true.y0
    OBVIOUS
  <2>. HIDE DEF f, M
  <2>3. \A i \in 1 .. n : Export!Min(M) <= f[i]
    BY <1>1, <2>1, MinOfAll
  <2>. QED
    BY <2>2, <2>3, Zenon DEF M
<1>7. \A i \in 1 .. n : s[i].true.x1 <= Export!Max({r.true.x1 : r \in R})
  <2>. DEFINE f == [i \in 1 .. n |-> s[i].true.x1]
              M == {r.true.x1 : r \in R}
  <2>1. f \in [1 .. n -> Int] /\ M = {f[i] : i \in 1 .. n}
    BY <1>2, <1>4
  <2>2. \A i \in 1 .. n : f[i] = s[i].true.x1
    OBVIOUS
  <2>. HIDE DEF f, M
  <2>3. \A i \in 1 .. n : f[i] <= Export!Max(M)
    BY <1>1, <2>1, MaxOfAll
  <2>. QED
    BY <2>2, <2>3, Zenon DEF M
<1>8. \A i \in 1 .. n : s[i].true.y1 <= Export!Max({r.true.y1 : r \in R})
  <2>. DEFINE f == [i \in 1 .. n |-> s[i].true.y1]
              M == {r.true.y1 : r \in R}
  <2>1. f \in [1 .. n -> Int] /\ M = {f[i] : i \in 1 .. n}
    BY <1>2, <1>4
  <2>2. \A i \in 1 .. n : f[i] = s[i].true.y1
    OBVIOUS
  <2>. HIDE DEF f, M
  <2>3. \A i \in 1 .. n : f[i] <= Export!Max(M)
    BY <1>1, <2>1, MaxOfAll
  <2>. QED
    BY <2>2, <2>3, Zenon DEF M
<1>. DEFINE h == Export!Hull(R)
<1>9. /\ h.x0 = Export!Min({r.true.x0 : r \in R}) /\ h.y0 = Export!Min({r.true.y0 : r \in R})
      /\ h.x1 = Export!Max({r.true.x1 : r \in R}) /\ h.y1 = Export!Max({r.true.y1 : r \in R})
  BY DEF Export!Hull
<1>. HIDE DEF h
<1>10. \A i \in 1 .. n : Export!Covers(h, s[i].true)
  BY <1>5, <1>6, <1>7, <1>8, <1>9, Zenon DEF Export!Covers
<1>. QED
  BY <1>10 DEF n, R, h

\* What a row is made of: a basin, or a unit with what it takes from its bundle.
Unit ==
  [id : Seq(Int), terminal : Int, geometry : Export!Rectangle \cup {None}, encodes : BOOLEAN,
   fabric : Int, version : Int \cup {None}, method : Int, status : STRING]

Source == Export!Item(Seq(Int) \cup {None}) \cup Unit \cup {None}

LEMMA ExpandedIs ==
  ASSUME NEW b \in Export!BundleOf(Export!Item(Int))
  PROVE  Export!Expanded(b) \in Seq(Unit \cup {None})
<1>1. b.units \in Seq(Export!Item(Int)) /\ b.terminal \in Int /\ b.fabric \in Int
      /\ b.version \in Int \cup {None} /\ b.method \in Int /\ b.status \in STRING
  BY DEF Export!BundleOf
<1>2. CASE b.units = <<>>
  BY <1>2 DEF Export!Expanded
<1>3. CASE b.units # <<>>
  <2>. DEFINE n == Len(b.units)
              e(k) == [id |-> <<b.units[k].id>>, terminal |-> b.terminal, geometry |-> b.units[k].geometry,
                       encodes |-> b.units[k].encodes, fabric |-> b.fabric, version |-> b.version,
                       method |-> b.method, status |-> b.status]
  <2>1. n \in Nat /\ \A k \in 1 .. n : b.units[k] \in Export!Item(Int)
    BY <1>1
  <2>2. ASSUME NEW k \in 1 .. n PROVE e(k) \in Unit
    <3>1. b.units[k].id \in Int /\ b.units[k].geometry \in Export!Rectangle \cup {None}
          /\ b.units[k].encodes \in BOOLEAN
      BY <2>1, Zenon DEF Export!Item
    <3>2. <<b.units[k].id>> \in Seq(Int)
      BY <3>1
    <3>. QED
      BY <1>1, <3>1, <3>2, Zenon DEF Unit
  <2>3. Export!Expanded(b) = [k \in 1 .. n |-> e(k)]
    BY <1>3 DEF Export!Expanded
  <2>. HIDE DEF e, n
  <2>4. Export!Expanded(b) \in [1 .. n -> Unit \cup {None}]
    BY <2>2, <2>3
  <2>. QED
    BY <2>1, <2>4, FunctionIsSequence
<1>. QED
  BY <1>2, <1>3

LEMMA SourcesTyped ==
  ASSUME Export!IsJob(job)
  PROVE  Export!Sources \in Seq(Source)
         /\ (job.kind # "basins" => Export!Sources \in Seq(Unit \cup {None}))
<1>1. CASE job \in Export!JobOf("basins", Seq(Export!Item(Seq(Int) \cup {None})))
  <2>1. job.kind = "basins" /\ job.inputs \in Seq(Export!Item(Seq(Int) \cup {None}))
    BY <1>1 DEF Export!JobOf
  <2>2. Export!Sources = job.inputs /\ Export!Item(Seq(Int) \cup {None}) \subseteq Source
    BY <2>1 DEF Export!Sources, Source
  <2>. DEFINE I == Export!Item(Seq(Int) \cup {None})
  <2>3. job.inputs \in Seq(I) /\ I \subseteq Source
    BY <2>1, <2>2
  <2>. HIDE DEF Source, I
  <2>4. job.inputs \in Seq(Source)
    BY <2>3
  <2>. QED
    BY <2>1, <2>2, <2>4
<1>2. CASE job \in Export!JobOf("units", Seq(Export!BundleOf(Export!Item(Int))))
  <2>. DEFINE n == Len(job.inputs)
              f == [i \in 1 .. n |-> Export!Expanded(job.inputs[i])]
  <2>1. job.kind = "units" /\ job.inputs \in Seq(Export!BundleOf(Export!Item(Int)))
    BY <1>2 DEF Export!JobOf
  <2>2. n \in Nat /\ \A i \in 1 .. n : job.inputs[i] \in Export!BundleOf(Export!Item(Int))
    BY <2>1
  <2>3. f \in [1 .. n -> Seq(Unit \cup {None})]
    BY <2>2, ExpandedIs
  <2>4. Export!Sources = Export!FlattenSeq(f)
    BY <2>1 DEF Export!Sources
  <2>. HIDE DEF f, n
  <2>5. f \in Seq(Seq(Unit \cup {None}))
    BY <2>2, <2>3, FunctionIsSequence
  <2>6. Export!Sources \in Seq(Unit \cup {None})
    BY <2>4, <2>5, FlattenTyped
  <2>7. Unit \cup {None} \subseteq Source
    BY DEF Source
  <2>. HIDE DEF Source, Unit
  <2>8. Export!Sources \in Seq(Source)
    BY <2>6, <2>7
  <2>. QED
    BY <2>6, <2>8
<1>. QED
  BY <1>1, <1>2 DEF Export!IsJob

LEMMA NoneIsOther ==
  /\ \A e \in Export!Errors : e # None
  /\ None \notin Export!Rectangle /\ None \notin Seq(Int) /\ None \notin Int
BY WriterAssumption DEF Export!ExportAssumption

\* What the checks of a row find.
LEMMA RowErrorIs ==
  ASSUME NEW e
  PROVE  /\ Export!RowError(e) \in Export!Errors \cup {None} /\ Export!RowError(e) # "planning"
         /\ Export!RowError(e) = None =>
              /\ e # None /\ ~(Export!Defaulted(e) /\ e.terminal < 0) /\ Export!Label(e) # None
              /\ ~Export!Collides(e) /\ ~Export!Duplicate(e) /\ e.geometry # None
         /\ Export!RowError(e) = "collision" => e # None /\ Export!Collides(e)
         /\ Export!RowError(e) = "duplicate" => e # None /\ Export!Duplicate(e)
<1>. DEFINE d == Export!Defaulted(e) /\ e.terminal < 0
            l == Export!Label(e) = None
            c == Export!Collides(e)
            u == Export!Duplicate(e)
            g == e.geometry = None
            n == e.encodes
            x == Export!RowError(e)
<1>1. /\ "empty_bundle" # None /\ "negative_id" # None /\ "missing_version" # None /\ "collision" # None
      /\ "duplicate" # None /\ "bbox" # None /\ "encode" # None /\ "planning" # None
  BY NoneIsOther DEF Export!Errors
<1>2. \/ e = None /\ x = "empty_bundle"
      \/ e # None /\ d /\ x = "negative_id"
      \/ e # None /\ ~d /\ l /\ x = "missing_version"
      \/ e # None /\ ~d /\ ~l /\ c /\ x = "collision"
      \/ e # None /\ ~d /\ ~l /\ ~c /\ u /\ x = "duplicate"
      \/ e # None /\ ~d /\ ~l /\ ~c /\ ~u /\ g /\ x = "bbox"
      \/ e # None /\ ~d /\ ~l /\ ~c /\ ~u /\ ~g /\ ~n /\ x = "encode"
      \/ e # None /\ ~d /\ ~l /\ ~c /\ ~u /\ ~g /\ n /\ x = None
  <2>. HIDE DEF Export!Defaulted, Export!Label, Export!Collides, Export!Duplicate
  <2>1. CASE e = None
    BY <2>1 DEF Export!RowError
  <2>2. CASE e # None /\ d
    BY <2>2 DEF Export!RowError
  <2>3. CASE e # None /\ ~d
    BY <2>3 DEF Export!RowError
  <2>. QED
    BY <2>1, <2>2, <2>3
<1>. HIDE DEF d, l, c, u, g, n, x
<1>3. /\ x \in Export!Errors \cup {None} /\ x # "planning"
      /\ x = None => e # None /\ ~d /\ ~l /\ ~c /\ ~u /\ ~g
      /\ x = "collision" => e # None /\ c
      /\ x = "duplicate" => e # None /\ u
  BY <1>1, <1>2 DEF Export!Errors
<1>. QED
  BY <1>3 DEF d, l, c, u, g, x

LEMMA OutwardTyped ==
  ASSUME NEW g \in Export!Rectangle
  PROVE  Export!Outward(g) \in Export!Rectangle
<1>1. g.x0 \in Int /\ g.y0 \in Int /\ g.x1 \in Int /\ g.y1 \in Int
  BY DEF Export!Rectangle
<1>2. Export!Floor(g.x0) \in Int /\ Export!Floor(g.y0) \in Int /\ Export!Ceil(g.x1) \in Int /\ Export!Ceil(g.y1) \in Int
  BY <1>1, FloorIs, CeilIs
<1>. QED
  BY <1>2 DEF Export!Outward, Export!Rectangle

LEMMA HilbertTyped ==
  ASSUME NEW g \in Export!Rectangle
  PROVE  Export!Hilbert(Export!Cell(g)) \in Int
<1>. DEFINE n == 2 ^ ExportBits
<1>0. n \in Nat /\ ExportBits \in Nat
  BY ExportSizes, TwoToPositive
<1>1. PICK h : /\ Curve(h, n, ExportBits)
               /\ \A c \in Export!Grid(ExportBits) : Export!Hilbert(c) = h[c]
  BY HilbertIsCurve
<1>2. Export!Cell(g) \in Export!Grid(ExportBits) /\ Export!Grid(ExportBits) = Cells(n)
  BY <1>0, CellInGrid, GridIs
<1>. HIDE DEF n
<1>3. h \in [Cells(n) -> 0 .. n * n - 1]
  BY <1>1 DEF Curve
<1>4. Export!Hilbert(Export!Cell(g)) = h[Export!Cell(g)]
  BY <1>1, <1>2
<1>5. h[Export!Cell(g)] \in 0 .. n * n - 1
  BY <1>2, <1>3
<1>6. n * n - 1 \in Int
  BY <1>0
<1>. QED
  BY <1>4, <1>5, <1>6

\* An input without an error gives a row.
LEMMA RowOfTyped ==
  ASSUME Export!IsJob(job), NEW e \in Source, job.kind # "basins" => e \in Unit \cup {None},
         Export!RowError(e) = None
  PROVE  Export!RowOf(e) \in Row
<1>1. /\ e # None /\ ~(Export!Defaulted(e) /\ e.terminal < 0) /\ Export!Label(e) # None
      /\ e.geometry # None
  BY RowErrorIs
<1>2. /\ e.id \in Seq(Int) \cup {None} /\ e.terminal \in Int /\ e.geometry \in Export!Rectangle \cup {None}
      /\ e.fabric \in Int /\ e.version \in Int \cup {None} /\ e.method \in Int /\ e.status \in STRING
      /\ (job.kind # "basins" => e.id \in Seq(Int))
  <2>1. e \in Export!Item(Seq(Int) \cup {None}) \/ e \in Unit
    BY <1>1 DEF Source
  <2>2. job.kind # "basins" => e \in Unit
    BY <1>1
  <2>. QED
    BY <2>1, <2>2 DEF Export!Item, Unit
<1>3. e.geometry \in Export!Rectangle
  BY <1>1, <1>2
<1>4. Export!IdOf(e) \in Seq(Int)
  <2>1. CASE Export!Defaulted(e)
    <3>1. e.terminal \in Nat
      BY <1>1, <1>2, <2>1
    <3>2. Export!Decimal(e.terminal) \in Seq(Int)
      BY <3>1, DecimalIs
    <3>. QED
      BY <2>1, <3>2 DEF Export!IdOf
  <2>2. CASE ~Export!Defaulted(e)
    <3>1. e.id \in Seq(Int)
      BY <1>2, <2>2 DEF Export!Defaulted
    <3>. QED
      BY <2>2, <3>1 DEF Export!IdOf
  <2>. QED
    BY <2>1, <2>2
<1>5. Export!Label(e) \in Seq(Int)
  <2>1. job.label \in Seq(Int) \cup {None}
    BY DEF Export!IsJob, Export!JobOf
  <2>2. CASE job.label # None
    BY <2>1, <2>2 DEF Export!Label
  <2>3. CASE job.label = None
    <3>1. Export!FabricLabel(e) # None /\ Export!Label(e) = Export!FabricLabel(e)
      BY <1>1, <2>3 DEF Export!Label
    <3>2. e.version # None
      BY <3>1 DEF Export!FabricLabel
    <3>3. <<e.fabric, e.version, e.method>> \in Seq(Int)
      BY <1>2, <3>2
    <3>. QED
      BY <3>1, <3>2, <3>3 DEF Export!FabricLabel
  <2>. QED
    BY <2>2, <2>3
<1>6. Export!Hilbert(Export!Cell(e.geometry)) \in Int /\ Export!Outward(e.geometry) \in Export!Rectangle
  BY <1>3, HilbertTyped, OutwardTyped
<1>. QED
  BY <1>2, <1>3, <1>4, <1>5, <1>6 DEF Export!RowOf, Row

-----------------------------------------------------------------------------
(***************************************************************************)
(* The strengthening for the export.  The rows so far are those of the     *)
(* first sources, in their order and under different keys; the sorted rows *)
(* are the rows of all sources, each once; and the row groups written cut  *)
(* the sorted rows where the plan says.                                    *)
(***************************************************************************)
Rowed(s) ==
  /\ s \in Seq(Row)
  /\ \A i \in 1 .. Len(s) : s[i] = Export!RowOf(Export!Sources[i])
  /\ \A i, k \in 1 .. Len(s) : s[i].id = s[k].id /\ s[i].label = s[k].label => i = k

OriginsOK ==
  \A x \in DOMAIN origins : \E i \in 1 .. Len(rows) :
    Export!Defaulted(Export!Sources[i]) /\ Export!IdOf(Export!Sources[i]) = x
    /\ Export!Sources[i].origin = origins[x]

Materializing ==
  /\ Rowed(rows) /\ Len(rows) <= Len(Export!Sources)
  /\ inputs = RestOf(Export!Sources, Len(rows))
  /\ OriginsOK /\ exported = Export!Empty

AllSorted ==
  \E s : Rowed(s) /\ Len(s) = Len(Export!Sources) /\ Len(s) # 0 /\ SortOf(rows, s)

\* The file after k row groups.
Filled(k, footer) ==
  exported = [groups |-> [i \in 1 .. k |-> SubSeq(rows, Begins(Len(rows), i - 1) + 1, Begins(Len(rows), i))],
              footer |-> footer]

WritingGroups ==
  \E k \in 0 .. Len(Export!PlanSizes(Len(rows))) :
    Filled(k, None) /\ plan = RestOf(Export!PlanSizes(Len(rows)), k)

ExportInv ==
  /\ Export!IsJob(job)
  /\ \/ /\ writing \in {"check", "create"} /\ error = None
        /\ rows = <<>> /\ origins = <<>> /\ exported = Export!Old
     \/ writing = "materialize" /\ error = None /\ Materializing
     \/ writing = "write" /\ error = None /\ AllSorted /\ WritingGroups
     \/ /\ writing = "done" /\ error = None /\ AllSorted
        /\ Filled(Len(Export!PlanSizes(Len(rows))), Export!Hull(Export!ToSet(rows)))
     \/ writing \in {"failed", "crashed"} /\ exported.footer \in {None, Earlier} /\ Export!RefusedIsReal

LEMMA InitExport ==
  ASSUME Export!Init
  PROVE  ExportInv
<1>1. Export!IsJob(job)
  BY WriterAssumption DEF Export!Init, Export!ExportAssumption
<1>. QED
  BY <1>1 DEF Export!Init, ExportInv

\* The sources and their rows are those of the job.
LEMMA JobKept ==
  ASSUME job' = job
  PROVE  /\ Export!IsJob(job)' <=> Export!IsJob(job)
         /\ Export!Sources' = Export!Sources
         /\ \A e : /\ (Export!Defaulted(e))' <=> Export!Defaulted(e)
                   /\ (Export!IdOf(e))' = Export!IdOf(e)
                   /\ (Export!Label(e))' = Export!Label(e)
                   /\ (Export!RowOf(e))' = Export!RowOf(e)
         /\ \A s : (Rowed(s))' <=> Rowed(s)
<1>1. (Export!IsJob(job))' <=> Export!IsJob(job)
  BY DEF Export!IsJob
<1>2. Export!Sources' = Export!Sources
  BY DEF Export!Sources
<1>3. \A e : (Export!Defaulted(e))' <=> Export!Defaulted(e)
  BY DEF Export!Defaulted
<1>4. \A e : (Export!IdOf(e))' = Export!IdOf(e)
  BY <1>3 DEF Export!IdOf
<1>5. \A e : (Export!Label(e))' = Export!Label(e)
  BY DEF Export!Label
<1>6. \A e : (Export!RowOf(e))' = Export!RowOf(e)
  BY <1>4, <1>5 DEF Export!RowOf
<1>7. \A s : (Rowed(s))' <=> Rowed(s)
  BY <1>2, <1>6 DEF Rowed
<1>. QED
  BY <1>1, <1>2, <1>3, <1>4, <1>5, <1>6, <1>7

LEMMA FooterBeforeDone ==
  ASSUME ExportInv, writing # "done"
  PROVE  exported.footer \in {None, Earlier}
<1>1. CASE writing \in {"check", "create"}
  BY <1>1 DEF ExportInv, Export!Old
<1>2. CASE writing = "materialize"
  BY <1>2 DEF ExportInv, Materializing, Export!Empty
<1>3. CASE writing = "write"
  <2>1. PICK k : Filled(k, None)
    BY <1>3 DEF ExportInv, WritingGroups
  <2>. QED
    BY <2>1 DEF Filled
<1>4. CASE writing \in {"failed", "crashed"}
  BY <1>4 DEF ExportInv
<1>. QED
  BY <1>1, <1>2, <1>3, <1>4 DEF ExportInv

\* A call that ends without the footer.
LEMMA FailExport ==
  ASSUME ExportInv, writing # "done", job' = job, exported' = exported,
         writing' \in {"failed", "crashed"}, Export!RefusedIsReal'
  PROVE  ExportInv'
<1>1. Export!IsJob(job)'
  BY JobKept DEF ExportInv
<1>2. exported.footer \in {None, Earlier}
  BY FooterBeforeDone
<1>. QED
  BY <1>1, <1>2 DEF ExportInv

LEMMA OtherErrors ==
  ASSUME error' \in (Export!Errors \cup {None}) \ {"planning", "duplicate", "collision"}
  PROVE  Export!RefusedIsReal'
<1>1. error' # "planning" /\ error' \notin {"duplicate", "collision"}
  OBVIOUS
<1>. QED
  BY <1>1 DEF Export!RefusedIsReal

LEMMA CrashExport ==
  ASSUME ExportInv, Export!Crash
  PROVE  ExportInv'
<1>1. /\ writing # "done" /\ job' = job /\ exported' = exported /\ writing' = "crashed"
      /\ error' = error /\ writing \notin {"failed", "crashed"}
  BY DEF Export!Crash
<1>2. error = None
  BY <1>1 DEF ExportInv
<1>3. None \notin {"planning", "duplicate", "collision"}
  BY NoneIsOther DEF Export!Errors
<1>4. Export!RefusedIsReal'
  BY <1>1, <1>2, <1>3, OtherErrors
<1>. QED
  BY <1>1, <1>4, FailExport

LEMMA FailsOtherwise ==
  ASSUME ExportInv, writing # "done", NEW e \in {"value", "os", "empty", "parquet"}, Export!Fail(e)
  PROVE  ExportInv'
<1>1. /\ job' = job /\ exported' = exported /\ writing' = "failed" /\ error' = e
  BY DEF Export!Fail
<1>2. error' \in (Export!Errors \cup {None}) \ {"planning", "duplicate", "collision"}
  BY <1>1 DEF Export!Errors
<1>3. Export!RefusedIsReal'
  BY <1>2, OtherErrors
<1>. QED
  BY <1>1, <1>3, FailExport

LEMMA CheckExport ==
  ASSUME ExportInv, Export!Check
  PROVE  ExportInv'
<1>0. writing = "check" /\ Export!IsJob(job)
  BY DEF Export!Check, ExportInv
<1>1. CASE ~Export!ArgumentsOk
  <2>1. Export!Fail("value")
    BY <1>1 DEF Export!Check
  <2>. QED
    BY <1>0, <2>1, FailsOtherwise
<1>2. CASE Export!ArgumentsOk
  <2>. DEFINE n == Len(job.inputs)
              f == Export!Identified
  <2>1. /\ job' = [job EXCEPT !.inputs = f] /\ writing' = "create"
        /\ UNCHANGED <<inputs, origins, rows, plan, exported, error>>
    BY <1>2 DEF Export!Check
  <2>2. CASE job \in Export!JobOf("basins", Seq(Export!Item(Seq(Int) \cup {None})))
    <3>. DEFINE I == Export!Item(Seq(Int) \cup {None})
                id(i) == IF job.ids = None THEN None ELSE job.ids[i]
    <3>1. /\ job.kind = "basins" /\ job.inputs \in Seq(I) /\ job.method \in Int
          /\ job.ids \in Seq(Seq(Int)) \cup {None}
      BY <2>2 DEF Export!JobOf
    <3>2. n \in Nat /\ \A i \in 1 .. n : job.inputs[i] \in I
      BY <3>1
    <3>3. \A i \in 1 .. n : id(i) \in Seq(Int) \cup {None}
      <4>1. job.ids # None => job.ids \in Seq(Seq(Int)) /\ Len(job.ids) = n
        BY <1>2, <3>1 DEF Export!ArgumentsOk
      <4>. QED
        BY <4>1
    <3>4. ASSUME NEW i \in 1 .. n
          PROVE  [job.inputs[i] EXCEPT !.id = id(i), !.method = job.method, !.origin = i] \in I
      <4>1. job.inputs[i] \in I /\ id(i) \in Seq(Int) \cup {None} /\ job.method \in Int /\ i \in Int
        BY <3>1, <3>2, <3>3
      <4>. HIDE DEF id
      <4>. QED
        BY <4>1 DEF Export!Item
    <3>5. f = [i \in 1 .. n |-> [job.inputs[i] EXCEPT !.id = id(i), !.method = job.method, !.origin = i]]
      BY <3>1 DEF Export!Identified
    <3>. HIDE DEF f, id, I
    <3>6. f \in [1 .. n -> I]
      BY <3>4, <3>5
    <3>7. f \in Seq(I)
      BY <3>2, <3>6, FunctionIsSequence
    <3>8. job' \in Export!JobOf("basins", Seq(I))
      <4>1. job \in Export!JobOf("basins", Seq(I))
        BY <2>2 DEF I
      <4>. DEFINE Q == Seq(I)
      <4>2. f \in Q /\ job \in Export!JobOf("basins", Q)
        BY <3>7, <4>1
      <4>. HIDE DEF Q
      <4>3. job' \in Export!JobOf("basins", Q)
        BY <2>1, <4>2 DEF Export!JobOf
      <4>. QED
        BY <4>3 DEF Q
    <3>9. Export!IsJob(job)'
      BY <3>8 DEF Export!IsJob, I
    <3>. QED
      BY <1>0, <2>1, <3>9 DEF ExportInv
  <2>3. CASE job \in Export!JobOf("units", Seq(Export!BundleOf(Export!Item(Int))))
    <3>. DEFINE I == Export!BundleOf(Export!Item(Int))
    <3>1. job.kind = "units" /\ job.inputs \in Seq(I) /\ job.method \in Int
      BY <2>3 DEF Export!JobOf
    <3>2. n \in Nat /\ \A i \in 1 .. n : job.inputs[i] \in I
      BY <3>1
    <3>4. ASSUME NEW i \in 1 .. n
          PROVE  [job.inputs[i] EXCEPT !.method = job.method] \in I
      <4>1. job.inputs[i] \in I /\ job.method \in Int
        BY <3>1, <3>2
      <4>. QED
        BY <4>1 DEF Export!BundleOf
    <3>5. f = [i \in 1 .. n |-> [job.inputs[i] EXCEPT !.method = job.method]]
      BY <3>1 DEF Export!Identified
    <3>. HIDE DEF f, I
    <3>6. f \in [1 .. n -> I]
      BY <3>4, <3>5
    <3>7. f \in Seq(I)
      BY <3>2, <3>6, FunctionIsSequence
    <3>8. job' \in Export!JobOf("units", Seq(I))
      <4>1. job \in Export!JobOf("units", Seq(I))
        BY <2>3 DEF I
      <4>. DEFINE Q == Seq(I)
      <4>2. f \in Q /\ job \in Export!JobOf("units", Q)
        BY <3>7, <4>1
      <4>. HIDE DEF Q
      <4>3. job' \in Export!JobOf("units", Q)
        BY <2>1, <4>2 DEF Export!JobOf
      <4>. QED
        BY <4>3 DEF Q
    <3>9. Export!IsJob(job)'
      BY <3>8 DEF Export!IsJob, I
    <3>. QED
      BY <1>0, <2>1, <3>9 DEF ExportInv
  <2>. QED
    BY <1>0, <2>2, <2>3 DEF Export!IsJob
<1>. QED
  BY <1>1, <1>2

LEMMA CreateExport ==
  ASSUME ExportInv, Export!Create
  PROVE  ExportInv'
<1>0. writing = "create" /\ Export!IsJob(job) /\ rows = <<>> /\ origins = <<>> /\ error = None
  BY DEF Export!Create, ExportInv
<1>1. CASE Export!Fail("os")
  BY <1>0, <1>1, FailsOtherwise
<1>2. CASE ~Export!Fail("os")
  <2>1. /\ exported' = Export!Empty /\ writing' = "materialize" /\ inputs' = Export!Sources
        /\ UNCHANGED <<job, origins, rows, plan, error>>
    BY <1>2 DEF Export!Create
  <2>2. Export!Sources \in Seq(Source)
    BY <1>0, SourcesTyped
  <2>3. Export!IsJob(job)' /\ Export!Sources' = Export!Sources /\ \A s : (Rowed(s))' <=> Rowed(s)
    BY <1>0, <2>1, JobKept
  <2>4. Rowed(<<>>)
    BY DEF Rowed
  <2>5. rows' = <<>> /\ origins' = <<>> /\ Len(rows') = 0
    BY <1>0, <2>1
  <2>6. Rowed(rows)'
    <3>1. Rowed(<<>>)'
      BY <2>3, <2>4
    <3>. QED
      BY <2>1, <2>5, <3>1 DEF Rowed
  <2>7. inputs' = RestOf(Export!Sources', Len(rows'))
    BY <2>1, <2>2, <2>3, <2>5, RestOfNone
  <2>8. Len(rows') <= Len(Export!Sources')
    BY <2>2, <2>3, <2>5
  <2>9. OriginsOK'
    <3>1. DOMAIN origins' = {}
      BY <2>5
    <3>. QED
      BY <3>1 DEF OriginsOK
  <2>10. Export!Empty' = Export!Empty
    BY DEF Export!Empty
  <2>11. Materializing'
    BY <2>1, <2>6, <2>7, <2>8, <2>9, <2>10 DEF Materializing
  <2>. QED
    BY <1>0, <2>1, <2>3, <2>11 DEF ExportInv
<1>. QED
  BY <1>1, <1>2

LEMMA Refused ==
  ASSUME job' = job, NEW i \in 1 .. Len(Export!Sources), NEW k \in 1 .. Len(Export!Sources), i < k,
         Export!IdOf(Export!Sources[i]) = Export!IdOf(Export!Sources[k]),
         \/ error' = "duplicate" /\ Export!Label(Export!Sources[i]) = Export!Label(Export!Sources[k])
         \/ /\ error' = "collision" /\ Export!Defaulted(Export!Sources[i])
            /\ Export!Sources[i].origin # Export!Sources[k].origin
  PROVE  Export!RefusedIsReal'
<1>1. /\ Export!Sources' = Export!Sources
      /\ \A e : /\ (Export!Defaulted(e))' <=> Export!Defaulted(e)
                /\ (Export!IdOf(e))' = Export!IdOf(e)
                /\ (Export!Label(e))' = Export!Label(e)
  BY JobKept
<1>2. error' # "planning"
  OBVIOUS
<1>. QED
  BY <1>1, <1>2 DEF Export!RefusedIsReal

LEMMA MaterializeExport ==
  ASSUME ExportInv, Export!Materialize
  PROVE  ExportInv'
<1>. DEFINE e == Head(inputs)
            n == Len(rows)
            src == Export!Sources
            r == Export!RowOf(e)
<1>1. /\ writing = "materialize" /\ inputs # <<>> /\ Export!IsJob(job) /\ error = None /\ Materializing
  BY DEF Export!Materialize, ExportInv
<1>2. /\ rows \in Seq(Row) /\ n <= Len(src) /\ inputs = RestOf(src, n)
      /\ \A i \in 1 .. n : rows[i] = Export!RowOf(src[i])
      /\ \A i, k \in 1 .. n : rows[i].id = rows[k].id /\ rows[i].label = rows[k].label => i = k
      /\ OriginsOK /\ exported = Export!Empty
  BY <1>1 DEF Materializing, Rowed
<1>3. src \in Seq(Source) /\ (job.kind # "basins" => src \in Seq(Unit \cup {None}))
  BY <1>1, SourcesTyped
<1>4. n \in 0 .. Len(src) /\ Len(src) \in Nat /\ n \in Nat
  <2>1. n \in Nat
    BY <1>2
  <2>2. Len(src) \in Nat
    <3>. HIDE DEF src
    <3>. QED
      BY <1>3
  <2>. HIDE DEF n, src
  <2>. QED
    BY <1>2, <2>1, <2>2
<1>. HIDE DEF src, n
<1>5. n < Len(src) /\ e = src[n + 1] /\ Tail(inputs) = RestOf(src, n + 1)
  <2>1. /\ n = Len(src) => RestOf(src, n) = <<>>
        /\ n < Len(src) => Head(RestOf(src, n)) = src[n + 1] /\ Tail(RestOf(src, n)) = RestOf(src, n + 1)
    BY <1>3, <1>4, RestIs
  <2>2. n # Len(src)
    BY <1>1, <1>2, <2>1
  <2>3. n < Len(src)
    BY <1>4, <2>2
  <2>. QED
    BY <1>2, <2>1, <2>3
<1>6. e \in Source /\ (job.kind # "basins" => e \in Unit \cup {None}) /\ n + 1 \in 1 .. Len(src)
  <2>1. n + 1 \in 1 .. Len(src)
    BY <1>4, <1>5
  <2>. HIDE DEF e
  <2>. QED
    BY <1>3, <1>5, <2>1
<1>7. \A i \in 1 .. n : i \in 1 .. Len(src) /\ i < n + 1
  BY <1>4
<1>. HIDE DEF e
<1>8. CASE Export!RowError(e) # None
  <2>1. /\ job' = job /\ exported' = exported /\ writing' = "failed" /\ error' = Export!RowError(e)
    BY <1>8 DEF Export!Materialize, Export!Fail, e
  <2>2. CASE Export!RowError(e) = "collision"
    <3>1. Export!Collides(e)
      BY <2>2, RowErrorIs
    <3>2. Export!IdOf(e) \in DOMAIN origins /\ origins[Export!IdOf(e)] # e.origin
      BY <3>1 DEF Export!Collides
    <3>3. PICK i \in 1 .. n : Export!Defaulted(src[i]) /\ Export!IdOf(src[i]) = Export!IdOf(e)
                              /\ src[i].origin = origins[Export!IdOf(e)]
      BY <1>2, <3>2 DEF OriginsOK, n, src
    <3>4. Export!RefusedIsReal'
      <4>1. /\ i \in 1 .. Len(Export!Sources) /\ n + 1 \in 1 .. Len(Export!Sources) /\ i < n + 1
            /\ Export!IdOf(Export!Sources[i]) = Export!IdOf(Export!Sources[n + 1])
            /\ error' = "collision" /\ Export!Defaulted(Export!Sources[i])
            /\ Export!Sources[i].origin # Export!Sources[n + 1].origin
        BY <1>5, <1>6, <1>7, <2>1, <2>2, <3>2, <3>3 DEF src
      <4>. QED
        BY <2>1, <4>1, Refused
    <3>. QED
      BY <1>1, <2>1, <3>4, FailExport
  <2>3. CASE Export!RowError(e) = "duplicate"
    <3>1. Export!Duplicate(e)
      BY <2>3, RowErrorIs
    <3>2. PICK i \in 1 .. n : rows[i].id = Export!IdOf(e) /\ rows[i].label = Export!Label(e)
      BY <3>1 DEF Export!Duplicate, n
    <3>3. rows[i].id = Export!IdOf(src[i]) /\ rows[i].label = Export!Label(src[i])
      <4>1. rows[i] = Export!RowOf(src[i])
        BY <1>2, <3>2
      <4>2. \A d : Export!RowOf(d).id = Export!IdOf(d) /\ Export!RowOf(d).label = Export!Label(d)
        BY DEF Export!RowOf
      <4>. QED
        BY <4>1, <4>2, Zenon
    <3>4. Export!RefusedIsReal'
      <4>1. /\ i \in 1 .. Len(Export!Sources) /\ n + 1 \in 1 .. Len(Export!Sources) /\ i < n + 1
            /\ Export!IdOf(Export!Sources[i]) = Export!IdOf(Export!Sources[n + 1])
            /\ error' = "duplicate" /\ Export!Label(Export!Sources[i]) = Export!Label(Export!Sources[n + 1])
        BY <1>5, <1>6, <1>7, <2>1, <2>3, <3>2, <3>3 DEF src
      <4>. QED
        BY <2>1, <4>1, Refused
    <3>. QED
      BY <1>1, <2>1, <3>4, FailExport
  <2>4. CASE Export!RowError(e) \notin {"collision", "duplicate"}
    <3>1. error' \in (Export!Errors \cup {None}) \ {"planning", "duplicate", "collision"}
      BY <2>1, <2>4, RowErrorIs
    <3>. QED
      BY <1>1, <2>1, <3>1, OtherErrors, FailExport
  <2>. QED
    BY <2>2, <2>3, <2>4
<1>9. CASE Export!RowError(e) = None
  <2>1. /\ rows' = Append(rows, r)
        /\ origins' = IF Export!Defaulted(e)
                        THEN [i \in DOMAIN origins \cup {Export!IdOf(e)} |->
                                IF i = Export!IdOf(e) THEN e.origin ELSE origins[i]]
                        ELSE origins
        /\ inputs' = Tail(inputs) /\ UNCHANGED <<job, writing, plan, exported, error>>
    BY <1>9 DEF Export!Materialize, e
  <2>2. r \in Row /\ ~Export!Duplicate(e)
    BY <1>1, <1>6, <1>9, RowOfTyped, RowErrorIs
  <2>3. r.id = Export!IdOf(e) /\ r.label = Export!Label(e)
    BY DEF Export!RowOf
  <2>4. \A i \in 1 .. n : ~(rows[i].id = r.id /\ rows[i].label = r.label)
    BY <2>2, <2>3 DEF Export!Duplicate, n
  <2>5. r = Export!RowOf(src[n + 1])
    BY <1>5
  <2>. HIDE DEF r
  <2>6. /\ rows' \in Seq(Row) /\ Len(rows') = n + 1
        /\ \A k \in 1 .. n : rows'[k] = rows[k]
        /\ rows'[n + 1] = r
    BY <1>2, <2>1, <2>2, AppendFacts DEF n
  <2>7. /\ Export!IsJob(job)' /\ Export!Sources' = src /\ \A s : (Rowed(s))' <=> Rowed(s)
        /\ \A d : ((Export!Defaulted(d))' <=> Export!Defaulted(d)) /\ (Export!IdOf(d))' = Export!IdOf(d)
    BY <1>1, <2>1, JobKept DEF src
  <2>8. \A i \in 1 .. n + 1 : i \in 1 .. n \/ i = n + 1
    BY <1>4
  <2>9. Rowed(rows)'
    <3>1. \A i \in 1 .. n + 1 : rows'[i] = Export!RowOf(src[i])
      BY <1>2, <2>5, <2>6, <2>8
    <3>2. \A i, k \in 1 .. n + 1 : rows'[i].id = rows'[k].id /\ rows'[i].label = rows'[k].label => i = k
      BY <1>2, <2>4, <2>6, <2>8
    <3>3. Rowed(rows')
      BY <2>6, <3>1, <3>2 DEF Rowed, src
    <3>. QED
      BY <2>7, <3>3 DEF Rowed
  <2>10. OriginsOK'
    <3>. SUFFICES ASSUME NEW x \in DOMAIN origins'
                  PROVE  \E i \in 1 .. n + 1 : Export!Defaulted(src[i]) /\ Export!IdOf(src[i]) = x
                                               /\ src[i].origin = origins'[x]
      BY <2>6, <2>7 DEF OriginsOK
    <3>1. CASE x \in DOMAIN origins /\ origins'[x] = origins[x]
      <4>1. PICK i \in 1 .. n : Export!Defaulted(src[i]) /\ Export!IdOf(src[i]) = x
                                /\ src[i].origin = origins[x]
        BY <1>2, <3>1 DEF OriginsOK, n, src
      <4>2. i \in 1 .. n + 1
        BY <1>4
      <4>. QED
        BY <3>1, <4>1, <4>2
    <3>2. CASE Export!Defaulted(e) /\ x = Export!IdOf(e) /\ origins'[x] = e.origin
      <4>1. n + 1 \in 1 .. n + 1
        BY <1>4
      <4>. QED
        BY <1>5, <3>2, <4>1
    <3>3. \/ x \in DOMAIN origins /\ origins'[x] = origins[x]
          \/ Export!Defaulted(e) /\ x = Export!IdOf(e) /\ origins'[x] = e.origin
      BY <2>1
    <3>. QED
      BY <3>1, <3>2, <3>3
  <2>11. Export!Empty' = Export!Empty
    BY DEF Export!Empty
  <2>12. n + 1 <= Len(src)
    BY <1>4, <1>5
  <2>13. Materializing'
    BY <1>2, <1>5, <2>1, <2>6, <2>7, <2>9, <2>10, <2>11, <2>12 DEF Materializing
  <2>. QED
    BY <1>1, <2>1, <2>7, <2>13 DEF ExportInv
<1>. QED
  BY <1>8, <1>9

\* The sorted rows are rows.
LEMMA SortedRows ==
  ASSUME NEW s \in Seq(Row), NEW t, SortOf(t, s)
  PROVE  t \in Seq(Row) /\ Len(t) = Len(s)
<1>1. PICK p \in [1 .. Len(s) -> 1 .. Len(s)] : \A i \in 1 .. Len(s) : t[i] = s[p[i]]
  BY DEF SortOf
<1>2. t = [i \in 1 .. Len(s) |-> t[i]]
  BY DEF SortOf
<1>3. \A i \in 1 .. Len(s) : t[i] \in Row
  BY <1>1
<1>4. t \in [1 .. Len(s) -> Row] /\ Len(s) \in Nat
  BY <1>2, <1>3
<1>. QED
  BY <1>4, FunctionIsSequence

LEMMA SortExport ==
  ASSUME ExportInv, Export!Sort
  PROVE  ExportInv'
<1>. DEFINE n == Len(rows)
            src == Export!Sources
<1>1. /\ writing = "materialize" /\ inputs = <<>> /\ Export!IsJob(job) /\ error = None /\ Materializing
  BY DEF Export!Sort, ExportInv
<1>2. Rowed(rows) /\ n <= Len(src) /\ inputs = RestOf(src, n) /\ exported = Export!Empty
  BY <1>1 DEF Materializing
<1>2a. rows \in Seq(Row) /\ n \in Nat
  BY <1>2 DEF Rowed
<1>3. CASE rows = <<>>
  <2>1. Export!Fail("empty")
    BY <1>3 DEF Export!Sort
  <2>. QED
    BY <1>1, <2>1, FailsOtherwise
<1>4. CASE rows # <<>>
  <2>1. n \in Nat \ {0}
    BY <1>2a, <1>4, EmptySeq
  <2>2. Export!PlanOk(Len(rows))
    BY <2>1, PlanLegal
  <2>3. /\ rows' = Export!Sorted(rows) /\ plan' = Export!PlanSizes(Len(rows)) /\ writing' = "write"
        /\ UNCHANGED <<job, inputs, origins, exported, error>>
    BY <1>4, <2>2 DEF Export!Sort
  <2>4. n = Len(src)
    <3>1. src \in Seq(Source)
      BY <1>1, SourcesTyped
    <3>. HIDE DEF src, n
    <3>2. n \in 0 .. Len(src)
      BY <1>2, <1>2a, <3>1
    <3>3. RestOf(src, n) = <<>> => n = Len(src)
      BY <3>1, <3>2, RestIs
    <3>. QED
      BY <1>1, <1>2, <3>3
  <2>5. Distinct(rows)
    <3>1. \A i \in 1 .. n : Keyed(rows[i])
      BY <1>2a DEF Row, Keyed
    <3>2. \A i, k \in 1 .. n : i # k => ~SameKey(rows[i], rows[k])
      BY <1>2 DEF Rowed, SameKey
    <3>3. rows = [i \in 1 .. n |-> rows[i]]
      BY <1>2a
    <3>. QED
      BY <1>2a, <3>1, <3>2, <3>3 DEF Distinct
  <2>6. SortOf(rows', rows)
    BY <2>3, <2>5, SortedIs
  <2>7. rows' \in Seq(Row) /\ Len(rows') = n
    BY <1>2a, <2>6, SortedRows
  <2>8. Export!IsJob(job)' /\ Export!Sources' = src /\ \A s : (Rowed(s))' <=> Rowed(s)
    BY <1>1, <2>3, JobKept
  <2>9. AllSorted'
    <3>1. \E s : (Rowed(s))' /\ Len(s) = Len(Export!Sources') /\ Len(s) # 0 /\ SortOf(rows', s)
      BY <1>2, <2>1, <2>4, <2>6, <2>8
    <3>. QED
      BY <3>1 DEF AllSorted, SortOf
  <2>10. WritingGroups'
    <3>. DEFINE P == Export!PlanSizes(n)
    <3>1. P \in Seq(Nat) /\ Len(P) \in Nat
      BY <2>1, PlanIs
    <3>2. RestOf(P, 0) = P /\ 0 \in 0 .. Len(P)
      BY <3>1, RestOfNone
    <3>3. exported' = [groups |-> <<>>, footer |-> None]
      BY <1>2, <2>3 DEF Export!Empty
    <3>4. [i \in 1 .. 0 |-> SubSeq(rows', Begins(n, i - 1) + 1, Begins(n, i))] = <<>>
      OBVIOUS
    <3>5. Filled(0, None)'
      BY <2>7, <3>3, <3>4 DEF Filled
    <3>6. Export!PlanSizes(Len(rows'))  = P /\ plan' = P
      BY <2>3, <2>7
    <3>. HIDE DEF P
    <3>. QED
      BY <3>2, <3>5, <3>6 DEF WritingGroups
  <2>. QED
    BY <1>1, <2>3, <2>8, <2>9, <2>10 DEF ExportInv
<1>. QED
  BY <1>3, <1>4

\* The row groups written are the first rows.
LEMMA FilledIs ==
  ASSUME rows \in Seq(Row), Len(rows) # 0, NEW k \in 0 .. Len(Export!PlanSizes(Len(rows))),
         NEW footer, Filled(k, footer)
  PROVE  /\ Export!Written = SubSeq(rows, 1, Begins(Len(rows), k))
         /\ Len(Export!Written) = Begins(Len(rows), k)
         /\ Len(exported.groups) = k /\ exported.footer = footer
         /\ \A i \in 1 .. k : Len(exported.groups[i]) = Export!PlanSizes(Len(rows))[i]
<1>. DEFINE n == Len(rows)
            P == Export!PlanSizes(n)
            g == exported.groups
            e == [i \in 0 .. k |-> Begins(n, i)]
<1>1. n \in Nat \ {0}
  OBVIOUS
<1>. HIDE DEF n
<1>2. /\ P \in Seq(Nat) /\ Len(P) \in Nat
      /\ Begins(n, 0) = 0
      /\ \A i \in 1 .. Len(P) : Begins(n, i) = Begins(n, i - 1) + P[i]
      /\ \A i \in 0 .. Len(P) : Begins(n, i) \in 0 .. n
  <2>1. /\ P \in Seq(Nat) /\ Begins(n, 0) = 0
        /\ \A i \in 1 .. Len(P) : Begins(n, i) = Begins(n, i - 1) + P[i]
        /\ \A i \in 0 .. Len(P) : Begins(n, i) \in 0 .. n
    BY <1>1, PlanIs, Zenon
  <2>2. Len(P) \in Nat
    BY <2>1
  <2>. QED
    BY <2>1, <2>2, Zenon
<1>3. g = [i \in 1 .. k |-> SubSeq(rows, Begins(n, i - 1) + 1, Begins(n, i))] /\ exported.footer = footer
  BY DEF Filled, n
<1>4. k \in 0 .. Len(P) /\ k \in Nat
  BY <1>2 DEF n
<1>. HIDE DEF g, P
<1>5. /\ \A i \in 1 .. k : i \in 1 .. Len(P) /\ i - 1 \in 0 .. k /\ i \in 0 .. k
      /\ \A i \in 0 .. k : i \in 0 .. Len(P)
  BY <1>2, <1>4
<1>6. /\ \A i \in 0 .. k : e[i] = Begins(n, i) /\ e[i] \in 0 .. n
  BY <1>2, <1>5
<1>7. \A i \in 1 .. k : e[i] = e[i - 1] + P[i] /\ P[i] \in Nat /\ e[i] \in 0 .. n /\ e[i - 1] \in 0 .. n
  <2>. HIDE DEF e
  <2>. TAKE i \in 1 .. k
  <2>1. i \in 1 .. Len(P) /\ i - 1 \in 0 .. k /\ i \in 0 .. k
    BY <1>5
  <2>2. P[i] \in Nat
    BY <1>2, <2>1
  <2>3. e[i] = Begins(n, i) /\ e[i] \in 0 .. n /\ e[i - 1] = Begins(n, i - 1) /\ e[i - 1] \in 0 .. n
    BY <1>6, <2>1
  <2>4. Begins(n, i) = Begins(n, i - 1) + P[i]
    BY <1>2, <2>1
  <2>. QED
    BY <2>2, <2>3, <2>4, Zenon
<1>. HIDE DEF e
<1>8. g = [i \in 1 .. k |-> SubSeq(rows, e[i - 1] + 1, e[i])]
  BY <1>3, <1>5, <1>6
<1>9. Cuts(rows, k, e, g)
  <2>1. e[0] = 0
    BY <1>2, <1>4, <1>6
  <2>2. \A i \in 1 .. k : e[i - 1] <= e[i]
    <3>. TAKE i \in 1 .. k
    <3>1. e[i] = e[i - 1] + P[i] /\ P[i] \in Nat /\ e[i - 1] \in 0 .. n
      BY <1>7, Zenon
    <3>2. \A x, y, z : x = y + z /\ z \in Nat /\ y \in 0 .. n => y <= x
      BY <1>1
    <3>. QED
      BY <3>1, <3>2, Zenon
  <2>3. \A i \in 0 .. k : e[i] \in 0 .. Len(rows)
    BY <1>6 DEF n
  <2>. QED
    BY <1>8, <2>1, <2>2, <2>3 DEF Cuts
<1>10. Len(g) = k /\ Export!FlattenSeq(g) = SubSeq(rows, 1, e[k])
  BY <1>4, <1>9, FlattenParts
<1>11. e[k] = Begins(n, k) /\ Begins(n, k) \in 0 .. n
  BY <1>4, <1>6
<1>12. ASSUME NEW a \in 0 .. n, NEW b \in a .. n PROVE Len(SubSeq(rows, a + 1, b)) = b - a
  <2>1. a + 1 \in Int /\ b \in Int
    BY <1>1
  <2>2. \A i \in a + 1 .. b : rows[i] \in Row
    BY <1>1 DEF n
  <2>3. Len(SubSeq(rows, a + 1, b)) = IF a + 1 <= b THEN b - (a + 1) + 1 ELSE 0
    BY <2>1, <2>2, SubSeqProperties
  <2>. HIDE DEF n
  <2>. QED
    BY <1>1, <2>3
<1>13. Len(SubSeq(rows, 1, Begins(n, k))) = Begins(n, k)
  <2>1. 0 \in 0 .. n /\ Begins(n, k) \in 0 .. n
    BY <1>1, <1>11
  <2>2. Len(SubSeq(rows, 0 + 1, Begins(n, k))) = Begins(n, k) - 0
    BY <1>12, <2>1
  <2>. QED
    BY <1>1, <2>1, <2>2
<1>14. \A i \in 1 .. k : Len(g[i]) = P[i]
  <2>. TAKE i \in 1 .. k
  <2>1. e[i] = e[i - 1] + P[i] /\ P[i] \in Nat /\ e[i] \in 0 .. n /\ e[i - 1] \in 0 .. n
    BY <1>7
  <2>2. e[i] \in e[i - 1] .. n
    BY <1>1, <2>1
  <2>3. Len(SubSeq(rows, e[i - 1] + 1, e[i])) = e[i] - e[i - 1]
    BY <1>12, <2>1, <2>2
  <2>4. g[i] = SubSeq(rows, e[i - 1] + 1, e[i])
    BY <1>8
  <2>. QED
    BY <1>1, <2>1, <2>3, <2>4, SMTT(40)
<1>15. Export!Written = Export!FlattenSeq(g)
  BY DEF Export!Written, g
<1>. QED
  BY <1>3, <1>10, <1>11, <1>13, <1>14, <1>15 DEF g, n, P

LEMMA AllSortedIs ==
  ASSUME AllSorted
  PROVE  rows \in Seq(Row) /\ Len(rows) # 0 /\ Len(rows) = Len(Export!Sources)
<1>1. PICK s : Rowed(s) /\ Len(s) = Len(Export!Sources) /\ Len(s) # 0 /\ SortOf(rows, s)
  BY DEF AllSorted
<1>2. s \in Seq(Row)
  BY <1>1 DEF Rowed
<1>. QED
  BY <1>1, <1>2, SortedRows

LEMMA SortedKept ==
  ASSUME job' = job, rows' = rows, AllSorted
  PROVE  AllSorted'
<1>1. Export!Sources' = Export!Sources /\ \A s : (Rowed(s))' <=> Rowed(s)
  BY JobKept
<1>2. PICK s : Rowed(s) /\ Len(s) = Len(Export!Sources) /\ Len(s) # 0 /\ SortOf(rows, s)
  BY DEF AllSorted
<1>3. (Rowed(s))' /\ Len(s) = Len(Export!Sources') /\ Len(s) # 0 /\ SortOf(rows', s)
  BY <1>1, <1>2
<1>4. \E x : (Rowed(x))' /\ Len(x) = Len(Export!Sources') /\ Len(x) # 0 /\ SortOf(rows', x)
  BY <1>3
<1>. QED
  BY <1>4 DEF AllSorted, SortOf

LEMMA WriteGroupExport ==
  ASSUME ExportInv, Export!WriteGroup
  PROVE  ExportInv'
<1>. DEFINE n == Len(rows)
            P == Export!PlanSizes(n)
<1>1. writing = "write" /\ plan # <<>> /\ Export!IsJob(job) /\ error = None /\ AllSorted /\ WritingGroups
  BY DEF Export!WriteGroup, ExportInv
<1>2. CASE Export!Fail("parquet")
  BY <1>1, <1>2, FailsOtherwise
<1>3. CASE ~Export!Fail("parquet")
  <2>1. /\ exported' = [exported EXCEPT !.groups = Append(@, Export!Batch)]
        /\ plan' = Tail(plan)
        /\ UNCHANGED <<job, writing, inputs, origins, rows, error>>
    BY <1>3 DEF Export!WriteGroup
  <2>2. rows \in Seq(Row) /\ n # 0 /\ n \in Nat \ {0}
    BY <1>1, AllSortedIs
  <2>3. PICK k \in 0 .. Len(P) : Filled(k, None) /\ plan = RestOf(P, k)
    BY <1>1 DEF WritingGroups
  <2>4. /\ P \in Seq(Nat) /\ Len(P) \in Nat
        /\ \A i \in 1 .. Len(P) : Begins(n, i) = Begins(n, i - 1) + P[i]
    <3>1. n \in Nat \ {0}
      BY <2>2
    <3>. HIDE DEF n
    <3>2. P \in Seq(Nat) /\ \A i \in 1 .. Len(P) : Begins(n, i) = Begins(n, i - 1) + P[i]
      BY <3>1, PlanIs, Zenon
    <3>3. Len(P) \in Nat
      BY <3>2
    <3>. QED
      BY <3>2, <3>3, Zenon
  <2>5. Len(Export!Written) = Begins(n, k)
    BY <2>2, <2>3, FilledIs
  <2>. HIDE DEF P
  <2>6. k < Len(P) /\ Head(plan) = P[k + 1] /\ Tail(plan) = RestOf(P, k + 1)
    <3>1. /\ k = Len(P) => RestOf(P, k) = <<>>
          /\ k < Len(P) => Head(RestOf(P, k)) = P[k + 1] /\ Tail(RestOf(P, k)) = RestOf(P, k + 1)
      BY <2>4, RestIs
    <3>2. k < Len(P)
      BY <1>1, <2>3, <2>4, <3>1
    <3>. QED
      BY <2>3, <3>1, <3>2
  <2>7. k + 1 \in 0 .. Len(P) /\ k + 1 \in 1 .. Len(P) /\ k + 1 - 1 = k /\ k \in Nat
    BY <2>4, <2>6
  <2>8. Begins(n, k + 1) = Begins(n, k) + P[k + 1]
    BY <2>4, <2>7
  <2>. DEFINE cut(i) == SubSeq(rows, Begins(n, i - 1) + 1, Begins(n, i))
  <2>9. ASSUME NEW i \in 1 .. Len(P), i = k + 1 PROVE Export!Batch = cut(i)
    <3>1. Export!Batch = SubSeq(rows, Begins(n, k) + 1, Begins(n, k) + P[k + 1])
      BY <2>5, <2>6, Zenon DEF Export!Batch
    <3>2. i - 1 = k
      BY <2>7, <2>9
    <3>3. Begins(n, i) = Begins(n, k) + P[k + 1]
      BY <2>8, <2>9, Zenon
    <3>. QED
      BY <3>1, <3>2, <3>3, Zenon
  <2>10. exported = [groups |-> [i \in 1 .. k |-> cut(i)], footer |-> None]
    BY <2>3 DEF Filled
  <2>. HIDE DEF cut
  <2>11. Append([i \in 1 .. k |-> cut(i)], cut(k + 1)) = [i \in 1 .. k + 1 |-> cut(i)]
    BY <2>7
  <2>12. exported' = [groups |-> [i \in 1 .. k + 1 |-> cut(i)], footer |-> None]
    <3>1. Export!Batch = cut(k + 1)
      BY <2>7, <2>9
    <3>. QED
      BY <2>1, <2>10, <2>11, <3>1
  <2>13. Filled(k + 1, None)'
    BY <2>1, <2>12 DEF Filled, cut, n
  <2>14. WritingGroups'
    <3>1. Export!PlanSizes(Len(rows')) = P
      BY <2>1 DEF P
    <3>. QED
      BY <2>1, <2>6, <2>7, <2>13, <3>1 DEF WritingGroups
  <2>15. Export!IsJob(job)' /\ AllSorted'
    BY <1>1, <2>1, JobKept, SortedKept
  <2>. QED
    BY <1>1, <2>1, <2>14, <2>15 DEF ExportInv
<1>. QED
  BY <1>2, <1>3

LEMMA CloseExport ==
  ASSUME ExportInv, Export!Close
  PROVE  ExportInv'
<1>. DEFINE n == Len(rows)
            P == Export!PlanSizes(n)
            h == Export!Hull(Export!ToSet(rows))
<1>1. writing = "write" /\ plan = <<>> /\ Export!IsJob(job) /\ error = None /\ AllSorted /\ WritingGroups
  BY DEF Export!Close, ExportInv
<1>2. CASE Export!Fail("parquet")
  BY <1>1, <1>2, FailsOtherwise
<1>3. CASE ~Export!Fail("parquet")
  <2>1. /\ exported' = [exported EXCEPT !.footer = h] /\ writing' = "done"
        /\ UNCHANGED <<job, inputs, origins, rows, plan, error>>
    BY <1>3 DEF Export!Close
  <2>2. rows \in Seq(Row) /\ n # 0 /\ n \in Nat \ {0}
    BY <1>1, AllSortedIs
  <2>3. PICK k \in 0 .. Len(P) : Filled(k, None) /\ plan = RestOf(P, k)
    BY <1>1 DEF WritingGroups
  <2>4. P \in Seq(Nat) /\ Len(P) \in Nat
    BY <2>2, PlanIs
  <2>. HIDE DEF P
  <2>5. k = Len(P)
    <3>1. RestOf(P, k) = <<>> => k = Len(P)
      BY <2>4, RestIs
    <3>. QED
      BY <1>1, <2>3, <3>1
  <2>6. Filled(k, h)'
    <3>1. h' = h
      BY <2>1
    <3>2. exported' = [groups |-> exported.groups, footer |-> h]
      BY <2>1, <2>3 DEF Filled
    <3>3. exported.groups = [i \in 1 .. k |-> SubSeq(rows, Begins(Len(rows), i - 1) + 1, Begins(Len(rows), i))]
      BY <2>3 DEF Filled
    <3>. HIDE DEF h
    <3>. QED
      BY <2>1, <3>1, <3>2, <3>3 DEF Filled
  <2>7. (Filled(Len(Export!PlanSizes(Len(rows))), h))'
    <3>1. k = Len(Export!PlanSizes(Len(rows')))
      BY <2>1, <2>5 DEF P
    <3>. QED
      BY <2>6, <3>1 DEF Filled
  <2>8. Export!IsJob(job)' /\ AllSorted'
    BY <1>1, <2>1, JobKept, SortedKept
  <2>. QED
    BY <1>1, <2>1, <2>7, <2>8 DEF ExportInv
<1>. QED
  BY <1>2, <1>3

LEMMA NextExport ==
  ASSUME ExportInv, Export!Next
  PROVE  ExportInv'
<1>1. \/ Export!Check \/ Export!Create \/ Export!Materialize \/ Export!Sort
      \/ Export!WriteGroup \/ Export!Close \/ Export!Crash
  BY DEF Export!Next
<1>. QED
  BY <1>1, CheckExport, CreateExport, MaterializeExport, SortExport, WriteGroupExport, CloseExport, CrashExport

LEMMA StutterExport ==
  ASSUME ExportInv, UNCHANGED export
  PROVE  ExportInv'
<1>1. /\ job' = job /\ writing' = writing /\ inputs' = inputs /\ origins' = origins /\ rows' = rows
      /\ plan' = plan /\ exported' = exported /\ error' = error
  BY DEF export
<1>2. /\ Export!IsJob(job)' /\ Export!Sources' = Export!Sources /\ \A s : (Rowed(s))' <=> Rowed(s)
      /\ \A e : /\ (Export!Defaulted(e))' <=> Export!Defaulted(e)
                /\ (Export!IdOf(e))' = Export!IdOf(e)
                /\ (Export!Label(e))' = Export!Label(e)
  BY <1>1, JobKept DEF ExportInv
<1>3. OriginsOK' <=> OriginsOK
  BY <1>1, <1>2 DEF OriginsOK
<1>4. Materializing' <=> Materializing
  <2>1. (Rowed(rows))' <=> Rowed(rows)
    BY <1>1, <1>2 DEF Rowed
  <2>2. Export!Empty' = Export!Empty
    BY DEF Export!Empty
  <2>. QED
    BY <1>1, <1>2, <1>3, <2>1, <2>2 DEF Materializing
<1>5. WritingGroups' <=> WritingGroups
  BY <1>1 DEF WritingGroups, Filled
<1>6. (Filled(Len(Export!PlanSizes(Len(rows))), Export!Hull(Export!ToSet(rows))))' <=>
      Filled(Len(Export!PlanSizes(Len(rows))), Export!Hull(Export!ToSet(rows)))
  BY <1>1 DEF Filled
<1>7. Export!RefusedIsReal' <=> Export!RefusedIsReal
  BY <1>1, <1>2 DEF Export!RefusedIsReal
<1>8. AllSorted => AllSorted'
  BY <1>1, SortedKept
<1>9. Export!Old' = Export!Old
  BY DEF Export!Old
<1>. QED
  BY <1>1, <1>2, <1>4, <1>5, <1>6, <1>7, <1>8, <1>9 DEF ExportInv

\* A readable file holds the sorted rows.
LEMMA DoneIs ==
  ASSUME ExportInv, writing = "done"
  PROVE  /\ AllSorted /\ rows \in Seq(Row) /\ Export!Written = rows /\ Len(rows) # 0
         /\ exported.footer = Export!Hull(Export!ToSet(rows))
         /\ \A g \in 1 .. Len(exported.groups) :
              /\ Len(exported.groups[g]) <= 2 * ExportGroup
              /\ Len(exported.groups) > 1 => Len(exported.groups[g]) >= ExportGroup
<1>. DEFINE n == Len(rows)
            P == Export!PlanSizes(n)
            h == Export!Hull(Export!ToSet(rows))
<1>1. AllSorted /\ Filled(Len(P), h)
  BY DEF ExportInv
<1>2. rows \in Seq(Row) /\ n # 0 /\ n \in Nat \ {0}
  BY <1>1, AllSortedIs
<1>3. /\ P \in Seq(Nat) /\ Len(P) >= 1 /\ Begins(n, Len(P)) = n
      /\ \A i \in 1 .. Len(P) : P[i] <= 2 * ExportGroup /\ (n >= ExportGroup => P[i] >= ExportGroup)
      /\ Len(P) > 1 => n >= ExportGroup
  <2>1. n \in Nat \ {0}
    BY <1>2
  <2>. HIDE DEF n
  <2>. QED
    BY <2>1, PlanIs, Zenon
<1>4. Len(P) \in 0 .. Len(P)
  <2>. HIDE DEF P
  <2>. QED
    BY <1>3
<1>5. /\ Export!Written = SubSeq(rows, 1, Begins(n, Len(P)))
      /\ Len(exported.groups) = Len(P) /\ exported.footer = h
      /\ \A i \in 1 .. Len(P) : Len(exported.groups[i]) = P[i]
  BY <1>1, <1>2, <1>4, FilledIs, Zenon
<1>6. Export!Written = rows
  <2>1. SubSeq(rows, 1, n) = rows
    BY <1>2, SubSeqFull
  <2>. QED
    BY <1>3, <1>5, <2>1, Zenon
<1>. HIDE DEF P, h, n
<1>7. \A g \in 1 .. Len(exported.groups) :
        /\ Len(exported.groups[g]) <= 2 * ExportGroup
        /\ Len(exported.groups) > 1 => Len(exported.groups[g]) >= ExportGroup
  BY <1>3, <1>5
<1>. QED
  BY <1>1, <1>2, <1>5, <1>6, <1>7 DEF h, n

LEMMA CompleteSays ==
  ASSUME ExportInv
  PROVE  Export!ReadableIsComplete
<1>. SUFFICES ASSUME exported.footer \notin {None, Earlier} PROVE Export!ReadableIsComplete
  BY DEF Export!ReadableIsComplete
<1>1. writing = "done"
  BY FooterBeforeDone
<1>. DEFINE w == Export!Written
            src == Export!Sources
<1>2. /\ AllSorted /\ w = rows /\ rows \in Seq(Row) /\ Len(rows) # 0
      /\ exported.footer = Export!Hull(Export!ToSet(rows))
      /\ \A g \in 1 .. Len(exported.groups) :
           /\ Len(exported.groups[g]) <= 2 * ExportGroup
           /\ Len(exported.groups) > 1 => Len(exported.groups[g]) >= ExportGroup
  BY <1>1, DoneIs
<1>3. PICK s : Rowed(s) /\ Len(s) = Len(src) /\ SortOf(rows, s)
  BY <1>2 DEF AllSorted
<1>4. s \in Seq(Row) /\ Len(rows) = Len(src) /\ Len(s) \in Nat
  BY <1>2, <1>3, AllSortedIs DEF Rowed
<1>5. PICK p \in [1 .. Len(s) -> 1 .. Len(s)] :
        /\ \A i \in 1 .. Len(s) : rows[i] = s[p[i]]
        /\ \A i, k \in 1 .. Len(s) : p[i] = p[k] => i = k
        /\ \A k \in 1 .. Len(s) : \E i \in 1 .. Len(s) : p[i] = k
  BY <1>3 DEF SortOf
<1>6. /\ \A i \in 1 .. Len(s) : s[i] = Export!RowOf(src[i])
      /\ \A i, k \in 1 .. Len(s) : s[i].id = s[k].id /\ s[i].label = s[k].label => i = k
  BY <1>3 DEF Rowed
<1>7. \A d : /\ Export!RowOf(d).id = Export!IdOf(d) /\ Export!RowOf(d).label = Export!Label(d)
             /\ Export!RowOf(d).true = d.geometry
  BY DEF Export!RowOf
<1>. HIDE DEF w, src
<1>8. \A i \in 1 .. Len(src) : \E k \in 1 .. Len(w) :
        w[k].id = Export!IdOf(src[i]) /\ w[k].label = Export!Label(src[i]) /\ w[k].true = src[i].geometry
  <2>. TAKE i \in 1 .. Len(src)
  <2>1. PICK k \in 1 .. Len(s) : p[k] = i
    BY <1>3, <1>5
  <2>2. rows[k] = Export!RowOf(src[i])
    BY <1>3, <1>5, <1>6, <2>1
  <2>3. k \in 1 .. Len(w) /\ w[k] = Export!RowOf(src[i])
    BY <1>2, <1>3, <1>4, <2>1, <2>2
  <2>. QED
    BY <1>7, <2>3, Zenon
<1>9. \A i, k \in 1 .. Len(w) : w[i].id = w[k].id /\ w[i].label = w[k].label => i = k
  <2>. TAKE i, k \in 1 .. Len(w)
  <2>. HAVE w[i].id = w[k].id /\ w[i].label = w[k].label
  <2>1. i \in 1 .. Len(s) /\ k \in 1 .. Len(s) /\ w[i] = rows[i] /\ w[k] = rows[k]
    BY <1>2, <1>3, <1>4
  <2>2. p[i] \in 1 .. Len(s) /\ p[k] \in 1 .. Len(s) /\ w[i] = s[p[i]] /\ w[k] = s[p[k]]
    BY <1>5, <2>1
  <2>3. p[i] = p[k]
    BY <1>6, <2>2
  <2>. QED
    BY <1>5, <2>1, <2>3
<1>10. ASSUME NEW i \in 1 .. Len(w)
       PROVE  /\ Export!Covers(w[i].box, w[i].true)
              /\ \A c \in {"x0", "y0", "x1", "y1"} : w[i].box[c] % 2 = 0 /\ w[i].box[c] - w[i].true[c] \in -1 .. 1
              /\ Export!Covers(exported.footer, w[i].true)
  <2>1. i \in 1 .. Len(rows) /\ w[i] = rows[i]
    BY <1>2
  <2>2. rows[i] \in Row
    BY <1>2, <2>1
  <2>3. w[i].true \in Export!Rectangle /\ w[i].box = Export!Outward(w[i].true)
    BY <2>1, <2>2 DEF Row
  <2>4. rows # <<>>
    BY <1>2
  <2>5. Export!Covers(exported.footer, w[i].true)
    BY <1>2, <2>1, <2>4, HullCovers
  <2>. QED
    BY <2>3, <2>5, OutwardIs
<1>11. Len(w) = Len(src)
  BY <1>2, <1>4
<1>. QED
  BY <1>2, <1>8, <1>9, <1>10, <1>11, Zenon DEF Export!ReadableIsComplete, w, src

LEMMA OrderSays ==
  ASSUME ExportInv
  PROVE  Export!SpatialOrder
<1>. SUFFICES ASSUME writing = "done" PROVE Export!SpatialOrder
  BY DEF Export!SpatialOrder
<1>. DEFINE w == Export!Written
            n == Len(w)
            c(i) == Export!Cell(w[i].true)
<1>2. AllSorted /\ w = rows /\ rows \in Seq(Row)
  BY DoneIs
<1>3. PICK s : Rowed(s) /\ Len(s) = Len(Export!Sources) /\ SortOf(rows, s)
  BY <1>2 DEF AllSorted
<1>4. Len(rows) = Len(s) /\ n \in Nat
  BY <1>2, <1>3, AllSortedIs
<1>5. \A i, k \in 1 .. Len(s) : i < k => Export!KeyBefore(rows[i], rows[k])
  BY <1>3 DEF SortOf
<1>. HIDE DEF w
<1>6. \A i, k \in 1 .. n : i < k => Export!KeyBefore(w[i], w[k])
  BY <1>2, <1>4, <1>5
<1>7. \A i \in 1 .. n : /\ w[i].true \in Export!Rectangle /\ w[i].id \in Seq(Int)
                        /\ w[i].hilbert = Export!Hilbert(c(i)) /\ w[i].hilbert \in Int
  BY <1>2 DEF Row
<1>. DEFINE side == 2 ^ ExportBits
<1>8. ExportBits \in Nat
  BY ExportSizes
<1>9. PICK g : /\ Curve(g, side, ExportBits)
               /\ \A x \in Export!Grid(ExportBits) : Export!Hilbert(x) = g[x]
  BY HilbertIsCurve
<1>10. \A i \in 1 .. n : c(i) \in Export!Grid(ExportBits) /\ c(i) \in Cells(side)
  BY <1>7, <1>8, CellInGrid, GridIs
<1>11. \A i \in 1 .. n : w[i].hilbert = g[c(i)] /\ g[c(i)] \in Int
  BY <1>7, <1>9, <1>10
<1>. HIDE DEF n, c, side
<1>12. \A i, k \in 1 .. n : i <= k => g[c(i)] <= g[c(k)]
  <2>. TAKE i, k \in 1 .. n
  <2>. HAVE i <= k
  <2>1. CASE i = k
    BY <1>11, <2>1
  <2>2. CASE i # k
    <3>1. Export!KeyBefore(w[i], w[k])
      BY <1>4, <1>6, <2>2
    <3>2. w[i].hilbert < w[k].hilbert \/ w[i].hilbert = w[k].hilbert
      BY <3>1 DEF Export!KeyBefore
    <3>. QED
      BY <1>11, <3>2
  <2>. QED
    BY <2>1, <2>2
<1>13. ASSUME NEW q \in Export!Square, NEW i \in 1 .. n, NEW k \in 1 .. n,
              Export!InSquare(q, w[i]), Export!InSquare(q, w[k]), NEW m \in i .. k
       PROVE  Export!InSquare(q, w[m])
  <2>1. q[1] \in 0 .. ExportBits
    BY DEF Export!Square
  <2>2. m \in 1 .. n /\ i <= m /\ m <= k
    BY <1>4
  <2>3. \A j : Export!InSquare(q, w[j]) <=> (c(j)[1] \div 2 ^ q[1] = q[2] /\ c(j)[2] \div 2 ^ q[1] = q[3])
    BY DEF Export!InSquare, c
  <2>4. Together(2 ^ q[1], c(i), c(k))
    <3>1. c(i)[1] \div 2 ^ q[1] = q[2] /\ c(i)[2] \div 2 ^ q[1] = q[3]
      BY <1>13, <2>3, Zenon
    <3>2. c(k)[1] \div 2 ^ q[1] = q[2] /\ c(k)[2] \div 2 ^ q[1] = q[3]
      BY <1>13, <2>3, Zenon
    <3>. QED
      BY <3>1, <3>2, Zenon DEF Together
  <2>5. g[c(i)] <= g[c(m)] /\ g[c(m)] <= g[c(k)]
    BY <1>12, <2>2
  <2>6. Together(2 ^ q[1], c(i), c(m))
    <3>1. c(i) \in Cells(side) /\ c(m) \in Cells(side) /\ c(k) \in Cells(side)
      BY <1>10, <2>2
    <3>2. \A b \in 0 .. ExportBits : \A x, y, z \in Cells(side) :
            Together(2 ^ b, x, y) /\ g[x] <= g[z] /\ g[z] <= g[y] => Together(2 ^ b, x, z)
      BY <1>9, Zenon DEF Curve
    <3>. QED
      BY <2>1, <2>4, <2>5, <3>1, <3>2, Zenon
  <2>7. c(i)[1] \div 2 ^ q[1] = q[2] /\ c(i)[2] \div 2 ^ q[1] = q[3]
    BY <1>13, <2>3, Zenon
  <2>8. c(m)[1] \div 2 ^ q[1] = q[2] /\ c(m)[2] \div 2 ^ q[1] = q[3]
    BY <2>6, <2>7, Zenon DEF Together
  <2>. QED
    BY <2>3, <2>8, Zenon
<1>14. ASSUME NEW i \in 1 .. n - 1, w[i + 1].hilbert = w[i].hilbert + 1
       PROVE  <<c(i + 1)[1] - c(i)[1], c(i + 1)[2] - c(i)[2]>> \in {<<1, 0>>, <<-1, 0>>, <<0, 1>>, <<0, -1>>}
  <2>1. i \in 1 .. n /\ i + 1 \in 1 .. n
    BY <1>4
  <2>2. g[c(i + 1)] = g[c(i)] + 1 /\ c(i) \in Cells(side) /\ c(i + 1) \in Cells(side)
    BY <1>10, <1>11, <1>14, <2>1
  <2>3. \A x, y \in Cells(side) : g[y] = g[x] + 1 => Beside(x, y)
    BY <1>9, Zenon DEF Curve
  <2>4. Beside(c(i), c(i + 1))
    BY <2>2, <2>3, Zenon
  <2>. QED
    BY <2>4, Zenon DEF Beside
<1>15. ASSUME NEW i \in 1 .. n - 1
       PROVE  \/ w[i].hilbert < w[i + 1].hilbert
              \/ w[i].hilbert = w[i + 1].hilbert /\ ~Export!Before(w[i + 1].id, w[i].id)
  <2>1. i \in 1 .. n /\ i + 1 \in 1 .. n /\ i < i + 1
    BY <1>4
  <2>2. Export!KeyBefore(w[i], w[i + 1])
    BY <1>6, <2>1
  <2>3. w[i].id \in Seq(Int) /\ w[i + 1].id \in Seq(Int)
    BY <1>7, <2>1
  <2>. DEFINE a == w[i].id
              b == w[i + 1].id
  <2>4. ~Export!Before(a, a)
    BY <2>3, BeforeIrreflexive
  <2>5. Export!Before(a, b) => ~Export!Before(b, a)
    <3>1. Export!Before(a, b) /\ Export!Before(b, a) => Export!Before(a, a)
      BY <2>3, BeforeTransitive
    <3>. QED
      BY <2>4, <3>1
  <2>6. \/ w[i].hilbert < w[i + 1].hilbert
        \/ w[i].hilbert = w[i + 1].hilbert /\ Export!Before(a, b)
        \/ w[i].hilbert = w[i + 1].hilbert /\ a = b
    BY <2>2 DEF Export!KeyBefore
  <2>. HIDE DEF a, b
  <2>7. \/ w[i].hilbert < w[i + 1].hilbert
        \/ w[i].hilbert = w[i + 1].hilbert /\ ~Export!Before(b, a)
    BY <2>4, <2>5, <2>6, Zenon
  <2>. QED
    BY <2>7, Zenon DEF a, b
<1>. QED
  BY <1>13, <1>14, <1>15 DEF Export!SpatialOrder, w, n, c

LEMMA RefusedSays ==
  ASSUME ExportInv
  PROVE  Export!RefusedIsReal
<1>1. CASE writing \in {"failed", "crashed"}
  BY <1>1 DEF ExportInv
<1>2. CASE writing \notin {"failed", "crashed"}
  <2>1. error = None
    BY <1>2 DEF ExportInv
  <2>2. None \notin {"planning", "duplicate", "collision"}
    BY NoneIsOther DEF Export!Errors
  <2>. QED
    BY <2>1, <2>2 DEF Export!RefusedIsReal
<1>. QED
  BY <1>1, <1>2

\* A readable export is complete and in the order of the curve, and an export is
\* refused only for what is wrong with it, for any inputs, sizes of row groups,
\* bits of the curve and limits of the coordinates, wherever the call fails or is
\* killed (write_basins, export/writer.rs).
THEOREM ExportRightHolds == MCSpec => []ExportRight
<1>. DEFINE ExportKept == part = "export" => ExportInv
            all == <<part, vars, fetch, python, export, cli>>
<1>1. MCInit => ExportKept
  BY InitExport DEF MCInit
<1>2. ExportKept /\ [MCNext]_all => ExportKept'
  <2>. SUFFICES ASSUME ExportKept, [MCNext]_all PROVE ExportKept'
    OBVIOUS
  <2>1. part' = part /\ (part = "export" => Export!Next \/ UNCHANGED export)
    BY DEF MCNext
  <2>. QED
    BY <2>1, NextExport, StutterExport
<1>3. ExportKept => ExportRight
  BY CompleteSays, OrderSays, RefusedSays DEF ExportRight, Export!ExportRight
<1>. QED
  BY <1>1, <1>2, <1>3, PTL DEF MCSpec

-----------------------------------------------------------------------------
(* The batches of Python, in the specification that the run checks. *)

Batch == INSTANCE PyEngineProofs WITH
  Threads <- PyThread, Outlets <- PyOutlets, Passable <- {}, MaxPassed <- 0, Remote <- TRUE,
  MaxBatch <- PyBatch, MaxCalls <- PyCalls, MaxPublications <- PyPublications,
  slot <- session, call <- pyCall

Asked == INSTANCE PyEngineProofs WITH
  Threads <- PyThread, Outlets <- {"coarse"}, Passable <- {Py!Kwargs[i] : i \in 1 .. 8}, MaxPassed <- 2,
  Remote <- TRUE, MaxBatch <- 1, MaxCalls <- 1, MaxPublications <- 1,
  slot <- session, call <- pyCall

\* The two parts that are about Python keep the invariant of PyEngineProofs.
PythonKept ==
  (part = "python" => Batch!PyInv) /\ (part = "kwargs" => Asked!PyInv)

LEMMA BatchCardinality == \A S : Py!Cardinality(S) = Batch!Cardinality(S)
BY DEF Py!Cardinality, Batch!Cardinality, Py!IsFiniteSet, Batch!IsFiniteSet

LEMMA BatchAssumed == Batch!PyEngineAssumption
  BY PythonAssumption DEF Py!PyEngineAssumption, Batch!PyEngineAssumption, Py!Fates, Batch!Fates,
     Py!EngineErrors, Batch!EngineErrors, Py!Nobody, Batch!Nobody

LEMMA BatchInit ==
  ASSUME Py!Init
  PROVE  Batch!Init
BY DEF Py!Init, Batch!Init, Py!Unbuilt, Batch!Unbuilt, Py!NoKwargs, Batch!NoKwargs, Py!Kwargs,
       Batch!Kwargs, Py!Idle, Batch!Idle, Py!NoAnswer, Batch!NoAnswer, Py!Nobody, Batch!Nobody

LEMMA BatchNext ==
  ASSUME Py!Next
  PROVE  Batch!Next
<1>. USE DEF Py!Nobody, Batch!Nobody, Py!Set, Batch!Set, Py!Gil, Batch!Gil,
             Py!AllowThreads, Batch!AllowThreads, Py!Raise, Batch!Raise, Py!Options,
             Batch!Options, Py!Kwargs, Batch!Kwargs, Py!Succeeds, Batch!Succeeds,
             Py!engine_err_to_py, Batch!engine_err_to_py, Py!At, Batch!At, Py!Result,
             Batch!Result
<1>1. ASSUME NEW t, Py!Step(t) PROVE Batch!Step(t)
  <2>1. Py!UseEngine(t) => Batch!UseEngine(t)
    BY DEF Py!UseEngine, Batch!UseEngine
  <2>2. Py!BeginOpen(t) => Batch!BeginOpen(t)
    BY DEF Py!BeginOpen, Batch!BeginOpen
  <2>3. Py!OpenWarns(t) => Batch!OpenWarns(t)
    BY DEF Py!OpenWarns, Batch!OpenWarns
  <2>4. Py!OpenWarned(t) => Batch!OpenWarned(t)
    BY DEF Py!OpenWarned, Batch!OpenWarned
  <2>5. Py!OpenSucceeds(t) => Batch!OpenSucceeds(t)
    BY DEF Py!OpenSucceeds, Batch!OpenSucceeds
  <2>6. Py!OpenFails(t) => Batch!OpenFails(t)
    BY DEF Py!OpenFails, Batch!OpenFails
  <2>7. Py!Back(t) => Batch!Back(t)
    BY DEF Py!Back, Batch!Back
  <2>8. Py!Collect(t) => Batch!Collect(t)
    BY DEF Py!Collect, Batch!Collect, Py!Finished, Batch!Finished, Py!Failing,
           Batch!Failing, Py!FirstFailure, Batch!FirstFailure, Py!Min, Batch!Min
  <2>9. Py!SequentialWork(t) => Batch!SequentialWork(t)
    BY DEF Py!SequentialWork, Batch!SequentialWork, Py!Warns, Batch!Warns, Py!Fate,
           Batch!Fate
  <2>10. Py!Callback(t) => Batch!Callback(t)
    BY DEF Py!Callback, Batch!Callback, Py!Event, Batch!Event
  <2>11. Py!CallbackYields(t) => Batch!CallbackYields(t)
    BY DEF Py!CallbackYields, Batch!CallbackYields
  <2>12. Py!CallbackEnds(t) => Batch!CallbackEnds(t)
    BY DEF Py!CallbackEnds, Batch!CallbackEnds, Py!Record, Batch!Record
  <2>13. Py!SequentialEnds(t) => Batch!SequentialEnds(t)
    BY DEF Py!SequentialEnds, Batch!SequentialEnds
  <2>14. ASSUME NEW i, Py!Work(t, i) PROVE Batch!Work(t, i)
    BY <2>14 DEF Py!Work, Batch!Work, Py!Finished, Batch!Finished, Py!Warns,
           Batch!Warns, Py!Fate, Batch!Fate
  <2>. QED
    BY <1>1, <2>1, <2>2, <2>3, <2>4, <2>5, <2>6, <2>7, <2>8, <2>9, <2>10, <2>11, <2>12,
       <2>13, <2>14 DEF Py!Step, Batch!Step
<1>2. ASSUME NEW t, NEW outlets, NEW progress, Py!Begin(t, outlets, progress)
      PROVE  Batch!Begin(t, outlets, progress)
  BY <1>2 DEF Py!Begin, Batch!Begin, Py!HasBadCoordinate, Batch!HasBadCoordinate,
         Py!Idle, Batch!Idle, Py!NoAnswer, Batch!NoAnswer
<1>3. ASSUME NEW t, Py!Export(t) PROVE Batch!Export(t)
  BY <1>3 DEF Py!Export, Batch!Export
<1>4. ASSUME NEW names, NEW value, NEW unknown, NEW readable,
             Py!Construct(names, value, unknown, readable)
      PROVE  Batch!Construct(names, value, unknown, readable)
  BY <1>4 DEF Py!Construct, Batch!Construct, Py!KwargsOf, Batch!KwargsOf, Py!NoKwargs,
         Batch!NoKwargs, Py!ArgumentError, Batch!ArgumentError, Py!ExtractFails,
         Batch!ExtractFails, Py!ExtractError, Batch!ExtractError, Py!Min, Batch!Min,
         Py!BudgetFails, Batch!BudgetFails, Py!CacheEnabled, Batch!CacheEnabled,
         Py!ConfigFails, Batch!ConfigFails, Py!Unbuilt, Batch!Unbuilt
<1>5. Py!Republish => Batch!Republish
  BY DEF Py!Republish, Batch!Republish
<1>6a. Py!NamesPassed = Batch!NamesPassed
  BY BatchCardinality DEF Py!NamesPassed, Batch!NamesPassed
<1>6b. Py!Passed = Batch!Passed
  BY DEF Py!Passed, Batch!Passed
<1>6c. Py!Batches = Batch!Batches
  BY DEF Py!Batches, Batch!Batches
<1>. HIDE DEF Py!Nobody, Batch!Nobody, Py!Set, Batch!Set, Py!Gil, Batch!Gil,
              Py!AllowThreads, Batch!AllowThreads, Py!Raise, Batch!Raise, Py!Options,
              Batch!Options, Py!Kwargs, Batch!Kwargs, Py!Succeeds, Batch!Succeeds,
              Py!engine_err_to_py, Batch!engine_err_to_py, Py!At, Batch!At, Py!Result,
              Batch!Result
<1>7. ASSUME NEW t, NEW outlet, Py!delineate(t, outlet) PROVE Batch!delineate(t, outlet)
  BY <1>2, <1>7 DEF Py!delineate, Batch!delineate
<1>8. ASSUME NEW t, NEW outlets, NEW progress, Py!delineate_batch(t, outlets, progress)
      PROVE  Batch!delineate_batch(t, outlets, progress)
  BY <1>2, <1>8 DEF Py!delineate_batch, Batch!delineate_batch
<1>. QED
  BY <1>1, <1>3, <1>4, <1>5, <1>6a, <1>6b, <1>6c, <1>7, <1>8 DEF Py!Next, Batch!Next

LEMMA BatchSays ==
  ASSUME Batch!BatchAndEventsAgree
  PROVE  Py!BatchAndEventsAgree
<1>0. \A S : Py!Cardinality(S) = Batch!Cardinality(S)
  BY DEF Py!Cardinality, Batch!Cardinality, Py!IsFiniteSet, Batch!IsFiniteSet
<1>1. \A f : Py!Succeeds(f) = Batch!Succeeds(f)
  BY DEF Py!Succeeds, Batch!Succeeds
<1>2. \A kw : Py!Options(kw) = Batch!Options(kw)
  BY DEF Py!Options, Batch!Options, Py!Kwargs, Batch!Kwargs
<1>3. \A outlets : Py!OneByOne(outlets) = Batch!OneByOne(outlets)
  BY DEF Py!OneByOne, Batch!OneByOne, Py!Succeeds, Batch!Succeeds, Py!HasBadCoordinate,
         Batch!HasBadCoordinate, Py!Raise, Batch!Raise, Py!engine_err_to_py, Batch!engine_err_to_py
<1>4. Batch!BatchLikeOneByOne => Py!BatchLikeOneByOne
  BY <1>2, <1>3 DEF Py!BatchLikeOneByOne, Batch!BatchLikeOneByOne
<1>5. Batch!EventsTellTheBatch => Py!EventsTellTheBatch
  <2>1. \A outlets : {i \in DOMAIN outlets : \A j \in 1 .. i : Py!Succeeds(outlets[j])}
                     = {i \in DOMAIN outlets : \A j \in 1 .. i : Batch!Succeeds(outlets[j])}
    BY <1>1
  <2>. DEFINE Worked(c, n) == IF c.answer.error = "none" THEN Len(c.answer.results) ELSE 1 + n
              Heard(c, i, good) == c.events[i] = [index |-> i - 1, total |-> Len(c.outlets),
                                     status |-> IF good THEN "ok" ELSE "error"]
              Returned(c) == /\ c.pc = "done" /\ c.progress
                             /\ c.answer.error \notin {"ValueError", "DatasetError"}
  <2>2. Batch!EventsTellTheBatch =>
          \A t \in PyThread :
            /\ \A i \in DOMAIN pyCall[t].events :
                 Heard(pyCall[t], i, Batch!Succeeds(pyCall[t].outlets[i]))
            /\ Returned(pyCall[t]) => Len(pyCall[t].events) = Worked(pyCall[t], Batch!Cardinality(
                 {i \in DOMAIN pyCall[t].outlets : \A j \in 1 .. i : Batch!Succeeds(pyCall[t].outlets[j])}))
    BY DEF Batch!EventsTellTheBatch
  <2>3. (\A t \in PyThread :
            /\ \A i \in DOMAIN pyCall[t].events :
                 Heard(pyCall[t], i, Py!Succeeds(pyCall[t].outlets[i]))
            /\ Returned(pyCall[t]) => Len(pyCall[t].events) = Worked(pyCall[t], Py!Cardinality(
                 {i \in DOMAIN pyCall[t].outlets : \A j \in 1 .. i : Py!Succeeds(pyCall[t].outlets[j])})))
        => Py!EventsTellTheBatch
    BY DEF Py!EventsTellTheBatch
  <2>. HIDE DEF Worked, Heard, Returned
  <2>. QED
    BY <1>1, <2>1, <2>2, <2>3, <1>0
<1>. QED
  BY <1>4, <1>5 DEF Py!BatchAndEventsAgree, Batch!BatchAndEventsAgree

LEMMA AskedCardinality == \A S : PyArgs!Cardinality(S) = Asked!Cardinality(S)
BY DEF PyArgs!Cardinality, Asked!Cardinality, PyArgs!IsFiniteSet, Asked!IsFiniteSet

LEMMA AskedAssumed == Asked!PyEngineAssumption
  BY PythonAssumption DEF Py!PyEngineAssumption, Asked!PyEngineAssumption, Asked!Fates, Py!Nobody,
     Asked!Nobody

LEMMA AskedInit ==
  ASSUME Py!Init
  PROVE  Asked!Init
BY DEF Py!Init, Asked!Init, Py!Unbuilt, Asked!Unbuilt, Py!NoKwargs, Asked!NoKwargs, Py!Kwargs,
       Asked!Kwargs, Py!Idle, Asked!Idle, Py!NoAnswer, Asked!NoAnswer, Py!Nobody, Asked!Nobody

LEMMA AskedNext ==
  ASSUME PyArgs!Next
  PROVE  Asked!Next
<1>. USE DEF PyArgs!Nobody, Asked!Nobody, PyArgs!Set, Asked!Set, PyArgs!Gil, Asked!Gil,
             PyArgs!AllowThreads, Asked!AllowThreads, PyArgs!Raise, Asked!Raise,
             PyArgs!Options, Asked!Options, PyArgs!Kwargs, Asked!Kwargs,
             PyArgs!Succeeds, Asked!Succeeds, PyArgs!engine_err_to_py,
             Asked!engine_err_to_py, PyArgs!At, Asked!At, PyArgs!Result, Asked!Result
<1>1. ASSUME NEW t, PyArgs!Step(t) PROVE Asked!Step(t)
  <2>1. PyArgs!UseEngine(t) => Asked!UseEngine(t)
    BY DEF PyArgs!UseEngine, Asked!UseEngine
  <2>2. PyArgs!BeginOpen(t) => Asked!BeginOpen(t)
    BY DEF PyArgs!BeginOpen, Asked!BeginOpen
  <2>3. PyArgs!OpenWarns(t) => Asked!OpenWarns(t)
    BY DEF PyArgs!OpenWarns, Asked!OpenWarns
  <2>4. PyArgs!OpenWarned(t) => Asked!OpenWarned(t)
    BY DEF PyArgs!OpenWarned, Asked!OpenWarned
  <2>5. PyArgs!OpenSucceeds(t) => Asked!OpenSucceeds(t)
    BY DEF PyArgs!OpenSucceeds, Asked!OpenSucceeds
  <2>6. PyArgs!OpenFails(t) => Asked!OpenFails(t)
    BY DEF PyArgs!OpenFails, Asked!OpenFails
  <2>7. PyArgs!Back(t) => Asked!Back(t)
    BY DEF PyArgs!Back, Asked!Back
  <2>8. PyArgs!Collect(t) => Asked!Collect(t)
    BY DEF PyArgs!Collect, Asked!Collect, PyArgs!Finished, Asked!Finished,
           PyArgs!Failing, Asked!Failing, PyArgs!FirstFailure, Asked!FirstFailure,
           PyArgs!Min, Asked!Min
  <2>9. PyArgs!SequentialWork(t) => Asked!SequentialWork(t)
    BY DEF PyArgs!SequentialWork, Asked!SequentialWork, PyArgs!Warns, Asked!Warns,
           PyArgs!Fate, Asked!Fate
  <2>10. PyArgs!Callback(t) => Asked!Callback(t)
    BY DEF PyArgs!Callback, Asked!Callback, PyArgs!Event, Asked!Event
  <2>11. PyArgs!CallbackYields(t) => Asked!CallbackYields(t)
    BY DEF PyArgs!CallbackYields, Asked!CallbackYields
  <2>12. PyArgs!CallbackEnds(t) => Asked!CallbackEnds(t)
    BY DEF PyArgs!CallbackEnds, Asked!CallbackEnds, PyArgs!Record, Asked!Record
  <2>13. PyArgs!SequentialEnds(t) => Asked!SequentialEnds(t)
    BY DEF PyArgs!SequentialEnds, Asked!SequentialEnds
  <2>14. ASSUME NEW i, PyArgs!Work(t, i) PROVE Asked!Work(t, i)
    BY <2>14 DEF PyArgs!Work, Asked!Work, PyArgs!Finished, Asked!Finished, PyArgs!Warns,
           Asked!Warns, PyArgs!Fate, Asked!Fate
  <2>. QED
    BY <1>1, <2>1, <2>2, <2>3, <2>4, <2>5, <2>6, <2>7, <2>8, <2>9, <2>10, <2>11, <2>12,
       <2>13, <2>14 DEF PyArgs!Step, Asked!Step
<1>2. ASSUME NEW t, NEW outlets, NEW progress, PyArgs!Begin(t, outlets, progress)
      PROVE  Asked!Begin(t, outlets, progress)
  BY <1>2 DEF PyArgs!Begin, Asked!Begin, PyArgs!HasBadCoordinate,
         Asked!HasBadCoordinate, PyArgs!Idle, Asked!Idle, PyArgs!NoAnswer,
         Asked!NoAnswer
<1>3. ASSUME NEW t, PyArgs!Export(t) PROVE Asked!Export(t)
  BY <1>3 DEF PyArgs!Export, Asked!Export
<1>4. ASSUME NEW names, NEW value, NEW unknown, NEW readable,
             PyArgs!Construct(names, value, unknown, readable)
      PROVE  Asked!Construct(names, value, unknown, readable)
  BY <1>4 DEF PyArgs!Construct, Asked!Construct, PyArgs!KwargsOf, Asked!KwargsOf,
         PyArgs!NoKwargs, Asked!NoKwargs, PyArgs!ArgumentError, Asked!ArgumentError,
         PyArgs!ExtractFails, Asked!ExtractFails, PyArgs!ExtractError,
         Asked!ExtractError, PyArgs!Min, Asked!Min, PyArgs!BudgetFails,
         Asked!BudgetFails, PyArgs!CacheEnabled, Asked!CacheEnabled, PyArgs!ConfigFails,
         Asked!ConfigFails, PyArgs!Unbuilt, Asked!Unbuilt
<1>5. PyArgs!Republish => Asked!Republish
  BY DEF PyArgs!Republish, Asked!Republish
<1>6a. PyArgs!NamesPassed = Asked!NamesPassed
  BY AskedCardinality DEF PyArgs!NamesPassed, Asked!NamesPassed
<1>6b. PyArgs!Passed = Asked!Passed
  BY DEF PyArgs!Passed, Asked!Passed
<1>6c. PyArgs!Batches = Asked!Batches
  BY DEF PyArgs!Batches, Asked!Batches
<1>. HIDE DEF PyArgs!Nobody, Asked!Nobody, PyArgs!Set, Asked!Set, PyArgs!Gil, Asked!Gil,
              PyArgs!AllowThreads, Asked!AllowThreads, PyArgs!Raise, Asked!Raise,
              PyArgs!Options, Asked!Options, PyArgs!Kwargs, Asked!Kwargs,
              PyArgs!Succeeds, Asked!Succeeds, PyArgs!engine_err_to_py,
              Asked!engine_err_to_py, PyArgs!At, Asked!At, PyArgs!Result, Asked!Result
<1>7. ASSUME NEW t, NEW outlet, PyArgs!delineate(t, outlet) PROVE Asked!delineate(t, outlet)
  BY <1>2, <1>7 DEF PyArgs!delineate, Asked!delineate
<1>8. ASSUME NEW t, NEW outlets, NEW progress, PyArgs!delineate_batch(t, outlets, progress)
      PROVE  Asked!delineate_batch(t, outlets, progress)
  BY <1>2, <1>8 DEF PyArgs!delineate_batch, Asked!delineate_batch
<1>. QED
  BY <1>1, <1>3, <1>4, <1>5, <1>6a, <1>6b, <1>6c, <1>7, <1>8 DEF PyArgs!Next, Asked!Next

LEMMA AskedSays ==
  ASSUME Asked!BatchAndEventsAgree
  PROVE  Py!BatchAndEventsAgree
<1>0. \A S : Py!Cardinality(S) = Asked!Cardinality(S)
  BY DEF Py!Cardinality, Asked!Cardinality, Py!IsFiniteSet, Asked!IsFiniteSet
<1>1. \A f : Py!Succeeds(f) = Asked!Succeeds(f)
  BY DEF Py!Succeeds, Asked!Succeeds
<1>2. \A kw : Py!Options(kw) = Asked!Options(kw)
  BY DEF Py!Options, Asked!Options, Py!Kwargs, Asked!Kwargs
<1>3. \A outlets : Py!OneByOne(outlets) = Asked!OneByOne(outlets)
  BY DEF Py!OneByOne, Asked!OneByOne, Py!Succeeds, Asked!Succeeds, Py!HasBadCoordinate,
         Asked!HasBadCoordinate, Py!Raise, Asked!Raise, Py!engine_err_to_py, Asked!engine_err_to_py
<1>4. Asked!BatchLikeOneByOne => Py!BatchLikeOneByOne
  BY <1>2, <1>3 DEF Py!BatchLikeOneByOne, Asked!BatchLikeOneByOne
<1>5. Asked!EventsTellTheBatch => Py!EventsTellTheBatch
  <2>1. \A outlets : {i \in DOMAIN outlets : \A j \in 1 .. i : Py!Succeeds(outlets[j])}
                     = {i \in DOMAIN outlets : \A j \in 1 .. i : Asked!Succeeds(outlets[j])}
    BY <1>1
  <2>. DEFINE Worked(c, n) == IF c.answer.error = "none" THEN Len(c.answer.results) ELSE 1 + n
              Heard(c, i, good) == c.events[i] = [index |-> i - 1, total |-> Len(c.outlets),
                                     status |-> IF good THEN "ok" ELSE "error"]
              Returned(c) == /\ c.pc = "done" /\ c.progress
                             /\ c.answer.error \notin {"ValueError", "DatasetError"}
  <2>2. Asked!EventsTellTheBatch =>
          \A t \in PyThread :
            /\ \A i \in DOMAIN pyCall[t].events :
                 Heard(pyCall[t], i, Asked!Succeeds(pyCall[t].outlets[i]))
            /\ Returned(pyCall[t]) => Len(pyCall[t].events) = Worked(pyCall[t], Asked!Cardinality(
                 {i \in DOMAIN pyCall[t].outlets : \A j \in 1 .. i : Asked!Succeeds(pyCall[t].outlets[j])}))
    BY DEF Asked!EventsTellTheBatch
  <2>3. (\A t \in PyThread :
            /\ \A i \in DOMAIN pyCall[t].events :
                 Heard(pyCall[t], i, Py!Succeeds(pyCall[t].outlets[i]))
            /\ Returned(pyCall[t]) => Len(pyCall[t].events) = Worked(pyCall[t], Py!Cardinality(
                 {i \in DOMAIN pyCall[t].outlets : \A j \in 1 .. i : Py!Succeeds(pyCall[t].outlets[j])})))
        => Py!EventsTellTheBatch
    BY DEF Py!EventsTellTheBatch
  <2>. HIDE DEF Worked, Heard, Returned
  <2>. QED
    BY <1>1, <2>1, <2>2, <2>3, <1>0
<1>. QED
  BY <1>4, <1>5 DEF Py!BatchAndEventsAgree, Asked!BatchAndEventsAgree

\* The batches of Python in the specification that the run checks, for any number
\* of threads and calls: the answer and the events are those of the outlets one
\* after the other (delineate_batch, engine.rs).
THEOREM BatchesOfTheRunAgree == MCSpec => []BatchAndEventsAgree
<1>. DEFINE all == <<part, vars, fetch, python, export, cli>>
<1>1. MCInit => PythonKept
  BY BatchAssumed, AskedAssumed, BatchInit, AskedInit, Batch!InitPyInv, Asked!InitPyInv
     DEF MCInit, PythonKept
<1>2. PythonKept /\ [MCNext]_all => PythonKept'
  <2>. SUFFICES ASSUME PythonKept, [MCNext]_all PROVE PythonKept'
    OBVIOUS
  <2>1. /\ part' = part
        /\ part = "python" => Py!Next \/ UNCHANGED python
        /\ part = "kwargs" => PyArgs!Next \/ UNCHANGED python
    BY DEF MCNext
  <2>2. part = "python" => [Batch!Next]_Batch!vars
    BY <2>1, BatchNext DEF python, Batch!vars
  <2>3. part = "kwargs" => [Asked!Next]_Asked!vars
    BY <2>1, AskedNext DEF python, Asked!vars
  <2>4. part = "python" => Batch!PyInv'
    BY <2>2, BatchAssumed, Batch!NextPyInv DEF PythonKept
  <2>5. part = "kwargs" => Asked!PyInv'
    BY <2>3, AskedAssumed, Asked!NextPyInv DEF PythonKept
  <2>. QED
    BY <2>1, <2>4, <2>5 DEF PythonKept
<1>3. PythonKept => BatchAndEventsAgree
  <2>1. ASSUME Batch!PyInv PROVE Py!BatchAndEventsAgree
    BY <2>1, BatchSays, Batch!BatchSays, Batch!EventsSay DEF Batch!BatchAndEventsAgree
  <2>2. ASSUME Asked!PyInv PROVE Py!BatchAndEventsAgree
    BY <2>2, AskedSays, Asked!BatchSays, Asked!EventsSay DEF Asked!BatchAndEventsAgree
  <2>. QED
    BY <2>1, <2>2 DEF PythonKept, BatchAndEventsAgree
<1>. QED
  BY <1>1, <1>2, <1>3, PTL DEF MCSpec

=============================================================================
