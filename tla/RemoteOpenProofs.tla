-------------------------- MODULE RemoteOpenProofs --------------------------
(***************************************************************************)
(* Proofs about the remote open and its metadata cache, for any number of  *)
(* openers, URLs, directories, losses, crashes and opens.                  *)
(***************************************************************************)
EXTENDS RemoteOpen, TLAPS

(***************************************************************************)
(* First layer: what an opener has at hand at each step, and what kind of  *)
(* text each cache file holds.  Neither depends on what the files say.     *)
(***************************************************************************)
Writing == {"truncate", "fill"}

Late == {"head_snap", "match", "open_snap", "validate", "ok", "invalid"}

GraphRead == Writing \cup Late \cup {"head_catchments", "read_ids"}

\* An opener at q, writing file f, with metadata m and session parts h.
Present(q, f, m, h) ==
  /\ q \in GraphRead \cup {"read_graph", "fetch_graph"} => h.manifest # None
  /\ q \in GraphRead => h.graph # None
  /\ q \in Late \/ (q \in Writing /\ f \in {"ids", "sidecar"}) =>
       h.catchments # None
  /\ q \in {"validate", "ok", "invalid"} \/ (q \in Writing /\ f = "sidecar") =>
       h.snap # None
  /\ q \in Writing /\ f = "ids" => m.catchments # None
  /\ q \in Writing /\ f = "sidecar" => \A a \in Artifact : m[a] # None

\* What may be written to file f.
TextOf(f) ==
  CASE f = "index"   -> Key
    [] f = "ids"     -> IdIndex
    [] f = "sidecar" -> [Artifact -> Content]
    [] OTHER         -> Content

\* A slot l of the directory holds nothing, a torn text, or one of its kind.
Legible(l, d) == d = Absent \/ d = Torn \/ \E x \in TextOf(l[2]) : d = Full(x)

OpenInv ==
  /\ TypeOK
  /\ \A o \in Opener : Present(pc[o], file[o], meta[o], have[o])
  /\ \A l \in Slot : Legible(l, disk[l])

-----------------------------------------------------------------------------
(* Lemmas about slots and updates. *)

\* The names the actions use.
LEMMA Names ==
  /\ "manifest" \in Artifact /\ "graph" \in Artifact
  /\ "catchments" \in Artifact /\ "snap" \in Artifact
  /\ "manifest" \in Part /\ "graph" \in Part /\ "catchments" \in Part
  /\ "snap" \in Part /\ "levels" \in Part
  /\ "manifest" \in File /\ "graph" \in File /\ "index" \in File
  /\ "ids" \in File /\ "sidecar" \in File
BY DEF Artifact, Part, File

\* Every file of an opener is a slot of the directory.
LEMMA SlotTyped ==
  ASSUME TypeOK, NEW o \in Opener, NEW f \in File
  PROVE  SlotOf(o, f) \in Slot /\ SlotOf(o, f)[2] = f
BY DEF TypeOK, SlotOf, Slot, File

\* A legible slot is a well-typed one.
LEMMA LegibleTyped ==
  ASSUME NEW l \in Slot, NEW d, Legible(l, d)
  PROVE  d \in [state : {"absent", "torn", "full"},
                data : {None} \cup Key \cup Content \cup IdIndex
                       \cup [Artifact -> Content]]
BY DEF Legible, TextOf, Absent, Torn, Full, Slot, File

\* What a full slot holds.
LEMMA FullText ==
  ASSUME NEW l \in Slot, NEW d, Legible(l, d), d.state = "full"
  PROVE  d.data \in TextOf(l[2]) /\ d = Full(d.data)
BY DEF Legible, Absent, Torn, Full

\* One slot is written, the others stay.
LEMMA WriteSlot ==
  ASSUME TypeOK, NEW l \in Slot, NEW r, Legible(l, r),
         \A x \in Slot : Legible(x, disk[x]),
         disk' = [disk EXCEPT ![l] = r]
  PROVE  /\ disk' \in [Slot -> [state : {"absent", "torn", "full"},
                                data : {None} \cup Key \cup Content \cup IdIndex
                                       \cup [Artifact -> Content]]]
         /\ \A x \in Slot : Legible(x, disk'[x])
         /\ \A x \in Slot : disk'[x] = IF x = l THEN r ELSE disk[x]
<1>1. \A x \in Slot : disk'[x] = IF x = l THEN r ELSE disk[x]
  BY DEF TypeOK
<1>2. \A x \in Slot : Legible(x, disk'[x])
  BY <1>1
<1>. QED
  BY <1>1, <1>2, LegibleTyped DEF TypeOK

\* Reading a part of the session changes that part only.
LEMMA TakePart ==
  ASSUME TypeOK, NEW o \in Opener, NEW p \in Part, NEW c \in Content \cup {None},
         have' = [have EXCEPT ![o][p] = c]
  PROVE  /\ have' \in [Opener -> [Part -> Content \cup {None}]]
         /\ \A x \in Part : have'[o][x] = IF x = p THEN c ELSE have[o][x]
BY DEF TypeOK

\* Building the id index reads two parts.
LEMMA TakeBoth ==
  ASSUME TypeOK, NEW o \in Opener, NEW c \in Content,
         have' = [have EXCEPT ![o].catchments = c, ![o].levels = c]
  PROVE  /\ have' \in [Opener -> [Part -> Content \cup {None}]]
         /\ \A x \in Part : have'[o][x] = IF x \in {"catchments", "levels"} THEN c
                                                                          ELSE have[o][x]
BY DEF TypeOK, Part, Artifact

\* An open that ends drops what it had read.
LEMMA AbandonTypes ==
  ASSUME TypeOK, NEW o \in Opener, NEW q \in {"err", "idle"}, Abandon(o, q)
  PROVE  /\ pc' \in [Opener -> Where] /\ pc'[o] = q
         /\ meta' \in [Opener -> [Artifact -> Content \cup {None}]] /\ meta'[o] = NoMeta
         /\ have' \in [Opener -> [Part -> Content \cup {None}]] /\ have'[o] = NoPart
         /\ hit' \in [Opener -> BOOLEAN] /\ hit'[o] = FALSE
BY DEF TypeOK, Abandon, NoMeta, NoPart, Where

\* What an opener writes is a text of its kind.
LEMMA PayloadTyped ==
  ASSUME OpenInv, NEW o \in Opener, pc[o] \in Writing
  PROVE  Payload(o, file[o]) \in TextOf(file[o])
<1>. /\ file[o] \in File
     /\ meta[o] \in [Artifact -> Content \cup {None}]
     /\ have[o] \in [Part -> Content \cup {None}]
     /\ key[o] \in Key
     /\ Present(pc[o], file[o], meta[o], have[o])
  BY DEF OpenInv, TypeOK
<1>1. CASE file[o] \in {"manifest", "graph", "index"}
  BY <1>1 DEF Payload, TextOf, Present, Part, Artifact, GraphRead
<1>2. CASE file[o] = "ids"
  BY <1>2 DEF Payload, TextOf, Present, Part, Artifact, GraphRead, IdIndex
<1>3. CASE file[o] = "sidecar"
  BY <1>3 DEF Payload, TextOf, Present
<1>. QED
  BY <1>1, <1>2, <1>3 DEF File

-----------------------------------------------------------------------------
(* The first layer is inductive. *)

LEMMA InitOpenInv == Init => OpenInv
<1>. SUFFICES ASSUME Init PROVE OpenInv
  OBVIOUS
<1>. USE OpenAssumption
<1>1. TypeOK
  <2>1. disk \in [Slot -> [state : {"absent", "torn", "full"},
                           data : {None} \cup Key \cup Content \cup IdIndex
                                  \cup [Artifact -> Content]]]
    BY DEF Init, Absent
  <2>2. src \in [Opener -> Source] /\ key \in [Opener -> Key]
    BY DEF Init
  <2>3. /\ meta \in [Opener -> [Artifact -> Content \cup {None}]]
        /\ have \in [Opener -> [Part -> Content \cup {None}]]
    BY DEF Init, NoMeta, NoPart
  <2>. QED
    BY <2>1, <2>2, <2>3 DEF Init, TypeOK, File, Where
<1>2. \A o \in Opener : Present(pc[o], file[o], meta[o], have[o])
  BY DEF Init, Present, GraphRead, Writing, Late
<1>3. \A l \in Slot : Legible(l, disk[l])
  BY DEF Init, Legible
<1>. QED
  BY <1>1, <1>2, <1>3 DEF OpenInv

\* An open begins or ends: nothing is at hand.
LEMMA EmptyPresent ==
  ASSUME NEW q, q \notin GraphRead \cup {"read_graph", "fetch_graph"}, NEW f, NEW m, NEW h
  PROVE  Present(q, f, m, h)
BY DEF Present, GraphRead, Writing, Late

\* A step of one opener does not touch what the others hold.
OthersStay(o) ==
  \A x \in Opener :
    x # o => /\ pc'[x] = pc[x] /\ src'[x] = src[x] /\ key'[x] = key[x]
             /\ meta'[x] = meta[x] /\ have'[x] = have[x] /\ hit'[x] = hit[x]
             /\ file'[x] = file[x]

LEMMA OwnStep ==
  ASSUME OpenInv, NEW o \in Opener, TypeOK', OthersStay(o),
         Present(pc'[o], file'[o], meta'[o], have'[o]),
         \A l \in Slot : Legible(l, disk'[l])
  PROVE  OpenInv'
BY DEF OpenInv, OthersStay

\* The steps of one opener that leave the directory alone.
QuietStep(o) ==
  \/ HeadManifest(o) \/ HeadGraph(o) \/ ReadIndex(o)
  \/ ReadCachedManifest(o) \/ ReadCachedGraph(o)
  \/ FetchManifest(o) \/ FetchGraph(o) \/ WriteFails(o)
  \/ HeadCatchments(o) \/ LoadIds(o) \/ BuildIds(o)
  \/ HeadSnap(o) \/ MatchSidecar(o) \/ OpenSnap(o) \/ Validate(o)
  \/ Fails(o) \/ Crash(o) \/ \E s \in Source : Open(o, s)

LEMMA QuietLeaves ==
  ASSUME NEW o \in Opener, QuietStep(o)
  PROVE  UNCHANGED <<remote, republished, disk>>
<1>1. CASE HeadManifest(o) \/ HeadGraph(o)
  BY <1>1 DEF HeadManifest, HeadGraph, HeadOptional, Goto, RemoteOf
<1>2. CASE HeadCatchments(o) \/ HeadSnap(o)
  BY <1>2 DEF HeadCatchments, HeadSnap, HeadRequired, Goto, RemoteOf
<1>3. CASE ReadIndex(o)
  BY <1>3 DEF ReadIndex, Goto, Read, TextOf
<1>4. CASE ReadCachedManifest(o)
  BY <1>4 DEF ReadCachedManifest, Goto, Read, TextOf, Take
<1>5. CASE ReadCachedGraph(o)
  BY <1>5 DEF ReadCachedGraph, Goto, Read, TextOf, Take
<1>6. CASE FetchManifest(o)
  BY <1>6 DEF FetchManifest, Goto, Take, RemoteOf
<1>7. CASE FetchGraph(o)
  BY <1>7 DEF FetchGraph, StartWrite, Goto, Take, RemoteOf
<1>8. CASE WriteFails(o)
  BY <1>8 DEF WriteFails, AfterWrite, Abandon, NoMeta, NoPart
<1>9. CASE LoadIds(o)
  BY <1>9 DEF LoadIds, IdsMatch, Goto, Read, TextOf, IdIndex, Take
<1>10. CASE BuildIds(o)
  BY <1>10 DEF BuildIds, StartWrite, Goto, Take, RemoteOf
<1>11. CASE MatchSidecar(o)
  BY <1>11 DEF MatchSidecar, Goto
<1>12. CASE OpenSnap(o)
  BY <1>12 DEF OpenSnap, Goto, Take, RemoteOf
<1>13. CASE Validate(o)
  BY <1>13 DEF Validate, StartWrite, Goto, Take, RemoteOf, Levels
<1>14. CASE Fails(o) \/ Crash(o)
  BY <1>14 DEF Fails, Crash, Abandon, NoMeta, NoPart
<1>15. CASE \E s \in Source : Open(o, s)
  BY <1>15 DEF Open, NoMeta, NoPart
<1>. QED
  BY <1>1, <1>2, <1>3, <1>4, <1>5, <1>6, <1>7, <1>8, <1>9, <1>10, <1>11, <1>12, <1>13, <1>14, <1>15 DEF QuietStep

LEMMA QuietOthers ==
  ASSUME OpenInv, NEW o \in Opener, QuietStep(o)
  PROVE  OthersStay(o)
<1>. USE DEF OpenInv, TypeOK, OthersStay
<1>1. CASE HeadManifest(o) \/ HeadGraph(o)
  BY <1>1 DEF HeadManifest, HeadGraph, HeadOptional, Goto, RemoteOf
<1>2. CASE HeadCatchments(o) \/ HeadSnap(o)
  BY <1>2 DEF HeadCatchments, HeadSnap, HeadRequired, Goto, RemoteOf
<1>3. CASE ReadIndex(o)
  BY <1>3 DEF ReadIndex, Goto, Read, TextOf
<1>4. CASE ReadCachedManifest(o)
  BY <1>4 DEF ReadCachedManifest, Goto, Read, TextOf, Take
<1>5. CASE ReadCachedGraph(o)
  BY <1>5 DEF ReadCachedGraph, Goto, Read, TextOf, Take
<1>6. CASE FetchManifest(o)
  BY <1>6 DEF FetchManifest, Goto, Take, RemoteOf
<1>7. CASE FetchGraph(o)
  BY <1>7 DEF FetchGraph, StartWrite, Goto, Take, RemoteOf
<1>8. CASE WriteFails(o)
  BY <1>8 DEF WriteFails, AfterWrite, Abandon, NoMeta, NoPart
<1>9. CASE LoadIds(o)
  BY <1>9 DEF LoadIds, IdsMatch, Goto, Read, TextOf, IdIndex, Take
<1>10. CASE BuildIds(o)
  BY <1>10 DEF BuildIds, StartWrite, Goto, Take, RemoteOf
<1>11. CASE MatchSidecar(o)
  BY <1>11 DEF MatchSidecar, Goto
<1>12. CASE OpenSnap(o)
  BY <1>12 DEF OpenSnap, Goto, Take, RemoteOf
<1>13. CASE Validate(o)
  BY <1>13 DEF Validate, StartWrite, Goto, Take, RemoteOf, Levels
<1>14. CASE Fails(o) \/ Crash(o)
  BY <1>14 DEF Fails, Crash, Abandon, NoMeta, NoPart
<1>15. CASE \E s \in Source : Open(o, s)
  BY <1>15 DEF Open, NoMeta, NoPart
<1>. QED
  BY <1>1, <1>2, <1>3, <1>4, <1>5, <1>6, <1>7, <1>8, <1>9, <1>10, <1>11, <1>12, <1>13, <1>14, <1>15 DEF QuietStep

LEMMA QuietTypes ==
  ASSUME OpenInv, NEW o \in Opener, QuietStep(o)
  PROVE  TypeOK'
<1>. USE OpenAssumption, Names DEF OpenInv, TypeOK
<1>1. CASE HeadManifest(o)
  <2>1. pc' \in [Opener -> Where]
    BY <1>1 DEF HeadManifest, HeadOptional, Goto, RemoteOf, Where
  <2>2. meta' \in [Opener -> [Artifact -> Content \cup {None}]]
    BY <1>1 DEF HeadManifest, HeadOptional, Goto, RemoteOf
  <2>. QED
    BY <1>1, <2>1, <2>2 DEF HeadManifest, HeadOptional, Goto, RemoteOf
<1>2. CASE HeadGraph(o)
  <2>1. pc' \in [Opener -> Where]
    BY <1>2 DEF HeadGraph, HeadOptional, Goto, RemoteOf, Where
  <2>2. meta' \in [Opener -> [Artifact -> Content \cup {None}]]
    BY <1>2 DEF HeadGraph, HeadOptional, Goto, RemoteOf
  <2>. QED
    BY <1>2, <2>1, <2>2 DEF HeadGraph, HeadOptional, Goto, RemoteOf
<1>3. CASE HeadCatchments(o)
  <2>1. pc' \in [Opener -> Where]
    BY <1>3 DEF HeadCatchments, HeadRequired, Goto, RemoteOf, Where
  <2>2. meta' \in [Opener -> [Artifact -> Content \cup {None}]]
    BY <1>3 DEF HeadCatchments, HeadRequired, Goto, RemoteOf
  <2>. QED
    BY <1>3, <2>1, <2>2 DEF HeadCatchments, HeadRequired, Goto, RemoteOf
<1>4. CASE HeadSnap(o)
  <2>1. pc' \in [Opener -> Where]
    BY <1>4 DEF HeadSnap, HeadRequired, Goto, RemoteOf, Where
  <2>2. meta' \in [Opener -> [Artifact -> Content \cup {None}]]
    BY <1>4 DEF HeadSnap, HeadRequired, Goto, RemoteOf
  <2>. QED
    BY <1>4, <2>1, <2>2 DEF HeadSnap, HeadRequired, Goto, RemoteOf
<1>5. CASE ReadIndex(o)
  <2>1. Read(o, "index").state = "full" => Read(o, "index").data \in Key
    BY <1>5, SlotTyped, FullText DEF Read, TextOf
  <2>2. pc' \in [Opener -> Where]
    BY <1>5, <2>1 DEF ReadIndex, Goto, Where
  <2>3. key' \in [Opener -> Key]
    BY <1>5, <2>1 DEF ReadIndex, Goto
  <2>. QED
    BY <1>5, <2>2, <2>3 DEF ReadIndex, Goto
<1>6. CASE ReadCachedManifest(o)
  <2>1. Read(o, "manifest").state = "full" => Read(o, "manifest").data \in Content
    BY SlotTyped, FullText DEF Read, TextOf
  <2>2. \/ UNCHANGED have
        \/ \E c \in Content : have' = [have EXCEPT ![o]["manifest"] = c]
    BY <1>6, <2>1 DEF ReadCachedManifest, Take
  <2>3. have' \in [Opener -> [Part -> Content \cup {None}]]
    BY <2>2, TakePart
  <2>4. pc' \in [Opener -> Where]
    BY <1>6 DEF ReadCachedManifest, Goto, Where
  <2>. QED
    BY <1>6, <2>3, <2>4 DEF ReadCachedManifest
<1>7. CASE ReadCachedGraph(o)
  <2>1. Read(o, "graph").state = "full" => Read(o, "graph").data \in Content
    BY SlotTyped, FullText DEF Read, TextOf
  <2>2. \/ have' = [have EXCEPT ![o]["manifest"] = None]
        \/ \E c \in Content : have' = [have EXCEPT ![o]["graph"] = c]
    BY <1>7, <2>1 DEF ReadCachedGraph, Take
  <2>3. have' \in [Opener -> [Part -> Content \cup {None}]]
    BY <2>2, TakePart
  <2>4. pc' \in [Opener -> Where]
    BY <1>7 DEF ReadCachedGraph, Goto, Where
  <2>. QED
    BY <1>7, <2>3, <2>4 DEF ReadCachedGraph
<1>8. CASE FetchManifest(o)
  <2>1. pc' \in [Opener -> Where]
    BY <1>8 DEF FetchManifest, Goto, Take, RemoteOf, Where
  <2>2. have' \in [Opener -> [Part -> Content \cup {None}]]
    BY <1>8 DEF FetchManifest, Goto, Take, RemoteOf
  <2>3. key' \in [Opener -> Key]
    BY <1>8 DEF FetchManifest, Goto, Take, RemoteOf
  <2>. QED
    BY <1>8, <2>1, <2>2, <2>3 DEF FetchManifest, Goto, Take, RemoteOf
<1>9. CASE FetchGraph(o)
  <2>1. pc' \in [Opener -> Where]
    BY <1>9 DEF FetchGraph, StartWrite, Goto, Take, RemoteOf, Where
  <2>2. have' \in [Opener -> [Part -> Content \cup {None}]]
    BY <1>9 DEF FetchGraph, StartWrite, Goto, Take, RemoteOf
  <2>3. file' \in [Opener -> File]
    BY <1>9 DEF FetchGraph, StartWrite, Goto, Take, RemoteOf
  <2>. QED
    BY <1>9, <2>1, <2>2, <2>3 DEF FetchGraph, StartWrite, Goto, Take, RemoteOf
<1>10. CASE WriteFails(o)
  <2>1. CASE file[o] \in {"ids", "sidecar"}
    <3>1. pc' \in [Opener -> Where] /\ file' \in [Opener -> File]
      BY <1>10, <2>1, ZenonT(60) DEF WriteFails, AfterWrite, Where
    <3>. QED
      BY <1>10, <2>1, <3>1 DEF WriteFails
  <2>2. CASE file[o] \notin {"ids", "sidecar"}
    <3>1. Abandon(o, "err") /\ UNCHANGED <<remote, republished, disk, src, key, file, opens>>
      BY <1>10, <2>2 DEF WriteFails
    <3>. QED
      BY <3>1, AbandonTypes
  <2>. QED
    BY <2>1, <2>2
<1>11. CASE LoadIds(o)
  <2>1. Read(o, "ids").data.rows \in Content
    <3>1. Read(o, "ids").data \in TextOf("ids")
      BY <1>11, SlotTyped, FullText DEF Read, LoadIds, IdsMatch
    <3>. QED
      BY <3>1 DEF TextOf, IdIndex
  <2>2. pc' \in [Opener -> Where]
    BY <1>11, <2>1 DEF LoadIds, Goto, Take, Where
  <2>3. have' \in [Opener -> [Part -> Content \cup {None}]]
    BY <1>11, <2>1 DEF LoadIds, Goto, Take
  <2>. QED
    BY <1>11, <2>2, <2>3 DEF LoadIds, Goto, Take
<1>12. CASE BuildIds(o)
  <2>1. pc' \in [Opener -> Where]
    BY <1>12, ZenonT(60) DEF BuildIds, StartWrite, Goto, Take, RemoteOf, Where
  <2>2. have' \in [Opener -> [Part -> Content \cup {None}]]
    <3>1. RemoteOf(o, "catchments") \in Content
      BY DEF RemoteOf
    <3>2. CASE meta[o].catchments # None
      BY <1>12, <3>1, <3>2, TakeBoth DEF BuildIds
    <3>3. CASE meta[o].catchments = None
      BY <1>12, <3>1, <3>3, TakePart DEF BuildIds, Take
    <3>. QED
      BY <3>2, <3>3
  <2>3. file' \in [Opener -> File]
    BY <1>12 DEF BuildIds, StartWrite, Goto, Take, RemoteOf
  <2>. QED
    BY <1>12, <2>1, <2>2, <2>3 DEF BuildIds, StartWrite, Goto, Take, RemoteOf
<1>13. CASE MatchSidecar(o)
  <2>1. pc' \in [Opener -> Where]
    BY <1>13 DEF MatchSidecar, Goto, Where
  <2>2. hit' \in [Opener -> BOOLEAN]
    BY <1>13 DEF MatchSidecar, Goto
  <2>. QED
    BY <1>13, <2>1, <2>2 DEF MatchSidecar, Goto
<1>14. CASE OpenSnap(o)
  <2>1. pc' \in [Opener -> Where]
    BY <1>14 DEF OpenSnap, Goto, Take, RemoteOf, Where
  <2>2. have' \in [Opener -> [Part -> Content \cup {None}]]
    BY <1>14 DEF OpenSnap, Goto, Take, RemoteOf
  <2>. QED
    BY <1>14, <2>1, <2>2 DEF OpenSnap, Goto, Take, RemoteOf
<1>15. CASE Validate(o)
  <2>1. pc' \in [Opener -> Where]
    BY <1>15 DEF Validate, StartWrite, Goto, Take, RemoteOf, Levels, Where
  <2>2. have' \in [Opener -> [Part -> Content \cup {None}]]
    BY <1>15 DEF Validate, StartWrite, Goto, Take, RemoteOf, Levels
  <2>3. file' \in [Opener -> File]
    BY <1>15 DEF Validate, StartWrite, Goto, Take, RemoteOf, Levels
  <2>. QED
    BY <1>15, <2>1, <2>2, <2>3 DEF Validate, StartWrite, Goto, Take, RemoteOf, Levels
<1>16. CASE Fails(o)
  BY <1>16, AbandonTypes DEF Fails
<1>17. CASE Crash(o)
  BY <1>17, AbandonTypes DEF Crash
<1>18. CASE \E s \in Source : Open(o, s)
  <2>1. pc' \in [Opener -> Where]
    BY <1>18 DEF Open, NoMeta, NoPart, Where
  <2>2. src' \in [Opener -> Source]
    BY <1>18 DEF Open, NoMeta, NoPart
  <2>3. meta' \in [Opener -> [Artifact -> Content \cup {None}]]
    BY <1>18 DEF Open, NoMeta, NoPart
  <2>4. have' \in [Opener -> [Part -> Content \cup {None}]]
    BY <1>18 DEF Open, NoMeta, NoPart
  <2>5. hit' \in [Opener -> BOOLEAN]
    BY <1>18 DEF Open, NoMeta, NoPart
  <2>6. opens' \in 0 .. MaxOpens
    BY <1>18 DEF Open, NoMeta, NoPart
  <2>. QED
    BY <1>18, <2>1, <2>2, <2>3, <2>4, <2>5, <2>6 DEF Open, NoMeta, NoPart
<1>. QED
  BY <1>1, <1>2, <1>3, <1>4, <1>5, <1>6, <1>7, <1>8, <1>9, <1>10, <1>11, <1>12, <1>13, <1>14, <1>15, <1>16, <1>17, <1>18 DEF QuietStep

\* What an opener has at hand after a step that leaves the directory alone.
LEMMA QuietPresent ==
  ASSUME OpenInv, NEW o \in Opener, QuietStep(o)
  PROVE  Present(pc'[o], file'[o], meta'[o], have'[o])
<1>. USE Names, OpenAssumption
<1>. /\ TypeOK /\ Present(pc[o], file[o], meta[o], have[o])
     /\ pc \in [Opener -> Where] /\ file \in [Opener -> File]
     /\ meta \in [Opener -> [Artifact -> Content \cup {None}]]
     /\ \A a \in Artifact : RemoteOf(o, a) \in Content
  BY DEF OpenInv, TypeOK, RemoteOf
<1>. USE DEF Present, GraphRead, Writing, Late, Goto
<1>1. CASE HeadManifest(o)
  BY <1>1 DEF HeadManifest, HeadOptional
<1>2. CASE HeadGraph(o)
  BY <1>2 DEF HeadGraph, HeadOptional
<1>3. CASE HeadCatchments(o)
  BY <1>3 DEF HeadCatchments, HeadRequired
<1>4. CASE HeadSnap(o)
  BY <1>4 DEF HeadSnap, HeadRequired
<1>5. CASE ReadIndex(o)
  BY <1>5 DEF ReadIndex
<1>6. CASE ReadCachedManifest(o)
  <2>1. Read(o, "manifest").state = "full" => Read(o, "manifest").data \in Content
    BY SlotTyped, FullText DEF OpenInv, Read, TextOf
  <2>. QED
    BY <1>6, <2>1, TakePart DEF ReadCachedManifest, Take
<1>7. CASE ReadCachedGraph(o)
  <2>1. Read(o, "graph").state = "full" => Read(o, "graph").data \in Content
    BY SlotTyped, FullText DEF OpenInv, Read, TextOf
  <2>. QED
    BY <1>7, <2>1, TakePart DEF ReadCachedGraph, Take
<1>8. CASE FetchManifest(o)
  <2>1. RemoteOf(o, "manifest") \in Content /\ have' = [have EXCEPT ![o]["manifest"] = RemoteOf(o, "manifest")]
    BY <1>8 DEF FetchManifest, Take
  <2>2. \A x \in Part : have'[o][x] = IF x = "manifest" THEN RemoteOf(o, "manifest") ELSE have[o][x]
    BY <2>1, TakePart
  <2>. QED
    BY <1>8, <2>1, <2>2 DEF FetchManifest
<1>9. CASE FetchGraph(o)
  <2>1. RemoteOf(o, "graph") \in Content /\ have' = [have EXCEPT ![o]["graph"] = RemoteOf(o, "graph")]
    BY <1>9 DEF FetchGraph, Take
  <2>2. \A x \in Part : have'[o][x] = IF x = "graph" THEN RemoteOf(o, "graph") ELSE have[o][x]
    BY <2>1, TakePart
  <2>. QED
    BY <1>9, <2>1, <2>2 DEF FetchGraph, StartWrite
<1>10. CASE WriteFails(o)
  BY <1>10, AbandonTypes DEF WriteFails, AfterWrite
<1>11. CASE LoadIds(o)
  <2>1. Read(o, "ids").data \in TextOf("ids")
    BY <1>11, SlotTyped, FullText DEF OpenInv, Read, LoadIds, IdsMatch
  <2>2. Read(o, "ids").data.rows \in Content
    BY <2>1 DEF TextOf, IdIndex
  <2>. QED
    BY <1>11, <2>2, TakePart DEF LoadIds, Take
<1>12. CASE BuildIds(o)
  <2>1. CASE meta[o].catchments # None
    BY <1>12, <2>1, TakeBoth DEF BuildIds, StartWrite
  <2>2. CASE meta[o].catchments = None
    BY <1>12, <2>2, TakePart DEF BuildIds, Take
  <2>. QED
    BY <2>1, <2>2
<1>13. CASE MatchSidecar(o)
  BY <1>13 DEF MatchSidecar
<1>14. CASE OpenSnap(o)
  <2>1. RemoteOf(o, "snap") \in Content /\ have' = [have EXCEPT ![o]["snap"] = RemoteOf(o, "snap")]
    BY <1>14 DEF OpenSnap, Take
  <2>2. \A x \in Part : have'[o][x] = IF x = "snap" THEN RemoteOf(o, "snap") ELSE have[o][x]
    BY <2>1, TakePart
  <2>. QED
    BY <1>14, <2>1, <2>2 DEF OpenSnap
<1>15. CASE Validate(o)
  <2>1. Levels(o) \in Content
    BY DEF Levels, OpenInv, TypeOK
  <2>. QED
    BY <1>15, <2>1, TakePart DEF Validate, Take, StartWrite, AllMeta
<1>16. CASE Fails(o)
  BY <1>16, AbandonTypes DEF Fails
<1>17. CASE Crash(o)
  BY <1>17, AbandonTypes DEF Crash
<1>18. CASE \E s \in Source : Open(o, s)
  BY <1>18 DEF Open
<1>. QED
  BY <1>1, <1>2, <1>3, <1>4, <1>5, <1>6, <1>7, <1>8, <1>9, <1>10, <1>11, <1>12, <1>13, <1>14, <1>15, <1>16, <1>17, <1>18 DEF QuietStep

\* The two steps of a write: the types, and what is at hand.
LEMMA WriteKeeps ==
  ASSUME OpenInv, NEW o \in Opener, Truncate(o) \/ Fill(o)
  PROVE  OpenInv'
<1>. USE Names
<1>. DEFINE l == SlotOf(o, file[o])
<1>1. TypeOK /\ file[o] \in File /\ l \in Slot /\ l[2] = file[o]
  BY SlotTyped DEF OpenInv, TypeOK
<1>2. \E r : disk' = [disk EXCEPT ![l] = r] /\ Legible(l, r)
  <2>1. CASE Truncate(o)
    BY <2>1 DEF Truncate, Legible
  <2>2. CASE Fill(o)
    <3>1. Payload(o, file[o]) \in TextOf(l[2])
      BY <1>1, <2>2, PayloadTyped DEF Fill, Writing
    <3>. QED
      BY <2>2, <3>1 DEF Fill, Legible
  <2>. QED
    BY <2>1, <2>2
<1>3. /\ disk' \in [Slot -> [state : {"absent", "torn", "full"},
                             data : {None} \cup Key \cup Content \cup IdIndex
                                    \cup [Artifact -> Content]]]
      /\ \A x \in Slot : Legible(x, disk'[x])
  BY <1>1, <1>2, WriteSlot DEF OpenInv
<1>4. pc' \in [Opener -> Where] /\ file' \in [Opener -> File]
  <2>1. CASE Truncate(o)
    BY <1>1, <2>1 DEF Truncate, Goto, TypeOK, Where
  <2>2. CASE Fill(o)
    BY <1>1, <2>2 DEF Fill, AfterWrite, TypeOK, Where, File
  <2>. QED
    BY <2>1, <2>2
<1>5. UNCHANGED <<remote, republished, src, key, meta, have, hit, opens>>
  BY DEF Truncate, Fill
<1>6. TypeOK'
  BY <1>1, <1>3, <1>4, <1>5 DEF TypeOK
<1>7. OthersStay(o)
  BY <1>1, <1>5 DEF Truncate, Fill, Goto, AfterWrite, OthersStay, TypeOK
<1>8. Present(pc'[o], file'[o], meta'[o], have'[o])
  <2>1. Present(pc[o], file[o], meta[o], have[o])
    BY DEF OpenInv
  <2>2. CASE Truncate(o)
    BY <1>1, <1>5, <2>1, <2>2 DEF Truncate, Goto, TypeOK, Present, GraphRead, Writing, Late
  <2>3. CASE Fill(o)
    BY <1>1, <1>5, <2>1, <2>3
       DEF Fill, AfterWrite, TypeOK, Present, GraphRead, Writing, Late, File
  <2>. QED
    BY <2>2, <2>3
<1>. QED
  BY <1>3, <1>6, <1>7, <1>8, OwnStep

\* The first layer is inductive.
LEMMA NextOpenInv == OpenInv /\ [Next]_vars => OpenInv'
<1>. SUFFICES ASSUME OpenInv, [Next]_vars PROVE OpenInv'
  OBVIOUS
<1>1. ASSUME NEW o \in Opener, QuietStep(o) PROVE OpenInv'
  <2>1. UNCHANGED <<remote, republished, disk>> /\ OthersStay(o) /\ TypeOK'
        /\ Present(pc'[o], file'[o], meta'[o], have'[o])
    BY <1>1, QuietLeaves, QuietOthers, QuietTypes, QuietPresent
  <2>. QED
    BY <2>1, OwnStep DEF OpenInv
<1>2. ASSUME NEW o \in Opener, Truncate(o) \/ Fill(o) PROVE OpenInv'
  BY <1>2, WriteKeeps
<1>3. ASSUME NEW l \in Slot, Evict(l) PROVE OpenInv'
  <2>1. /\ disk' \in [Slot -> [state : {"absent", "torn", "full"},
                               data : {None} \cup Key \cup Content \cup IdIndex
                                      \cup [Artifact -> Content]]]
        /\ \A x \in Slot : Legible(x, disk'[x])
    BY <1>3, WriteSlot DEF OpenInv, Evict, Legible
  <2>. QED
    BY <1>3, <2>1 DEF Evict, OpenInv, TypeOK, openers
<1>4. ASSUME NEW s \in Source, NEW a \in Artifact, NEW c \in Content, Republish(s, a, c)
      PROVE  OpenInv'
  BY <1>4, OpenAssumption DEF Republish, OpenInv, TypeOK, openers
<1>5. CASE UNCHANGED vars
  BY <1>5 DEF vars, openers, OpenInv, TypeOK
<1>. QED
  BY <1>1, <1>2, <1>3, <1>4, <1>5 DEF Next, Step, QuietStep

\* Every step of an open keeps the types of what it reads, writes and holds
\* (open_remote_with_stats, session.rs).
THEOREM RemoteOpenTypeCorrect == Spec => []TypeOK
<1>1. OpenInv => TypeOK
  BY DEF OpenInv
<1>. QED
  BY InitOpenInv, NextOpenInv, <1>1, PTL DEF Spec

-----------------------------------------------------------------------------
(***************************************************************************)
(* Second layer: as long as nothing was republished, and when two URLs     *)
(* with the same fabric name and adapter version hold the same artifacts   *)
(* (mirrors of one dataset), everything that is read, cached or asked for  *)
(* is of the URL it is used for.  MCRemoteOpenShared shows what happens    *)
(* without that assumption.                                                *)
(***************************************************************************)
KeyFor(s) == KeyOf[Published[s].manifest]

DatasetPerKey ==
  \A s, t \in Source : KeyFor(s) = KeyFor(t) => Published[s] = Published[t]

Sound(s) == Agree({Published[s][a] : a \in Artifact})

\* Where a URL's files are, and what they say.
HomeOf(s, f) == IF f = "index" THEN <<s, f>> ELSE <<KeyFor(s), f>>

TextFor(s, f) ==
  CASE f = "manifest" -> Published[s].manifest
    [] f = "graph"    -> Published[s].graph
    [] f = "index"    -> KeyFor(s)
    [] f = "ids"      -> [etag |-> Published[s].catchments, rows |-> Published[s].catchments]
    [] f = "sidecar"  -> Published[s]

DiskTrue ==
  \A s \in Source, f \in File :
    disk[HomeOf(s, f)].state = "full" => disk[HomeOf(s, f)].data = TextFor(s, f)

SidecarsSound ==
  \A k \in Key :
    disk[<<k, "sidecar">>].state = "full" =>
      Agree({disk[<<k, "sidecar">>].data[a] : a \in Artifact})

\* The steps at which an opener has settled on a directory.
Settled == GraphRead \cup {"read_manifest", "read_graph", "fetch_graph"}

\* An opener at q of URL s with directory k, metadata m, parts h, hit flag i and
\* file f holds nothing that is not of s.
Told(q, s, k, m, h, i, f) ==
  /\ q \in Settled => k = KeyFor(s)
  /\ \A a \in Artifact : m[a] = None \/ m[a] = Published[s][a]
  /\ \A a \in Artifact : h[a] = None \/ h[a] = Published[s][a]
  /\ h.levels = None \/ h.levels = Published[s].catchments
  /\ i => Sound(s)
  /\ q = "ok" \/ (q \in Writing /\ f = "sidecar") => Sound(s)
  /\ q = "invalid" => ~Sound(s)

OpenerTrue(o) == Told(pc[o], src[o], key[o], meta[o], have[o], hit[o], file[o])

GivenTrue ==
  /\ remote = Published
  /\ DiskTrue
  /\ SidecarsSound
  /\ \A o \in Opener : OpenerTrue(o)

GivenInv == OpenInv /\ (republished = 0 => GivenTrue)

-----------------------------------------------------------------------------
(* Lemmas about homes and agreement. *)

LEMMA HomeTyped ==
  ASSUME NEW s \in Source, NEW f \in File
  PROVE  HomeOf(s, f) \in Slot /\ KeyFor(s) \in Key
BY OpenAssumption, Names DEF HomeOf, KeyFor, Slot

\* A settled opener reads and writes the files of its URL.
LEMMA SettledHome ==
  ASSUME NEW o \in Opener, NEW f \in File, f = "index" \/ key[o] = KeyFor(src[o])
  PROVE  SlotOf(o, f) = HomeOf(src[o], f)
BY DEF SlotOf, HomeOf

\* URLs that share a file expect the same text in it.
LEMMA SharedHome ==
  ASSUME DatasetPerKey, NEW s \in Source, NEW t \in Source,
         NEW f \in File, NEW g \in File, HomeOf(s, f) = HomeOf(t, g)
  PROVE  f = g /\ TextFor(s, f) = TextFor(t, g)
<1>1. f = g
  BY DEF HomeOf
<1>2. CASE f = "index"
  BY <1>1, <1>2 DEF HomeOf
<1>3. CASE f # "index"
  <2>1. KeyFor(s) = KeyFor(t)
    BY <1>1, <1>3 DEF HomeOf
  <2>2. Published[s] = Published[t]
    BY <2>1 DEF DatasetPerKey
  <2>. QED
    BY <1>1, <2>1, <2>2 DEF TextFor
<1>. QED
  BY <1>2, <1>3

\* Parts that are the URL's agree exactly when its artifacts do.
LEMMA SamePartsAgree ==
  ASSUME NEW s \in Source, NEW h, \A a \in Artifact : h[a] = Published[s][a]
  PROVE  /\ Agree({h[a] : a \in Artifact}) <=> Sound(s)
         /\ Agree({h[a] : a \in Artifact} \cup {Published[s].catchments}) <=> Sound(s)
<1>1. {h[a] : a \in Artifact} = {Published[s][a] : a \in Artifact}
  OBVIOUS
<1>2. Published[s].catchments \in {Published[s][a] : a \in Artifact}
  BY Names
<1>3. {h[a] : a \in Artifact} \cup {Published[s].catchments} = {Published[s][a] : a \in Artifact}
  BY <1>1, <1>2
<1>. QED
  BY <1>1, <1>3 DEF Sound

\* An opener that has read its parts has those of its URL.
LEMMA PartsOfSource ==
  ASSUME OpenInv, NEW o \in Opener, OpenerTrue(o), pc[o] \in {"validate", "ok", "invalid"}
  PROVE  \A a \in Artifact : have[o][a] = Published[src[o]][a]
<1>1. Present(pc[o], file[o], meta[o], have[o])
  BY DEF OpenInv
<1>2. \A a \in Artifact : have[o][a] # None
  BY <1>1 DEF Present, Artifact, GraphRead, Late
<1>. QED
  BY <1>2 DEF OpenerTrue, Told

-----------------------------------------------------------------------------
(* The second layer is inductive. *)

LEMMA InitGivenTrue == Init => GivenTrue
<1>. SUFFICES ASSUME Init PROVE GivenTrue
  OBVIOUS
<1>1. ASSUME NEW s \in Source, NEW f \in File PROVE disk[HomeOf(s, f)].state # "full"
  BY HomeTyped DEF Init, Absent
<1>2. ASSUME NEW k \in Key PROVE disk[<<k, "sidecar">>].state # "full"
  BY Names DEF Init, Absent, Slot
<1>3. ASSUME NEW o \in Opener PROVE OpenerTrue(o)
  BY Names DEF Init, OpenerTrue, Told, NoMeta, NoPart, Settled, GraphRead, Writing, Late, Part
<1>. QED
  BY <1>1, <1>2, <1>3 DEF GivenTrue, DiskTrue, SidecarsSound, Init

\* An open that ends holds nothing.
LEMMA AbandonTold ==
  ASSUME TypeOK, NEW o \in Opener, NEW q \in {"err", "idle"}, Abandon(o, q)
  PROVE  OpenerTrue(o)'
<1>1. pc'[o] = q /\ meta'[o] = NoMeta /\ have'[o] = NoPart /\ hit'[o] = FALSE
  BY AbandonTypes
<1>2. q \notin Settled /\ q \notin {"ok", "invalid"} /\ q \notin Writing
  BY DEF Settled, GraphRead, Writing, Late
<1>3. /\ \A a \in Artifact : NoMeta[a] = None
      /\ \A x \in Part : NoPart[x] = None
  BY DEF NoMeta, NoPart
<1>. QED
  BY <1>1, <1>2, <1>3, Names DEF OpenerTrue, Told, Part

LEMMA QuietTold ==
  ASSUME OpenInv, GivenTrue, NEW o \in Opener, QuietStep(o)
  PROVE  OpenerTrue(o)'
<1>. USE Names, OpenAssumption
<1>. DEFINE s == src[o]
<1>a. /\ TypeOK /\ Present(pc[o], file[o], meta[o], have[o])
      /\ s \in Source /\ Told(pc[o], s, key[o], meta[o], have[o], hit[o], file[o])
      /\ \A a \in Artifact : RemoteOf(o, a) = Published[s][a] /\ RemoteOf(o, a) \in Content
  BY DEF OpenInv, TypeOK, RemoteOf, GivenTrue, OpenerTrue

<1>b. \A f \in File : (f = "index" \/ key[o] = KeyFor(s)) /\ Read(o, f).state = "full"
                        => Read(o, f).data = TextFor(s, f)
  BY <1>a, SettledHome DEF GivenTrue, DiskTrue, Read
<1>. USE DEF OpenerTrue, Told, Settled, GraphRead, Writing, Late, Goto
<1>t. /\ pc \in [Opener -> Where] /\ file \in [Opener -> File] /\ src \in [Opener -> Source]
      /\ key \in [Opener -> Key] /\ hit \in [Opener -> BOOLEAN]
      /\ meta \in [Opener -> [Artifact -> Content \cup {None}]]
      /\ have \in [Opener -> [Part -> Content \cup {None}]]
  BY <1>a DEF TypeOK
<1>1. CASE HeadManifest(o)
  BY <1>1, <1>a, <1>t DEF HeadManifest, HeadOptional
<1>2. CASE HeadGraph(o)
  BY <1>2, <1>a, <1>t DEF HeadGraph, HeadOptional
<1>3. CASE HeadCatchments(o)
  BY <1>3, <1>a, <1>t DEF HeadCatchments, HeadRequired
<1>4. CASE HeadSnap(o)
  BY <1>4, <1>a, <1>t DEF HeadSnap, HeadRequired
<1>5. CASE ReadIndex(o)
  BY <1>5, <1>a, <1>b, <1>t DEF ReadIndex, TextFor
<1>6. CASE ReadCachedManifest(o)
  <2>1. Read(o, "manifest").state = "full" => Read(o, "manifest").data = Published[s].manifest
    BY <1>6, <1>a, <1>b DEF ReadCachedManifest, TextFor
  <2>2. CASE UNCHANGED have
    BY <1>6, <1>a, <1>t, <2>2 DEF ReadCachedManifest
  <2>3. CASE have' = [have EXCEPT ![o]["manifest"] = Published[s].manifest]
    <3>1. \A x \in Part : have'[o][x] = IF x = "manifest" THEN Published[s].manifest
                                                         ELSE have[o][x]
      BY <1>a, <2>3, TakePart
    <3>. QED
      BY <1>6, <1>a, <1>t, <3>1 DEF ReadCachedManifest, Part
  <2>. QED
    BY <1>6, <2>1, <2>2, <2>3 DEF ReadCachedManifest, Take
<1>7. CASE ReadCachedGraph(o)
  <2>1. Read(o, "graph").state = "full" => Read(o, "graph").data = Published[s].graph
    BY <1>7, <1>a, <1>b DEF ReadCachedGraph, TextFor
  <2>2. CASE have' = [have EXCEPT ![o]["manifest"] = None]
    <3>1. \A x \in Part : have'[o][x] = IF x = "manifest" THEN None ELSE have[o][x]
      BY <1>a, <2>2, TakePart
    <3>. QED
      BY <1>7, <1>a, <1>t, <3>1 DEF ReadCachedGraph, Part
  <2>3. CASE have' = [have EXCEPT ![o]["graph"] = Published[s].graph]
    <3>1. \A x \in Part : have'[o][x] = IF x = "graph" THEN Published[s].graph ELSE have[o][x]
      BY <1>a, <2>3, TakePart
    <3>. QED
      BY <1>7, <1>a, <1>t, <3>1 DEF ReadCachedGraph, Part
  <2>. QED
    BY <1>7, <2>1, <2>2, <2>3 DEF ReadCachedGraph, Take
<1>8. CASE FetchManifest(o)
  <2>1. have' = [have EXCEPT ![o]["manifest"] = Published[s].manifest]
    BY <1>8, <1>a DEF FetchManifest, Take
  <2>2. \A x \in Part : have'[o][x] = IF x = "manifest" THEN Published[s].manifest ELSE have[o][x]
    BY <1>a, <2>1, TakePart
  <2>. QED
    BY <1>8, <1>a, <1>t, <2>2 DEF FetchManifest, Part, KeyFor
<1>9. CASE FetchGraph(o)
  <2>1. have' = [have EXCEPT ![o]["graph"] = Published[s].graph]
    BY <1>9, <1>a DEF FetchGraph, Take
  <2>2. \A x \in Part : have'[o][x] = IF x = "graph" THEN Published[s].graph ELSE have[o][x]
    BY <1>a, <2>1, TakePart
  <2>. QED
    BY <1>9, <1>a, <1>t, <2>2 DEF FetchGraph, Part, StartWrite
<1>14. CASE OpenSnap(o)
  <2>1. have' = [have EXCEPT ![o]["snap"] = Published[s].snap]
    BY <1>14, <1>a DEF OpenSnap, Take
  <2>2. \A x \in Part : have'[o][x] = IF x = "snap" THEN Published[s].snap ELSE have[o][x]
    BY <1>a, <2>1, TakePart
  <2>. QED
    BY <1>14, <1>a, <1>t, <2>2 DEF OpenSnap, Part
<1>10. CASE WriteFails(o)
  <2>1. CASE file[o] \in {"ids", "sidecar"}
    BY <1>10, <1>a, <1>t, <2>1 DEF WriteFails, AfterWrite
  <2>2. CASE file[o] \notin {"ids", "sidecar"}
    BY <1>10, <1>a, <2>2, AbandonTold DEF WriteFails
  <2>. QED
    BY <2>1, <2>2
<1>11. CASE LoadIds(o)
  <2>1. Read(o, "ids").data = TextFor(s, "ids")
    BY <1>11, <1>a, <1>b DEF LoadIds, IdsMatch
  <2>2. have' = [have EXCEPT ![o]["catchments"] = Published[s].catchments]
    <3>1. Read(o, "ids").data.rows = Published[s].catchments
      BY <2>1 DEF TextFor
    <3>. QED
      BY <1>11, <3>1 DEF LoadIds, Take
  <2>3. \A x \in Part : have'[o][x] = IF x = "catchments" THEN Published[s].catchments
                                                         ELSE have[o][x]
    BY <1>a, <2>2, TakePart
  <2>. QED
    BY <1>11, <1>a, <1>t, <2>3 DEF LoadIds, Part
<1>12. CASE BuildIds(o)
  <2>1. \A x \in Artifact : have'[o][x] = IF x = "catchments" THEN Published[s].catchments
                                                             ELSE have[o][x]
    BY <1>12, <1>a, TakePart, TakeBoth DEF BuildIds, Take, Part, Artifact
  <2>2. have'[o].levels = Published[s].catchments \/ have'[o].levels = have[o].levels
    BY <1>12, <1>a, TakePart, TakeBoth DEF BuildIds, Take
  <2>. QED
    BY <1>12, <1>a, <1>t, <2>1, <2>2, ZenonT(60) DEF BuildIds, StartWrite
<1>15. CASE Validate(o)
  <2>1. Levels(o) = Published[s].catchments
    BY <1>a DEF Levels
  <2>2. \A a \in Artifact : have[o][a] = Published[s][a]
    BY <1>15, <1>a, PartsOfSource DEF Validate
  <2>3. Agree({have[o][a] : a \in Artifact} \cup {Levels(o)}) <=> Sound(s)
    BY <1>a, <2>1, <2>2, SamePartsAgree, SMTT(40)
  <2>4. \A x \in Part : have'[o][x] = IF x = "levels" THEN Published[s].catchments ELSE have[o][x]
    BY <1>15, <1>a, <2>1, TakePart DEF Validate, Take
  <2>5. /\ pc'[o] \in {"truncate", "ok"} => Sound(s)
        /\ pc'[o] = "invalid" => ~Sound(s)
        /\ pc'[o] \in {"truncate", "ok", "invalid"}
    BY <1>15, <1>t, <2>3 DEF Validate, StartWrite
  <2>. QED
    BY <1>15, <1>a, <1>t, <2>4, <2>5 DEF Validate, Part, Artifact
<1>13. CASE MatchSidecar(o)
  <2>1. ASSUME AllMeta(o), Read(o, "sidecar").state = "full", Read(o, "sidecar").data = meta[o]
        PROVE  Sound(s)
    <3>1. key[o] = KeyFor(s)
      BY <1>13, <1>a DEF MatchSidecar
    <3>2. KeyFor(s) \in Key /\ Read(o, "sidecar") = disk[<<KeyFor(s), "sidecar">>]
      BY <1>a, <3>1, HomeTyped DEF Read, SlotOf
    <3>3. Agree({meta[o][a] : a \in Artifact})
      BY <2>1, <3>2 DEF GivenTrue, SidecarsSound
    <3>4. \A a \in Artifact : meta[o][a] = Published[s][a]
      BY <1>a, <2>1 DEF AllMeta
    <3>. QED
      BY <1>a, <3>3, <3>4, SamePartsAgree
  <2>2. hit'[o] => Sound(s)
    BY <1>13, <2>1, <1>t DEF MatchSidecar
  <2>3. /\ pc'[o] = "open_snap" /\ pc[o] = "match"
        /\ UNCHANGED <<src, key, meta, have, file>>
    BY <1>13, <1>t DEF MatchSidecar
  <2>. QED
    BY <2>2, <2>3, <1>a
<1>16. CASE Fails(o)
  BY <1>16, <1>a, AbandonTold DEF Fails
<1>17. CASE Crash(o)
  BY <1>17, <1>a, AbandonTold DEF Crash
<1>18. CASE \E t \in Source : Open(o, t)
  BY <1>18, <1>t DEF Open, NoMeta, NoPart, Part
<1>. QED
  BY <1>1, <1>2, <1>3, <1>4, <1>5, <1>6, <1>7, <1>8, <1>9, <1>10, <1>11, <1>12, <1>13,
     <1>14, <1>15, <1>16, <1>17, <1>18 DEF QuietStep

\* What an opener writes is its URL's text.
LEMMA PayloadTrue ==
  ASSUME OpenInv, NEW o \in Opener, OpenerTrue(o), pc[o] \in Writing
  PROVE  Payload(o, file[o]) = TextFor(src[o], file[o])
<1>. DEFINE s == src[o]
<1>1. /\ file[o] \in File /\ s \in Source
      /\ meta[o] \in [Artifact -> Content \cup {None}]
      /\ Present(pc[o], file[o], meta[o], have[o])
  BY DEF OpenInv, TypeOK
<1>2. CASE file[o] \in {"manifest", "graph", "index"}
  BY <1>1, <1>2, Names DEF Payload, TextFor, Present, OpenerTrue, Told, GraphRead, Settled
<1>3. CASE file[o] = "ids"
  BY <1>1, <1>3, Names DEF Payload, TextFor, Present, OpenerTrue, Told
<1>4. CASE file[o] = "sidecar"
  <2>1. \A a \in Artifact : meta[o][a] = Published[s][a]
    BY <1>1, <1>4 DEF Present, OpenerTrue, Told
  <2>2. meta[o] = Published[s]
    BY <1>1, <2>1, OpenAssumption
  <2>. QED
    BY <1>4, <2>2 DEF Payload, TextFor
<1>. QED
  BY <1>1, <1>2, <1>3, <1>4 DEF File

LEMMA WriteTold ==
  ASSUME DatasetPerKey, OpenInv, GivenTrue, NEW o \in Opener, Truncate(o) \/ Fill(o)
  PROVE  DiskTrue' /\ SidecarsSound' /\ OpenerTrue(o)'
<1>. DEFINE s == src[o]  f == file[o]  l == SlotOf(o, f)
<1>. USE Names
<1>1. /\ TypeOK /\ f \in File /\ s \in Source /\ l \in Slot /\ l[2] = f
      /\ pc[o] \in Writing /\ OpenerTrue(o)
  BY SlotTyped DEF OpenInv, TypeOK, GivenTrue, Truncate, Goto, Fill, Writing
<1>2. l = HomeOf(s, f)
  BY <1>1, SettledHome DEF OpenerTrue, Told, Settled, GraphRead
<1>3. PICK r : /\ disk' = [disk EXCEPT ![l] = r]
               /\ r.state = "full" => r.data = TextFor(s, f)
               /\ Legible(l, r)
  <2>1. CASE Truncate(o)
    BY <2>1 DEF Truncate, Torn, Legible
  <2>2. CASE Fill(o)
    <3>1. Payload(o, f) = TextFor(s, f) /\ Payload(o, f) \in TextOf(l[2])
      BY <1>1, PayloadTrue, PayloadTyped
    <3>. QED
      BY <2>2, <3>1 DEF Fill, Torn, Full, Legible
  <2>. QED
    BY <2>1, <2>2
<1>4. \A x \in Slot : disk'[x] = IF x = l THEN r ELSE disk[x]
  BY <1>1, <1>3, WriteSlot DEF OpenInv
<1>5. DiskTrue'
  <2>. SUFFICES ASSUME NEW t \in Source, NEW g \in File, disk'[HomeOf(t, g)].state = "full"
                PROVE  disk'[HomeOf(t, g)].data = TextFor(t, g)
    BY DEF DiskTrue
  <2>1. CASE HomeOf(t, g) = l
    BY <1>1, <1>2, <1>3, <1>4, <2>1, SharedHome
  <2>2. CASE HomeOf(t, g) # l
    BY <1>4, <2>2, HomeTyped DEF GivenTrue, DiskTrue
  <2>. QED
    BY <2>1, <2>2
<1>6. SidecarsSound'
  <2>. SUFFICES ASSUME NEW k \in Key, disk'[<<k, "sidecar">>].state = "full"
                PROVE  Agree({disk'[<<k, "sidecar">>].data[a] : a \in Artifact})
    BY DEF SidecarsSound
  <2>1. <<k, "sidecar">> \in Slot
    BY DEF Slot
  <2>2. CASE <<k, "sidecar">> = l
    <3>1. f = "sidecar"
      BY <1>1, <2>2
    <3>2. Sound(s)
      BY <1>1, <3>1 DEF OpenerTrue, Told
    <3>3. disk'[<<k, "sidecar">>].data = Published[s]
      BY <1>3, <1>4, <2>1, <2>2, <3>1 DEF TextFor
    <3>. QED
      BY <3>2, <3>3 DEF Sound
  <2>3. CASE <<k, "sidecar">> # l
    BY <1>4, <2>1, <2>3 DEF GivenTrue, SidecarsSound
  <2>. QED
    BY <2>2, <2>3
<1>7. OpenerTrue(o)'
  <2>1. UNCHANGED <<src, key, meta, have, hit>>
    BY DEF Truncate, Fill
  <2>2. CASE Truncate(o)
    BY <1>1, <2>1, <2>2 DEF Truncate, Goto, TypeOK, OpenerTrue, Told, Settled, GraphRead, Writing
  <2>3. CASE Fill(o)
    BY <1>1, <2>1, <2>3
       DEF Fill, AfterWrite, TypeOK, OpenerTrue, Told, Settled, GraphRead, Writing, Late, File
  <2>. QED
    BY <2>2, <2>3
<1>. QED
  BY <1>5, <1>6, <1>7

\* The others' part of the second layer does not depend on who steps.
LEMMA OthersTold ==
  ASSUME NEW o \in Opener, OthersStay(o), \A x \in Opener : OpenerTrue(x), OpenerTrue(o)'
  PROVE  \A x \in Opener : OpenerTrue(x)'
BY DEF OthersStay, OpenerTrue

LEMMA NextGivenInv == ASSUME DatasetPerKey PROVE GivenInv /\ [Next]_vars => GivenInv'
<1>. SUFFICES ASSUME GivenInv, [Next]_vars PROVE GivenInv'
  OBVIOUS
<1>1. OpenInv /\ OpenInv'
  BY NextOpenInv DEF GivenInv
<1>. SUFFICES ASSUME republished' = 0 PROVE GivenTrue'
  BY <1>1 DEF GivenInv
<1>2. ASSUME NEW s \in Source, NEW a \in Artifact, NEW c \in Content, Republish(s, a, c)
      PROVE  FALSE
  BY <1>1, <1>2 DEF Republish, OpenInv, TypeOK
<1>3. UNCHANGED <<remote, republished>>
  BY <1>2, QuietLeaves DEF Next, Step, QuietStep, Truncate, Fill, Evict, vars
<1>4. GivenTrue /\ remote' = Published
  BY <1>3 DEF GivenInv, GivenTrue
<1>5. ASSUME NEW o \in Opener, QuietStep(o) PROVE GivenTrue'
  <2>1. OpenerTrue(o)' /\ OthersStay(o) /\ disk' = disk
    BY <1>1, <1>4, <1>5, QuietTold, QuietOthers, QuietLeaves
  <2>. QED
    BY <1>4, <2>1, OthersTold DEF GivenTrue, DiskTrue, SidecarsSound
<1>6. ASSUME NEW o \in Opener, Truncate(o) \/ Fill(o) PROVE GivenTrue'
  <2>1. DiskTrue' /\ SidecarsSound' /\ OpenerTrue(o)'
    BY <1>1, <1>4, <1>6, WriteTold
  <2>2. OthersStay(o)
    BY <1>1, <1>6 DEF Truncate, Fill, Goto, AfterWrite, OthersStay, OpenInv, TypeOK
  <2>. QED
    BY <1>4, <2>1, <2>2, OthersTold DEF GivenTrue
<1>7. ASSUME NEW l \in Slot, Evict(l) PROVE GivenTrue'
  <2>1. \A x \in Slot : disk'[x] = IF x = l THEN Absent ELSE disk[x]
    BY <1>1, <1>7 DEF Evict, OpenInv, TypeOK
  <2>2. DiskTrue'
    BY <1>4, <2>1, HomeTyped DEF GivenTrue, DiskTrue, Absent
  <2>3. SidecarsSound'
    BY <1>4, <2>1, Names DEF GivenTrue, SidecarsSound, Absent, Slot
  <2>4. \A o \in Opener : OpenerTrue(o)'
    BY <1>4, <1>7 DEF Evict, openers, GivenTrue, OpenerTrue
  <2>. QED
    BY <1>4, <2>2, <2>3, <2>4 DEF GivenTrue
<1>8. CASE UNCHANGED vars
  BY <1>4, <1>8 DEF vars, openers, GivenTrue, DiskTrue, SidecarsSound, OpenerTrue
<1>. QED
  BY <1>2, <1>5, <1>6, <1>7, <1>8 DEF Next, Step, QuietStep

\* As long as nothing was republished an opened session holds the artifacts of its
\* own URL, whatever other openers, crashes and lost files did to the cache
\* directory (open_remote_with_stats, session.rs; RemoteArtifactCache, cache.rs).
THEOREM SessionIsRemoteHolds == ASSUME DatasetPerKey PROVE Spec => []SessionIsRemote
<1>1. Init => GivenInv
  BY InitOpenInv, InitGivenTrue DEF GivenInv
<1>2. GivenInv => SessionIsRemote
  BY PartsOfSource DEF GivenInv, GivenTrue, SessionIsRemote, RemoteOf
<1>. QED
  BY <1>1, <1>2, NextGivenInv, PTL DEF Spec

\* A validation sidecar vouches only for artifacts that agree
\* (write_validation_sidecar after the referential checks, session.rs).
THEOREM SidecarHonestHolds == ASSUME DatasetPerKey PROVE Spec => []SidecarHonest
<1>1. Init => GivenInv
  BY InitOpenInv, InitGivenTrue DEF GivenInv
<1>2. GivenInv => SidecarHonest
  <2>. SUFFICES ASSUME GivenInv, republished = 0, NEW l \in DOMAIN disk,
                       l[2] = "sidecar", disk[l].state = "full"
                PROVE  Agree({disk[l].data[a] : a \in Artifact})
    BY DEF SidecarHonest
  <2>1. l \in Slot
    BY DEF GivenInv, OpenInv, TypeOK
  <2>2. l[1] \in Key /\ l = <<l[1], "sidecar">>
    BY <2>1 DEF Slot
  <2>. QED
    BY <2>2 DEF GivenInv, GivenTrue, SidecarsSound
<1>. QED
  BY <1>1, <1>2, NextGivenInv, PTL DEF Spec

\* An open reports a referential error only for a dataset that has one
\* (validate_graph_catchments and validate_snap_refs, session.rs).
THEOREM InvalidIsRealHolds == ASSUME DatasetPerKey PROVE Spec => []InvalidIsReal
<1>1. Init => GivenInv
  BY InitOpenInv, InitGivenTrue DEF GivenInv
<1>2. GivenInv => InvalidIsReal
  BY DEF GivenInv, GivenTrue, InvalidIsReal, RemoteOf, OpenerTrue, Told, Sound
<1>. QED
  BY <1>1, <1>2, NextGivenInv, PTL DEF Spec

\* When nothing is ever republished the parts of an opened session agree, whether
\* the checks ran or a sidecar let the open skip them (validation_hit, session.rs).
THEOREM GivenSessionsConsistent ==
  ASSUME DatasetPerKey, MaxRepublish = 0 PROVE Spec => []SessionConsistent
<1>1. Init => GivenInv
  BY InitOpenInv, InitGivenTrue DEF GivenInv
<1>2. GivenInv => SessionConsistent
  <2>. SUFFICES ASSUME GivenInv, NEW o \in Opener, pc[o] = "ok"
                PROVE  Agree({have[o][a] : a \in Artifact})
    BY DEF SessionConsistent
  <2>1. OpenInv /\ GivenTrue /\ OpenerTrue(o) /\ src[o] \in Source
    BY DEF GivenInv, GivenTrue, OpenInv, TypeOK
  <2>2. Sound(src[o])
    BY <2>1 DEF OpenerTrue, Told
  <2>3. \A a \in Artifact : have[o][a] = Published[src[o]][a]
    BY <2>1, PartsOfSource
  <2>4. {have[o][a] : a \in Artifact} = {Published[src[o]][a] : a \in Artifact}
    BY <2>3
  <2>. QED
    BY <2>2, <2>4 DEF Sound
<1>. QED
  BY <1>1, <1>2, NextGivenInv, PTL DEF Spec

-----------------------------------------------------------------------------
(***************************************************************************)
(* Third layer: one dataset that is republished, between opens, while no   *)
(* cached file is lost.  The manifest m and the graph g that every open    *)
(* uses are either those published now, and then whoever has begun to      *)
(* cache them is going to finish (Fresh), or they are cached completely    *)
(* and nobody will touch them again, however old they have become (Fixed). *)
(* What is validated, and what a sidecar attests, is always m and g with   *)
(* the catchments and the snap targets it names.                           *)
(***************************************************************************)
Current(r, m, g, p) ==
  CASE p = "manifest" -> m
    [] p = "graph"    -> g
    [] p = "snap"     -> r.snap
    [] OTHER          -> r.catchments

\* A session of m and g with the catchments and the snap targets of r agrees.
Checked(r, m, g) == Agree({m, g, r.catchments, r.snap})

\* An opener under way, over the artifacts r published now; and a session.
Kept(r, m, g, q, k, mt, h, i, f) ==
  /\ q \notin Finished =>
       /\ q \in Settled => k = KeyOf[m]
       /\ \A a \in Artifact : mt[a] = None \/ mt[a] = r[a]
       /\ \A p \in Part : h[p] = None \/ h[p] = Current(r, m, g, p)
       /\ i => Checked(r, m, g)
       /\ q \in Writing /\ f = "sidecar" => Checked(r, m, g)
  /\ q = "ok" => Agree({h[a] : a \in Artifact})

OpenerKept(s, m, g, o) ==
  Kept(remote[s], m, g, pc[o], key[o], meta[o], have[o], hit[o], file[o])

\* The id index of an object is that object's, and a sidecar is right about m and g.
FilesKept(m, g) ==
  \A k \in Key :
    /\ disk[<<k, "ids">>].state = "full" =>
         disk[<<k, "ids">>].data.etag = disk[<<k, "ids">>].data.rows
    /\ disk[<<k, "sidecar">>].state = "full" =>
         Checked(disk[<<k, "sidecar">>].data, m, g)

\* Who is past the source index, and every sidecar, finds it there.
Pending(q, f) == q \in Writing /\ f \in {"manifest", "graph", "index"}

Behind(q, f) ==
  q \in (Settled \ {"fetch_graph", "ok", "invalid"}) /\ ~Pending(q, f)

IndexedFirst(s) ==
  /\ \A o \in Opener : Behind(pc[o], file[o]) => disk[<<s, "index">>] # Absent
  /\ \A k \in Key : disk[<<k, "sidecar">>] # Absent => disk[<<s, "index">>] # Absent

\* The three files of write_manifest_graph, in the order they are written.
Triple(s, m, f) == IF f = "index" THEN <<s, f>> ELSE <<KeyOf[m], f>>

Trio == {"manifest", "graph", "index"}

Owed(q, w, f) ==
  /\ q \in Writing
  /\ \/ w = "manifest"
     \/ w = "graph" /\ f \in {"graph", "index"}
     \/ w = "index" /\ f = "index"

Wanted(m, g, f) ==
  CASE f = "manifest" -> m [] f = "graph" -> g [] f = "index" -> KeyOf[m]

Fresh(s, m, g) ==
  /\ m = remote[s].manifest /\ g = remote[s].graph
  /\ \A k \in Key, f \in {"manifest", "graph"} : disk[<<k, f>>] # Absent => k = KeyOf[m]
  /\ \A f \in Trio : disk[Triple(s, m, f)].state = "full" =>
                       disk[Triple(s, m, f)] = Full(Wanted(m, g, f))
  /\ \A o \in Opener : pc[o] \in Writing /\ file[o] \in {"graph", "index"} =>
                         disk[Triple(s, m, "manifest")] # Absent
  /\ (\E f \in Trio : disk[Triple(s, m, f)] # Absent) =>
       \A f \in Trio : \/ disk[Triple(s, m, f)].state = "full"
                       \/ \E o \in Opener : Owed(pc[o], file[o], f)

Fixed(s, m, g) ==
  /\ \A f \in Trio : disk[Triple(s, m, f)] = Full(Wanted(m, g, f))
  /\ \A o \in Opener : /\ pc[o] \notin {"fetch_manifest", "fetch_graph"}
                       /\ ~Pending(pc[o], file[o])

Anchored(s, m, g) ==
  /\ \A o \in Opener : OpenerKept(s, m, g, o)
  /\ FilesKept(m, g)
  /\ IndexedFirst(s)
  /\ Fresh(s, m, g) \/ Fixed(s, m, g)

RepublishInv(s) == OpenInv /\ \E m, g \in Content : Anchored(s, m, g)

-----------------------------------------------------------------------------
(* Lemmas of the third layer. *)

\* Where the three files of a settled opener are.
LEMMA TripleTyped ==
  ASSUME NEW s \in Source, NEW m \in Content, NEW f \in Trio
  PROVE  Triple(s, m, f) \in Slot /\ KeyOf[m] \in Key
BY OpenAssumption, Names DEF Triple, Trio, Slot

LEMMA OpenersTriple ==
  ASSUME NEW o \in Opener, NEW m \in Content, NEW f \in Trio,
         f = "index" \/ key[o] = KeyOf[m]
  PROVE  SlotOf(o, f) = Triple(src[o], m, f)
BY DEF SlotOf, Triple, Trio

\* Whatever the phase, a complete file of the three says what is expected.
LEMMA TrioText ==
  ASSUME NEW s, NEW m, NEW g, Fresh(s, m, g) \/ Fixed(s, m, g), NEW f \in Trio,
         disk[Triple(s, m, f)].state = "full"
  PROVE  disk[Triple(s, m, f)].data = Wanted(m, g, f)
<1>1. disk[Triple(s, m, f)] = Full(Wanted(m, g, f))
  BY DEF Fresh, Fixed
<1>. QED
  BY <1>1 DEF Full

\* The parts an opener has when it is done agree exactly when it checked them.
LEMMA CurrentAgree ==
  ASSUME NEW r, NEW m, NEW g, NEW h,
         \A a \in Artifact : h[a] = Current(r, m, g, a)
  PROVE  /\ {h[a] : a \in Artifact} = {m, g, r.catchments, r.snap}
         /\ Checked(r, m, g) <=> Agree({h[a] : a \in Artifact})
         /\ Checked(r, m, g) <=> Agree({h[a] : a \in Artifact} \cup {r.catchments})
<1>1. /\ h["manifest"] = m /\ h["graph"] = g
      /\ h["catchments"] = r.catchments /\ h["snap"] = r.snap
  BY Names DEF Current
<1>2. {h[a] : a \in Artifact} = {h["manifest"], h["graph"], h["catchments"], h["snap"]}
  BY DEF Artifact
<1>3. {h[a] : a \in Artifact} = {m, g, r.catchments, r.snap}
  BY <1>1, <1>2
<1>4. {h[a] : a \in Artifact} \cup {r.catchments} = {m, g, r.catchments, r.snap}
  BY <1>3
<1>. QED
  BY <1>3, <1>4 DEF Checked

\* Without losses nobody stops between the steps of a write, and writes begin with
\* the manifest after a fetch, the id index, or the sidecar.
LEMMA QuietMoves ==
  ASSUME OpenInv, ~Loss, NEW o \in Opener, QuietStep(o)
  PROVE  /\ pc[o] \notin Writing
         /\ pc'[o] \in Writing =>
              \/ pc[o] = "fetch_graph" /\ file'[o] = "manifest"
              \/ file'[o] \in {"ids", "sidecar"}
         /\ Behind(pc'[o], file'[o]) =>
              Behind(pc[o], file[o]) \/ Read(o, "index").state = "full"
<1>. USE DEF OpenInv, TypeOK, Behind, Pending, Settled, GraphRead, Writing, Late, Goto, StartWrite
<1>1. CASE HeadManifest(o) \/ HeadGraph(o)
  BY <1>1 DEF HeadManifest, HeadGraph, HeadOptional
<1>2. CASE HeadCatchments(o) \/ HeadSnap(o)
  BY <1>2 DEF HeadCatchments, HeadSnap, HeadRequired
<1>3. CASE ReadIndex(o)
  BY <1>3 DEF ReadIndex
<1>4. CASE ReadCachedManifest(o) \/ ReadCachedGraph(o)
  BY <1>4 DEF ReadCachedManifest, ReadCachedGraph
<1>5. CASE FetchManifest(o) \/ FetchGraph(o)
  BY <1>5 DEF FetchManifest, FetchGraph
<1>6. CASE WriteFails(o) \/ Crash(o)
  BY <1>6 DEF WriteFails, Crash
<1>7. CASE LoadIds(o) \/ BuildIds(o)
  BY <1>7 DEF LoadIds, BuildIds
<1>8. CASE MatchSidecar(o) \/ OpenSnap(o)
  BY <1>8 DEF MatchSidecar, OpenSnap
<1>9. CASE Validate(o)
  BY <1>9 DEF Validate
<1>10. CASE Fails(o)
  BY <1>10 DEF Fails, Abandon
<1>11. CASE \E s \in Source : Open(o, s)
  BY <1>11 DEF Open, Finished
<1>. QED
  BY <1>1, <1>2, <1>3, <1>4, <1>5, <1>6, <1>7, <1>8, <1>9, <1>10, <1>11 DEF QuietStep

\* An opener under way keeps to m, g and what is published now.
LEMMA QuietKept ==
  ASSUME OpenInv, ~Loss, NEW s, Source = {s}, NEW m \in Content, NEW g \in Content,
         Anchored(s, m, g), NEW o \in Opener, QuietStep(o)
  PROVE  OpenerKept(s, m, g, o)'
<1>. USE Names, OpenAssumption
<1>. DEFINE r == remote[s]
<1>a. /\ TypeOK /\ Present(pc[o], file[o], meta[o], have[o])
      /\ s \in Source /\ src[o] = s /\ remote' = remote
      /\ Kept(r, m, g, pc[o], key[o], meta[o], have[o], hit[o], file[o])
      /\ \A a \in Artifact : RemoteOf(o, a) = r[a] /\ RemoteOf(o, a) \in Content
      /\ r \in [Artifact -> Content]
  BY QuietLeaves DEF OpenInv, TypeOK, RemoteOf, Anchored, OpenerKept
<1>b. \A f \in Trio : (f = "index" \/ key[o] = KeyOf[m]) /\ Read(o, f).state = "full"
                        => Read(o, f).data = Wanted(m, g, f)
  BY <1>a, OpenersTriple, TrioText DEF Anchored, Read
<1>c. /\ \A a \in Artifact : Current(r, m, g, a) \in Content
      /\ Current(r, m, g, "manifest") = m /\ Current(r, m, g, "graph") = g
      /\ Current(r, m, g, "catchments") = r.catchments /\ Current(r, m, g, "snap") = r.snap
      /\ Current(r, m, g, "levels") = r.catchments
  BY <1>a DEF Current
<1>t. /\ pc \in [Opener -> Where] /\ file \in [Opener -> File] /\ src \in [Opener -> Source]
      /\ key \in [Opener -> Key] /\ hit \in [Opener -> BOOLEAN]
      /\ meta \in [Opener -> [Artifact -> Content \cup {None}]]
      /\ have \in [Opener -> [Part -> Content \cup {None}]]
  BY <1>a DEF TypeOK
<1>. HIDE DEF r
<1>s. SUFFICES Kept(r, m, g, pc'[o], key'[o], meta'[o], have'[o], hit'[o], file'[o])
  BY <1>a DEF OpenerKept, r
<1>. USE DEF Kept, Settled, GraphRead, Writing, Late, Finished, Goto
<1>1. CASE HeadManifest(o)
  BY <1>1, <1>a, <1>t DEF HeadManifest, HeadOptional
<1>2. CASE HeadGraph(o)
  BY <1>2, <1>a, <1>t DEF HeadGraph, HeadOptional
<1>3. CASE HeadCatchments(o)
  BY <1>3, <1>a, <1>t DEF HeadCatchments, HeadRequired
<1>4. CASE HeadSnap(o)
  BY <1>4, <1>a, <1>t DEF HeadSnap, HeadRequired
<1>5. CASE ReadIndex(o)
  BY <1>5, <1>a, <1>b, <1>t DEF ReadIndex, Wanted, Trio
<1>6. CASE ReadCachedManifest(o)
  <2>1. Read(o, "manifest").state = "full" => Read(o, "manifest").data = m
    BY <1>6, <1>a, <1>b DEF ReadCachedManifest, Wanted, Trio
  <2>2. CASE UNCHANGED have
    BY <1>6, <1>a, <1>t, <2>2 DEF ReadCachedManifest
  <2>3. CASE have' = [have EXCEPT ![o]["manifest"] = m]
    <3>1. \A x \in Part : have'[o][x] = IF x = "manifest" THEN m ELSE have[o][x]
      BY <1>a, <2>3, TakePart
    <3>. QED
      BY <1>6, <1>a, <1>c, <1>t, <3>1 DEF ReadCachedManifest
  <2>. QED
    BY <1>6, <2>1, <2>2, <2>3 DEF ReadCachedManifest, Take
<1>7. CASE ReadCachedGraph(o)
  <2>1. Read(o, "graph").state = "full" => Read(o, "graph").data = g
    BY <1>7, <1>a, <1>b DEF ReadCachedGraph, Wanted, Trio
  <2>2. CASE have' = [have EXCEPT ![o]["manifest"] = None]
    <3>1. \A x \in Part : have'[o][x] = IF x = "manifest" THEN None ELSE have[o][x]
      BY <1>a, <2>2, TakePart
    <3>. QED
      BY <1>7, <1>a, <1>c, <1>t, <3>1 DEF ReadCachedGraph
  <2>3. CASE have' = [have EXCEPT ![o]["graph"] = g]
    <3>1. \A x \in Part : have'[o][x] = IF x = "graph" THEN g ELSE have[o][x]
      BY <1>a, <2>3, TakePart
    <3>. QED
      BY <1>7, <1>a, <1>c, <1>t, <3>1 DEF ReadCachedGraph
  <2>. QED
    BY <1>7, <2>1, <2>2, <2>3 DEF ReadCachedGraph, Take
<1>f. pc[o] \in {"fetch_manifest", "fetch_graph"} => m = r.manifest /\ g = r.graph
  BY DEF Anchored, Fresh, Fixed, r
<1>8. CASE FetchManifest(o)
  <2>1. have' = [have EXCEPT ![o]["manifest"] = m]
    BY <1>8, <1>a, <1>f DEF FetchManifest, Take
  <2>2. \A x \in Part : have'[o][x] = IF x = "manifest" THEN m ELSE have[o][x]
    BY <1>a, <2>1, TakePart
  <2>3. key'[o] = KeyOf[m]
    BY <1>8, <1>a, <1>f, <1>t DEF FetchManifest
  <2>. QED
    BY <1>8, <1>a, <1>c, <1>t, <2>2, <2>3 DEF FetchManifest
<1>9. CASE FetchGraph(o)
  <2>1. have' = [have EXCEPT ![o]["graph"] = g]
    BY <1>9, <1>a, <1>f DEF FetchGraph, Take, StartWrite
  <2>2. \A x \in Part : have'[o][x] = IF x = "graph" THEN g ELSE have[o][x]
    BY <1>a, <2>1, TakePart
  <2>3. key'[o] = KeyOf[m]
    BY <1>9, <1>a, <1>f, <1>t DEF FetchGraph, StartWrite
  <2>. QED
    BY <1>9, <1>a, <1>c, <1>t, <2>2, <2>3 DEF FetchGraph, StartWrite
<1>14. CASE OpenSnap(o)
  <2>1. have' = [have EXCEPT ![o]["snap"] = r.snap]
    BY <1>14, <1>a, <1>f DEF OpenSnap, Take
  <2>2. \A x \in Part : have'[o][x] = IF x = "snap" THEN r.snap ELSE have[o][x]
    BY <1>a, <2>1, TakePart
  <2>3. \A a \in Artifact : a # "snap" => have[o][a] = Current(r, m, g, a)
    BY <1>14, <1>a, <1>t DEF OpenSnap, Present, Artifact, Part
  <2>4. \A a \in Artifact : have'[o][a] = Current(r, m, g, a)
    BY <1>c, <2>2, <2>3 DEF Part
  <2>5. hit[o] => Agree({have'[o][a] : a \in Artifact})
    <3>1. hit[o] => Checked(r, m, g)
      BY <1>14, <1>a DEF OpenSnap
    <3>. QED
      BY <2>4, <3>1 DEF Checked, Agree, Current, Artifact
  <2>. QED
    BY <1>14, <1>a, <1>c, <1>t, <2>2, <2>5 DEF OpenSnap
<1>11. CASE LoadIds(o)
  <2>1. <<key[o], "ids">> \in Slot /\ Read(o, "ids") = disk[<<key[o], "ids">>] /\ key[o] \in Key
    BY <1>a, <1>t DEF Read, SlotOf, Slot
  <2>2. Read(o, "ids").data.etag = Read(o, "ids").data.rows
    BY <1>11, <2>1 DEF LoadIds, IdsMatch, Anchored, FilesKept
  <2>3. Read(o, "ids").data.rows = r.catchments
    BY <1>11, <1>a, <2>2 DEF LoadIds, IdsMatch
  <2>4. \A x \in Part : have'[o][x] = IF x = "catchments" THEN r.catchments ELSE have[o][x]
    BY <1>11, <1>a, <2>3, TakePart DEF LoadIds, Take
  <2>. QED
    BY <1>11, <1>a, <1>c, <1>t, <2>4 DEF LoadIds
<1>12. CASE BuildIds(o)
  <2>1. \A x \in Part : have'[o][x] = Current(r, m, g, x) \/ have'[o][x] = have[o][x]
    <3>1. CASE meta[o].catchments # None
      <4>1. \A x \in Part : have'[o][x] = IF x \in {"catchments", "levels"} THEN r.catchments
                                                                          ELSE have[o][x]
        BY <1>12, <1>a, <3>1, TakeBoth DEF BuildIds
      <4>. QED
        BY <1>c, <4>1
    <3>2. CASE meta[o].catchments = None
      <4>1. \A x \in Part : have'[o][x] = IF x = "catchments" THEN r.catchments ELSE have[o][x]
        BY <1>12, <1>a, <3>2, TakePart DEF BuildIds, Take
      <4>. QED
        BY <1>c, <4>1
    <3>. QED
      BY <3>1, <3>2
  <2>. QED
    BY <1>12, <1>a, <1>t, <2>1 DEF BuildIds, StartWrite
<1>13. CASE MatchSidecar(o)
  <2>1. ASSUME AllMeta(o), Read(o, "sidecar").state = "full", Read(o, "sidecar").data = meta[o]
        PROVE  Checked(r, m, g)
    <3>1. Read(o, "sidecar") = disk[<<key[o], "sidecar">>] /\ key[o] \in Key
      BY <1>t DEF Read, SlotOf
    <3>2. Checked(meta[o], m, g)
      BY <2>1, <3>1 DEF Anchored, FilesKept
    <3>3. meta[o].catchments = r.catchments /\ meta[o].snap = r.snap
      BY <1>13, <1>a, <2>1 DEF AllMeta, MatchSidecar
    <3>. QED
      BY <3>2, <3>3 DEF Checked
  <2>2. hit'[o] => Checked(r, m, g)
    BY <1>13, <2>1, <1>t DEF MatchSidecar
  <2>3. /\ pc'[o] = "open_snap" /\ pc[o] = "match"
        /\ UNCHANGED <<src, key, meta, have, file>>
    BY <1>13, <1>t DEF MatchSidecar
  <2>. QED
    BY <2>2, <2>3, <1>a
<1>15. CASE Validate(o)
  <2>1. Levels(o) = r.catchments
    BY <1>15, <1>a, <1>c DEF Levels, Validate
  <2>2. \A a \in Artifact : have[o][a] = Current(r, m, g, a)
    BY <1>15, <1>a DEF Validate, Present, Artifact, Part
  <2>3. /\ Agree({have[o][a] : a \in Artifact} \cup {Levels(o)}) <=> Checked(r, m, g)
        /\ Agree({have[o][a] : a \in Artifact}) <=> Checked(r, m, g)
    BY <2>1, <2>2, CurrentAgree, SMTT(40)
  <2>4. \A x \in Part : have'[o][x] = IF x = "levels" THEN r.catchments ELSE have[o][x]
    BY <1>15, <1>a, <2>1, TakePart DEF Validate, Take
  <2>5. /\ pc'[o] \in {"truncate", "ok"} => Checked(r, m, g)
        /\ pc'[o] \in {"truncate", "ok", "invalid"}
    BY <1>15, <1>t, <2>3 DEF Validate, StartWrite
  <2>6. \A a \in Artifact : have'[o][a] = Current(r, m, g, a)
    BY <2>2, <2>4 DEF Artifact, Part
  <2>7. Agree({have'[o][a] : a \in Artifact}) <=> Checked(r, m, g)
    BY <2>6 DEF Checked, Agree, Current, Artifact
  <2>. QED
    BY <1>15, <1>a, <1>c, <1>t, <2>4, <2>5, <2>7 DEF Validate
<1>16. CASE Fails(o)
  BY <1>16, <1>a, AbandonTypes DEF Fails
<1>17. CASE WriteFails(o) \/ Crash(o)
  BY <1>17 DEF WriteFails, Crash
<1>18. CASE \E t \in Source : Open(o, t)
  BY <1>18, <1>t DEF Open, NoMeta, NoPart, Part
<1>. QED
  BY <1>1, <1>2, <1>3, <1>4, <1>5, <1>6, <1>7, <1>8, <1>9, <1>11, <1>12, <1>13,
     <1>14, <1>15, <1>16, <1>17, <1>18 DEF QuietStep

\* What an opener writes: the three files as expected, an id index of one object,
\* and the metadata of what it has checked.
LEMMA PayloadKept ==
  ASSUME OpenInv, NEW s, NEW m \in Content, NEW g \in Content,
         NEW o \in Opener, OpenerKept(s, m, g, o), pc[o] \in Writing
  PROVE  /\ file[o] \in Trio => Payload(o, file[o]) = Wanted(m, g, file[o])
         /\ file[o] = "ids" => Payload(o, "ids").etag = Payload(o, "ids").rows
         /\ file[o] = "sidecar" => Checked(Payload(o, "sidecar"), m, g)
<1>. DEFINE r == remote[s]
<1>. USE Names
<1>1. /\ Present(pc[o], file[o], meta[o], have[o])
      /\ Kept(r, m, g, pc[o], key[o], meta[o], have[o], hit[o], file[o])
  BY DEF OpenInv, OpenerKept
<1>. HIDE DEF r
<1>2. /\ key[o] = KeyOf[m] /\ have[o].manifest = m /\ have[o].graph = g
      /\ \A a \in Artifact : meta[o][a] = None \/ meta[o][a] = r[a]
  BY <1>1 DEF Present, Kept, Settled, GraphRead, Writing, Finished, Current
<1>3. file[o] \in Trio => Payload(o, file[o]) = Wanted(m, g, file[o])
  BY <1>2 DEF Payload, Wanted, Trio
<1>4. ASSUME file[o] = "ids" PROVE Payload(o, "ids").etag = Payload(o, "ids").rows
  <2>1. meta[o].catchments = r.catchments /\ have[o].catchments = r.catchments
    BY <1>1, <1>4 DEF Present, Kept, Writing, Finished, Current
  <2>. QED
    BY <2>1 DEF Payload
<1>5. ASSUME file[o] = "sidecar" PROVE Checked(Payload(o, "sidecar"), m, g)
  <2>1. meta[o].catchments = r.catchments /\ meta[o].snap = r.snap /\ Checked(r, m, g)
    BY <1>1, <1>5 DEF Present, Kept, Writing, Finished
  <2>2. Payload(o, "sidecar") = meta[o]
    BY DEF Payload
  <2>. QED
    BY <2>1, <2>2 DEF Checked
<1>. QED
  BY <1>3, <1>4, <1>5

\* The two steps of a write: one slot changes, to a torn or a right text.
LEMMA WriteSlotKept ==
  ASSUME OpenInv, NEW s, Source = {s}, NEW m \in Content, NEW g \in Content,
         Anchored(s, m, g), NEW o \in Opener, Truncate(o) \/ Fill(o)
  PROVE  \E r : LET f == file[o]
                    l == SlotOf(o, f)
                IN  /\ \A x \in Slot : disk'[x] = IF x = l THEN r ELSE disk[x]
                    /\ l \in Slot /\ l[2] = f /\ r # Absent /\ pc[o] \in Writing
                    /\ f \in Trio => l = Triple(s, m, f)
                    /\ f \in Trio /\ r.state = "full" => r = Full(Wanted(m, g, f))
                    /\ f \in Trio /\ Fill(o) => r = Full(Wanted(m, g, f))
                    /\ f = "ids" /\ r.state = "full" => r.data.etag = r.data.rows
                    /\ f = "sidecar" /\ r.state = "full" => Checked(r.data, m, g)
<1>. DEFINE f == file[o]  l == SlotOf(o, f)
<1>1. /\ TypeOK /\ f \in File /\ s \in Source /\ src[o] = s /\ l \in Slot /\ l[2] = f
      /\ pc[o] \in Writing /\ OpenerKept(s, m, g, o) /\ (\A x \in Slot : Legible(x, disk[x]))
  BY SlotTyped DEF OpenInv, TypeOK, Anchored, Truncate, Goto, Fill, Writing
<1>2. f \in Trio => l = Triple(s, m, f)
  BY <1>1, OpenersTriple DEF OpenerKept, Kept, Settled, GraphRead, Writing, Finished
<1>3. CASE Truncate(o)
  <2>1. \A x \in Slot : disk'[x] = IF x = l THEN Torn ELSE disk[x]
    BY <1>1, <1>3 DEF Truncate, TypeOK
  <2>2. Torn # Absent /\ Torn.state # "full" /\ ~Fill(o)
    BY <1>3 DEF Torn, Absent, Truncate, Fill, Goto
  <2>. QED
    BY <1>1, <1>2, <2>1, <2>2
<1>4. CASE Fill(o)
  <2>. DEFINE new == Full(Payload(o, f))
  <2>1. PICK r : /\ r = new \/ (r = Torn /\ disk[l].state = "full" /\ disk[l] # new)
                 /\ disk' = [disk EXCEPT ![l] = r]
    BY <1>4 DEF Fill
  <2>2. \A x \in Slot : disk'[x] = IF x = l THEN r ELSE disk[x]
    BY <1>1, <2>1 DEF TypeOK
  <2>3. /\ f \in Trio => Payload(o, f) = Wanted(m, g, f)
        /\ f = "ids" => Payload(o, "ids").etag = Payload(o, "ids").rows
        /\ f = "sidecar" => Checked(Payload(o, "sidecar"), m, g)
    BY <1>1, PayloadKept
  <2>4. ASSUME f \in Trio PROVE r = Full(Wanted(m, g, f))
    <3>1. new = Full(Wanted(m, g, f))
      BY <2>3, <2>4
    <3>2. disk[l].state = "full" => disk[l] = Full(Wanted(m, g, f))
      BY <1>1, <1>2, <2>4 DEF Anchored, Fresh, Fixed
    <3>. QED
      BY <2>1, <3>1, <3>2
  <2>5. r # Absent
    BY <2>1 DEF Torn, Absent, Full
  <2>6. r.state = "full" => r.data = Payload(o, f)
    BY <2>1 DEF Torn, Full
  <2>. QED
    BY <1>1, <1>2, <2>2, <2>3, <2>4, <2>5, <2>6
<1>. QED
  BY <1>3, <1>4

LEMMA WriteKept ==
  ASSUME OpenInv, NEW s, Source = {s}, NEW m \in Content, NEW g \in Content,
         Anchored(s, m, g), NEW o \in Opener, Truncate(o) \/ Fill(o)
  PROVE  OpenerKept(s, m, g, o)' /\ FilesKept(m, g)'
<1>. DEFINE f == file[o]  l == SlotOf(o, f)
<1>. USE Names
<1>1. /\ TypeOK /\ pc[o] \in Writing /\ f \in File /\ OpenerKept(s, m, g, o)
      /\ UNCHANGED <<remote, src, key, meta, have, hit>>
  BY DEF OpenInv, TypeOK, Anchored, Truncate, Fill, Goto, Writing
<1>2. OpenerKept(s, m, g, o)'
  <2>1. CASE Truncate(o)
    BY <1>1, <2>1 DEF Truncate, Goto, TypeOK, OpenerKept, Kept, Settled, GraphRead, Writing, Finished
  <2>2. CASE Fill(o)
    <3>1. ASSUME f = "sidecar" PROVE Agree({have[o][a] : a \in Artifact})
      <4>1. \A a \in Artifact : have[o][a] = Current(remote[s], m, g, a)
        BY <1>1, <3>1 DEF OpenInv, Present, OpenerKept, Kept, Writing, GraphRead, Finished, Artifact, Part
      <4>2. Checked(remote[s], m, g)
        BY <1>1, <3>1 DEF OpenerKept, Kept, Writing, Finished
      <4>. QED
        BY <4>1, <4>2 DEF Checked, Agree, Current, Artifact
    <3>. QED
      BY <1>1, <2>2, <3>1
         DEF Fill, AfterWrite, TypeOK, OpenerKept, Kept, Settled, GraphRead, Writing, Finished, Late, File
  <2>. QED
    BY <2>1, <2>2
<1>3. FilesKept(m, g)'
  <2>1. PICK r : /\ \A x \in Slot : disk'[x] = IF x = l THEN r ELSE disk[x]
                 /\ l \in Slot /\ l[2] = f
                 /\ f = "ids" /\ r.state = "full" => r.data.etag = r.data.rows
                 /\ f = "sidecar" /\ r.state = "full" => Checked(r.data, m, g)
    BY WriteSlotKept
  <2>. SUFFICES ASSUME NEW k \in Key
                PROVE  /\ disk'[<<k, "ids">>].state = "full" =>
                            disk'[<<k, "ids">>].data.etag = disk'[<<k, "ids">>].data.rows
                       /\ disk'[<<k, "sidecar">>].state = "full" =>
                            Checked(disk'[<<k, "sidecar">>].data, m, g)
    BY DEF FilesKept
  <2>2. <<k, "ids">> \in Slot /\ <<k, "sidecar">> \in Slot
    BY DEF Slot
  <2>3. /\ <<k, "ids">> = l => f = "ids"
        /\ <<k, "sidecar">> = l => f = "sidecar"
    BY <2>1
  <2>4. /\ disk[<<k, "ids">>].state = "full" =>
             disk[<<k, "ids">>].data.etag = disk[<<k, "ids">>].data.rows
        /\ disk[<<k, "sidecar">>].state = "full" =>
             Checked(disk[<<k, "sidecar">>].data, m, g)
    BY DEF Anchored, FilesKept
  <2>. QED
    BY <2>1, <2>2, <2>3, <2>4
<1>. QED
  BY <1>2, <1>3

\* A step that leaves the directory alone keeps what was written first, and the
\* phase.
LEMMA QuietPhase ==
  ASSUME OpenInv, ~Loss, NEW s, Source = {s}, NEW m \in Content, NEW g \in Content,
         Anchored(s, m, g), NEW o \in Opener, QuietStep(o)
  PROVE  IndexedFirst(s)' /\ (Fresh(s, m, g)' \/ Fixed(s, m, g)')
<1>1. /\ UNCHANGED <<remote, disk>> /\ OthersStay(o)
      /\ pc[o] \notin Writing /\ src[o] = s /\ OpenerKept(s, m, g, o)
  BY QuietLeaves, QuietOthers, QuietMoves DEF OpenInv, TypeOK, Anchored
<1>2. pc'[o] \in Writing => \/ pc[o] = "fetch_graph" /\ file'[o] = "manifest"
                            \/ file'[o] \in {"ids", "sidecar"}
  BY QuietMoves
<1>3. IndexedFirst(s)'
  <2>1. Read(o, "index") = disk[<<s, "index">>]
    BY <1>1 DEF Read, SlotOf
  <2>2. Behind(pc'[o], file'[o]) => disk[<<s, "index">>] # Absent
    BY <2>1, QuietMoves DEF Anchored, IndexedFirst, Absent
  <2>. QED
    BY <1>1, <2>2 DEF Anchored, IndexedFirst, OthersStay
<1>4. CASE Fresh(s, m, g)
  <2>1. \A x \in Opener : pc'[x] \in Writing /\ file'[x] \in {"graph", "index"} =>
                            disk[Triple(s, m, "manifest")] # Absent
    BY <1>1, <1>2, <1>4 DEF Fresh, OthersStay
  <2>2. \A f \in Trio : (\E x \in Opener : Owed(pc[x], file[x], f)) =>
                           \E x \in Opener : Owed(pc'[x], file'[x], f)
    BY <1>1 DEF OthersStay, Owed
  <2>. QED
    BY <1>1, <1>3, <1>4, <2>1, <2>2 DEF Fresh
<1>5. CASE Fixed(s, m, g)
  <2>1. \A f \in Trio : disk[Triple(s, m, f)] = Full(Wanted(m, g, f))
    BY <1>5 DEF Fixed
  <2>2. pc[o] \notin {"fetch_manifest", "fetch_graph"}
    BY <1>5 DEF Fixed
  <2>3. pc'[o] \notin {"fetch_manifest", "fetch_graph"}
    <3>1. CASE ReadIndex(o)
      <4>1. Read(o, "index").state = "full"
        BY <1>1, <2>1 DEF Read, SlotOf, Triple, Trio, Full
      <4>. QED
        BY <3>1, <4>1 DEF ReadIndex, Goto, OpenInv, TypeOK
    <3>2. CASE ReadCachedManifest(o)
      <4>1. key[o] = KeyOf[m]
        BY <1>1, <3>2 DEF ReadCachedManifest, Goto, OpenerKept, Kept, Settled, Finished
      <4>2. Read(o, "manifest") = Full(m) /\ Read(o, "graph") = Full(g)
        BY <1>1, <2>1, <4>1 DEF Read, SlotOf, Triple, Trio, Wanted
      <4>. QED
        BY <3>2, <4>1, <4>2 DEF ReadCachedManifest, Goto, OpenInv, TypeOK, Full
    <3>3. CASE ReadCachedGraph(o)
      <4>1. key[o] = KeyOf[m]
        BY <1>1, <3>3 DEF ReadCachedGraph, Goto, OpenerKept, Kept, Settled, Finished
      <4>2. Read(o, "graph") = Full(g)
        BY <1>1, <2>1, <4>1 DEF Read, SlotOf, Triple, Trio, Wanted
      <4>. QED
        BY <3>3, <4>2 DEF ReadCachedGraph, Goto, OpenInv, TypeOK, Full
    <3>4. CASE HeadManifest(o) \/ HeadGraph(o) \/ HeadCatchments(o) \/ HeadSnap(o)
      BY <3>4 DEF HeadManifest, HeadGraph, HeadOptional, HeadCatchments, HeadSnap,
                  HeadRequired, Goto, OpenInv, TypeOK
    <3>5. CASE FetchManifest(o) \/ FetchGraph(o)
      BY <2>2, <3>5 DEF FetchManifest, FetchGraph, StartWrite, Goto
    <3>6. CASE LoadIds(o) \/ BuildIds(o) \/ MatchSidecar(o) \/ OpenSnap(o) \/ Validate(o)
      BY <3>6 DEF LoadIds, BuildIds, MatchSidecar, OpenSnap, Validate, StartWrite, Goto,
                  OpenInv, TypeOK
    <3>7. CASE WriteFails(o) \/ Crash(o)
      BY <3>7 DEF WriteFails, Crash
    <3>8. CASE Fails(o)
      BY <3>8 DEF Fails, Abandon, OpenInv, TypeOK
    <3>9. CASE \E t \in Source : Open(o, t)
      BY <3>9 DEF Open, OpenInv, TypeOK
    <3>. QED
      BY <3>1, <3>2, <3>3, <3>4, <3>5, <3>6, <3>7, <3>8, <3>9 DEF QuietStep
  <2>4. ~Pending(pc'[o], file'[o])
    BY <1>2, <2>2 DEF Pending
  <2>. QED
    BY <1>1, <1>3, <1>5, <2>1, <2>3, <2>4 DEF Fixed, OthersStay
<1>. QED
  BY <1>3, <1>4, <1>5 DEF Anchored

\* So does a write: who began to cache the three files is still going to finish.
LEMMA WritePhase ==
  ASSUME OpenInv, ~Loss, NEW s, Source = {s}, NEW m \in Content, NEW g \in Content,
         Anchored(s, m, g), NEW o \in Opener, Truncate(o) \/ Fill(o)
  PROVE  IndexedFirst(s)' /\ (Fresh(s, m, g)' \/ Fixed(s, m, g)')
<1>. DEFINE f == file[o]  l == SlotOf(o, f)
<1>. USE Names
<1>1. /\ TypeOK /\ f \in File /\ s \in Source /\ remote' = remote
      /\ \A x \in Opener : x # o => pc'[x] = pc[x] /\ file'[x] = file[x]
  BY DEF OpenInv, TypeOK, Truncate, Fill, Goto, AfterWrite
<1>2. PICK r : /\ \A x \in Slot : disk'[x] = IF x = l THEN r ELSE disk[x]
               /\ l \in Slot /\ l[2] = f /\ r # Absent /\ pc[o] \in Writing
               /\ f \in Trio => l = Triple(s, m, f)
               /\ f \in Trio /\ r.state = "full" => r = Full(Wanted(m, g, f))
               /\ f \in Trio /\ Fill(o) => r = Full(Wanted(m, g, f))
  BY WriteSlotKept
<1>3. <<s, "index">> \in Slot /\ \A t \in Trio : Triple(s, m, t) \in Slot /\ Triple(s, m, t)[2] = t
  BY <1>1, TripleTyped DEF Slot, Triple, Trio
<1>4. \A x \in Slot : disk[x] # Absent => disk'[x] # Absent
  BY <1>2
<1>5. /\ Truncate(o) => pc'[o] = "fill" /\ file'[o] = f
      /\ Fill(o) /\ f = "manifest" => pc'[o] = "truncate" /\ file'[o] = "graph"
      /\ Fill(o) /\ f = "graph" => pc'[o] = "truncate" /\ file'[o] = "index"
      /\ Fill(o) /\ f = "index" => pc'[o] = "head_catchments" /\ file'[o] = f
      /\ Fill(o) /\ f = "ids" => pc'[o] = "head_snap" /\ file'[o] = f
      /\ Fill(o) /\ f = "sidecar" => pc'[o] = "ok" /\ file'[o] = f
  BY <1>1 DEF Truncate, Fill, Goto, AfterWrite, TypeOK
<1>6. IndexedFirst(s)'
  <2>1. f \in {"ids", "sidecar"} => Behind(pc[o], f)
    BY <1>2 DEF Behind, Pending, Settled, GraphRead, Writing
  <2>2. f \in {"ids", "sidecar"} => disk[<<s, "index">>] # Absent
    BY <2>1 DEF Anchored, IndexedFirst
  <2>3. f = "index" => disk'[<<s, "index">>] # Absent
    BY <1>2, <1>3 DEF Triple, Trio
  <2>4. Behind(pc'[o], file'[o]) => f \notin {"manifest", "graph"}
    BY <1>5 DEF Behind, Pending, Writing
  <2>5. Behind(pc'[o], file'[o]) => disk'[<<s, "index">>] # Absent
    BY <1>1, <1>3, <1>4, <2>2, <2>3, <2>4 DEF File
  <2>6. \A x \in Opener : Behind(pc'[x], file'[x]) => disk'[<<s, "index">>] # Absent
    BY <1>1, <1>3, <1>4, <2>5 DEF Anchored, IndexedFirst
  <2>7. ASSUME NEW k \in Key, disk'[<<k, "sidecar">>] # Absent
        PROVE  disk'[<<s, "index">>] # Absent
    <3>1. <<k, "sidecar">> \in Slot
      BY DEF Slot
    <3>2. CASE <<k, "sidecar">> = l
      BY <1>2, <1>3, <1>4, <2>2, <3>2
    <3>3. CASE <<k, "sidecar">> # l
      BY <1>2, <1>3, <1>4, <2>7, <3>1, <3>3 DEF Anchored, IndexedFirst
    <3>. QED
      BY <3>2, <3>3
  <2>. QED
    BY <2>6, <2>7 DEF IndexedFirst
<1>7. \A t \in Trio : disk'[Triple(s, m, t)] = IF t = f THEN r ELSE disk[Triple(s, m, t)]
  BY <1>2, <1>3
<1>8. CASE Fresh(s, m, g)
  <2>1. \A k \in Key, t \in {"manifest", "graph"} : disk'[<<k, t>>] # Absent => k = KeyOf[m]
    <3>. SUFFICES ASSUME NEW k \in Key, NEW t \in {"manifest", "graph"}, disk'[<<k, t>>] # Absent
                  PROVE  k = KeyOf[m]
      OBVIOUS
    <3>1. <<k, t>> \in Slot
      BY DEF Slot
    <3>2. CASE <<k, t>> = l
      <4>1. f = t /\ f \in Trio
        BY <1>2, <3>2 DEF Trio
      <4>. QED
        BY <1>2, <3>2, <4>1 DEF Triple
    <3>3. CASE <<k, t>> # l
      BY <1>2, <1>8, <3>1, <3>3 DEF Fresh
    <3>. QED
      BY <3>2, <3>3
  <2>2. \A t \in Trio : disk'[Triple(s, m, t)].state = "full" =>
                          disk'[Triple(s, m, t)] = Full(Wanted(m, g, t))
    BY <1>2, <1>7, <1>8 DEF Fresh
  <2>3. \A x \in Opener : pc'[x] \in Writing /\ file'[x] \in {"graph", "index"} =>
                            disk'[Triple(s, m, "manifest")] # Absent
    <3>1. "manifest" \in Trio
      BY DEF Trio
    <3>2. pc'[o] \in Writing /\ file'[o] \in {"graph", "index"} =>
            f \in {"manifest", "graph", "index"}
      BY <1>1, <1>5 DEF Writing, File
    <3>3. f = "manifest" => disk'[Triple(s, m, "manifest")] # Absent
      BY <1>2, <1>7, <3>1
    <3>4. f \in {"graph", "index"} => disk'[Triple(s, m, "manifest")] # Absent
      BY <1>2, <1>3, <1>4, <1>8, <3>1 DEF Fresh
    <3>. QED
      BY <1>1, <1>3, <1>4, <1>8, <3>1, <3>2, <3>3, <3>4 DEF Fresh
  <2>4. ASSUME \E t \in Trio : disk'[Triple(s, m, t)] # Absent, NEW t \in Trio
        PROVE  \/ disk'[Triple(s, m, t)].state = "full"
               \/ \E x \in Opener : Owed(pc'[x], file'[x], t)
    <3>1. CASE \A u \in Trio : disk[Triple(s, m, u)] = Absent
      <4>1. f = "manifest"
        <5>1. f \in Trio
          BY <1>7, <2>4, <3>1
        <5>2. f \notin {"graph", "index"}
          BY <1>2, <1>8, <3>1 DEF Fresh, Trio
        <5>. QED
          BY <5>1, <5>2 DEF Trio
      <4>2. CASE Truncate(o)
        BY <1>5, <4>1, <4>2 DEF Owed, Writing
      <4>3. CASE Fill(o)
        <5>1. t = "manifest" => disk'[Triple(s, m, t)].state = "full"
          BY <1>2, <1>7, <4>1, <4>3 DEF Full, Trio
        <5>2. t # "manifest" => Owed(pc'[o], file'[o], t)
          BY <1>5, <4>1, <4>3 DEF Owed, Writing, Trio
        <5>. QED
          BY <5>1, <5>2
      <4>. QED
        BY <4>2, <4>3
    <3>2. CASE \E u \in Trio : disk[Triple(s, m, u)] # Absent
      <4>1. \/ disk[Triple(s, m, t)].state = "full"
            \/ \E x \in Opener : Owed(pc[x], file[x], t)
        BY <1>8, <3>2 DEF Fresh
      <4>2. CASE t = f /\ Truncate(o)
        BY <1>5, <4>2 DEF Owed, Writing, Trio
      <4>3. CASE t = f /\ Fill(o)
        BY <1>2, <1>7, <4>3 DEF Full
      <4>4. CASE t # f
        <5>1. disk'[Triple(s, m, t)] = disk[Triple(s, m, t)]
          BY <1>7, <4>4
        <5>2. Owed(pc[o], f, t) => Owed(pc'[o], file'[o], t)
          BY <1>5, <4>4 DEF Owed, Writing, Trio
        <5>. QED
          BY <1>1, <4>1, <5>1, <5>2
      <4>. QED
        BY <4>2, <4>3, <4>4
    <3>. QED
      BY <3>1, <3>2
  <2>. QED
    BY <1>1, <1>6, <1>8, <2>1, <2>2, <2>3, <2>4 DEF Fresh
<1>9. CASE Fixed(s, m, g)
  <2>1. f \notin Trio
    BY <1>2, <1>9 DEF Fixed, Pending, Trio
  <2>2. \A t \in Trio : disk'[Triple(s, m, t)] = Full(Wanted(m, g, t))
    BY <1>7, <1>9, <2>1 DEF Fixed
  <2>3. pc'[o] \notin {"fetch_manifest", "fetch_graph"} /\ ~Pending(pc'[o], file'[o])
    BY <1>1, <1>5, <2>1 DEF Pending, Trio, Writing, File
  <2>. QED
    BY <1>1, <1>6, <1>9, <2>2, <2>3 DEF Fixed
<1>. QED
  BY <1>6, <1>8, <1>9 DEF Anchored

\* Replacing an artifact while nobody opens: what is cached completely stays in use,
\* and otherwise nothing is cached at all.
LEMMA RepublishKept ==
  ASSUME OpenInv, Quiet, NEW s, Source = {s}, NEW m \in Content, NEW g \in Content,
         Anchored(s, m, g), NEW a \in Artifact, NEW c \in Content, Republish(s, a, c)
  PROVE  \E n, h \in Content : Anchored(s, n, h)'
<1>. USE Names, OpenAssumption
<1>1. /\ \A o \in Opener : pc[o] \in Finished /\ pc[o] \in Where
      /\ UNCHANGED <<disk, pc, src, key, meta, have, hit, file>>
      /\ remote'[s] \in [Artifact -> Content] /\ s \in Source
  BY DEF Republish, openers, OpenInv, TypeOK
<1>2. ASSUME NEW n, NEW h, NEW o \in Opener PROVE OpenerKept(s, n, h, o)'
  BY <1>1 DEF Anchored, OpenerKept, Kept
<1>3. IndexedFirst(s)'
  BY <1>1 DEF Anchored, IndexedFirst
<1>4. CASE Fixed(s, m, g)
  <2>1. Fixed(s, m, g)' /\ FilesKept(m, g)'
    BY <1>1, <1>4 DEF Anchored, Fixed, FilesKept
  <2>. QED
    BY <1>2, <1>3, <2>1 DEF Anchored
<1>5. CASE Fresh(s, m, g) /\ \E f \in Trio : disk[Triple(s, m, f)] # Absent
  <2>1. \A o \in Opener, f \in Trio : ~Owed(pc[o], file[o], f)
    BY <1>1 DEF Owed, Writing, Finished
  <2>2. \A f \in Trio : disk[Triple(s, m, f)] = Full(Wanted(m, g, f))
    BY <1>5, <2>1 DEF Fresh
  <2>3. Fixed(s, m, g)' /\ FilesKept(m, g)'
    BY <1>1, <2>2 DEF Anchored, Fixed, FilesKept, Pending, Writing, Finished
  <2>. QED
    BY <1>2, <1>3, <2>3 DEF Anchored
<1>6. CASE Fresh(s, m, g) /\ \A f \in Trio : disk[Triple(s, m, f)] = Absent
  <2>1. PICK n \in Content, h \in Content : n = remote'[s].manifest /\ h = remote'[s].graph
    BY <1>1
  <2>2. disk[<<s, "index">>] = Absent
    BY <1>6 DEF Triple, Trio
  <2>3. disk[<<KeyOf[m], "manifest">>] = Absent /\ disk[<<KeyOf[m], "graph">>] = Absent
    BY <1>6 DEF Triple, Trio
  <2>4. \A k \in Key, f \in {"manifest", "graph"} : disk[<<k, f>>] = Absent
    <3>1. ASSUME NEW k \in Key, NEW f \in {"manifest", "graph"} PROVE disk[<<k, f>>] = Absent
      <4>1. disk[<<k, f>>] # Absent => k = KeyOf[m]
        BY <1>6 DEF Fresh
      <4>. QED
        BY <2>3, <4>1
    <3>. QED
      BY <3>1
  <2>5. KeyOf[n] \in Key
    BY <2>1
  <2>6. \A f \in Trio : disk[Triple(s, n, f)] = Absent
    BY <2>2, <2>4, <2>5 DEF Triple, Trio
  <2>7. Absent.state # "full"
    BY DEF Absent
  <2>8. FilesKept(n, h)'
    <3>1. \A k \in Key : disk[<<k, "sidecar">>] = Absent
      BY <2>2 DEF Anchored, IndexedFirst
    <3>. QED
      BY <1>1, <2>7, <3>1 DEF Anchored, FilesKept
  <2>9. \A o \in Opener : pc[o] \notin Writing
    BY <1>1 DEF Writing, Finished
  <2>10. Fresh(s, n, h)'
    <3>1. /\ \A k \in Key, f \in {"manifest", "graph"} : disk'[<<k, f>>] = Absent
          /\ \A f \in Trio : disk'[Triple(s, n, f)] = Absent
          /\ \A o \in Opener : pc'[o] \notin Writing
      BY <1>1, <2>4, <2>6, <2>9
    <3>. QED
      BY <2>1, <2>7, <3>1 DEF Fresh
  <2>11. Anchored(s, n, h)'
    BY <1>2, <1>3, <2>8, <2>10 DEF Anchored
  <2>. QED
    BY <2>1, <2>11
<1>. QED
  BY <1>4, <1>5, <1>6 DEF Anchored

LEMMA InitRepublishInv ==
  ASSUME NEW s, Source = {s} PROVE Init => RepublishInv(s)
<1>. SUFFICES ASSUME Init PROVE RepublishInv(s)
  OBVIOUS
<1>. USE Names, OpenAssumption
<1>. DEFINE m == Published[s].manifest  g == Published[s].graph
<1>1. OpenInv /\ m \in Content /\ g \in Content /\ s \in Source /\ remote = Published
  BY InitOpenInv DEF Init
<1>2. /\ \A l \in Slot : disk[l] = Absent
      /\ \A o \in Opener : pc[o] = "idle"
  BY DEF Init
<1>3. Absent.state # "full"
  BY DEF Absent
<1>4. \A k \in Key : /\ <<k, "ids">> \in Slot /\ <<k, "sidecar">> \in Slot
                     /\ <<k, "manifest">> \in Slot /\ <<k, "graph">> \in Slot
  BY DEF Slot
<1>5. FilesKept(m, g)
  BY <1>2, <1>3, <1>4 DEF FilesKept
<1>6. IndexedFirst(s)
  BY <1>2, <1>4 DEF IndexedFirst, Behind, Settled, GraphRead, Writing, Late
<1>7. \A o \in Opener : OpenerKept(s, m, g, o)
  BY <1>2 DEF OpenerKept, Kept, Finished
<1>8. Fresh(s, m, g)
  <2>1. \A f \in Trio : disk[Triple(s, m, f)] = Absent
    BY <1>1, <1>2, TripleTyped
  <2>2. \A k \in Key, f \in {"manifest", "graph"} : disk[<<k, f>>] = Absent
    BY <1>2, <1>4
  <2>. QED
    BY <1>1, <1>2, <1>3, <2>1, <2>2 DEF Fresh, Writing
<1>. QED
  BY <1>1, <1>5, <1>6, <1>7, <1>8 DEF RepublishInv, Anchored

LEMMA NextRepublishInv ==
  ASSUME NEW s, Source = {s}, ~Loss, Quiet
  PROVE  RepublishInv(s) /\ [Next]_vars => RepublishInv(s)'
<1>. SUFFICES ASSUME RepublishInv(s), [Next]_vars PROVE RepublishInv(s)'
  OBVIOUS
<1>1. OpenInv /\ OpenInv'
  BY NextOpenInv DEF RepublishInv
<1>2. PICK m \in Content, g \in Content : Anchored(s, m, g)
  BY DEF RepublishInv
<1>3. ASSUME NEW o \in Opener, OthersStay(o), remote' = remote, OpenerKept(s, m, g, o)'
      PROVE  \A x \in Opener : OpenerKept(s, m, g, x)'
  BY <1>2, <1>3 DEF Anchored, OthersStay, OpenerKept
<1>4. ASSUME NEW o \in Opener, QuietStep(o) PROVE RepublishInv(s)'
  <2>1. OpenerKept(s, m, g, o)' /\ IndexedFirst(s)' /\ (Fresh(s, m, g)' \/ Fixed(s, m, g)')
    BY <1>1, <1>2, <1>4, QuietKept, QuietPhase
  <2>2. OthersStay(o) /\ remote' = remote /\ disk' = disk
    BY <1>1, <1>4, QuietOthers, QuietLeaves
  <2>3. FilesKept(m, g)'
    BY <1>2, <2>2 DEF Anchored, FilesKept
  <2>4. \A x \in Opener : OpenerKept(s, m, g, x)'
    BY <1>3, <2>1, <2>2
  <2>. QED
    BY <1>1, <2>1, <2>3, <2>4 DEF RepublishInv, Anchored
<1>5. ASSUME NEW o \in Opener, Truncate(o) \/ Fill(o) PROVE RepublishInv(s)'
  <2>1. /\ OpenerKept(s, m, g, o)' /\ FilesKept(m, g)'
        /\ IndexedFirst(s)' /\ (Fresh(s, m, g)' \/ Fixed(s, m, g)')
    BY <1>1, <1>2, <1>5, WriteKept, WritePhase
  <2>2. OthersStay(o) /\ remote' = remote
    BY <1>1, <1>5 DEF Truncate, Fill, Goto, AfterWrite, OthersStay, OpenInv, TypeOK
  <2>3. \A x \in Opener : OpenerKept(s, m, g, x)'
    BY <1>3, <2>1, <2>2
  <2>. QED
    BY <1>1, <2>1, <2>3 DEF RepublishInv, Anchored
<1>6. ASSUME NEW l \in Slot, Evict(l) PROVE FALSE
  BY <1>6 DEF Evict
<1>7. ASSUME NEW t \in Source, NEW a \in Artifact, NEW c \in Content, Republish(t, a, c)
      PROVE  RepublishInv(s)'
  <2>1. t = s
    OBVIOUS
  <2>. QED
    BY <1>1, <1>2, <1>7, <2>1, RepublishKept DEF RepublishInv
<1>8. CASE UNCHANGED vars
  <2>1. Anchored(s, m, g)'
    BY <1>2, <1>8 DEF vars, openers, Anchored, OpenerKept, FilesKept, IndexedFirst, Fresh, Fixed
  <2>. QED
    BY <1>1, <2>1 DEF RepublishInv
<1>. QED
  BY <1>4, <1>5, <1>6, <1>7, <1>8 DEF Next, Step, QuietStep

\* One dataset whose artifacts are replaced one by one between opens, without loss
\* of cached files: however old the cached manifest and graph have become, the
\* parts of an opened session agree (open_remote_with_stats, session.rs).
\* MCRemoteOpenEvicted shows that a lost file breaks it.
THEOREM RepublishedSessionsConsistent ==
  ASSUME NEW s, Source = {s}, ~Loss, Quiet PROVE Spec => []SessionConsistent
<1>1. RepublishInv(s) => SessionConsistent
  BY DEF RepublishInv, Anchored, OpenerKept, Kept, SessionConsistent
<1>. QED
  BY <1>1, InitRepublishInv, NextRepublishInv, PTL DEF Spec

=============================================================================
