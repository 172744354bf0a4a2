---------------------------- MODULE RemoteOpen ----------------------------
(***************************************************************************)
(* Opening a remote dataset (DatasetSession::open_remote_with_stats in     *)
(* crates/core/src/session.rs) with its persistent metadata cache          *)
(* (RemoteArtifactCache in crates/core/src/cache.rs, the id index in       *)
(* crates/core/src/reader/id_index.rs and catchment_store.rs).             *)
(*                                                                         *)
(* An opener is one process (or thread) inside open_remote; all of them    *)
(* share the cache directory.  The content of an artifact stands for its   *)
(* bytes and for its ETag and size: UnitsOf is what the referential checks *)
(* compare (ids, levels, row count), KeyOf the (fabric_name,               *)
(* adapter_version) pair a manifest names, which is the cache directory.   *)
(***************************************************************************)
EXTENDS Naturals

CONSTANTS
  Opener,        \* processes that open datasets
  Source,        \* dataset URLs
  Content,       \* versions of artifacts
  UnitsOf,       \* the units each content describes
  Key,           \* (fabric_name, adapter_version) pairs
  KeyOf,         \* the pair a manifest names
  Published,     \* what each source holds at first
  Tagged,        \* the sources whose store answers with ETags
  None,          \* no content, no metadata
  Loss,          \* may cached files be lost: evicted, or torn by a crash
  Quiet,         \* is republishing confined to moments without an open
  MaxOpens,      \* bound: opens in all
  MaxRepublish   \* bound: times an artifact is replaced

\* The artifacts whose metadata the validation sidecar attests.
Artifact == {"manifest", "graph", "catchments", "snap"}

\* What a session holds: "catchments" is the id index, "levels" the id and
\* level columns when they were read.
Part == Artifact \cup {"levels"}

ASSUME OpenAssumption ==
  /\ None \notin Content
  /\ Source # {} /\ Key # {}
  /\ KeyOf \in [Content -> Key]
  /\ Published \in [Source -> [Artifact -> Content]]
  /\ Tagged \subseteq Source
  /\ Loss \in BOOLEAN /\ Quiet \in BOOLEAN
  /\ MaxOpens \in Nat /\ MaxRepublish \in Nat

VARIABLES
  remote,      \* the artifacts each source holds now
  republished, \* how often one was replaced
  disk,        \* the cache directory
  pc,          \* where each opener is inside open_remote
  src,         \* the URL it opens
  key,         \* the cache directory it settled on
  meta,        \* the metadata its HEAD requests returned
  have,        \* the parts of the session read so far
  hit,         \* validation_hit
  file,        \* the cache file being written
  opens        \* number of opens so far

openers == <<pc, src, key, meta, have, hit, file, opens>>

vars == <<remote, republished, disk, openers>>

(***************************************************************************)
(* The cache directory: one source index file per URL, and per key the     *)
(* cached manifest and graph, the id index and the validation sidecar.     *)
(* std::fs::write truncates, then writes: what a reader or a crash finds   *)
(* in between is "torn", and no parser of these files accepts it.          *)
(***************************************************************************)
File == {"manifest", "graph", "index", "ids", "sidecar"}

Slot == (Source \X {"index"}) \cup (Key \X (File \ {"index"}))

Absent == [state |-> "absent", data |-> None]
Torn == [state |-> "torn", data |-> None]
Full(d) == [state |-> "full", data |-> d]

NoMeta == [a \in Artifact |-> None]
NoPart == [p \in Part |-> None]

IdIndex == [etag : Content, rows : Content]

Where == {"idle", "head_manifest", "head_graph", "read_index", "read_manifest",
          "read_graph", "fetch_manifest", "fetch_graph", "truncate", "fill",
          "head_catchments", "read_ids", "head_snap", "match", "open_snap",
          "validate", "ok", "invalid", "err"}

TypeOK ==
  /\ remote \in [Source -> [Artifact -> Content]]
  /\ republished \in 0 .. MaxRepublish
  /\ disk \in [Slot -> [state : {"absent", "torn", "full"},
                        data : {None} \cup Key \cup Content \cup IdIndex
                               \cup [Artifact -> Content]]]
  /\ pc \in [Opener -> Where]
  /\ src \in [Opener -> Source]
  /\ key \in [Opener -> Key]
  /\ meta \in [Opener -> [Artifact -> Content \cup {None}]]
  /\ have \in [Opener -> [Part -> Content \cup {None}]]
  /\ hit \in [Opener -> BOOLEAN]
  /\ file \in [Opener -> File]
  /\ opens \in 0 .. MaxOpens

Init ==
  /\ remote = Published
  /\ republished = 0
  /\ disk = [l \in Slot |-> Absent]
  /\ pc = [o \in Opener |-> "idle"]
  /\ src = [o \in Opener |-> CHOOSE s \in Source : TRUE]
  /\ key = [o \in Opener |-> CHOOSE k \in Key : TRUE]
  /\ meta = [o \in Opener |-> NoMeta]
  /\ have = [o \in Opener |-> NoPart]
  /\ hit = [o \in Opener |-> FALSE]
  /\ file = [o \in Opener |-> "index"]
  /\ opens = 0

Finished == {"idle", "ok", "invalid", "err"}

-----------------------------------------------------------------------------

Goto(o, from, to) ==
  /\ pc[o] = from
  /\ pc' = [pc EXCEPT ![o] = to]

\* Enter the two steps of std::fs::write for one cache file.
StartWrite(o, from, f) ==
  /\ Goto(o, from, "truncate")
  /\ file' = [file EXCEPT ![o] = f]

SlotOf(o, f) == IF f = "index" THEN <<src[o], f>> ELSE <<key[o], f>>

\* The open ends without a session; what it had read is dropped.
Abandon(o, to) ==
  /\ pc' = [pc EXCEPT ![o] = to]
  /\ meta' = [meta EXCEPT ![o] = NoMeta]
  /\ have' = [have EXCEPT ![o] = NoPart]
  /\ hit' = [hit EXCEPT ![o] = FALSE]

Read(o, f) == disk[SlotOf(o, f)]

RemoteOf(o, a) == remote[src[o]][a]

Take(o, p, c) == have' = [have EXCEPT ![o][p] = c]

Open(o, s) ==
  /\ pc[o] \in Finished
  /\ opens < MaxOpens
  /\ pc' = [pc EXCEPT ![o] = "head_manifest"]
  /\ src' = [src EXCEPT ![o] = s]
  /\ meta' = [meta EXCEPT ![o] = NoMeta]
  /\ have' = [have EXCEPT ![o] = NoPart]
  /\ hit' = [hit EXCEPT ![o] = FALSE]
  /\ opens' = opens + 1
  /\ UNCHANGED <<remote, republished, disk, key, file>>

\* remote_artifact_meta: a failed HEAD, or one without an ETag, is no metadata
\* and not an error.
HeadOptional(o, a, from, to) ==
  /\ Goto(o, from, to)
  /\ \E m \in {None} \cup (IF src[o] \in Tagged THEN {RemoteOf(o, a)} ELSE {}) :
       meta' = [meta EXCEPT ![o][a] = m]
  /\ UNCHANGED <<remote, republished, disk, src, key, have, hit, file, opens>>

HeadManifest(o) == HeadOptional(o, "manifest", "head_manifest", "head_graph")

HeadGraph(o) == HeadOptional(o, "graph", "head_graph", "read_index")

\* A HEAD whose failure fails the open (see Fails).
HeadRequired(o, a, from, to) ==
  /\ Goto(o, from, to)
  /\ meta' = [meta EXCEPT ![o][a] =
                IF src[o] \in Tagged THEN RemoteOf(o, a) ELSE None]
  /\ UNCHANGED <<remote, republished, disk, src, key, have, hit, file, opens>>

-----------------------------------------------------------------------------
(* RemoteArtifactCache::read_entry_for_source and read_entry: the index,   *)
(* then the manifest, then the graph; anything unreadable is a miss.       *)

\* Mutant: the index file is trusted without comparing its source.
ReadIndexAnySource(o) ==
  /\ \/ \E s \in Source :
          /\ disk[<<s, "index">>].state = "full"
          /\ Goto(o, "read_index", "read_manifest")
          /\ key' = [key EXCEPT ![o] = disk[<<s, "index">>].data]
     \/ /\ Read(o, "index").state # "full"
        /\ Goto(o, "read_index", "fetch_manifest")
        /\ UNCHANGED key
  /\ UNCHANGED <<remote, republished, disk, src, meta, have, hit, file, opens>>

ReadIndex(o) ==
  /\ \/ /\ Read(o, "index").state = "full"
        /\ Goto(o, "read_index", "read_manifest")
        /\ key' = [key EXCEPT ![o] = Read(o, "index").data]
     \/ /\ Read(o, "index").state # "full"
        /\ Goto(o, "read_index", "fetch_manifest")
        /\ UNCHANGED key
  /\ UNCHANGED <<remote, republished, disk, src, meta, have, hit, file, opens>>

\* Both files must exist; the manifest must parse and name its directory.
ReadCachedManifest(o) ==
  LET m == Read(o, "manifest")
      usable == /\ m.state = "full"
                /\ KeyOf[m.data] = key[o]
                /\ Read(o, "graph").state # "absent"
  IN  /\ \/ /\ usable
            /\ Goto(o, "read_manifest", "read_graph")
            /\ Take(o, "manifest", m.data)
         \/ /\ ~usable
            /\ Goto(o, "read_manifest", "fetch_manifest")
            /\ UNCHANGED have
      /\ UNCHANGED <<remote, republished, disk, src, key, meta, hit, file, opens>>

ReadCachedGraph(o) ==
  LET g == Read(o, "graph")
  IN  /\ \/ /\ g.state = "full"
            /\ Goto(o, "read_graph", "head_catchments")
            /\ Take(o, "graph", g.data)
         \/ /\ g.state # "full"
            /\ Goto(o, "read_graph", "fetch_manifest")
            /\ Take(o, "manifest", None)
      /\ UNCHANGED <<remote, republished, disk, src, key, meta, hit, file, opens>>

-----------------------------------------------------------------------------
(* A miss: read_remote_artifact twice, then write_manifest_graph.          *)

FetchManifest(o) ==
  /\ Goto(o, "fetch_manifest", "fetch_graph")
  /\ Take(o, "manifest", RemoteOf(o, "manifest"))
  /\ key' = [key EXCEPT ![o] = KeyOf[RemoteOf(o, "manifest")]]
  /\ UNCHANGED <<remote, republished, disk, src, meta, hit, file, opens>>

FetchGraph(o) ==
  /\ StartWrite(o, "fetch_graph", "manifest")
  /\ Take(o, "graph", RemoteOf(o, "graph"))
  /\ UNCHANGED <<remote, republished, disk, src, key, meta, hit, opens>>

\* What is written to each file, and what the opener does after it.
Payload(o, f) ==
  CASE f = "manifest" -> have[o].manifest
    [] f = "graph"    -> have[o].graph
    [] f = "index"    -> key[o]
    [] f = "ids"      -> [etag |-> meta[o].catchments, rows |-> have[o].catchments]
    [] f = "sidecar"  -> meta[o]

AfterWrite(o, f) ==
  /\ pc' = [pc EXCEPT ![o] = CASE f \in {"manifest", "graph"} -> "truncate"
                               [] f = "index"   -> "head_catchments"
                               [] f = "ids"     -> "head_snap"
                               [] f = "sidecar" -> "ok"]
  /\ file' = [file EXCEPT ![o] = CASE f = "manifest" -> "graph"
                                   [] f = "graph"    -> "index"
                                   [] OTHER          -> f]

Truncate(o) ==
  /\ Goto(o, "truncate", "fill")
  /\ disk' = [disk EXCEPT ![SlotOf(o, file[o])] = Torn]
  /\ UNCHANGED <<remote, republished, src, key, meta, have, hit, file, opens>>

\* If another opener filled the file since this one truncated it, a shorter
\* text overwrites only the head of the longer one.
Fill(o) ==
  LET l == SlotOf(o, file[o])
      new == Full(Payload(o, file[o]))
      overlaid == disk[l].state = "full" /\ disk[l] # new
  IN  /\ pc[o] = "fill"
      /\ AfterWrite(o, file[o])
      /\ \E r \in {new} \cup (IF overlaid THEN {Torn} ELSE {}) :
           disk' = [disk EXCEPT ![l] = r]
      /\ UNCHANGED <<remote, republished, src, key, meta, have, hit, opens>>

\* The write fails: an error for the manifest, the graph and the source index,
\* a warning for the id index and the sidecar.
WriteFails(o) ==
  /\ Loss
  /\ pc[o] \in {"truncate", "fill"}
  /\ IF file[o] \in {"ids", "sidecar"}
       THEN AfterWrite(o, file[o]) /\ UNCHANGED <<meta, have, hit>>
       ELSE Abandon(o, "err") /\ UNCHANGED file
  /\ UNCHANGED <<remote, republished, disk, src, key, opens>>

-----------------------------------------------------------------------------
(* CatchmentStore::open_object and read_or_build_id_index.                 *)

HeadCatchments(o) ==
  HeadRequired(o, "catchments", "head_catchments", "read_ids")

IdsMatch(o) ==
  /\ meta[o].catchments # None
  /\ Read(o, "ids").state = "full"
  /\ Read(o, "ids").data.etag = meta[o].catchments

LoadIds(o) ==
  /\ IdsMatch(o)
  /\ Goto(o, "read_ids", "head_snap")
  /\ Take(o, "catchments", Read(o, "ids").data.rows)
  /\ UNCHANGED <<remote, republished, disk, src, key, meta, hit, file, opens>>

\* With an ETag the index is built with the levels and written, without one
\* only the ids are read.
BuildIds(o) ==
  LET c == RemoteOf(o, "catchments")
  IN  /\ pc[o] = "read_ids" /\ ~IdsMatch(o)
      /\ \/ /\ meta[o].catchments # None
            /\ StartWrite(o, "read_ids", "ids")
            /\ have' = [have EXCEPT ![o].catchments = c, ![o].levels = c]
         \/ /\ meta[o].catchments = None
            /\ Goto(o, "read_ids", "head_snap")
            /\ Take(o, "catchments", c)
            /\ UNCHANGED file
      /\ UNCHANGED <<remote, republished, disk, src, key, meta, hit, opens>>

-----------------------------------------------------------------------------
(* The validation sidecar, the snap store and the referential checks.      *)

HeadSnap(o) == HeadRequired(o, "snap", "head_snap", "match")

AllMeta(o) == \A a \in Artifact : meta[o][a] # None

\* Mutant: the sidecar is compared on the cached artifacts only.
MatchSidecarPartly(o) ==
  /\ Goto(o, "match", "open_snap")
  /\ hit' = [hit EXCEPT ![o] =
               /\ AllMeta(o)
               /\ Read(o, "sidecar").state = "full"
               /\ \A a \in {"manifest", "graph"} :
                    Read(o, "sidecar").data[a] = meta[o][a]]
  /\ UNCHANGED <<remote, republished, disk, src, key, meta, have, file, opens>>

\* validation_sidecar_matches
MatchSidecar(o) ==
  /\ Goto(o, "match", "open_snap")
  /\ hit' = [hit EXCEPT ![o] = /\ AllMeta(o)
                               /\ Read(o, "sidecar").state = "full"
                               /\ Read(o, "sidecar").data = meta[o]]
  /\ UNCHANGED <<remote, republished, disk, src, key, meta, have, file, opens>>

\* Mutant: the sidecar is written as soon as every store is open.
OpenSnapAttests(o) ==
  /\ IF AllMeta(o) THEN StartWrite(o, "open_snap", "sidecar")
                   ELSE Goto(o, "open_snap", "validate") /\ UNCHANGED file
  /\ Take(o, "snap", RemoteOf(o, "snap"))
  /\ UNCHANGED <<remote, republished, disk, src, key, meta, hit, opens>>

OpenSnap(o) ==
  /\ Goto(o, "open_snap", IF hit[o] THEN "ok" ELSE "validate")
  /\ Take(o, "snap", RemoteOf(o, "snap"))
  /\ UNCHANGED <<remote, republished, disk, src, key, meta, hit, file, opens>>

\* Do contents agree on the units: same ids, same levels, same count.
Agree(cs) == \A c, d \in cs : UnitsOf[c] = UnitsOf[d]

Levels(o) == IF have[o].levels = None THEN RemoteOf(o, "catchments")
                                      ELSE have[o].levels

\* Mutant: the graph's levels are not compared.
ValidateWithoutGraph(o) ==
  LET good == Agree({have[o][a] : a \in Artifact \ {"graph"}} \cup {Levels(o)})
  IN  /\ pc[o] = "validate"
      /\ \/ good /\ AllMeta(o) /\ StartWrite(o, "validate", "sidecar")
         \/ good /\ ~AllMeta(o) /\ Goto(o, "validate", "ok") /\ UNCHANGED file
         \/ ~good /\ Goto(o, "validate", "invalid") /\ UNCHANGED file
      /\ Take(o, "levels", Levels(o))
      /\ UNCHANGED <<remote, republished, disk, src, key, meta, hit, opens>>

\* validate_graph_catchments and validate_snap_refs; then the sidecar is
\* written when every HEAD gave metadata.
Validate(o) ==
  LET good == Agree({have[o][a] : a \in Artifact} \cup {Levels(o)})
  IN  /\ pc[o] = "validate"
      /\ \/ good /\ AllMeta(o) /\ StartWrite(o, "validate", "sidecar")
         \/ good /\ ~AllMeta(o) /\ Goto(o, "validate", "ok") /\ UNCHANGED file
         \/ ~good /\ Goto(o, "validate", "invalid") /\ UNCHANGED file
      /\ Take(o, "levels", Levels(o))
      /\ UNCHANGED <<remote, republished, disk, src, key, meta, hit, opens>>

\* A `?` on a remote request, a parse or the read of the source index.
Fails(o) ==
  /\ pc[o] \in {"read_index", "fetch_manifest", "fetch_graph",
                "head_catchments", "read_ids", "head_snap", "open_snap",
                "validate"}
  /\ Abandon(o, "err")
  /\ UNCHANGED <<remote, republished, disk, src, key, file, opens>>

-----------------------------------------------------------------------------
(* The world around it. *)

\* A publisher replaces one artifact.
Republish(s, a, c) ==
  /\ republished < MaxRepublish
  /\ Quiet => \A o \in Opener : pc[o] \in Finished
  /\ c # remote[s][a]
  /\ remote' = [remote EXCEPT ![s][a] = c]
  /\ republished' = republished + 1
  /\ UNCHANGED <<disk, openers>>

\* Someone cleans the cache directory, wholly or partly.
Evict(l) ==
  /\ Loss
  /\ disk[l] # Absent
  /\ disk' = [disk EXCEPT ![l] = Absent]
  /\ UNCHANGED <<remote, republished, openers>>

\* The process dies; a file it was writing stays torn.
Crash(o) ==
  /\ Loss
  /\ pc[o] \notin Finished
  /\ Abandon(o, "idle")
  /\ UNCHANGED <<remote, republished, disk, src, key, file, opens>>

Step(o) ==
  \/ HeadManifest(o) \/ HeadGraph(o)
  \/ ReadIndex(o) \/ ReadCachedManifest(o) \/ ReadCachedGraph(o)
  \/ FetchManifest(o) \/ FetchGraph(o)
  \/ Truncate(o) \/ Fill(o) \/ WriteFails(o)
  \/ HeadCatchments(o) \/ LoadIds(o) \/ BuildIds(o)
  \/ HeadSnap(o) \/ MatchSidecar(o) \/ OpenSnap(o) \/ Validate(o)
  \/ Fails(o)

Next ==
  \/ \E o \in Opener : \/ \E s \in Source : Open(o, s)
                       \/ Step(o) \/ Crash(o)
  \/ \E l \in Slot : Evict(l)
  \/ \E s \in Source, a \in Artifact, c \in Content : Republish(s, a, c)

Spec == Init /\ [][Next]_vars

-----------------------------------------------------------------------------
(* Properties. *)

\* The parts of an opened session agree on the units they describe, whether
\* the referential checks ran or the sidecar let the open skip them.
SessionConsistent ==
  \A o \in Opener :
    pc[o] = "ok" => Agree({have[o][a] : a \in Artifact})

\* A sidecar vouches only for artifacts that really agree, as long as nothing was
\* republished, whatever is lost and whoever else writes the directory.
SidecarHonest ==
  republished = 0 =>
    \A l \in DOMAIN disk :
      l[2] = "sidecar" /\ disk[l].state = "full" =>
        Agree({disk[l].data[a] : a \in Artifact})

\* The cache is invisible as long as nothing was republished: an opened session
\* holds the artifacts of the URL it was opened from, and of no other source.
SessionIsRemote ==
  republished = 0 =>
    \A o \in Opener :
      pc[o] = "ok" => \A a \in Artifact : have[o][a] = RemoteOf(o, a)

\* No false alarm as long as nothing was republished: an open reports a
\* referential error only for a dataset that has one.
InvalidIsReal ==
  republished = 0 =>
    \A o \in Opener :
      pc[o] = "invalid" => ~Agree({RemoteOf(o, a) : a \in Artifact})

=============================================================================
