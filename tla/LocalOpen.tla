------------------------------ MODULE LocalOpen ------------------------------
(***************************************************************************)
(* Opening a dataset: which kind of source the string names                *)
(* (source.rs), what the manifest declares (reader/manifest.rs), the graph *)
(* (reader/graph.rs), and the checks of DatasetSession::open_path          *)
(* (session.rs) up to the session it returns or the first error.           *)
(*                                                                         *)
(* The files are data chosen at the start.  Strings are classes of strings *)
(* that the code tells apart: a manifest field is "ok", "missing" or       *)
(* "bad", a path is a name with the kinds of its components.  The graph    *)
(* is given as the Parquet reader hands it over: an upstream list is its   *)
(* value buffer, and the null bits of its elements.  A remote source takes *)
(* the same manifest and checks the same paths; the rest of its open is    *)
(* module RemoteOpen.                                                      *)
(***************************************************************************)
EXTENDS Naturals, Sequences, FiniteSets, FiniteSetsExt

CONSTANTS
  Dataset,    \* the datasets and the strings that name them
  MaxLevel,   \* i16::MAX
  GroupSize,  \* rows of a row group of graph.parquet
  None,       \* no error, no level
  Null        \* a null value of a column

VARIABLES
  ds,     \* the source string and the files it names
  pc,     \* how far the open has come
  aux,    \* AuxDeclarations: the declarations by class, in manifest order
  graph,  \* DrainageGraph
  levels, \* catchment_levels, kept until the snap references are checked
  err,    \* the error returned
  probe   \* levels_from_row_group_statistics, when it was asked

vars == <<ds, pc, aux, graph, levels, err, probe>>

Seen(s) == {s[i] : i \in 1 .. Len(s)}

IsList(s) == s \in Seq(Seen(s))

\* BTreeMap order of the artifact keys.
KeyOrder == <<"a", "flow_acc", "flow_dir", "snap">>

Fields == <<"format_version", "fabric_name", "crs", "topology", "bbox",
            "unit_count", "created_at", "adapter_version">>

Schemas == {"missing", "malformed", "unreadable", "d8", "snap", "generic"}

\* A source string: its form and, for a URL, what its parts are.
IsSource(s) ==
  /\ s.form \in {"plain", "drive", "unc", "url", "broken"}
  /\ {s.path, s.config, s.bucket} \subseteq BOOLEAN

IsEntry(e) ==
  /\ e.schema \in Schemas
  /\ DOMAIN e.artifacts \subseteq Seen(KeyOrder)
  /\ \A k \in DOMAIN e.artifacts :
       e.artifacts[k].parts \in (SUBSET {"name", "parent", "root", "prefix"}) \ {{}}
  /\ {e.meta.object, e.meta.good} \subseteq BOOLEAN /\ e.meta.levels \in Seq(Nat)

IsManifest(m) ==
  /\ m.shape \in BOOLEAN
  /\ \A i \in 1 .. Len(Fields) : m[Fields[i]] \in {"ok", "missing", "bad"}
  /\ IsList(m.aux) /\ \A e \in Seen(m.aux) : IsEntry(e)

\* r.ups are the values of the list's buffer.  At the positions in r.nulls the
\* file has a null, and the buffer whatever the decoder left there: a zero or an
\* id.  g.domain: DrainageGraph::new has nothing against the rows but duplicates.
IsGraph(g) ==
  /\ g.schema \in {"ok", "column", "bbox"} /\ g.domain \in BOOLEAN /\ IsList(g.rows)
  /\ \A r \in Seen(g.rows) :
       /\ {r.id, r.level} \subseteq Nat \cup {Null}
       /\ r.ups # Null => r.ups \in Seq(Nat) /\ r.nulls \subseteq 1 .. Len(r.ups)

IsDataset(d) ==
  /\ IsSource(d.source) /\ d.dir \in BOOLEAN
  /\ IsManifest(d.manifest) /\ IsGraph(d.graph) /\ IsList(d.catchments)
  /\ \A f \in DOMAIN d.snaps : d.snaps[f].readable \in BOOLEAN /\ IsList(d.snaps[f].refs)

Errors == {"InvalidDatasetSource", "UnsupportedDatasetSource", "DatasetSourcePath", "ObjectStoreConfig",
           "RootNotFound", "LegacyGraphArrowRejected", "RequiredArtifactMissing",
           "ManifestJsonParse", "ManifestFieldMissing", "ManifestFieldInvalid", "UnsupportedFormatVersion",
           "UnsupportedCrs", "ManifestDomain", "AuxiliaryDeclParse", "SnapAuxMetadataInvalid",
           "AuxiliaryPathEscape", "AuxiliaryArtifactMissing", "GraphSchema", "GraphMissingBboxColumn",
           "InvalidRow", "GraphReferentialIntegrity", "GraphDomain", "UnitCountMismatch", "ParquetSchema",
           "SnapReferentialIntegrity"}

\* What the values of the constants are assumed to be.
OpenAssumption ==
  /\ None \notin Errors /\ Null \notin Nat /\ MaxLevel \in Nat
  /\ \A d \in Dataset : IsDataset(d)

\* The elements of s at the positions in P, in order.
Picked(s, P) ==
  LET kept[n \in 0 .. Len(s)] ==
        IF n = 0 THEN <<>> ELSE IF n \in P THEN Append(kept[n - 1], s[n]) ELSE kept[n - 1]
  IN  kept[Len(s)]

Init ==
  /\ ds \in Dataset
  /\ pc = "parse" /\ err = None /\ probe = None
  /\ aux = [d8 |-> <<>>, snap |-> <<>>, generic |-> <<>>, unreadable |-> <<>>]
  /\ graph = <<>> /\ levels = <<>>

-----------------------------------------------------------------------------
(* DatasetSource::parse. *)

\* parse_s3_url: the path must be an object-store path and the builder must
\* accept the configuration.
RemoteSource(s) ==
  IF ~s.path THEN "DatasetSourcePath"
  ELSE IF ~s.config THEN "ObjectStoreConfig"
  ELSE "Remote"

\* parse_account_r2_url.
AccountSource(s) ==
  IF s.host = "anonymous" \/ ~s.bucket THEN "InvalidDatasetSource" ELSE RemoteSource(s)

\* parse_public_r2_custom_domain_url: the bucket is fixed.
PublicSource(s) == RemoteSource(s)

\* parse_http_url.
HttpSource(s) ==
  CASE s.host = "none"                      -> "InvalidDatasetSource"
    [] s.host = "public"                    -> PublicSource(s)
    [] s.host \in {"account", "anonymous"}  -> AccountSource(s)
    [] OTHER                                -> "UnsupportedDatasetSource"

\* parse_url.
UrlSource(s) ==
  CASE s.scheme = "file" -> IF s.path THEN "Local" ELSE "InvalidDatasetSource"
    [] s.scheme = "s3"   -> RemoteSource(s)
    [] s.scheme = "http" -> HttpSource(s)
    [] OTHER             -> "UnsupportedDatasetSource"

\* A rooted drive path or a UNC path is local before any URL parsing; a string
\* with "://" that is no URL is refused, any other one is a local path.
Parse(s) ==
  CASE s.form \in {"drive", "unc"} -> "Local"
    [] s.form = "url"              -> UrlSource(s)
    [] s.form = "broken"           -> "InvalidDatasetSource"
    [] OTHER                       -> "Local"

Sources == {"Local", "Remote"}

-----------------------------------------------------------------------------
(* manifest.json. *)

\* The texts that only ManifestBuilder looks at, after the auxiliary entries.
Texts == {"fabric_name", "created_at", "adapter_version"}

FieldError(f, state) ==
  IF state = "ok" THEN None
  ELSE IF state = "missing" THEN "ManifestFieldMissing"
  ELSE CASE f = "format_version" -> "UnsupportedFormatVersion"
         [] f = "crs"            -> "UnsupportedCrs"
         [] f \in Texts          -> None
         [] OTHER                -> "ManifestFieldInvalid"

\* The first error that is not None of a sequence of checks.
FirstError(errors) ==
  LET bad == {i \in 1 .. Len(errors) : errors[i] # None}
  IN  IF bad = {} THEN None ELSE errors[Min(bad)]

FieldsError(m) ==
  FirstError([i \in 1 .. Len(Fields) |-> FieldError(Fields[i], m[Fields[i]])])

\* ManifestBuilder::new.
BuilderError(m) ==
  IF \E f \in Texts : m[f] = "bad" THEN "ManifestDomain" ELSE None

\* parse_d8_metadata: both rasters, an object with no other key, and metadata
\* D8RasterMetadataV2 accepts.
D8Error(e) ==
  IF /\ {"flow_dir", "flow_acc"} \subseteq DOMAIN e.artifacts
     /\ e.meta.object
     /\ e.meta.keys \subseteq {"crs", "flow_dir_encoding", "flow_acc_units"}
     /\ e.meta.good
  THEN None
  ELSE "AuxiliaryDeclParse"

SnapKeys == {"name", "description", "weight_semantics", "references_levels"}

\* parse_snap_metadata.
SnapError(e) ==
  IF "snap" \notin DOMAIN e.artifacts THEN "AuxiliaryDeclParse"
  ELSE IF /\ e.meta.object
          /\ SnapKeys \subseteq e.meta.keys
          /\ e.meta.good
          /\ e.meta.levels # <<>>
          /\ Seen(e.meta.levels) \subseteq 0 .. MaxLevel
       THEN None
       ELSE "SnapAuxMetadataInvalid"

\* parse_auxiliary: an entry without a schema or with one that is no schema name
\* is an error, except that an unknown name under hfx.aux. is only kept.
AuxError(e) ==
  IF e.schema = "unreadable" THEN None
  ELSE IF e.schema \in {"missing", "malformed"} \/ DOMAIN e.artifacts = {} THEN "AuxiliaryDeclParse"
  ELSE CASE e.schema = "d8"   -> D8Error(e)
         [] e.schema = "snap" -> SnapError(e)
         [] OTHER             -> None

\* build_manifest: the fields in order, then the entries, then the builder.
ManifestError(m) ==
  IF ~m.shape THEN "ManifestJsonParse"
  ELSE FirstError(<<FieldsError(m),
                    FirstError([i \in 1 .. Len(m.aux) |-> AuxError(m.aux[i])]),
                    BuilderError(m)>>)

OfSchema(m, schema) == Picked(m.aux, {i \in 1 .. Len(m.aux) : m.aux[i].schema = schema})

Classified(m) ==
  [d8 |-> OfSchema(m, "d8"), snap |-> OfSchema(m, "snap"),
   generic |-> OfSchema(m, "generic"), unreadable |-> OfSchema(m, "unreadable")]

-----------------------------------------------------------------------------
(* The paths of the declarations. *)

\* path_escapes_root: a component that is not a name, wherever it leads.
PathEscapesRoot(p) == p.parts \cap {"parent", "root", "prefix"} # {}

\* Mutant: a path is looked at only where its file can be.
ArtifactErrorWhenLocal(p, remote) ==
  IF remote THEN None
  ELSE IF PathEscapesRoot(p) THEN "AuxiliaryPathEscape"
  ELSE IF p.name \notin ds.files THEN "AuxiliaryArtifactMissing"
  ELSE None

\* validate_local_aux_artifact, validate_remote_aux_artifact.
ArtifactError(p, remote) ==
  IF PathEscapesRoot(p) THEN "AuxiliaryPathEscape"
  ELSE IF ~remote /\ p.name \notin ds.files THEN "AuxiliaryArtifactMissing"
  ELSE None

\* The rasters are checked in the order flow_dir, flow_acc.
D8Paths(e) == <<e.artifacts["flow_dir"], e.artifacts["flow_acc"]>>

SnapPaths(e) == <<e.artifacts["snap"]>>

GenericPaths(e) ==
  LET keys == Picked(KeyOrder, {i \in 1 .. Len(KeyOrder) : KeyOrder[i] \in DOMAIN e.artifacts})
  IN  [i \in 1 .. Len(keys) |-> e.artifacts[keys[i]]]

\* validate_local_aux_paths: D8 rasters, snap files, generic artifacts.  The
\* unreadable declarations are not looked at.
ArtifactsError(paths, remote) ==
  FirstError([j \in 1 .. Len(paths) |-> ArtifactError(paths[j], remote)])

AuxPathsError(remote) ==
  FirstError(
    <<FirstError([i \in 1 .. Len(aux.d8) |-> ArtifactsError(D8Paths(aux.d8[i]), remote)]),
      FirstError([i \in 1 .. Len(aux.snap) |-> ArtifactsError(SnapPaths(aux.snap[i]), remote)]),
      FirstError([i \in 1 .. Len(aux.generic) |-> ArtifactsError(GenericPaths(aux.generic[i]), remote)])>>)

-----------------------------------------------------------------------------
(* graph.parquet. *)

\* validate_schema.
SchemaError(g) ==
  CASE g.schema = "column"   -> "GraphSchema"
    [] g.schema = "bbox"     -> "GraphMissingBboxColumn"
    [] OTHER                 -> None

IsUnitId(n) == n # Null /\ n > 0

IsLevel(n) == n # Null /\ n <= MaxLevel

\* extract_upstream, convert_upstream_values: a null list is refused; of a list
\* the code iterates over int_arr.values(), which has a value for a null element
\* too, and never asks for the null bits.
UpstreamError(ups) ==
  IF ups = Null \/ \E u \in Seen(ups) : ~IsUnitId(u) THEN "InvalidRow" ELSE None

RowError(r) ==
  IF ~IsUnitId(r.id) \/ ~IsLevel(r.level) THEN "InvalidRow" ELSE UpstreamError(r.ups)

\* DrainageGraph::new refuses a unit that has two rows; any other objection of
\* it is passed on.
DomainError(g) ==
  IF \E i, j \in 1 .. Len(g.rows) : i < j /\ g.rows[i].id = g.rows[j].id
  THEN "GraphReferentialIntegrity"
  ELSE IF ~g.domain THEN "GraphDomain" ELSE None

\* read_graph_from_builder.
GraphError(g) ==
  LET rowError == FirstError([i \in 1 .. Len(g.rows) |-> RowError(g.rows[i])])
  IN  FirstError(<<SchemaError(g), rowError>>
                 \o (IF rowError = None THEN <<DomainError(g)>> ELSE <<>>))

GroupRows(g, k) ==
  {g.rows[i] : i \in {j \in 1 .. Len(g.rows) : (j - 1) \div GroupSize = k}}

Groups(g) == {(j - 1) \div GroupSize : j \in 1 .. Len(g.rows)}

\* int16_stat_min, int16_stat_max: the statistics of an Int16 column.
StatisticsOf(l) == {Min(l), Max(l)}

\* Mutant: the greatest level of a group stands for the group.
LevelsFromStatisticsMaxOnly(g) ==
  UNION {LET l == {r.level : r \in GroupRows(g, k)} IN {Max(l)}
           : k \in Groups(g) \cap g.stats}

\* levels_from_row_group_statistics: the least and the greatest level of every
\* row group that has statistics.  The code takes the statistics of the Parquet
\* leaf at the position of the field `level`: the level's own as long as every
\* field before it has one leaf, which is so of the columns of the format.
LevelsFromStatistics(g) ==
  UNION {LET l == {r.level : r \in GroupRows(g, k)} IN StatisticsOf(l)
           : k \in Groups(g) \cap g.stats}

-----------------------------------------------------------------------------
(* Agreement of the artifacts. *)

CatchmentIds == {r.id : r \in Seen(ds.catchments)}

\* One row of the graph: it has a catchment of its level, and so has every unit
\* it names upstream.
RowAgrees(r, of) ==
  /\ r.id \in CatchmentIds
  /\ r.level = of[r.id]
  /\ \A u \in Seen(r.ups) : u \in CatchmentIds /\ of[u] = r.level

\* The map collected from the rows (id, level): the last row of an id stays.
LevelOf ==
  [u \in CatchmentIds |->
     ds.catchments[Max({i \in 1 .. Len(ds.catchments) : ds.catchments[i].id = u})].level]

\* Mutant: the rows of the two files are not counted against each other.
AgreementErrorUncounted(count) ==
  IF count # Len(ds.catchments) THEN "UnitCountMismatch"
  ELSE IF \E i \in 1 .. Len(graph) : ~RowAgrees(graph[i], LevelOf)
       THEN "GraphReferentialIntegrity" ELSE None

\* validate_graph_catchments.
AgreementError(count) ==
  IF count # Len(ds.catchments) THEN "UnitCountMismatch"
  ELSE IF \/ Len(graph) # Len(ds.catchments)
          \/ \E i \in 1 .. Len(graph) : ~RowAgrees(graph[i], LevelOf)
          \/ ~(CatchmentIds \subseteq {r.id : r \in Seen(graph)})
       THEN "GraphReferentialIntegrity"
       ELSE None

\* validate_snap_refs of one declaration.
SnapRefsError(e) ==
  LET refs == ds.snaps[e.artifacts["snap"].name].refs
  IN  IF \E i \in 1 .. Len(refs) :
           \/ refs[i] \notin DOMAIN levels
           \/ levels[refs[i]] \notin Seen(e.meta.levels)
      THEN "SnapReferentialIntegrity"
      ELSE None

-----------------------------------------------------------------------------
(* DatasetSession::open and open_path. *)

Fails(error) == pc' = "failed" /\ err' = error /\ UNCHANGED <<ds, aux, graph, levels, probe>>

\* A check that fails with `error`, or goes on to `next`.
Check(error, next) ==
  \/ error # None /\ Fails(error)
  \/ error = None /\ pc' = next /\ UNCHANGED <<ds, aux, graph, levels, err, probe>>

ParseSource ==
  /\ pc = "parse"
  /\ LET s == Parse(ds.source)
     IN  IF s \in Sources THEN Check(None, IF s = "Local" THEN "layout" ELSE "manifest")
                          ELSE Fails(s)

\* The directory, the legacy graph file, the three required files.
CheckLayout ==
  /\ pc = "layout"
  /\ Check(IF ~ds.dir THEN "RootNotFound"
           ELSE IF "graph.arrow" \in ds.files THEN "LegacyGraphArrowRejected"
           ELSE IF ~({"manifest.json", "graph.parquet", "catchments.parquet"} \subseteq ds.files)
                THEN "RequiredArtifactMissing"
           ELSE None,
           "manifest")

\* read_manifest.
ReadManifest ==
  /\ pc = "manifest"
  /\ LET e == ManifestError(ds.manifest)
     IN  IF e # None THEN Fails(e)
         ELSE /\ aux' = Classified(ds.manifest) /\ pc' = "paths"
              /\ UNCHANGED <<ds, graph, levels, err, probe>>

\* After its paths a remote dataset is opened by open_remote.
CheckAuxPaths ==
  /\ pc = "paths"
  /\ LET remote == Parse(ds.source) = "Remote"
     IN  Check(AuxPathsError(remote), IF remote THEN "remote" ELSE "graph")

LoadGraph ==
  /\ pc = "graph"
  /\ LET e == GraphError(ds.graph)
     IN  IF e # None THEN Fails(e)
         ELSE /\ graph' = ds.graph.rows /\ pc' = "agreement"
              /\ UNCHANGED <<ds, aux, levels, err, probe>>

\* CatchmentStore::open is module CatchmentStore; its rows are given here.
ValidateGraphCatchments ==
  /\ pc = "agreement"
  /\ LET e == AgreementError(ds.count)
     IN  IF e # None THEN Fails(e)
         ELSE /\ levels' = LevelOf /\ pc' = "snaps"
              /\ UNCHANGED <<ds, aux, graph, err, probe>>

\* Every snap file is opened before the references of the first are checked.
OpenSnaps ==
  /\ pc = "snaps"
  /\ Check(FirstError([i \in 1 .. Len(aux.snap) |->
             IF ds.snaps[aux.snap[i].artifacts["snap"].name].readable
             THEN None ELSE "ParquetSchema"]),
           "refs")

ValidateSnapRefs ==
  /\ pc = "refs"
  /\ Check(FirstError([i \in 1 .. Len(aux.snap) |-> SnapRefsError(aux.snap[i])]), "opened")

\* levels_from_row_group_statistics reads the footer of the graph on its own.
ProbeLevels ==
  /\ pc = "opened" /\ probe = None
  /\ probe' = LevelsFromStatistics(ds.graph)
  /\ UNCHANGED <<ds, pc, aux, graph, levels, err>>

Done == pc \in {"failed", "remote"} \/ probe # None

Stop == Done /\ UNCHANGED vars

Next ==
  \/ ParseSource \/ CheckLayout \/ ReadManifest \/ CheckAuxPaths \/ LoadGraph
  \/ ValidateGraphCatchments \/ OpenSnaps \/ ValidateSnapRefs \/ ProbeLevels
  \/ Stop

Spec == Init /\ [][Next]_vars

-----------------------------------------------------------------------------
(* What a sound dataset is, said without the order of the checks. *)

NamesLocal(s) ==
  \/ s.form \in {"plain", "drive", "unc"}
  \/ s.form = "url" /\ s.scheme = "file" /\ s.path

NamesRemote(s) ==
  /\ s.form = "url" /\ s.path /\ s.config
  /\ \/ s.scheme = "s3"
     \/ s.scheme = "http" /\ (s.host = "public" \/ (s.host = "account" /\ s.bucket))

SoundEntry(e) ==
  \/ e.schema = "unreadable"
  \/ e.schema = "generic" /\ DOMAIN e.artifacts # {}
  \/ /\ e.schema = "d8" /\ {"flow_dir", "flow_acc"} \subseteq DOMAIN e.artifacts
     /\ e.meta.object /\ e.meta.good
     /\ e.meta.keys \subseteq {"crs", "flow_dir_encoding", "flow_acc_units"}
  \/ /\ e.schema = "snap" /\ "snap" \in DOMAIN e.artifacts
     /\ e.meta.object /\ e.meta.good /\ SnapKeys \subseteq e.meta.keys
     /\ e.meta.levels # <<>> /\ Seen(e.meta.levels) \subseteq 0 .. MaxLevel

\* The artifacts the declarations oblige: the named ones of the blessed schemas
\* and all of a generic one.
Obliged(e) ==
  CASE e.schema = "d8"      -> {e.artifacts["flow_dir"], e.artifacts["flow_acc"]}
    [] e.schema = "snap"    -> {e.artifacts["snap"]}
    [] e.schema = "generic" -> {e.artifacts[k] : k \in DOMAIN e.artifacts}
    [] OTHER                -> {}

SoundManifest(m) ==
  /\ m.shape
  /\ \A i \in 1 .. Len(Fields) : m[Fields[i]] = "ok"
  /\ \A e \in Seen(m.aux) : SoundEntry(e) /\ \A p \in Obliged(e) : p.parts = {"name"}

\* Units, levels and edges are the same thing in both files.  The edges are those
\* of the value buffers: what a list without null elements says, and for a null
\* element the value in its slot.
SoundUnits ==
  LET g == ds.graph.rows  c == ds.catchments
      level == [u \in {r.id : r \in Seen(g)} |-> CHOOSE l \in 0 .. MaxLevel :
                  \E r \in Seen(g) : r.id = u /\ r.level = l]
  IN  /\ ds.graph.schema = "ok" /\ ds.graph.domain
      /\ \A r \in Seen(g) : /\ r.id # Null /\ r.id > 0 /\ r.level # Null /\ r.ups # Null
                            /\ r.level \in 0 .. MaxLevel
                            /\ \A u \in Seen(r.ups) : u > 0
      /\ Cardinality({r.id : r \in Seen(g)}) = Len(g)
      /\ Cardinality({r.id : r \in Seen(c)}) = Len(c)
      /\ {<<r.id, r.level>> : r \in Seen(g)} = {<<r.id, r.level>> : r \in Seen(c)}
      /\ ds.count = Len(c)
      /\ \A r \in Seen(g) : \A u \in Seen(r.ups) : u \in DOMAIN level /\ level[u] = r.level

SoundSnaps ==
  \A e \in Seen(ds.manifest.aux) : e.schema = "snap" =>
    LET f == ds.snaps[e.artifacts["snap"].name]
    IN  /\ f.readable
        /\ \A i \in 1 .. Len(f.refs) :
             \E r \in Seen(ds.catchments) :
               r.id = f.refs[i] /\ r.level \in Seen(e.meta.levels)

SoundLocal ==
  /\ NamesLocal(ds.source) /\ ds.dir
  /\ {"manifest.json", "graph.parquet", "catchments.parquet"} \subseteq ds.files
  /\ "graph.arrow" \notin ds.files
  /\ SoundManifest(ds.manifest)
  /\ \A e \in Seen(ds.manifest.aux) : {p.name : p \in Obliged(e)} \subseteq ds.files
  /\ SoundUnits
  /\ SoundSnaps

-----------------------------------------------------------------------------
(* Properties. *)

\* A session is opened exactly for a sound dataset: an opened one has the same
\* units, levels and edges in graph and catchments, one row per unit in both,
\* and snap references inside the declared levels; a refused one really has a
\* defect.  Duplicate catchment rows are not looked for by open_path: they are
\* excluded because the graph has no duplicates and as many rows.  A null element
\* of an upstream list is no defect of its own (reader/graph.rs, extract_upstream):
\* it counts as an edge to the unit whose id its slot holds, and that edge is
\* checked like the others.
OpensExactlySound ==
  /\ pc = "opened" => SoundLocal
  /\ pc = "failed" => ~SoundLocal

\* A remote open goes on only with a manifest that is sound and names no path
\* outside the dataset root, and only for a URL that names an object store.
RemoteGoesOnSound ==
  pc = "remote" => NamesRemote(ds.source) /\ SoundManifest(ds.manifest)

\* The levels read from the row-group statistics are levels of the graph, and
\* the least and greatest of all when no row group lacks statistics.
StatisticsShowTheLevels ==
  probe # None =>
    LET all == {r.level : r \in Seen(graph)}
    IN  /\ probe \subseteq all
        /\ Groups(ds.graph) \subseteq ds.graph.stats /\ all # {}
             => Max(all) \in probe /\ Min(all) \in probe

\* Opening decides rightly on every path: locally on the whole dataset,
\* remotely on the manifest, and for the level hint on the statistics
\* (DatasetSession::open, session.rs).
OpenDecidesRightly == OpensExactlySound /\ RemoteGoesOnSound /\ StatisticsShowTheLevels

=============================================================================
