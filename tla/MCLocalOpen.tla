----------------------------- MODULE MCLocalOpen -----------------------------
(***************************************************************************)
(* Datasets for LocalOpen, with at most two defects, and with every small  *)
(* graph and catchment file.                                               *)
(***************************************************************************)
EXTENDS Naturals, Sequences

CONSTANT Null  \* a null value of a column

SnapKeys == {"name", "description", "weight_semantics", "references_levels"}

FieldSet == {"format_version", "fabric_name", "crs", "topology", "bbox",
             "unit_count", "created_at", "adapter_version"}

Base == [source |-> [form |-> "plain", scheme |-> "none", host |-> "none",
                     path |-> TRUE, config |-> TRUE, bucket |-> TRUE],
         dir |-> TRUE]

Path(n) == [name |-> n, parts |-> {"name"}]
Outside(n) == [name |-> n, parts |-> {"name", "parent"}]

Meta(keys, good, l) == [object |-> TRUE, keys |-> keys, good |-> good, levels |-> l]
D8Keys == {"crs", "flow_dir_encoding", "flow_acc_units"}
NoObject == [object |-> FALSE, keys |-> {}, good |-> FALSE, levels |-> <<>>]

D8 == [schema |-> "d8",
       artifacts |-> [k \in {"flow_dir", "flow_acc"} |-> Path(k)],
       meta |-> Meta(D8Keys, TRUE, <<>>)]
Snap(l) == [schema |-> "snap", artifacts |-> [k \in {"snap"} |-> Path("snap")],
            meta |-> Meta(SnapKeys, TRUE, l)]
Generic == [schema |-> "generic", artifacts |-> [k \in {"a", "snap"} |-> Path(k)],
            meta |-> NoObject]

\* Every way in which the code finds fault with an entry, and some it keeps.
Entries ==
  {D8, Snap(<<0>>), Snap(<<0, 1>>), Generic,
   [D8 EXCEPT !.schema = "unreadable", !.artifacts["flow_dir"] = Outside("x")],
   [D8 EXCEPT !.schema = "missing"], [D8 EXCEPT !.schema = "malformed"],
   [D8 EXCEPT !.artifacts = <<>>], [Generic EXCEPT !.artifacts = <<>>],
   [D8 EXCEPT !.artifacts = [k \in {"flow_dir"} |-> Path(k)]],
   [D8 EXCEPT !.meta = NoObject], [D8 EXCEPT !.meta.keys = D8Keys \cup {"z"}],
   [D8 EXCEPT !.meta.good = FALSE],
   [D8 EXCEPT !.artifacts["flow_acc"] = Outside("flow_acc")],
   [D8 EXCEPT !.artifacts["flow_acc"] = Path("lost")],
   [Snap(<<0>>) EXCEPT !.artifacts = [k \in {"a"} |-> Path(k)]],
   [Snap(<<0>>) EXCEPT !.artifacts["snap"] = Path("corrupt")],
   [Snap(<<0>>) EXCEPT !.meta = NoObject],
   [Snap(<<0>>) EXCEPT !.meta.keys = SnapKeys \ {"description"}],
   [Snap(<<0>>) EXCEPT !.meta.good = FALSE],
   Snap(<<>>), Snap(<<0, 2>>),
   [Generic EXCEPT !.artifacts["a"] = Outside("a")],
   [Generic EXCEPT !.artifacts["a"] = Path("lost")]}

Plain == Base.source
Sourced == {Plain, [Plain EXCEPT !.form = "drive"], [Plain EXCEPT !.form = "unc"],
            [Plain EXCEPT !.form = "broken"]}
  \cup {[form |-> "url", scheme |-> s, host |-> h, path |-> p, config |-> c, bucket |-> b]
          : s \in {"file", "s3", "http", "ftp"},
            h \in {"none", "public", "account", "anonymous", "elsewhere"},
            p \in BOOLEAN, c \in BOOLEAN, b \in BOOLEAN}

ManifestOf(state, shape, a) ==
  [f \in FieldSet \cup {"shape", "aux"} |->
     CASE f = "shape" -> shape [] f = "aux" -> a [] OTHER -> state[f]]
AllOk == [f \in FieldSet |-> "ok"]
States == {[AllOk EXCEPT ![f] = s, ![g] = t] :
             f \in FieldSet, g \in FieldSet, s \in {"missing", "bad"}, t \in {"ok", "missing", "bad"}}

Artifacts == {"manifest.json", "graph.parquet", "catchments.parquet"}
AuxFiles == {"flow_dir", "flow_acc", "snap", "corrupt", "a"}

Row(i, l, u) == [id |-> i, level |-> l, ups |-> u, nulls |-> {}]
\* The upstream list of r with a null after its elements, whose slot holds v.
WithNull(r, v) == [r EXCEPT !.ups = Append(@, v), !.nulls = {Len(r.ups) + 1}]
GoodGraph == [schema |-> "ok", domain |-> TRUE, rows |-> <<Row(1, 0, <<2>>), Row(2, 0, <<>>)>>, stats |-> {0}]
GoodCatchments == <<[id |-> 2, level |-> 0], [id |-> 1, level |-> 0]>>
SnapFiles(refs) ==
  [f \in {"snap", "corrupt"} |-> [readable |-> f = "snap", refs |-> refs]]

Make(src, dir, files, m, count, g, c, refs) ==
  [source |-> src, dir |-> dir, files |-> files, manifest |-> m, count |-> count,
   graph |-> g, catchments |-> c, snaps |-> SnapFiles(refs)]

GoodManifest == ManifestOf(AllOk, TRUE, <<D8, Snap(<<0>>)>>)
Good == Make(Plain, TRUE, Artifacts \cup AuxFiles, GoodManifest, 2, GoodGraph,
             GoodCatchments, <<1, 2>>)

\* Sources and layouts; manifests with faults in two fields and one entry; pairs
\* of entries; graphs with a faulty schema, row or upstream list.
Layouts == {[Good EXCEPT !.source = s, !.dir = d, !.files = f \cup AuxFiles] :
              s \in Sourced, d \in BOOLEAN,
              f \in {Artifacts, Artifacts \cup {"graph.arrow"}}
                    \cup {Artifacts \ {a} : a \in Artifacts}}
Manifests == {[Good EXCEPT !.manifest = ManifestOf(s, b, <<e>>)] :
                s \in States, b \in BOOLEAN, e \in {D8, Snap(<<>>), Generic}}
Pairs == {[Good EXCEPT !.source = s, !.manifest.aux = <<e, f>>] :
            e \in Entries, f \in Entries,
            s \in {Plain, [Plain EXCEPT !.form = "url", !.scheme = "s3"]}}
Faulty == {[Good EXCEPT !.graph.schema = s, !.graph.rows = <<Row(1, 0, <<>>), r>>] :
             s \in {"ok", "column", "bbox"},
             r \in {Row(i, l, u) : i \in {Null, 0, 1, 2}, l \in {Null, 0, 2},
                                   u \in {Null, <<>>, <<0>>, <<1, 2>>}}}
\* Null elements whose slot holds a zero, a unit of the graph or a foreign id.
NullElements == {[Good EXCEPT !.graph.domain = b, !.graph.rows = <<r, WithNull(Row(1, 0, u), v)>>] :
                   b \in BOOLEAN, r \in {Row(2, l, <<>>) : l \in 0 .. 1} \cup {WithNull(Row(2, 0, <<>>), 2)},
                   u \in {<<>>, <<2>>}, v \in 0 .. 3}

Ids == 1 .. 2
SmallRows == {Row(i, l, u) : i \in Ids, l \in 0 .. 1, u \in {<<>>, <<1>>, <<2>>}}
UpTo(S, n) == UNION {[1 .. k -> S] : k \in 0 .. n}
Contents == {[Good EXCEPT !.graph.rows = g, !.catchments = c,
                          !.manifest.aux = <<Snap(<<0>>)>>, !.snaps = SnapFiles(refs)] :
               g \in UpTo(SmallRows, 2), c \in UpTo([id : Ids, level : 0 .. 1], 2),
               refs \in {<<>>, <<1>>}}
\* Three levels in two row groups of two rows.
Long == {[Good EXCEPT !.graph.rows = [i \in 1 .. 3 |-> Row(i, l[i], <<>>)],
                      !.graph.stats = st, !.count = n,
                      !.catchments = [i \in 1 .. 3 |-> [id |-> i, level |-> l[i]]],
                      !.manifest.aux = <<>>] :
           l \in [1 .. 3 -> 0 .. 1], st \in SUBSET {0, 1}, n \in 2 .. 3}

MCDataset == Layouts \cup Manifests \cup Pairs \cup Faulty \cup NullElements \cup Contents \cup Long

=============================================================================
