---------------------------- MODULE BasinExport -----------------------------
(***************************************************************************)
(* The GeoParquet writers of merged basins and of unit bundles             *)
(* (crates/core/src/export) and the Python calls around them               *)
(* (crates/python/src/export.rs): identities, labels and their collisions, *)
(* the spatial sort, the outward float32 boxes, the row-group plan, and    *)
(* the file as it is written.                                              *)
(*                                                                         *)
(* Coordinates are integers in halves of a float32 ulp, float32 values are *)
(* even.  A geometry is a rectangle, or None when it is empty or has no    *)
(* area.  Identifiers and labels are sequences of character ranks.         *)
(***************************************************************************)
EXTENDS Integers, Sequences, FiniteSets, FiniteSetsExt, SequencesExt

CONSTANTS
  Job,                  \* the exports considered
  MinGroup, TargetGroup,\* MIN_BALANCED_ and TARGET_ROW_GROUP_SIZE
  Bits,                 \* HILBERT_BITS
  MinX, MaxX, MinY, MaxY, \* the limits of longitude and latitude
  MaxIdBytes, Legal, Dot, \* the allowlist of basin ids, with the dot
  Device,               \* the Windows device names
  Earlier,              \* the footer of an earlier export
  None                  \* an absent value

Rectangle == [x0 : Int, y0 : Int, x1 : Int, y1 : Int]

\* A basin, or a unit of a bundle: ids are character ranks or numbers.
Item(Ids) ==
  [id : Ids, terminal : Int, geometry : Rectangle \cup {None}, encodes : BOOLEAN, fabric : Int,
   version : Int \cup {None}, method : Int, origin : Int, status : STRING]

BundleOf(Units) ==
  [units : Seq(Units), terminal : Int, fabric : Int, version : Int \cup {None}, method : Int, status : STRING]

\* A library call gives every input its identity; a Python call gives one list of
\* basin ids, one method and one fabric identity.
JobOf(kind, Inputs) ==
  [kind : {kind}, caller : {"python", "library"}, inputs : Inputs, ids : Seq(Seq(Int)) \cup {None},
   allow : BOOLEAN, method : Int, label : Seq(Int) \cup {None}, refinements : Nat]

IsJob(j) ==
  \/ j \in JobOf("basins", Seq(Item(Seq(Int) \cup {None})))
  \/ j \in JobOf("units", Seq(BundleOf(Item(Int))))

Errors ==
  {"value", "os", "empty_bundle", "negative_id", "missing_version", "collision", "duplicate", "bbox",
   "encode", "empty", "planning", "parquet"}

\* What the values of the constants are assumed to be.
ExportAssumption ==
  /\ MinGroup \in Nat \ {0} /\ TargetGroup = 2 * MinGroup
  /\ Bits \in Nat \ {0} /\ {MinX, MaxX, MinY, MaxY} \subseteq Int /\ MinX < MaxX /\ MinY < MaxY
  /\ None \notin Errors \cup Rectangle \cup Seq(Int) \cup Int
  /\ \A j \in Job : IsJob(j)

VARIABLES
  job,      \* the call
  pc,       \* the stage
  inputs,   \* the rows' sources not yet materialized
  origins,  \* default_origins_by_id
  rows,     \* the rows materialized, then sorted
  plan,     \* the sizes of the row groups not yet written
  file,     \* what the path holds: row groups and footer
  error     \* the error returned

vars == <<job, pc, inputs, origins, rows, plan, file, error>>

Empty == [groups |-> <<>>, footer |-> None]

\* The path holds an earlier export.
Old == [groups |-> <<>>, footer |-> Earlier]

Init ==
  /\ job \in Job
  /\ pc = IF job.caller = "python" THEN "check" ELSE "create"
  /\ inputs = <<>> /\ origins = <<>> /\ rows = <<>> /\ plan = <<>>
  /\ file = Old /\ error = None

Fail(e) ==
  /\ pc' = "failed" /\ error' = e
  /\ UNCHANGED <<job, inputs, origins, rows, plan, file>>

-----------------------------------------------------------------------------
(* Identity. *)

\* BasinId::parse.
ValidBasinId(v) ==
  /\ Len(v) \in 1 .. MaxIdBytes
  /\ v[Len(v)] # Dot /\ v \notin Device
  /\ ToSet(v) \subseteq Legal

\* The decimal digits of a terminal unit id.
Decimal(n) ==
  LET d[k \in 0 .. n] == IF k < 10 THEN <<k>> ELSE Append(d[k \div 10], k % 10)
  IN  d[n]

\* str's order, of ids and of labels; a unit id is a single number.
Before(a, b) ==
  \E i \in 1 .. Len(b) :
    /\ \A k \in 1 .. i - 1 : k <= Len(a) /\ a[k] = b[k]
    /\ i > Len(a) \/ (i <= Len(a) /\ a[i] < b[i])

\* DelineationLabel::from_fabric_identity.
FabricLabel(e) == IF e.version = None THEN None ELSE <<e.fabric, e.version, e.method>>

\* delineation_label: the caller's for all rows, or the fabric's.
Label(e) == IF job.label # None THEN job.label ELSE FabricLabel(e)

Defaulted(e) == job.kind = "basins" /\ e.id = None

IdOf(e) == IF Defaulted(e) THEN Decimal(e.terminal) ELSE e.id

-----------------------------------------------------------------------------
(* Space. *)

\* `as f32`: to nearest, ties to even.
RoundSingle(c) ==
  IF c % 2 = 0 THEN c ELSE IF (c + 1) % 4 = 0 THEN c + 1 ELSE c - 1

\* next_f32_down and next_f32_up step in the order of the bit patterns, which is
\* reversed for negative values.
NextDown(s) == IF s > 0 THEN s - 2 ELSE -((-s) + 2)

NextUp(s) == IF s >= 0 THEN s + 2 ELSE -((-s) - 2)

Floor(c) == IF RoundSingle(c) <= c THEN RoundSingle(c) ELSE NextDown(RoundSingle(c))

Ceil(c) == IF RoundSingle(c) >= c THEN RoundSingle(c) ELSE NextUp(RoundSingle(c))

\* Mutant: the bounds are rounded to nearest.
OutwardNearest(g) == [c \in DOMAIN g |-> RoundSingle(g[c])]

\* outward_f32_bbox.
Outward(g) ==
  [x0 |-> Floor(g.x0), y0 |-> Floor(g.y0), x1 |-> Ceil(g.x1), y1 |-> Ceil(g.y1)]

\* quantize_axis of twice a centroid's coordinate.
Quantize(twice, min, max) ==
  LET lo == 2 * min
      hi == 2 * max
      v == IF twice < lo THEN lo ELSE IF twice > hi THEN hi ELSE twice
  IN  (2 * (v - lo) * (2 ^ Bits - 1) + (hi - lo)) \div (2 * (hi - lo))

Cell(g) == <<Quantize(g.x0 + g.x1, MinX, MaxX), Quantize(g.y0 + g.y1, MinY, MaxY)>>

\* The cells of a curve of b bits.
Grid(b) == (0 .. 2 ^ b - 1) \X (0 .. 2 ^ b - 1)

\* Mutant: the last quadrant is not turned around.
CurveStepUnturned(g, b, c) ==
  LET half == 2 ^ (b - 1)
  IN  IF c[1] < half
        THEN IF c[2] < half THEN g[<<c[2], c[1]>>] ELSE half * half + g[<<c[1], c[2] - half>>]
        ELSE IF c[2] >= half THEN 2 * half * half + g[<<c[1] - half, c[2] - half>>]
             ELSE 3 * half * half + g[<<c[1] - half, c[2]>>]

\* Quadrant by quadrant: up the left half, down the right one, with the curve g
\* of one bit less turned to join the ends.
CurveStep(g, b, c) ==
  LET half == 2 ^ (b - 1)
  IN  IF c[1] < half
        THEN IF c[2] < half THEN g[<<c[2], c[1]>>] ELSE half * half + g[<<c[1], c[2] - half>>]
        ELSE IF c[2] >= half THEN 2 * half * half + g[<<c[1] - half, c[2] - half>>]
             ELSE 3 * half * half + g[<<half - 1 - c[2], half - 1 - (c[1] - half)>>]

\* xy_to_hilbert_index.
Hilbert(cell) ==
  LET h[b \in 0 .. Bits] ==
        [c \in Grid(b) |-> IF b = 0 THEN 0 ELSE CurveStep(h[b - 1], b, c)]
  IN  h[Bits][cell]

\* The spatial sort keys: the curve, then the id, then the label.
KeyBefore(r, s) ==
  \/ r.hilbert < s.hilbert
  \/ r.hilbert = s.hilbert /\ Before(r.id, s.id)
  \/ r.hilbert = s.hilbert /\ r.id = s.id /\ Before(r.label, s.label)

Hull(R) ==
  [x0 |-> Min({r.true.x0 : r \in R}), y0 |-> Min({r.true.y0 : r \in R}),
   x1 |-> Max({r.true.x1 : r \in R}), y1 |-> Max({r.true.y1 : r \in R})]

-----------------------------------------------------------------------------
(* The Python calls. *)

\* The arguments of write, and of ExportMethod::parse: 0 is an empty method.
ArgumentsOk ==
  /\ job.inputs # <<>> /\ job.method # 0
  /\ IF job.kind = "basins"
       THEN IF job.ids = None THEN job.allow /\ Len(job.inputs) = 1
            ELSE Len(job.ids) = Len(job.inputs) /\ \A i \in 1 .. Len(job.ids) : ValidBasinId(job.ids[i])
       ELSE job.refinements = Len(job.inputs)

\* Every input gets the id of its place, one method, and an origin of its own.
Identified ==
  [i \in 1 .. Len(job.inputs) |->
     IF job.kind = "units" THEN [job.inputs[i] EXCEPT !.method = job.method]
     ELSE [job.inputs[i] EXCEPT !.id = IF job.ids = None THEN None ELSE job.ids[i],
                                !.method = job.method, !.origin = i]]

Check ==
  /\ pc = "check"
  /\ IF ~ArgumentsOk THEN Fail("value")
     ELSE /\ job' = [job EXCEPT !.inputs = Identified] /\ pc' = "create"
          /\ UNCHANGED <<inputs, origins, rows, plan, file, error>>

\* A bundle's units with what they take from it; an empty bundle is a row that
\* cannot be materialized.
Expanded(b) ==
  IF b.units = <<>> THEN <<None>>
  ELSE [k \in 1 .. Len(b.units) |->
          [id |-> <<b.units[k].id>>, terminal |-> b.terminal, geometry |-> b.units[k].geometry,
           encodes |-> b.units[k].encodes, fabric |-> b.fabric, version |-> b.version,
           method |-> b.method, status |-> b.status]]

Sources ==
  IF job.kind = "basins" THEN job.inputs
  ELSE FlattenSeq([i \in 1 .. Len(job.inputs) |-> Expanded(job.inputs[i])])

\* File::create truncates the file before the writer has looked at an input.
Create ==
  /\ pc = "create"
  /\ \/ Fail("os")
     \/ /\ file' = Empty /\ pc' = "materialize" /\ inputs' = Sources
        /\ UNCHANGED <<job, origins, rows, plan, error>>

-----------------------------------------------------------------------------
(* The writers. *)

\* A defaulted id may return only for the origin it came from last.
Collides(e) ==
  /\ Defaulted(e)
  /\ IdOf(e) \in DOMAIN origins /\ origins[IdOf(e)] # e.origin

Duplicate(e) == \E i \in 1 .. Len(rows) : rows[i].id = IdOf(e) /\ rows[i].label = Label(e)

\* The checks of materialize_rows, in order.
RowError(e) ==
  CASE e = None -> "empty_bundle"
    [] e # None /\ Defaulted(e) /\ e.terminal < 0 -> "negative_id"
    [] OTHER ->
         CASE Label(e) = None -> "missing_version"
           [] Label(e) # None /\ Collides(e) -> "collision"
           [] Label(e) # None /\ ~Collides(e) /\ Duplicate(e) -> "duplicate"
           [] Label(e) # None /\ ~Collides(e) /\ ~Duplicate(e) /\ e.geometry = None -> "bbox"
           [] Label(e) # None /\ ~Collides(e) /\ ~Duplicate(e) /\ e.geometry # None /\ ~e.encodes -> "encode"
           [] OTHER -> None

RowOf(e) ==
  [id |-> IdOf(e), label |-> Label(e), hilbert |-> Hilbert(Cell(e.geometry)),
   true |-> e.geometry, box |-> Outward(e.geometry), terminal |-> e.terminal, status |-> e.status]

Materialize ==
  /\ pc = "materialize" /\ inputs # <<>>
  /\ LET e == Head(inputs)
     IN  IF RowError(e) # None THEN Fail(RowError(e))
         ELSE /\ rows' = Append(rows, RowOf(e))
              /\ origins' = IF Defaulted(e)
                              THEN [i \in DOMAIN origins \cup {IdOf(e)} |->
                                      IF i = IdOf(e) THEN e.origin ELSE origins[i]]
                              ELSE origins
              /\ inputs' = Tail(inputs)
              /\ UNCHANGED <<job, pc, plan, file, error>>

\* Mutant: what does not divide goes into the last group.
PlanSizesUneven(n) ==
  IF n < MinGroup THEN <<n>>
  ELSE LET groups == -((-n) \div TargetGroup)
       IN  [i \in 1 .. groups |-> IF i < groups THEN TargetGroup ELSE n - (groups - 1) * TargetGroup]

\* plan_row_groups.
PlanSizes(n) ==
  IF n < MinGroup THEN <<n>>
  ELSE LET groups == -((-n) \div TargetGroup)
       IN  [i \in 1 .. groups |-> (n \div groups) + (IF i <= n % groups THEN 1 ELSE 0)]

PlanOk(n) ==
  n < MinGroup \/ \A i \in 1 .. Len(PlanSizes(n)) : PlanSizes(n)[i] \in MinGroup .. TargetGroup

\* The rows that a stable sort puts before the k-th.
Ahead(s, k) ==
  {i \in 1 .. Len(s) : KeyBefore(s[i], s[k]) \/ (i < k /\ ~KeyBefore(s[k], s[i]))}

\* sort_by.
Sorted(s) == [i \in 1 .. Len(s) |-> s[CHOOSE k \in 1 .. Len(s) : Cardinality(Ahead(s, k)) = i - 1]]

\* No rows at all; else sort, then plan.
Sort ==
  /\ pc = "materialize" /\ inputs = <<>>
  /\ IF rows = <<>> THEN Fail("empty")
     ELSE IF ~PlanOk(Len(rows)) THEN Fail("planning")
     ELSE /\ rows' = Sorted(rows) /\ plan' = PlanSizes(Len(rows)) /\ pc' = "write"
          /\ UNCHANGED <<job, inputs, origins, file, error>>

Written == FlattenSeq(file.groups)

\* build_record_batch: the next rows in the order of the sort.
Batch == SubSeq(rows, Len(Written) + 1, Len(Written) + Head(plan))

\* write and flush of one row group.
WriteGroup ==
  /\ pc = "write" /\ plan # <<>>
  /\ \/ Fail("parquet")
     \/ /\ file' = [file EXCEPT !.groups = Append(@, Batch)]
        /\ plan' = Tail(plan)
        /\ UNCHANGED <<job, pc, inputs, origins, rows, error>>

\* close writes the footer with the geo key.
Close ==
  /\ pc = "write" /\ plan = <<>>
  /\ \/ Fail("parquet")
     \/ /\ file' = [file EXCEPT !.footer = Hull(ToSet(rows))] /\ pc' = "done"
        /\ UNCHANGED <<job, inputs, origins, rows, plan, error>>

Crash ==
  /\ pc \notin {"done", "failed", "crashed"} /\ pc' = "crashed"
  /\ UNCHANGED <<job, inputs, origins, rows, plan, file, error>>

Next ==
  \/ Check \/ Create \/ Materialize \/ Sort \/ WriteGroup \/ Close \/ Crash

Spec == Init /\ [][Next]_vars

-----------------------------------------------------------------------------
(* Properties. *)

Covers(a, b) == a.x0 <= b.x0 /\ a.y0 <= b.y0 /\ b.x1 <= a.x1 /\ b.y1 <= a.y1

\* A file with a footer of its own has one row for every input or unit, whose
\* float32 box contains its geometry and is less than two ulps from it; no two
\* rows have the same id and label; the row groups are of legal sizes; and the
\* footer's box is the hull.  Failures, crashes and duplicates never leave a
\* readable file with fewer rows.
ReadableIsComplete ==
  file.footer \notin {None, Earlier} =>
    /\ Len(Written) = Len(Sources)
    /\ \A i \in 1 .. Len(Sources) : \E k \in 1 .. Len(Written) :
         /\ Written[k].id = IdOf(Sources[i]) /\ Written[k].label = Label(Sources[i])
         /\ Written[k].true = Sources[i].geometry
    /\ \A i, k \in 1 .. Len(Written) :
         Written[i].id = Written[k].id /\ Written[i].label = Written[k].label => i = k
    /\ \A i \in 1 .. Len(Written) :
         /\ Covers(Written[i].box, Written[i].true)
         /\ \A c \in {"x0", "y0", "x1", "y1"} :
              Written[i].box[c] % 2 = 0 /\ Written[i].box[c] - Written[i].true[c] \in -1 .. 1
         /\ Covers(file.footer, Written[i].true)
    /\ \A g \in 1 .. Len(file.groups) :
         Len(file.groups[g]) <= TargetGroup /\ (Len(file.groups) > 1 => Len(file.groups[g]) >= MinGroup)

\* The aligned squares of the Hilbert grid.
Square ==
  UNION {{<<b, x, y>> : x \in 0 .. 2 ^ (Bits - b) - 1, y \in 0 .. 2 ^ (Bits - b) - 1} : b \in 0 .. Bits}

InSquare(q, r) == LET c == Cell(r.true) IN c[1] \div 2 ^ q[1] = q[2] /\ c[2] \div 2 ^ q[1] = q[3]

\* The rows of a file follow the curve: those of an aligned square are next to
\* each other, squares of the same size that follow each other share an edge, and
\* the order depends on the rows alone, not on the order of the inputs.
SpatialOrder ==
  pc = "done" =>
    /\ \A q \in Square : \A i, k \in 1 .. Len(Written) :
         InSquare(q, Written[i]) /\ InSquare(q, Written[k]) =>
           \A m \in i .. k : InSquare(q, Written[m])
    /\ \A i \in 1 .. Len(Written) - 1 :
         Written[i + 1].hilbert = Written[i].hilbert + 1 =>
           LET a == Cell(Written[i].true)
               b == Cell(Written[i + 1].true)
               d == <<b[1] - a[1], b[2] - a[2]>>
           IN  d \in {<<1, 0>>, <<-1, 0>>, <<0, 1>>, <<0, -1>>}
    /\ \A i \in 1 .. Len(Written) - 1 :
         \/ Written[i].hilbert < Written[i + 1].hilbert
         \/ Written[i].hilbert = Written[i + 1].hilbert /\ ~Before(Written[i + 1].id, Written[i].id)

\* Ids are refused only for what is wrong with them: the error of a duplicate
\* means two rows of one id and label, the error of a collision two rows of one
\* defaulted id and different origins, and the plan of row groups is legal for
\* every number of rows.
RefusedIsReal ==
  /\ error # "planning"
  /\ error \in {"duplicate", "collision"} =>
       \E i, k \in 1 .. Len(Sources) :
         i < k /\ IdOf(Sources[i]) = IdOf(Sources[k])
         /\ (error = "duplicate" => Label(Sources[i]) = Label(Sources[k]))
         /\ (error = "collision" => Defaulted(Sources[i]) /\ Sources[i].origin # Sources[k].origin)

\* A readable export is complete and in the order of the curve, and an export
\* is refused only for what is wrong with it (write_basins, export/writer.rs).
ExportRight == ReadableIsComplete /\ SpatialOrder /\ RefusedIsReal

=============================================================================
