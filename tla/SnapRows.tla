------------------------------ MODULE SnapRows ------------------------------
(***************************************************************************)
(* Snap targets as the reader of snap.parquet sees them                    *)
(* (crates/core/src/reader/snap_store.rs, crates/core/src/snap_targets.rs):*)
(* the checks on a row, the bounding box a row is matched by, and the row  *)
(* groups that a box or an extent lets the reader skip.                    *)
(*                                                                         *)
(* Coordinates are integers in halves of a float32 ulp: float32 values are *)
(* even, the float64 coordinates of a geometry are any.  A geometry is a   *)
(* point or an axis-parallel segment, so that it is its own envelope.      *)
(***************************************************************************)
EXTENDS Integers, Sequences, FiniteSets, FiniteSetsExt

CONSTANTS
  LimitX, LimitY,  \* the greatest longitude and latitude
  None             \* an absent value

Rect == {r \in [x0 : Int, y0 : Int, x1 : Int, y1 : Int] :
           r.x0 <= r.x1 /\ r.y0 <= r.y1}

Single(r) == \A c \in {r.x0, r.y0, r.x1, r.y1} : c % 2 = 0

\* What may be wrong with a row: a null id or unit_id ("null"), a null weight or
\* geometry ("blank"), a bad value of a column.
Fault == {"null", "blank", "geometry", "leaves", "bounds", "id", "unit", "weight", "role"}

\* A row: its geometry, its supplied bounds or none, and what is wrong with it.
Row == [id : Nat, unit : Nat, kind : {"point", "line"}, geometry : Rect,
        bbox : {None} \cup {b \in Rect : Single(b)}, bad : SUBSET Fault]

\* A file: the checks of its schema, whether it has a bbox column, and its row
\* groups, each with or without statistics and null counts.
SnapFile == [schema : BOOLEAN, bbox : BOOLEAN, groups : Seq([rows : Seq(Row), stats : BOOLEAN])]

\* The kinds of error; None is no error.
Kinds == {"io", "parse", "schema", "read", "refs_not_loaded",
          "invalid_row", "geometry_invalid", "invalid_stem_role"}

NoneIsNoError == None \notin [kind : Kinds, at : Nat \cup {None}]

\* HFX requires the supplied bounds to be those of the geometry, in float32.
Honest(r) ==
  r.bbox # None =>
    \A c \in {"x0", "y0", "x1", "y1"} : r.bbox[c] - r.geometry[c] \in -1 .. 1

\* BoundingBox::intersects and geo's Intersects: closed boxes.
Intersects(a, b) ==
  /\ a.x0 <= b.x1 /\ b.x0 <= a.x1
  /\ a.y0 <= b.y1 /\ b.y0 <= a.y1

\* The elements of s at the positions in P, in order.
Picked(s, P) ==
  LET kept[n \in 0 .. Len(s)] ==
        IF n = 0 THEN <<>> ELSE IF n \in P THEN Append(kept[n - 1], s[n]) ELSE kept[n - 1]
  IN  kept[Len(s)]

\* The sequences of s, one after the other.
Joined(s) ==
  LET glue[n \in 0 .. Len(s)] == IF n = 0 THEN <<>> ELSE glue[n - 1] \o s[n]
  IN  glue[Len(s)]

AllRows(f) == Joined([g \in 1 .. Len(f.groups) |-> f.groups[g].rows])

\* Mutant: the rows of the group itself are counted too.
AbsoluteRowStartOneGroupOn(f, g) ==
  LET start[h \in 0 .. g] == IF h = 0 THEN 0 ELSE start[h - 1] + Len(f.groups[h].rows)
  IN  start[g]

AbsoluteRowStart(f, g) ==
  LET start[h \in 0 .. g - 1] == IF h = 0 THEN 0 ELSE start[h - 1] + Len(f.groups[h].rows)
  IN  start[g - 1]

\* Those of n row groups that are in S, in file order.
InOrder(S, n) == Picked([g \in 1 .. n |-> g], S)

-----------------------------------------------------------------------------
(* The box of a row. *)

\* `as f32`: to nearest, ties to even.
RoundSingle(c) ==
  IF c % 2 = 0 THEN c ELSE IF (c + 1) % 4 = 0 THEN c + 1 ELSE c - 1

\* snap_bbox pads an empty axis by one ulp, inwards at the limit.
PadLow(lo, hi, limit) == IF lo = hi /\ hi = limit THEN lo - 2 ELSE lo

PadHigh(lo, hi, limit) == IF lo = hi /\ hi # limit THEN hi + 2 ELSE hi

SnapBbox(r) ==
  [x0 |-> PadLow(r.x0, r.x1, LimitX), y0 |-> PadLow(r.y0, r.y1, LimitY),
   x1 |-> PadHigh(r.x0, r.x1, LimitX), y1 |-> PadHigh(r.y0, r.y1, LimitY)]

\* bbox_from_snap_geometry.
RawBbox(f, r) ==
  IF f.bbox /\ r.bbox # None THEN r.bbox
  ELSE [c \in DOMAIN r.geometry |-> RoundSingle(r.geometry[c])]

RowBbox(f, r) == SnapBbox(RawBbox(f, r))

-----------------------------------------------------------------------------
(* The box of a row group. *)

\* Mutant: the null counts are not looked at.
GroupBoxDespiteNulls(f, g) ==
  LET rows == f.groups[g].rows
      R == {rows[i].bbox : i \in 1 .. Len(rows)} \ {None}
      e == [x0 |-> Min({r.x0 : r \in R}), y0 |-> Min({r.y0 : r \in R}),
            x1 |-> Max({r.x1 : r \in R}), y1 |-> Max({r.y1 : r \in R})]
  IN  IF f.bbox /\ f.groups[g].stats /\ R # {}
        THEN IF e.x0 < e.x1 /\ e.y0 < e.y1 THEN e ELSE None
        ELSE None

\* The statistics of the bbox leaves give a box only when they count no null and
\* BoundingBox::new accepts it.
GroupBox(f, g) ==
  LET rows == f.groups[g].rows
      R == {rows[i].bbox : i \in 1 .. Len(rows)}
      e == [x0 |-> Min({r.x0 : r \in R}), y0 |-> Min({r.y0 : r \in R}),
            x1 |-> Max({r.x1 : r \in R}), y1 |-> Max({r.y1 : r \in R})]
  IN  IF f.bbox /\ f.groups[g].stats /\ R # {} /\ None \notin R
         /\ \A i \in 1 .. Len(rows) : "leaves" \notin rows[i].bad
        THEN IF e.x0 < e.x1 /\ e.y0 < e.y1 THEN e ELSE None
        ELSE None

\* The box of every row group of a store, None for those without statistics.
GroupBoxes(f) == [g \in 1 .. Len(f.groups) |-> GroupBox(f, g)]

\* query_by_bbox: the groups whose box meets the query, and those without one.
Matching(boxes, box) ==
  {g \in DOMAIN boxes : IF boxes[g] = None THEN TRUE ELSE Intersects(boxes[g], box)}

All == [all |-> TRUE]

\* Mutant: the extent is compared with the float32 statistics as they are.
MayIntersectExactly(scope, box) ==
  scope = All \/ Intersects(box, scope)

\* SnapScope::may_intersect widens the statistics by one ulp on each side.
MayIntersect(scope, box) ==
  \/ scope = All
  \/ /\ box.x0 - 2 <= scope.x1 /\ box.x1 + 2 >= scope.x0
     /\ box.y0 - 2 <= scope.y1 /\ box.y1 + 2 >= scope.y0

Visited(boxes, scope) ==
  {g \in DOMAIN boxes : IF boxes[g] = None THEN TRUE ELSE MayIntersect(scope, boxes[g])}

-----------------------------------------------------------------------------
(* Reading rows. *)

\* SnapScope::intersects, and the post-filter of query_by_bbox.
InScope(scope, r) == scope = All \/ Intersects(r.geometry, scope)

Matches(f, filter, r) ==
  IF filter.by = "bbox" THEN Intersects(RowBbox(f, r), filter.box)
  ELSE InScope(filter.scope, r)

\* extract_snap_targets_from_batch: nulls, geometry and bounds are checked for
\* every row, the domains of the other columns only for the rows that match.
FaultOf(f, filter, r) ==
  LET nulls == {"null", "blank"}
      first == r.bad \cap (nulls \cup {"geometry"} \cup (IF f.bbox THEN {"leaves", "bounds"} ELSE {}))
      later == IF Matches(f, filter, r) THEN r.bad \cap {"id", "unit", "weight", "role"} ELSE {}
  IN  CASE first \cap nulls # {} -> "invalid_row"
        [] first \cap nulls = {} /\ "geometry" \in first -> "geometry_invalid"
        [] first # {} /\ first \cap (nulls \cup {"geometry"}) = {} -> "invalid_row"
        [] first = {} /\ later \ {"role"} # {} -> "invalid_row"
        [] first = {} /\ later = {"role"} -> "invalid_stem_role"
        [] OTHER -> None

\* The rows that match.
Kept(f, filter, rows) == Picked(rows, {i \in 1 .. Len(rows) : Matches(f, filter, rows[i])})

\* One batch whose first row has number start: the error of its first faulty
\* row, or the rows that match.
Extract(f, filter, rows, start) ==
  LET faults == {i \in 1 .. Len(rows) : FaultOf(f, filter, rows[i]) # None}
  IN  IF faults = {}
        THEN [err |-> None, rows |-> Kept(f, filter, rows)]
        ELSE [err |-> [kind |-> FaultOf(f, filter, rows[Min(faults)]), at |-> start + Min(faults) - 1],
              rows |-> <<>>]

=============================================================================
