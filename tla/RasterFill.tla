----------------------------- MODULE RasterFill -----------------------------
(***************************************************************************)
(* The scanline rasterizer (crates/core/src/algo/rasterize.rs).            *)
(*                                                                         *)
(* A ring is a closed sequence of <<row, col>> vertices in quarters of a   *)
(* pixel: cell <<r, c>> has its corners at multiples of four.              *)
(***************************************************************************)
EXTENDS Integers, Sequences, FiniteSets

Cells(rows, cols) == (0 .. rows - 1) \X (0 .. cols - 1)

\* The centre line of row or column k.
Mid(k) == 4 * k + 2

\* The directed edges of all rings; a sentinel keeps the rings apart.
Edges(rings) ==
  UNION {{<<rings[k][i], rings[k][i + 1], k, i>> : i \in 1 .. Len(rings[k]) - 1} : k \in 1 .. Len(rings)}

\* The scanline of row r meets the edge: half open, so a vertex counts once.
Meets(e, r) ==
  LET y0 == e[1][1]  y1 == e[2][1]
  IN  IF y0 <= y1 THEN y0 < Mid(r) /\ Mid(r) <= y1
      ELSE y1 < Mid(r) /\ Mid(r) <= y0

CeilDiv(a, b) == -((-a) \div b)

\* Mutant: the column the intersection lies in, whichever side of its centre.
ColumnHit(e, r) ==
  LET h == e[2][1] - e[1][1]
      w == e[2][2] - e[1][2]
      s == IF h > 0 THEN 1 ELSE -1
  IN  (s * (e[1][2] * h + (Mid(r) - e[1][1]) * w) - 2 * s * h) \div (4 * s * h)

\* The first column whose centre is not left of the intersection.
Column(e, r) ==
  LET h == e[2][1] - e[1][1]
      w == e[2][2] - e[1][2]
      s == IF h > 0 THEN 1 ELSE -1
      num == s * (e[1][2] * h + (Mid(r) - e[1][1]) * w)
  IN  CeilDiv(num - 2 * s * h, 4 * s * h)

\* fill_row_multi: between the first and the second intersection, the third and
\* the fourth, and so on.
FillRow(r, cols, rings) ==
  LET hit == {e \in Edges(rings) : Meets(e, r)}
      left(c) == Cardinality({e \in hit : Column(e, r) <= c})
  IN  {c \in 0 .. cols - 1 : left(c) % 2 = 1 /\ left(c) < Cardinality(hit)}

\* rasterize_multi_polygon, as the set of cells that are true.
Rasterize(rings, rows, cols) ==
  {p \in Cells(rows, cols) : p[2] \in FillRow(p[1], cols, rings)}
=============================================================================
