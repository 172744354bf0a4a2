----------------------------- MODULE Polygonize -----------------------------
(***************************************************************************)
(* From a mask of cells to polygons (crates/core/src/algo/polygonize.rs):  *)
(* boundary edges, rings walked edge by edge, exteriors and holes, and the *)
(* exterior each hole is given to.                                         *)
(*                                                                         *)
(* A vertex is a pixel corner <<row, col>>; the affine map to native       *)
(* coordinates turns the row axis around and nothing else.                 *)
(***************************************************************************)
EXTENDS RasterFill, SequencesExt, FiniteSetsExt

CONSTANTS
  Mask,    \* the masks considered: rows, cols and the set of true cells
  None     \* an absent value

IsMask(m) == m.cells \subseteq Cells(m.rows, m.cols)

\* What the values of the constants are assumed to be.
MaskAssumption == \A m \in Mask : IsMask(m)

VARIABLES
  mask,       \* the mask
  adjacency,  \* from a vertex to the ends of its edges not yet walked
  ring,       \* the ring being walked
  rings,      \* the rings closed
  polygons    \* the result, None before the end

vars == <<mask, adjacency, ring, rings, polygons>>

-----------------------------------------------------------------------------
(* extract_edges. *)

\* The edges of a cell towards cells that are false, top, bottom, left, right,
\* with the cell on the right hand.
CellEdges(m, p) ==
  LET r == p[1]  c == p[2]
      side(q, a, b) == IF q \in m.cells THEN <<>> ELSE <<<<a, b>>>>
  IN  side(<<r - 1, c>>, <<r, c>>, <<r, c + 1>>)
      \o side(<<r + 1, c>>, <<r + 1, c + 1>>, <<r + 1, c>>)
      \o side(<<r, c - 1>>, <<r + 1, c>>, <<r, c>>)
      \o side(<<r, c + 1>>, <<r, c + 1>>, <<r + 1, c + 1>>)

\* The cells are visited in row-major order.
AllEdges(m) ==
  FlattenSeq([i \in 1 .. m.rows * m.cols |->
    LET p == <<(i - 1) \div m.cols, (i - 1) % m.cols>>
    IN  IF p \in m.cells THEN CellEdges(m, p) ELSE <<>>])

\* The map assemble_rings builds: the ends of every start, in the order of the edges.
Adjacency(m) ==
  LET edges == AllEdges(m)
  IN  [v \in {edges[i][1] : i \in 1 .. Len(edges)} |->
         LET out == SelectSeq(edges, LAMBDA e : e[1] = v) IN [i \in 1 .. Len(out) |-> out[i][2]]]

Init ==
  /\ mask \in Mask
  /\ adjacency = Adjacency(mask)
  /\ ring = <<>> /\ rings = <<>> /\ polygons = None

-----------------------------------------------------------------------------
(* assemble_rings. *)

\* Mutant: the edge that was added first is followed first.
NextEndFirst(ends) == <<Head(ends), Tail(ends)>>

\* The end that is followed, and the ends that are left: pop takes the last.
NextEnd(ends) == <<Last(ends), Front(ends)>>

NotAfter(v, w) == v[1] < w[1] \/ (v[1] = w[1] /\ v[2] <= w[2])

\* adjacency.keys().next(): the smallest vertex with an edge starts a ring.
StartRing ==
  /\ polygons = None /\ ring = <<>>
  /\ DOMAIN adjacency # {}
  /\ ring' = <<CHOOSE v \in DOMAIN adjacency : \A w \in DOMAIN adjacency : NotAfter(v, w)>>
  /\ UNCHANGED <<mask, adjacency, rings, polygons>>

\* Pop an edge of the current vertex; back at the origin the ring is closed.
FollowEdge ==
  /\ ring # <<>>
  /\ LET v == Last(ring)
         e == NextEnd(adjacency[v])
     IN  /\ adjacency' = IF e[2] = <<>> THEN [w \in DOMAIN adjacency \ {v} |-> adjacency[w]]
                         ELSE [adjacency EXCEPT ![v] = e[2]]
         /\ IF e[1] = ring[1]
            THEN rings' = Append(rings, Append(ring, e[1])) /\ ring' = <<>>
            ELSE rings' = rings /\ ring' = Append(ring, e[1])
  /\ UNCHANGED <<mask, polygons>>

-----------------------------------------------------------------------------
(* Classification, ownership and winding. *)

\* shoelace_area, doubled.
Shoelace(s) ==
  FoldLeft(LAMBDA a, i : a + s[i][2] * s[i + 1][1] - s[i + 1][2] * s[i][1], 0, [i \in 1 .. Len(s) - 1 |-> i])

Quarters(s) == [i \in 1 .. Len(s) |-> <<4 * s[i][1], 4 * s[i][2]>>]

\* geo's Contains: strictly inside the exterior, so all four cells at the vertex are.
Inside(v, exterior) ==
  {<<v[1] + i, v[2] + j>> : i \in {-1, 0}, j \in {-1, 0}}
    \subseteq Rasterize(<<Quarters(exterior)>>, mask.rows, mask.cols)

\* The first exterior that contains the first vertex of the hole; 0 when there is none.
Owner(hole, exteriors) ==
  LET in == {k \in 1 .. Len(exteriors) : Inside(hole[1], exteriors[k])} IN IF in = {} THEN 0 ELSE Min(in)

\* In native space the row axis points the other way: exteriors end up
\* counter-clockwise there, holes clockwise.
Oriented(s, exterior) == IF (Shoelace(s) > 0) = exterior THEN Reverse(s) ELSE s

Polygons ==
  LET ext   == SelectSeq(rings, LAMBDA s : Shoelace(s) >= 0)
      holes == SelectSeq(rings, LAMBDA s : Shoelace(s) < 0)
  IN  [k \in 1 .. Len(ext) |->
         LET own == SelectSeq(holes, LAMBDA h : Owner(h, ext) = k)
         IN  [exterior |-> Oriented(ext[k], TRUE),
              interiors |-> [i \in 1 .. Len(own) |-> Oriented(own[i], FALSE)]]]

\* No edge is left.  An empty mask gives None, here the empty sequence.
Finish ==
  /\ polygons = None /\ ring = <<>> /\ DOMAIN adjacency = {}
  /\ polygons' = Polygons
  /\ UNCHANGED <<mask, adjacency, ring, rings>>

Next == StartRing \/ FollowEdge \/ Finish

Spec == Init /\ [][Next]_vars

-----------------------------------------------------------------------------
(* Properties. *)

RingsOf(p) == <<p.exterior>> \o p.interiors

AllRings == FlattenSeq([k \in 1 .. Len(polygons) |-> RingsOf(polygons[k])])

\* How often the rings wind around the centre of a cell, counter-clockwise in
\* native space: the vertical edges to the right, upward less downward.
Winding(s, p) ==
  LET right == {e \in Edges(s) : e[1][2] = e[2][2] /\ e[1][2] > p[2] /\ Min({e[1][1], e[2][1]}) = p[1]}
  IN  Cardinality({e \in right : e[2][1] < e[1][1]}) - Cardinality({e \in right : e[2][1] > e[1][1]})

\* However cells touch at corners, the rings together wind once around every cell
\* of the mask and not at all around any other: no ring is lost, none is counted
\* twice, and exteriors and holes are turned as geo expects them.
WindsAroundMask ==
  polygons # None =>
    \A p \in Cells(mask.rows, mask.cols) :
      Winding(AllRings, p) = IF p \in mask.cells THEN 1 ELSE 0

\* Rasterizing the polygons of a mask gives the mask again: the carve that is
\* polygonized is the carve any later rasterization sees.
RoundTrip ==
  polygons # None =>
    Rasterize([k \in 1 .. Len(AllRings) |-> Quarters(AllRings[k])], mask.rows, mask.cols) = mask.cells

\* Every polygon alone is a region with its own holes: its interior rings lie in
\* its exterior and outside one another ("Interior holes (donut shapes) are
\* represented as polygon interior rings").
HolesOfTheirPolygon ==
  polygons # None =>
    \A k \in 1 .. Len(polygons) : \A p \in Cells(mask.rows, mask.cols) :
      Winding(RingsOf(polygons[k]), p) \in {0, 1}

\* The polygons are the mask, by their windings and by what rasterize makes of
\* them (polygonize, polygonize.rs, and rasterize_polygon, rasterize.rs).
PolygonsAreTheMask == WindsAroundMask /\ RoundTrip

=============================================================================
