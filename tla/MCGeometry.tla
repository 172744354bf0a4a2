----------------------------- MODULE MCGeometry -----------------------------
(***************************************************************************)
(* Inputs of the algorithms that MCDelineate checks: geometries for        *)
(* Assembly, GeometryValidity and CanonicalWkb, calls for RasterCarve and  *)
(* masks for Polygonize.                                                   *)
(***************************************************************************)
EXTENDS Integers, GridRegion, RasterFill, Sequences, SequencesExt

CONSTANTS
  NaN, Infinity,  \* the floats
  None            \* an absent value

(***************************************************************************)
(* Assembly: three units on four by four squares: the halves of a ring     *)
(* around four squares, an island in them that touches the ring in points  *)
(* only, units that overlap, and a corner apart.                           *)
(***************************************************************************)

Court == Tiles({<<2, 2>>, <<3, 2>>, <<2, 3>>, <<3, 3>>})
Ring == Tiles((1 .. 4) \X (1 .. 4)) \ Court
Island == {<<2, 2, "n">>, <<2, 2, "e">>, <<3, 2, "n">>, <<3, 2, "w">>,
           <<2, 3, "s">>, <<2, 3, "e">>, <<3, 3, "s">>, <<3, 3, "w">>}
Left == {t \in Ring : t[1] <= 2}
Right == {t \in Ring : t[1] >= 2}

Stored == {{}, Ring, Left, Right, Island, Ring \ {<<1, 1, "n">>}, {<<5, 5, "s">>}}

Refined == {{}, Left, Island, {<<2, 2, "n">>}}

Strays == {{<<2, 2, "n">>}, {<<1, 1, "n">>}}

(***************************************************************************)
(* GeometryValidity: shells of three by three squares, whole, notched, or  *)
(* pinched; up to four holes, among them tiles of which four meet in a     *)
(* point and rings of tiles that enclose a piece of the interior; beside   *)
(* them a second polygon, or none.                                         *)
(***************************************************************************)

Closed(S) == [tiles |-> S, form |-> "closed"]

Square == Tiles((1 .. 3) \X (1 .. 3))

Middle == Tiles({<<2, 2>>})

Shells == {Square, Square \ {<<2, 3, "n">>}, Square \ Tiles({<<2, 3>>, <<1, 3>>}), Square \ Tiles({<<2, 3>>, <<2, 1>>})}

\* The middle square, its tiles, the tiles around its corners, a tile at the
\* edge, a pinched ring, and a ring outside that touches in a point.
Holes ==
  {Closed({t}) : t \in Middle}
    \cup {Closed({t}) : t \in {<<1, 1, "n">>, <<1, 1, "e">>, <<2, 1, "n">>, <<1, 2, "e">>, <<3, 2, "w">>, <<2, 3, "s">>, <<2, 1, "s">>}}
    \cup {Closed(Middle), Closed({<<2, 2, "n">>, <<2, 2, "s">>}), Closed({<<2, 2, "n">>, <<2, 2, "e">>}),
          Closed({<<4, 4, "w">>, <<4, 4, "s">>})}

Large == Closed(Tiles((1 .. 2) \X {2}) \ {<<1, 2, "w">>})

HoleSets == UNION {kSubset(n, Holes) : n \in 0 .. 2}
              \cup {H \in kSubset(3, Holes) \cup kSubset(4, Holes) : \A h \in H : Cardinality(h.tiles) = 1}
              \cup {{Large, Closed({<<2, 2, "w">>})}}

First == {<<Closed(S)>> \o SetToSeq(H) : S \in Shells, H \in HoleSets}

Faulty ==
  {<<[tiles |-> Square, form |-> f], Closed(Middle)>> : f \in {"nonfinite", "unclosed"}}
    \cup {<<Closed({}), Closed(Middle)>>, <<Closed({})>>, <<Closed({}), Closed({})>>,
          <<Closed(Square), Closed({}), Closed(Middle)>>}

Second == {<<>>} \cup {<< <<Closed(S)>> >> : S \in {Middle, {<<2, 2, "n">>}, Tiles({<<4, 4>>}), {<<2, 3, "n">>}, Square, {}}}

ValidityGeometry ==
  {<<p>> : p \in First} \cup {<<>>}
    \cup {<<p>> \o q : p \in Faulty \cup {<<Closed(Square)>> \o SetToSeq(H) : H \in UNION {kSubset(n, Holes) : n \in 0 .. 1}}, q \in Second}

(***************************************************************************)
(* CanonicalWkb: two polygons, one with two holes that agree in box and    *)
(* area; rings that come to their least point twice, and points that       *)
(* rounding makes equal.                                                   *)
(***************************************************************************)

Loop(points) == Append(points, points[1])

Plain == Loop(<< <<0, 0>>, <<90, 0>>, <<90, 90>> >>)
HoleA == Loop(<< <<20, 10>>, <<40, 10>>, <<40, 30>> >>)
HoleB == Loop(<< <<20, 10>>, <<40, 10>>, <<20, 30>> >>)
Twice == Loop(<< <<0, 0>>, <<30, 0>>, <<30, 10>>, <<0, 0>>, <<10, 30>> >>)
Equal == Loop(<< <<-51, 0>>, <<-49, 0>>, <<-51, 20>> >>)

WkbNoise == {-3, 3}

WkbGeometry ==
  {<< <<Plain, HoleA, HoleB>>, <<Equal>> >>, << <<Twice, HoleA>>, <<Twice>> >>, << <<Plain>>, <<Plain, HoleB>> >>}

(***************************************************************************)
(* RasterCarve: rasters of two rows and three columns.                     *)
(***************************************************************************)

Rect(r0, c0, r1, c1) == <<<<r0, c0>>, <<r0, c1>>, <<r1, c1>>, <<r1, c0>>, <<r0, c0>>>>

\* Beyond the raster on all sides; a hole over the cell <<0, 1>>; a slanted side; the
\* lower right cells; a sliver that misses every centre; beside the raster; its extent.
Over == <<Rect(-4, -4, 12, 16)>>
Holed == <<Rect(-2, -2, 11, 11), Rect(0, 5, 3, 7)>>
Slanted == <<<<<<-2, -2>>, <<-2, 16>>, <<10, 0>>, <<-2, -2>>>>>>
Lower == <<Rect(3, 5, 7, 11)>>
Sliver == <<<<<<0, 4>>, <<0, 6>>, <<4, 4>>, <<0, 4>>>>>>
Beside == <<Rect(0, 16, 8, 20)>>
Exact == <<Rect(0, 0, 8, 12)>>
\* A vertex on the centre line of the first row.
Kite == <<<<<<2, 1>>, <<-2, 5>>, <<2, 13>>, <<9, 5>>, <<2, 1>>>>>>

Grid == Cells(2, 3)

File(type, nodata, samples) ==
  [rows |-> 2, cols |-> 3, origin |-> <<0, 0>>, pixel |-> 4, opens |-> TRUE, skewed |-> FALSE,
   type |-> type, nodata |-> nodata, samples |-> samples]

Values(s) == [p \in Grid |-> s[3 * p[1] + p[2] + 1]]

Acc1 == File("Float32", 9, Values(<<1, 4, 2, 4, 3, 9>>))
Acc2 == File("Int32", NaN, Values(<<0, 2, 2, 5, 2, 6>>))
\* Counts that are the same in single precision, and a nodata beyond them all.
Acc3 == File("Int32", 3000, Values(<<1, 16, 2047, 2, 17, 19>>))
\* A float that is not finite, nearest to the reference.
Acc4 == File("Float32", 5, Values(<<16, Infinity, 2, 4, 18, NaN>>))

K(encoding, direction, accumulation, rings, outlet) ==
  [encoding |-> encoding, direction |-> direction, accumulation |-> accumulation, terminal |-> rings,
   outlet |-> outlet, threshold |-> 2, units |-> "cells", epsg |-> 4326]

\* East, southwest, west and no direction, in every arrangement of five cells.
Terrain ==
  {K("esri", File("UInt8", 255, [p \in Grid |-> IF p = <<1, 0>> THEN 64 ELSE b[p]]), Acc1, t, <<5, 8>>) :
     b \in [Grid \ {<<1, 0>>} -> {1, 8, 16, 0}], t \in {Over, Holed, Slanted}}
  \cup {K("grass", File("Int8", nd, [p \in Grid |-> IF p = <<0, 0>> THEN 7 ELSE b[p]]), Acc2, t, <<2, 18>>) :
     b \in [Grid \ {<<0, 0>>} -> {3, 4, 8, -1}], nd \in {None, -1}, t \in {Over, Lower}}
  \cup {K("esri", File("UInt8", 255, [p \in Grid |-> IF p[1] = 0 THEN b[p[2]] ELSE 64]), a, t, o) :
     b \in [0 .. 2 -> {1, 8, 0}], a \in {Acc3, Acc4}, t \in {Over, Holed}, o \in {<<4, 6>>, <<4, 8>>}}

One == K("taudem", File("UInt8", 0, Values(<<8, 7, 6, 1, 0, 5>>)), Acc1, Over, <<6, 6>>)

\* Every refusal.
Faults ==
  {[One EXCEPT !.terminal = t] : t \in {Sliver, Beside, <<>>, Lower, Kite}}
  \cup {[One EXCEPT !.outlet = NaN], [One EXCEPT !.threshold = 5], [One EXCEPT !.units = "km2"],
        [One EXCEPT !.units = "km2", !.epsg = 8857], [One EXCEPT !.direction.nodata = 8],
        [One EXCEPT !.direction.nodata = 300], [One EXCEPT !.direction.opens = FALSE],
        [One EXCEPT !.direction.skewed = TRUE], [One EXCEPT !.direction.type = "Float32"],
        [One EXCEPT !.accumulation.opens = FALSE], [One EXCEPT !.accumulation.type = "UInt8"],
        [One EXCEPT !.accumulation.origin = <<4, 0>>, !.terminal = Exact],
        [One EXCEPT !.accumulation.origin = <<-4, -4>>, !.terminal = Over],
        [One EXCEPT !.accumulation.origin = <<1, 1>>],
        [One EXCEPT !.accumulation.pixel = 8, !.terminal = <<Rect(-4, -4, 20, 30)>>]}

MCCase == Terrain \cup Faults

(***************************************************************************)
(* Polygonize: all masks of a small grid, closed rings of cells around an  *)
(* arbitrary interior, and rings within rings.                             *)
(***************************************************************************)

M(r, c, s) == [rows |-> r, cols |-> c, cells |-> s]

Block(lo, hi) == (lo .. hi) \X (lo .. hi)

Frame(lo, hi) == Block(lo, hi) \ Block(lo + 1, hi - 1)

\* A frame within a frame, joined by the cells of j.
MCNested == {M(7, 7, Frame(0, 6) \cup Frame(2, 4) \cup j) : j \in SUBSET {<<1, 1>>, <<1, 5>>, <<5, 1>>, <<3, 1>>}}

MCMask ==
  {M(3, 4, s) : s \in SUBSET Cells(3, 4)}
  \cup {M(5, 5, (Frame(0, 4) \ g) \cup s) : s \in SUBSET Block(1, 3), g \in {{}, {<<4, 0>>}}}
  \cup MCNested

=============================================================================
