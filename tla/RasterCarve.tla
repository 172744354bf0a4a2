---------------------------- MODULE RasterCarve -----------------------------
(***************************************************************************)
(* Carving a terminal catchment with D8 rasters: the windowed GDAL reads   *)
(* (crates/gdal/src/raster_reader.rs) and refine_terminal with its mask,   *)
(* seed ranking and upstream trace (crates/core/src/algo/refine.rs,        *)
(* snap.rs, trace.rs).  The polygon of the carve is module Polygonize's.   *)
(*                                                                         *)
(* Native coordinates are integers in quarters of a pixel, written         *)
(* <<row, col>> with the row axis pointing down as the north-up transform  *)
(* maps it.                                                                *)
(***************************************************************************)
EXTENDS Integers, Sequences, RasterFill, FiniteSetsExt, SequencesExt

CONSTANTS
  Case,      \* the calls considered
  PixelArea, \* the area of a pixel in the unit of km2 accumulations
  Precise,   \* 2^24: every integer up to it is a float of single precision
  Largest,   \* i32::MAX
  Infinity,  \* the float
  NaN,       \* the float
  None       \* an absent value

-----------------------------------------------------------------------------
(* Flow-direction bytes and tiles (flow_dir.rs, flow_direction_tile.rs): a   *)
(* tile maps cells to bytes, and has a declared nodata byte and an encoding. *)

\* FlowDir::ALL.
ALL == <<"East", "Southeast", "South", "Southwest", "West", "Northwest", "North", "Northeast">>

FlowDir == {ALL[i] : i \in 1 .. 8}

DX(d) ==
  CASE d \in {"East", "Northeast", "Southeast"} -> 1
    [] d \in {"West", "Northwest", "Southwest"} -> -1
    [] OTHER -> 0

DY(d) ==
  CASE d \in {"North", "Northwest", "Northeast"} -> -1
    [] d \in {"South", "Southwest", "Southeast"} -> 1
    [] OTHER -> 0

OppositeOf ==
  [East |-> "West", Southeast |-> "Northwest", South |-> "North", Southwest |-> "Northeast",
   West |-> "East", Northwest |-> "Southeast", North |-> "South", Northeast |-> "Southwest"]

Opposite(d) == OppositeOf[d]

EsriByte ==
  [East |-> 1, Southeast |-> 2, South |-> 4, Southwest |-> 8,
   West |-> 16, Northwest |-> 32, North |-> 64, Northeast |-> 128]

TaudemByte ==
  [East |-> 1, Northeast |-> 2, North |-> 3, Northwest |-> 4,
   West |-> 5, Southwest |-> 6, South |-> 7, Southeast |-> 8]

GrassByte ==
  [Northeast |-> 1, North |-> 2, Northwest |-> 3, West |-> 4,
   Southwest |-> 5, South |-> 6, Southeast |-> 7, East |-> 8]

ByteOf == [esri |-> EsriByte, taudem |-> TaudemByte, grass |-> GrassByte]

\* Zero has no direction; nor have the bytes of GRASS's -8 .. -1.
HasNoDirection(b, encoding) == b = 0 \/ (encoding = "grass" /\ b \in 248 .. 255)

\* FlowDir::from_encoded.
FromEncoded(b, encoding) ==
  CASE HasNoDirection(b, encoding) -> "none"
    [] \E d \in FlowDir : ByteOf[encoding][d] = b -> CHOOSE d \in FlowDir : ByteOf[encoding][d] = b
    [] OTHER -> "invalid"

NODATA == 255

\* decode: the direction of a cell for the trace.
Decode(b, encoding) ==
  IF b # NODATA /\ FromEncoded(b, encoding) \in FlowDir THEN FromEncoded(b, encoding) ELSE "none"

\* FlowDirectionTile::decoded_cell: the cell may be a seed.
Usable(b, nodata, encoding) ==
  /\ b # nodata
  /\ LET d == FromEncoded(b, encoding) IN d \in FlowDir \/ (d = "none" /\ encoding = "grass")

\* FlowDirectionTile::from_raw refuses a nodata byte that is a direction.
DirectionalNodata(nodata, encoding) == FromEncoded(nodata, encoding) \in FlowDir

\* The neighbour of a cell in a direction.
Step(p, d) == <<p[1] + DY(d), p[2] + DX(d)>>

-----------------------------------------------------------------------------
(* The call. *)

FileCells(f) == Cells(f.rows, f.cols)

Centre(f, p) == <<f.origin[1] + Mid(p[1]), f.origin[2] + Mid(p[2])>>

\* An edge passes through the point.
OnEdge(e, v) ==
  /\ (e[2][1] - e[1][1]) * (v[2] - e[1][2]) = (e[2][2] - e[1][2]) * (v[1] - e[1][1])
  /\ \A k \in {1, 2} : Min({e[1][k], e[2][k]}) <= v[k] /\ v[k] <= Max({e[1][k], e[2][k]})

\* The distance of the integers that single precision has around v.
Spacing(v) == Min({u \in {1, 2, 4, 8, 16, 32, 64, 128} : -Precise * u <= v /\ v <= Precise * u})

\* `as f32`: the nearest of them, of two the even one.
Single(v) ==
  LET u == Spacing(v)
      up == 2 * (v % u) > u \/ (2 * (v % u) = u /\ (v \div u) % 2 = 1)
  IN  ((v \div u) + (IF up THEN 1 ELSE 0)) * u

\* A float of single precision, an i32.
IsFloat(v) == v \in {NaN, Infinity} \/ v = Single(v)

IsI32(v) == v \in -Largest - 1 .. Largest

\* A call: two raster files, the rings of the terminal, the proximity reference
\* (NaN when it does not project to finite numbers), the threshold in cells and
\* the declarations.  No cell centre of the direction raster lies on a ring, and
\* a pixel of it is four units wide.
IsCase(k) ==
  /\ k.encoding \in {"esri", "taudem", "grass"} /\ k.threshold \in Nat
  /\ \A f \in {k.direction, k.accumulation} : DOMAIN f.samples = FileCells(f)
  /\ k.direction.pixel = 4 /\ k.accumulation.pixel \in Nat \ {0}
  /\ \A p \in FileCells(k.direction), e \in Edges(k.terminal) : ~OnEdge(e, Centre(k.direction, p))
  /\ \A p \in FileCells(k.accumulation) :
       LET v == k.accumulation.samples[p]
       IN  CASE k.accumulation.type = "Float32" -> IsFloat(v)
             [] k.accumulation.type = "Int32" -> IsI32(v)
             [] OTHER -> TRUE
  /\ \A i \in 1 .. Len(k.terminal) : k.terminal[i][1] = Last(k.terminal[i])

\* What the values of the constants are assumed to be.
CarveAssumption ==
  /\ {PixelArea, Precise} \subseteq Nat \ {0} /\ Largest = 128 * Precise - 1
  /\ \A k \in Case : IsCase(k)

VARIABLES
  case,      \* the call
  pc,        \* the step
  flow,      \* the flow-direction tile: rows, cols, origin, data, nodata
  acc,       \* the accumulation tile
  terminal,  \* the cells of the terminal mask
  seed,      \* the seed cell
  stack,     \* the trace's stack
  visited,   \* the cells of the trace
  error      \* the error returned

vars == <<case, pc, flow, acc, terminal, seed, stack, visited, error>>

Init ==
  /\ case \in Case
  /\ pc = "flow" /\ flow = None /\ acc = None /\ terminal = {} /\ seed = None
  /\ stack = <<>> /\ visited = {} /\ error = None

Fail(e) ==
  /\ pc' = "failed" /\ error' = e
  /\ UNCHANGED <<case, flow, acc, terminal, seed, stack, visited>>

-----------------------------------------------------------------------------
(* The windowed reads. *)

Vertices == UNION {ToSet(case.terminal[i]) : i \in 1 .. Len(case.terminal)}

Clamp(v, limit) == Max({0, Min({v, limit})})

\* Mutant: the far side of the window is truncated like the near side.
WindowEndTruncated(limit, origin, pixel, coords) == Clamp((Max(coords) - origin) \div pixel, limit)

WindowEnd(limit, origin, pixel, coords) == Clamp(CeilDiv(Max(coords) - origin, pixel), limit)

WindowStart(limit, origin, pixel, coords) == Clamp((Min(coords) - origin) \div pixel, limit)

\* bbox_to_pixel_window along both axes, and window_geo_transform.
Window(f) ==
  LET coords(k) == {v[k] : v \in Vertices}
      from == <<WindowStart(f.rows, f.origin[1], f.pixel, coords(1)),
                WindowStart(f.cols, f.origin[2], f.pixel, coords(2))>>
      to   == <<WindowEnd(f.rows, f.origin[1], f.pixel, coords(1)),
                WindowEnd(f.cols, f.origin[2], f.pixel, coords(2))>>
  IN  [at |-> from, rows |-> Max({0, to[1] - from[1]}), cols |-> Max({0, to[2] - from[2]}),
       geo |-> [origin |-> <<f.origin[1] + f.pixel * from[1], f.origin[2] + f.pixel * from[2]>>,
                pixel |-> f.pixel]]

\* What a read returns before it looks at samples, None when it goes on.
ReadError(f, types) ==
  CASE ~f.opens -> "open failed"
    [] f.skewed -> "read failed"
    [] Window(f).rows = 0 \/ Window(f).cols = 0 -> "empty window"
    [] f.type \notin types -> "read failed"
    [] OTHER -> None

\* The window of the samples, converted already, with its frame.
Tile(f, nodata, samples) ==
  LET w == Window(f)
  IN  [rows |-> w.rows, cols |-> w.cols, geo |-> w.geo, nodata |-> nodata,
       data |-> [p \in Cells(w.rows, w.cols) |-> samples[<<p[1] + w.at[1], p[2] + w.at[2]>>]]]

\* An i8 sample keeps its bits.
Byte(v) == v % 256

\* flow_direction_nodata.
FlowNodata(f) ==
  CASE f.nodata = None -> 255
    [] f.type = "Int8" /\ f.nodata \in -128 .. 127 -> Byte(f.nodata)
    [] f.type = "UInt8" /\ f.nodata \in 0 .. 255 -> f.nodata
    [] OTHER -> 255

\* load_flow_direction, after the bounding rectangle of the terminal.
LoadFlowDirection ==
  /\ pc = "flow"
  /\ LET f == case.direction
     IN  IF Vertices = {} THEN Fail("degenerate terminal")
         ELSE IF ReadError(f, {"UInt8", "Int8"}) # None THEN Fail(ReadError(f, {"UInt8", "Int8"}))
         ELSE IF DirectionalNodata(FlowNodata(f), case.encoding) THEN Fail("directional nodata")
         ELSE /\ flow' = Tile(f, FlowNodata(f), [p \in DOMAIN f.samples |-> Byte(f.samples[p])]) /\ pc' = "acc"
              /\ UNCHANGED <<case, acc, terminal, seed, stack, visited, error>>

\* The declared nodata cast to f32, and to i32: NaN is zero, the rest saturates.
NodataF32(n) == IF n \in {None, NaN, Infinity} THEN n ELSE Single(n)

NodataI32(n) ==
  CASE n = None -> None [] n = NaN -> 0 [] n = Infinity -> Largest
    [] OTHER -> Max({-Largest - 1, Min({n, Largest})})

\* replace_nodata_with_nan, for floats, and normalize_i32_accumulation, which
\* compares before it rounds.
Accumulated(f, v) ==
  IF f.type = "Int32" THEN IF v = NodataI32(f.nodata) THEN NaN ELSE Single(v)
  ELSE IF v = NodataF32(f.nodata) THEN NaN ELSE v

LoadAccumulation ==
  /\ pc = "acc"
  /\ LET f == case.accumulation
     IN  IF ReadError(f, {"Float32", "Int32"}) # None THEN Fail(ReadError(f, {"Float32", "Int32"}))
         ELSE /\ acc' = Tile(f, NaN, [p \in DOMAIN f.samples |-> Accumulated(f, f.samples[p])]) /\ pc' = "align"
              /\ UNCHANGED <<case, flow, terminal, seed, stack, visited, error>>

-----------------------------------------------------------------------------
(* refine_terminal. *)

\* d8_pair_is_compatible.
PairIsCompatible(epsg, units) ==
  <<epsg, units>> \in {<<4326, "cells">>, <<8857, "cells">>, <<8857, "km2">>}

\* Step 1: the declarations, then the two grids.
Align ==
  /\ pc = "align"
  /\ IF ~PairIsCompatible(case.epsg, case.units) THEN Fail("geographic km2")
     ELSE IF <<flow.rows, flow.cols>> # <<acc.rows, acc.cols>> THEN Fail("dimension mismatch")
     ELSE IF flow.geo # acc.geo THEN Fail("transform mismatch")
     ELSE /\ pc' = "mask"
          /\ UNCHANGED <<case, flow, acc, terminal, seed, stack, visited, error>>

\* A vertex in the pixel space of the tile.
ToPixel(v) == <<v[1] - flow.geo.origin[1], v[2] - flow.geo.origin[2]>>

PixelRings ==
  [i \in 1 .. Len(case.terminal) |->
     [j \in 1 .. Len(case.terminal[i]) |-> ToPixel(case.terminal[i][j])]]

\* Mutant: the trace runs on the tile as it was read.
MaskFlowUnmasked(t, keep) == t

\* apply_mask: a cell outside becomes 255.
MaskFlow(t, keep) == [t EXCEPT !.data = [p \in DOMAIN t.data |-> IF p \in keep THEN t.data[p] ELSE NODATA]]

MaskAcc(t, keep) == [t EXCEPT !.data = [p \in DOMAIN t.data |-> IF p \in keep THEN t.data[p] ELSE NaN]]

\* Step 3: the terminal mask; seeds also need a usable flow cell, the trace does not.
MaskTiles ==
  /\ pc = "mask"
  /\ LET in == Rasterize(PixelRings, flow.rows, flow.cols)
         usable == {p \in in : Usable(flow.data[p], flow.nodata, case.encoding)}
     IN  IF in = {} THEN Fail("empty mask")
         ELSE /\ terminal' = in /\ flow' = MaskFlow(flow, in) /\ acc' = MaskAcc(acc, usable)
              /\ pc' = "snap" /\ UNCHANGED <<case, seed, stack, visited, error>>

\* effective_threshold, in single precision.
EffectiveThreshold == Single(IF case.units = "cells" THEN case.threshold ELSE case.threshold * PixelArea)

\* raster_seed_candidates: finite, and not below the threshold.
Candidates ==
  {p \in DOMAIN acc.data : acc.data[p] \notin {NaN, Infinity} /\ acc.data[p] >= EffectiveThreshold}

\* Squared distance of a cell's centre to the reference.
Distance(p) ==
  LET v == ToPixel(case.outlet) IN (Mid(p[1]) - v[1]) ^ 2 + (Mid(p[2]) - v[2]) ^ 2

\* Nearest, then the higher accumulation, then row-major order.
Ranks(p, q) ==
  \/ Distance(p) < Distance(q)
  \/ /\ Distance(p) = Distance(q)
     /\ \/ acc.data[p] > acc.data[q]
        \/ acc.data[p] = acc.data[q] /\ (p[1] < q[1] \/ (p[1] = q[1] /\ p[2] <= q[2]))

\* snap_pour_point; the trace starts at the seed.
SnapPourPoint ==
  /\ pc = "snap"
  /\ IF case.outlet = NaN THEN Fail("non-finite reference")
     ELSE IF Candidates = {} THEN Fail("no cell above threshold")
     ELSE LET best == CHOOSE p \in Candidates : \A q \in Candidates : Ranks(p, q)
          IN  /\ seed' = best /\ visited' = {best} /\ stack' = <<best>> /\ pc' = "trace"
              /\ UNCHANGED <<case, flow, acc, terminal, error>>

\* The neighbour in direction d flows into p.
FlowsInto(p, d) ==
  /\ Step(p, d) \in DOMAIN flow.data
  /\ Decode(flow.data[Step(p, d)], case.encoding) = Opposite(d)

\* trace_upstream: pop a cell and push its unvisited upstream neighbours.
Trace ==
  /\ pc = "trace" /\ stack # <<>>
  /\ LET p == Last(stack)
         new == SelectSeq(ALL, LAMBDA d : FlowsInto(p, d) /\ Step(p, d) \notin visited)
         push == [i \in 1 .. Len(new) |-> Step(p, new[i])]
     IN  stack' = Front(stack) \o push /\ visited' = visited \cup ToSet(push)
  /\ UNCHANGED <<case, pc, flow, acc, terminal, seed, error>>

\* The carve holds the seed, so it has polygons.
Carved ==
  /\ pc = "trace" /\ stack = <<>>
  /\ pc' = "ok"
  /\ UNCHANGED <<case, flow, acc, terminal, seed, stack, visited, error>>

Next == LoadFlowDirection \/ LoadAccumulation \/ Align \/ MaskTiles \/ SnapPourPoint \/ Trace \/ Carved

Spec == Init /\ [][Next]_vars

-----------------------------------------------------------------------------
(* Properties, stated on the raster files and the terminal's rings. *)

\* The centre is inside the rings: an odd number of edges above it.
InTerminal(f, p) ==
  LET v == Centre(f, p)
      above(e) ==
        LET a == IF e[1][2] <= e[2][2] THEN e[1] ELSE e[2]
            b == IF e[1][2] <= e[2][2] THEN e[2] ELSE e[1]
        IN  /\ a[2] < v[2] /\ v[2] <= b[2]
            /\ a[1] * (b[2] - a[2]) + (v[2] - a[2]) * (b[1] - a[1]) < v[1] * (b[2] - a[2])
  IN  Cardinality({e \in Edges(case.terminal) : above(e)}) % 2 = 1

Direction(p) == Byte(case.direction.samples[p])

\* The accumulation of a cell of the raster, in the precision the code ranks it.
Amount(p) == Accumulated(case.accumulation, case.accumulation.samples[p])

\* The cells of the files a seed may be.
Eligible ==
  {p \in FileCells(case.direction) :
     /\ InTerminal(case.direction, p)
     /\ Usable(Direction(p), FlowNodata(case.direction), case.encoding)
     /\ Amount(p) \notin {NaN, Infinity} /\ Amount(p) >= EffectiveThreshold}

FarFrom(p) ==
  LET v == Centre(case.direction, p) IN (v[1] - case.outlet[1]) ^ 2 + (v[2] - case.outlet[2]) ^ 2

\* The cell of the file under a cell of the tile.
InFile(p) ==
  <<p[1] + (flow.geo.origin[1] - case.direction.origin[1]) \div 4,
    p[2] + (flow.geo.origin[2] - case.direction.origin[2]) \div 4>>

\* The window, the masks and the thresholds lose no candidate: the seed is a usable
\* cell of the raster with its centre in the terminal, none that qualifies is nearer
\* to the reference or as near with more accumulation, or earlier in the raster with
\* the same, and a terminal is given up for want of one only when the whole raster
\* has none.  Accumulations and threshold are those of single precision: counts
\* over 2^24 that round together are the same amount.
SeedExact ==
  /\ pc \in {"trace", "ok"} =>
       /\ InFile(seed) \in Eligible
       /\ \A p \in Eligible :
            /\ FarFrom(InFile(seed)) <= FarFrom(p)
            /\ FarFrom(InFile(seed)) = FarFrom(p) =>
                 \/ Amount(InFile(seed)) > Amount(p)
                 \/ /\ Amount(InFile(seed)) = Amount(p)
                    /\ \/ InFile(seed)[1] < p[1]
                       \/ InFile(seed)[1] = p[1] /\ InFile(seed)[2] <= p[2]
  /\ error = "no cell above threshold" => Eligible = {}
  /\ error = "empty mask" => \A p \in FileCells(case.direction) : ~InTerminal(case.direction, p)

\* The cells that reach the seed following the raster's directions inside the
\* terminal, n steps at most.
Drains ==
  LET f == case.direction
      in == {p \in FileCells(f) : InTerminal(f, p)}
      to[n \in 0 .. Cardinality(in)] ==
        IF n = 0 THEN {InFile(seed)}
        ELSE to[n - 1] \cup
               {p \in in : /\ Decode(Direction(p), case.encoding) # "none"
                           /\ Step(p, Decode(Direction(p), case.encoding)) \in to[n - 1]}
  IN  to[Cardinality(in)]

\* The carve is what drains to the seed inside the terminal, all of it and nothing
\* else: flow that leaves the terminal and comes back is not followed, loops end.
CarveExact ==
  pc = "ok" => {InFile(p) : p \in visited} = Drains

\* Seed and carve are those of the rasters, not of the windows read from them
\* (refine, algo/refine.rs).
RefinementExact == SeedExact /\ CarveExact

=============================================================================
