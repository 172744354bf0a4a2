---------------------------- MODULE MCDelineate ----------------------------
(***************************************************************************)
(* Delineation and its algorithms.  A behaviour is about one part, which   *)
(* the variable part names and which never changes:                        *)
(*   batch       Delineate: a batch of two calls over a line of tiles.     *)
(*               Terminals lie inside one tile, on the overlap of two,     *)
(*               across two, or outside; one declaration has a smaller     *)
(*               flow-accumulation raster, one another coordinate system   *)
(*               and one an unsupported one;                               *)
(*   carve       RasterCarve: one refinement of a terminal;                *)
(*   polygonize  Polygonize: one mask;                                     *)
(*   assembly    Assembly: one watershed;                                  *)
(*   validity    GeometryValidity: one check;                              *)
(*   wkb         CanonicalWkb: the presentations of one geometry.          *)
(* Every part has its variables; those of the other parts rest.            *)
(***************************************************************************)
EXTENDS Delineate, TLC

CONSTANTS Parts, c1, c2, NaN, Infinity, None, RemoveAll

VARIABLES
  part,
  case, carving, flow, acc, terminal, seed, stack, visited, error,
  mask, adjacency, ring, rings, polygons,
  job, assembling, parts, merged, faithful, assembled,
  checked, check, polygon, contacts, root, validity,
  presented, noise, golden

carve == <<case, carving, flow, acc, terminal, seed, stack, visited, error>>

polygonize == <<mask, adjacency, ring, rings, polygons>>

assembly == <<job, assembling, parts, merged, faithful, assembled>>

valid == <<checked, check, polygon, contacts, root, validity>>

wkb == <<presented, noise, golden>>

MCUnit == 1 .. 2

Box(a, b) == [x0 |-> a, y0 |-> 0, x1 |-> b, y1 |-> 1]

D8(crs, directions, sums) == [crs |-> crs, flow_dir |-> directions, flow_acc |-> sums]

West == D8("wgs84", Box(0, 4), Box(0, 4))
East == D8("wgs84", Box(3, 8), Box(3, 8))
Narrow == D8("wgs84", Box(0, 8), Box(0, 2))
Metric == D8("utm", Box(100, 104), Box(100, 104))
Lying == D8("mars", Box(0, 8), Box(0, 8))

Session(d8, unreadable) ==
  {[d8 |-> d8, unreadable |-> unreadable, source |-> src, remote |-> rem] :
     src \in BOOLEAN, rem \in BOOLEAN}

MCEngine ==
  UNION {Session(<<>>, TRUE), Session(<<>>, FALSE),
         Session(<<West, East>>, TRUE), Session(<<Narrow, East, West>>, FALSE),
         Session(<<Metric, West>>, FALSE), Session(<<West, Lying>>, FALSE)}

Bounds2(a, b) == [crs \in {"wgs84", "utm"} |->
                    IF crs = "utm" THEN Box(a + 100, b + 100) ELSE Box(a, b)]

Outlet(mode, authority, hollow, bounds) ==
  [mode |-> mode, authority |-> authority, units |-> 1 .. 2, terminal |-> 1,
   hollow |-> hollow, bounds |-> bounds]

\* Inside West, in the overlap, touching East, across both, outside.
Places == {Bounds2(1, 2), Bounds2(3, 4), Bounds2(1, 3), Bounds2(2, 6), Bounds2(9, 9)}

MCInput ==
  {Outlet(mode, "vector_point", {}, b) : mode \in Mode, b \in Places}
    \cup {Outlet(mode, "unit_containment", {1}, Bounds2(1, 2)) :
            mode \in {"best_effort", "require_d8"}}

Symmetric == Permutations({c1, c2})

-----------------------------------------------------------------------------
(* The other parts. *)

Inputs == INSTANCE MCGeometry

CarveCase == Inputs!MCCase

Refine == INSTANCE RasterCarve WITH
  Case <- CarveCase, PixelArea <- 2, Precise <- 16, Largest <- 2047, pc <- carving

Masks == Inputs!MCMask

Polygons == INSTANCE Polygonize WITH Mask <- Masks

StoredShapes == Inputs!Stored

RefinedShapes == Inputs!Refined

StrayShapes == Inputs!Strays

Assemble == INSTANCE Assembly WITH
  Units <- {1, 2, 3}, Terminal <- 1, Stored <- StoredShapes, Refinements <- RefinedShapes,
  Thresholds <- {9}, Strays <- StrayShapes,
  call <- job, stage <- assembling, geometry <- merged, outcome <- assembled

CheckedShapes == Inputs!ValidityGeometry

Validity == INSTANCE GeometryValidity WITH
  MultiPolygons <- CheckedShapes, geometry <- checked, stage <- check, verdict <- validity

PresentedShapes == Inputs!WkbGeometry

Wkb == INSTANCE CanonicalWkb WITH
  MultiPolygons <- PresentedShapes, Noise <- Inputs!WkbNoise, geometry <- presented

ASSUME Refine!CarveAssumption /\ Polygons!MaskAssumption /\ Assemble!UnitsAssumption

BatchRest ==
  /\ engine = CHOOSE e \in Engine : e.d8 = <<>>
  /\ input = [c \in Call |-> CHOOSE i \in Input : i.hollow # {}]
  /\ Init

CarveRest ==
  /\ case = None /\ carving = None /\ flow = None /\ acc = None /\ terminal = None
  /\ seed = None /\ stack = None /\ visited = None /\ error = None

PolygonizeRest ==
  mask = None /\ adjacency = None /\ ring = None /\ rings = None /\ polygons = None

AssemblyRest ==
  /\ job = None /\ assembling = None /\ parts = None /\ merged = None
  /\ faithful = None /\ assembled = None

ValidityRest ==
  /\ checked = None /\ check = None /\ polygon = None /\ contacts = None
  /\ root = None /\ validity = None

WkbRest == presented = None /\ noise = None /\ golden = None

MCInit ==
  /\ part \in Parts
  /\ IF part = "batch" THEN Init ELSE BatchRest
  /\ IF part = "carve" THEN Refine!Init ELSE CarveRest
  /\ IF part = "polygonize" THEN Polygons!Init ELSE PolygonizeRest
  /\ IF part = "assembly" THEN Assemble!Init ELSE AssemblyRest
  /\ IF part = "validity" THEN Validity!Init ELSE ValidityRest
  /\ IF part = "wkb" THEN Wkb!Init ELSE WkbRest

MCNext ==
  \/ part = "batch" /\ Next /\ UNCHANGED <<part, carve, polygonize, assembly, valid, wkb>>
  \/ part = "carve" /\ Refine!Next /\ UNCHANGED <<part, vars, polygonize, assembly, valid, wkb>>
  \/ part = "polygonize" /\ Polygons!Next /\ UNCHANGED <<part, vars, carve, assembly, valid, wkb>>
  \/ part = "assembly" /\ Assemble!Next /\ UNCHANGED <<part, vars, carve, polygonize, valid, wkb>>
  \/ part = "validity" /\ Validity!Next /\ UNCHANGED <<part, vars, carve, polygonize, assembly, wkb>>
  \/ part = "wkb" /\ Wkb!Next /\ UNCHANGED <<part, vars, carve, polygonize, assembly, valid>>

MCSpec == MCInit /\ [][MCNext]_<<part, vars, carve, polygonize, assembly, valid, wkb>>

-----------------------------------------------------------------------------

\* Seed and carve are those of the rasters, not of the windows read from them:
\* all that drains to the seed inside the terminal, and nothing else
\* (refine, algo/refine.rs).
RefinementExact == (part = "carve") => Refine!RefinementExact

\* The polygons are the mask, by their windings and by what rasterize makes of
\* them (polygonize, polygonize.rs, and rasterize_polygon, rasterize.rs).
PolygonsAreTheMask == (part = "polygonize") => Polygons!PolygonsAreTheMask

\* Every polygon alone is a region with its own holes ("Interior holes (donut
\* shapes) are represented as polygon interior rings", polygonize.rs).
HolesOfTheirPolygon == (part = "polygonize") => Polygons!HolesOfTheirPolygon

\* Sound units always make a watershed, unless the repair backend fails or
\* changes the region, and the watershed is the region asked for
\* (assemble_from_geometries, assembly.rs:252-284).
SoundUnitsAssemble == (part = "assembly") => Assemble!SoundUnitsAssemble

\* Whatever the backend returned, the area of a watershed that is handed out is
\* that of its region (validate_multi_polygon and geodesic_area_multi,
\* assembly.rs:272-283).
AreaIsOfTheRegion == (part = "assembly") => Assemble!AreaIsOfTheRegion

\* A geometry passes exactly when it is valid, and an interior is reported
\* disconnected only when it is (validate_polygon, geometry_validity.rs:240-388).
VerdictExact == (part = "validity") => Validity!VerdictExact

\* However a geometry is presented, its canonical form is the same and has its
\* rings (canonical_wkb_multi_polygon, canonical_wkb.rs:29-41).
OneCanonicalForm == (part = "wkb") => Wkb!OneCanonicalForm

=============================================================================
