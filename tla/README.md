# pourpoint in TLA+

`pourpoint` delineates the watershed upstream of an outlet over a dataset in the
HFX format. It opens the dataset (local, or in an object store), resolves the
outlet to a drainage unit, collects the units upstream of it, optionally carves
the terminal unit with D8 rasters, and dissolves the units into one polygon.

This directory models the program from the open of a dataset to the file that is
exported: the parts whose correctness depends on the order in which things
happen, and the algorithms whose many cases no test enumerates. TLC checks the
models on small instances; TLAPS proves most of what is checked of the core
modules, of the readers below them and of the callers around them, for every
value of the constants. `PROJECT.json` lists the parts, the runs, the source lines
behind every definition, the hazards the properties are aimed at, and the
theorems.

Paths below are relative to `crates/core/src` unless they start with `crates/`
or `src/`.

## The system

| part | source | state it keeps | operations | talks to |
|---|---|---|---|---|
| delineation engine | `engine.rs`, `refinement.rs`, `staged.rs` | none across calls: each call carries its own | `delineate`, `delineate_batch` (rayon workers), the staged calls | resolver, traversal, session, raster source |
| outlet resolver | `resolver.rs` | none across calls | resolve through snap targets, or by containment | snap store, catchment store |
| upstream traversal | `algo/upstream.rs`, `engine.rs` | visited set, queue, list of units of one call | select level, traverse, produce pre-merge units | drainage graph, catchment store |
| raster window cache | `raster_cache.rs` | cache directory, in-flight map of `Notify`s | get or fetch a window | COG reader, other threads and processes |
| COG reader | `cog.rs` | temporary files | prepare, fetch, decode and write a window | object store, cache directory |
| remote open | `session.rs`, `cache.rs`, `reader/id_index.rs` | cache directory: source index, manifest, graph, id index, validation sidecar | open, ranged read of an artifact | object store, readers, other processes |
| local open | `session.rs`, `source.rs` | none | open and check | readers |
| Parquet caches | `parquet_cache.rs` | row-group cache, footer cache, counters | `get_bytes`, `get_byte_ranges`, `get_metadata` | object store, all threads of the engine |
| catchment store | `reader/catchment_store.rs` | id index, row-group boxes | query by id, by box, levels | Parquet caches |
| snap store and listing | `reader/snap_store.rs`, `snap_targets.rs` | row-group boxes, membership | query by box, membership check, stream all targets of a box | Parquet caches, GeoPackage writer |
| manifest and graph readers | `reader/manifest.rs`, `reader/graph.rs` | none | parse and check | |
| hydrology | `algo/snap.rs`, `trace.rs`, `refine.rs`, `rasterize.rs`, `polygonize.rs` | grids of one call | snap to a stream cell, trace, carve, polygonize | raster reader |
| geometry | `assembly.rs`, `algo/dissolve.rs`, `hole_fill.rs`, `geometry_validity.rs`, `canonical_wkb.rs` | none | dissolve, fill, repair, validate, canonical form | repair backend |
| export | `export/*`, `crates/python/src/export.rs` | the file being written | write basins and units | disk |
| telemetry | `telemetry/*`, `source_telemetry.rs` | counters, open spans, trace file | count, snapshot, record, write a line | object store, all threads |
| Python package | `crates/python/src` | the lazily opened engine behind a mutex | construct, the engine's calls, staged calls, exports | engine, GIL |
| GDAL bridge | `crates/gdal/src` | none | read raster windows, repair a geometry, write a GeoPackage | GDAL |
| command line | `src/main.rs` | none | parse, delineate, print, write, exit | engine |

How they interact. A call goes resolver → traversal → pre-merge units →
`refine_terminal` → dissolve. `delineate_batch` runs calls on worker threads;
what they share is the session (read-only), the raster window cache and the
Parquet caches. Processes share the cache directory: its files are written and
read without locks. Python threads share an engine; native code that warns takes
the GIL.

What is hard in it:

* threads of a batch racing for one raster window, with the wake-up protocol
  around the in-flight map, and processes racing to publish one file;
* crashes, power losses and evictions between the writes of files that refer to
  one another, and republication of the dataset they were made from;
* metadata of a HEAD request used for bytes that were read at another moment,
  or never;
* graphs that repeat ids, form cycles or name units that do not exist;
* three refinement modes that must answer the same failure in three ways, on
  every path;
* rankings folded over candidates in the store's order;
* caches that survive a failed open, evict at any time and are shared by threads;
* row groups skipped by their statistics and read concurrently;
* windows, tiles and boxes computed by rounding, at edges and at limits;
* masks and rings that touch in a point, holes within islands within holes;
* two locks (mutex and GIL) around foreign code, and calls in any order with
  pieces of any origin;
* a failure after part of the output is out.

What makes each part correct is stated with its module below.

## Modules

| module | models | checked by | proved in |
|---|---|---|---|
| `RasterCache` | `get_or_fetch_window`, `fetch_window_to_path`, `write_window_geotiff` | `MCRasterCache` | `RasterCacheProofs` |
| `WindowStore` | abstract: what the window cache promises | as a property of `RasterCache`; used by `Delineate` | `RasterCacheProofs` (refinement) |
| `CogWindow` | `cog.rs`: directory, window, tile plan, index, decode, file | `MCRasterCache` (data: `MCCogWindow`) | `RasterCacheProofs` |
| `RemoteOpen` | `open_remote_with_stats` and its cache files | `MCRemoteOpen` | `RemoteOpenProofs` |
| `Traversal` | the open's referential checks, level selection, `collect_upstream`, pre-merge units | `MCTraversal` | `TraversalProofs` |
| `LocalOpen` | source, manifest, graph and the checks of `open_path` | `MCTraversal` (data: `MCLocalOpen`) | `TraversalProofs` |
| `CatchmentStore` | open, id index and queries over `catchments.parquet` | `MCTraversal` | `TraversalProofs` |
| `Delineate` | `refine_terminal`, the D8 strategy, declaration selection, dissolve, batch | `MCDelineate` | `DelineateProofs` |
| `RasterCarve` (over `RasterFill`) | windowed reads, mask, seed, trace | `MCDelineate` (data: `MCGeometry`) | |
| `Polygonize` (over `RasterFill`) | rings of a mask | `MCDelineate` | |
| `Assembly` (over `GridRegion`) | dissolve, repair, hole filling, validation, area | `MCDelineate` (data: `MCGeometry`) | |
| `GeometryValidity` (over `GridRegion`) | `validate_multi_polygon` | `MCDelineate` (data: `MCGeometry`) | |
| `CanonicalWkb` | `canonical_wkb_multi_polygon` | `MCDelineate` (data: `MCGeometry`) | |
| `ParquetCache` | `CachingReader` over its two caches, the lazily opened engine | `MCParquetCache` | `ParquetCacheProofs` |
| `ArtifactFetch` | `read_remote_artifact` | `MCParquetCache` | `ParquetCacheProofs` |
| `PyEngine` | the Python `Engine` | `MCParquetCache` | `PyEngineProofs`, `ParquetCacheProofs` |
| `BasinExport` | the writers of basins and units and the Python calls around them | `MCParquetCache` (data: `MCBasinExport`) | `ParquetCacheProofs` |
| `Cli` | `pourpoint delineate` | `MCParquetCache` | `ParquetCacheProofs` |
| `Resolver` | `resolve_outlet_authority` and `_at_level`, both paths | `MCResolver` | `ResolverProofs` |
| `SnapRows`, `SnapStore` | rows of `snap.parquet`; open, queries, membership | `MCResolver` (data: `MCSnapRows`) | `ResolverProofs` |
| `SnapExport` (over `SnapRows`) | the listing of targets and its GeoPackage | `MCResolver` (data: `MCSnapRows`) | `ResolverProofs` |
| `StagedApi` | the seven stages as calls of a program | `MCResolver` | `ResolverProofs` |
| `SourceTelemetry` | the counting object store | `MCResolver` | `ResolverProofs` |
| `StageTelemetry` | stage spans and the JSONL trace | `MCResolver` | `StageTelemetryProofs`, `ResolverProofs` |

Each MC module checks several parts side by side. A behaviour is about one of
them: the variable `part`, chosen at the start from the constant `Parts` and
never changed, says which one takes steps, while the variables of the others
rest. The parts put together share no state in the program either (the algorithms
of a call, the callers of the library, the readers of a dataset), so a run over
several parts checks exactly what a run of each would, and a configuration with a
smaller `Parts` checks one of them alone. Where the program does couple two
components the coupling is in the modules: `Delineate` takes the steps of
`WindowStore`, `RasterCache` is shown to implement it, `StagedApi` composes the
stages, `SnapStore` and `SnapExport` read through `SnapRows`, `RasterCarve` and
`Polygonize` through `RasterFill`.

### RasterCache and WindowStore

State: per task the point it has reached in `get_or_fetch_window` (`pc`), the
window it asked for (`win`), the `Notify` it made or cloned (`note`), its
temporary file (`temp`) and its answer (`result`); per process the `in_flight`
map; the cache directory (`disk`). `Notify` objects are numbers: a waiter of an
old one is never woken by a new one.

Actions follow the handler: the two lookups of the canonical path, the
vacant/occupied test under the entry's lock, the clone and the *later* creation
of the `Notified` future (two steps, as in the code), the leader's read, decode,
write, sync, no-clobber publication or each of their failures, the removal of the
entry, and `notify_waiters`. `Crash` ends a process (its map is lost, its
temporary files stay invisible); `PowerLoss` ends all of them, tears every file
that was not synced, and takes any of the names away: the file is synced before
`persist_noclobber`, the directory never after it, so a window that was published
may be gone.

Properties: `SingleFlight` (one leader per window and process), `EntryHasLeader`
(no leaked entry), `PublishedIsDurable` (a file under a canonical name is
complete and synced, so no crash can leave a torn hit), `OkHasFile` (an Ok answer
names a stored file, also for a waiter whose leader failed), `WriteOnce` (a
published file is never replaced, and goes in no step but a power loss, when every
call has ended), `RegisteredWaiterWakes` and `LeaderReturns`
under fairness, and `ImplementsWindowStore`: mapping the directory to "the
windows stored" and the in-progress calls to pending requests, every step of
`RasterCache` is a step of `WindowStore` or none. `WindowStore` only grows while
there are callers; its `Lose` takes all callers and any windows. The run checks them as
`FlightsSound` (`SingleFlight`, `EntryHasLeader`, `OkHasFile`), `PublishedIsDurable`,
`KeepsWindows` (`WriteOnce`, `ImplementsWindowStore`), `WaiterWakes` and
`LeaderEnds` (the last two on the fair part).

### CogWindow

State: the remote object (its size, directory and the bytes behind the entries),
the request, the byte ranges asked for so far (`asked`), the pixel window, the
tile plan, the resolved chunks, the buffer and the answer or error. Actions are
the stages of `cog.rs`: header, directory and out-of-line values with their field
types, the checks of the layout, the window of a box (floor, ceiling, margin,
clamp), the plan of its tiles, index entries, ceilings, chunks in any order,
inflation (external), predictor, sample conversion, the copy of each tile's span
and the file. Extent queries and the local reader of test builds, over files in
tiles of the same size, are requests too.

`as f32` is `Single`: an integer beyond 2^24 (the constant `Precise`, 16 in the
instance) becomes the nearest float, of two the even one. `normalize_i32_accumulation`
compares with nodata before it rounds.

Properties: `WindowExact` (every pixel written is that of the object; an integer
accumulation beyond 2^24 is its nearest float, and is nodata only if the raster says
so, not because it rounds to it),
`RequestsBounded` (no byte outside the object, no empty range, no more chunk bytes
than the ceiling), together `WindowExactAndBounded`; `WindowCovers` (every pixel
the box meets is in the window, and "outside" is said only of a box that meets
none).

### RemoteOpen

State: what each source publishes (`remote`), the cache directory (`disk`: a
source index per URL, and per fabric key the manifest, graph, id index and
sidecar, each complete, torn or absent), and per opener the URL, the key it
settled on, the metadata its HEADs returned (`meta`), the parts it has read
(`have`), whether the sidecar was believed (`hit`) and the file being written.
A file is written in two steps (truncate, then contents), so that a concurrent
reader or a crash can meet it torn.

The content of an artifact stands for its bytes and its ETag and size. `UnitsOf`
is what the referential checks compare, `KeyOf` the directory a manifest names.
Whether files may be lost (`Loss`) and whether republication happens only
between opens (`Quiet`) are constants: the runs state what each condition buys.

Properties: `SessionConsistent` (the parts of a session agree, checked or not),
`SidecarHonest` (a sidecar vouches only for artifacts that really agree), `SessionIsRemote` (the session holds the artifacts of its
URL and of no other source),
`InvalidIsReal` (a dataset refused is a broken one: the cache never makes a sound
dataset invalid). The last three are stated as long as nothing was republished
(`republished = 0`). The run checks them in two worlds: three datasets with keys of
their own, where files are lost, and one dataset that is republished, where only
consistency is promised.

### ArtifactFetch

State: the versions' sizes, the environment variable that sets the concurrency,
the size HEAD reported, and per range whether it is waiting, sent, failed or
here. Byte i of version v is the pair of both, so that a wrong, missing or
repeated byte shows. Up to `concurrency` ranges are in flight and answer in any
order; the object may be replaced between any two answers.

`FetchSound`: the ranges tile the object, for sizes below, at and above a
multiple of the range size, and the artifact put together is the object byte by
byte, unless it was republished during the read.

### Traversal

State: the dataset, whether the checks ran, the stage of the call, and the
variables of the breadth-first walk: `visited`, `units`, `queue`, the position
`k`. `OpenChecked` is `validate_graph_catchments`; `OpenTrusted` the remote open
that believed its sidecar and skipped it. The resolver is any choice of a unit of
the selected level. The catchment store answers a query in its own order, and
without the units it does not have.

Properties: `UpstreamExact` (the units returned are exactly those that reach the
terminal, each once, the terminal first), `DanglingIsReal`, `CheckedDataSucceeds`
(on data that passed the open's checks no later error is reachable),
`RecordsFollowUnits` (records are in the order of the units whatever the store's
order was), `CallEnds` (also on cycles). The run checks the three about the
answer as `TraversalExact`, and termination as `TraversalEnds`.

### LocalOpen

State: the source string with the files it names, how far the open has come, the
auxiliary declarations by class, the graph, the catchment levels, and the error.
A field is well formed, missing or bad, a path a name with the kinds of its
components. The stages are those of the code in their order: kind of source
(local path, URL, unsupported scheme), layout, manifest fields and builders, D8
and snap declarations with their paths, graph schema, rows, repeated ids and the
other objections of `DrainageGraph::new`,
agreement of graph and catchments, snap references. A remote source goes on in
`RemoteOpen`. A row of the graph has the values of its list's buffer (`ups`) and the
positions that are marked null (`nulls`), which the reader never looks at: what lies
in the slot of a null element is taken as an id. `LevelsFromStatistics` reads the
statistics of the level column, for files in which no nested column comes before it
(`reader/graph.rs:76-85` numbers columns as if they were leaves).

`OpenDecidesRightly`: with up to two faults of any kind, an open succeeds exactly
on a sound dataset, sound in the edges as they are read, and its error names a fault
that is there; the remote path
goes on exactly with a sound manifest; and the levels read from row-group
statistics alone are the levels of the rows.

### CatchmentStore

State: the file (row groups of rows with ids, boxes, levels, and the columns that
are null or fail their check), the id index stored beside it, the boxes and the
index in memory, and the query with the row groups it reads (`todo`) and those
that have answered (`done`, in any order). Opening scans or loads the index; an
index file may be absent, torn, of another version of the object or of another
format. A scan reads all row groups and then goes through their results in file
order, so an id met twice is reported before the failure of a later row group
(`Met`).

Properties: `IndexExact` (every id once, with the row group and level of its row,
whether scanned or loaded) and `QueryExact` (the rows of the table that match, in
file order, or an error whose row is the faulty one).

### Delineate

State: per call its input, the strategy's selected declaration, the windows it
localized, the verdict, the outcome and the pieces handed to the dissolve; and
the windows stored, which change by the steps of `WindowStore` only. Coordinates
are integers; a terminal is its bounding box in each coordinate system. Which of
its error classes the carve answers with is free.

Properties: `BestEffortTotal` (no failure on the D8 path fails a BestEffort
call), `RequireD8Refines` (RequireD8 never returns an unrefined watershed),
`OnePiecePerUnit` (the dissolve gets each unit once, and the carved terminal in
place of the whole one exactly if it was applied), `AppliedIsCovered` (both
rasters of one declaration cover the terminal), `GivenUpIsUncovered` (coverage is
denied only if no declaration covers), `SkipIsTrue` (the reason for a skip is
the case). The run checks all but the first as `OutcomeIsTrue`.

### RasterCarve, RasterFill

State: the call (terminal polygon, outlet, threshold, encoding, two rasters), the
two tiles read, the mask, the seed, the stack and visited cells of the trace, and
the error. Coordinates are quarters of a pixel. The actions are the windowed reads
(window of the box, nodata and sample conversion, with `FlowNodata` and the casts
of the code, to single precision and of nodata to i32, which saturates), the alignment
of the tiles in origin and pixel size, the mask by the scanline fill of
`RasterFill`, the ranking of seeds, and the trace cell by cell over the inverse
directions (both encodings).

`RefinementExact`: the seed is the nearest usable cell of the *raster* that
reaches the threshold inside the terminal, among equals the one with the greatest
accumulation, then the first of the raster, and the carve is the set of the terminal's cells that drain to it. Accumulations and threshold are in single
precision there, as they are when the code ranks them: counts beyond 2^24 that round
together are equal. A window too small, misaligned or unmasked breaks it.

### Polygonize

State: the mask, the adjacency of boundary edges not yet walked, the ring being
walked, the rings and the polygons. Every mask of the instance is an initial
state. `PolygonsAreTheMask`: the rings wind once around cells of the mask and not
around others, and `RasterFill` of the polygons is the mask again. Which polygon
a hole is given to is finding 5.

### GridRegion, Assembly, GeometryValidity, CanonicalWkb

A unit square is cut by its diagonals into four tiles; a region is a set of
tiles, a ring the disk it encloses. That is enough for rings that touch in
points, share edges, cross and nest, and it makes "valid", "connected" and
"area" definable without arithmetic. `GridRegion` holds the geometry shared by
the two checks (tiles, boundary, components); its operators are recursive.

`Assembly` takes the units' geometries (the terminal replaced by its refined part)
through dissolve, the repair backend or the cleaning, hole filling in its modes,
validation and area. The backend's answer is a region with or without the
contract kept. `SoundUnitsAssemble`: sound units become the union with the
asked-for holes filled, unless the backend fails or changes the region.
`AreaIsOfTheRegion`: what is returned is measured as the region it covers, also
when the backend returned overlapping polygons.

`GeometryValidity` is the check itself with its stages, envelopes, contact points
and union-find. `VerdictExact`: it accepts exactly the valid geometries, by a
definition from regions, and reports a disconnected interior only of one.

`CanonicalWkb` re-presents a geometry step by step (rings started elsewhere or
turned, holes and polygons swapped, noise below the rounding): `OneCanonicalForm`.

### ParquetCache

State: the object's version, the engine's slot and mutex, the two caches by
version and range, their counters, and per reader the lists of `get_byte_ranges`
(`results`, missing indices and ranges). `Evict` is moka's at any moment; a
republication may fall between any two steps; a fetch returns the bytes of the
version current at the fetch, under the key of the HEAD. The engine is opened
by the first call that needs it, with the mutex held, and left unopened when that
fails. The history variable `lookups` counts what was asked of the caches.

Properties: `AnswersInOrder` (position i holds the bytes of range i, whichever
came from the cache), `NeverOlderThanHead` (no byte is older than the version the
session was opened at, over caches older than the session), `OneSession` (all
calls of one engine use one session), `CountersAddUp`, `CallsReturn`. The run
checks the second and third as `OneCurrentSession`, the last as `ReadsReturn`.

### PyEngine

State: the published version of the dataset, the `Engine` object (configuration,
identity read at construction, session opened later), the GIL, the mutex of the
session slot, and per thread its call: constructor, single call, batch with or
without callback, export. Native code that warns takes the GIL through pyo3-log;
`allow_threads` gives it up around native work.

Properties: `BatchAndEventsAgree` (a batch answers or raises as the outlets one
after the other would, whichever worker finished first, and its callback heard one
event per outlet in order, until it raised), `CallsReturn` (checked as
`PythonCallsReturn`), `LabelNamesItsData` (finding 6). The part `kwargs` runs one
call of every constructor with up to two keyword arguments, each absent, legal,
illegal, of the wrong type, or of the right one but not of its range (a negative
`parquet_cache_max_mb`, which raises OverflowError).

### BasinExport

State: the job, the rows' sources left, the origins by id, the rows, the row-group
plan and the file. Identities, labels and their collisions, the Hilbert key of a
row, the outward rounding of its box to single precision, the stable sort, the
plan of row groups, the row groups and the footer are steps of the writer; a kill
is possible at each. Coordinates are half ulps of a float32, so rounding is real.

`ExportRight`: a file with a footer holds every row once with the right label and
a box that contains its geometry, in the order of the curve (the rows of an aligned
square next to each other), and a refusal is of a faulty job.

### Cli

State: the command line, the outlets finished, the documents on standard output,
the file and the exit code; `Select` is the loop that keeps the outlets of one fate.
`OutputHonest`: what was printed and written are the
outlets that succeeded, in their order, and exit code 0 means that all of it is
there and none failed.

### Resolver

State: the call (`case`), the stage, the snap store chosen, the position and the
accumulators of the three loops (scored targets, nearest, best), and the winner
and tie-break of the containment path. Distances and areas are naturals, since
only their order is used; what the store returns, in which order, and which rows
do not decode are inputs.

Properties are stated by filters over the input instead of by the comparisons
the code folds with: `SnappedToBest` (the answer passes, in order, the filters of
its strategy over all qualifying targets), `DeclarationIsFirst` (the declaration
used does not depend on manifest order), `RefusedRightly` (each error is true of
the input, and the ranker's integrity error is unreachable), `InsideBeforeEdge`
and `TieBreakIsTrue` (the tie-break reported is the one that decided against all
others). The run checks all of them as `ResolvedRightly`.

### SnapRows, SnapStore, SnapExport

`SnapRows` is what both readers do with a row: its checks, its float32 box with
the padding of degenerate ones, the box of a row group from statistics (absent
when one is null), and the rows a group begins with. A null in `id` or `unit_id` and
a null in the other columns are different faults: a query refuses both, the
membership scan, which reads two columns, only the first. `SnapStore` adds the open in
its modes, the query by box and the membership references, read by row groups
that answer in any order. `SnapExport` streams the declarations of a scope row
group by row group and batch by batch into GeoPackage layers or a frame, with a
temporary file that is renamed over the output.

Properties: `SnapAnswersExact` (no target whose geometry meets the box is missed,
the answer is in file order, and the membership is that of the file) and
`ExportComplete` (the output is what it was, or has the layers of the selected sets
and no others, with every target of the extent exactly once in its layer, whatever
row groups were skipped, whenever the process was killed).

### StagedApi

A program holds the latest piece of each of the seven stages and may call any
stage with it, on either of two engines whose datasets use the same ids at
different levels. `StagesCompose`: a chain over one outlet and one engine ends
with what `delineate` returns, and no mixture yields records of two levels.

### SourceTelemetry and StageTelemetry

`SourceTelemetry` has the two atomic additions of each request apart, in the
code's order, and a snapshot that reads entry by entry. `CountersHonest`: the paths
of a snapshot never sum to more than its total, and when nothing is under way the
counters are exact. The parts of a multipart upload go past the wrapper
(`source_telemetry.rs:206-221`) and are no transfer of the model. Relaxed atomics are taken as sequentially consistent.

`StageTelemetry` has the spans of two threads, stage spans and others nested in
any way, any event that carries a field of a stage (`LogEvent`, besides those of
`record_rows`), and a shared writer that takes two pieces per line. `TraceHonest`: every
line is whole, belongs to one closed stage and carries the counts recorded in it.

## Runs

| run | parts and instances | distinct states | shows |
|---|---|---|---|
| `raster_cache` | `cache`: 3 tasks in 2 processes (2 + 1), 1 window, 2 calls each (338,543); `live`: 3 fair threads of one process, 1 call each (6,588); `cog`: one read per object and request (57,313) | 402,444 | `FlightsSound`, `PublishedIsDurable`, `KeepsWindows`; `WaiterWakes`, `LeaderEnds`; `WindowExactAndBounded`, `WindowCovers` |
| `raster_cache_lost_wakeup` | `live`, 2 tasks | violation | `CallsEnd` fails, finding 1 |
| `remote_open` | `given`: 2 openers, 3 datasets with keys of their own (one broken, one without ETags), loss and crashes, 2 opens (1,340,571); `republishing`: 2 openers, 1 dataset, 2 replaced artifacts between 3 opens, no loss (1,429,062) | 2,769,633 | `SessionConsistent`, `SessionIsRemote`, `SidecarHonest`, `InvalidIsReal` |
| `remote_open_evicted` | 1 opener, 1 dataset, 1 replaced artifact, 3 opens, loss | violation | `SessionConsistent` fails, finding 2 |
| `remote_open_shared` | 1 opener, 2 URLs of one fabric, 3 opens | violation | `SessionIsRemote` fails, finding 3 |
| `traversal` | `traversal`: all graphs of up to 3 units over six upstream lists, sound and damaged, and a diamond and a loop of 4 (93,723); `open`: datasets with up to two faults (56,867); `catchments`: files of none or three row groups, sound and faulty, with every kind of index file (8,244) | 158,834 | `TraversalExact`, `CheckedDataSucceeds`, `TraversalEnds`; `OpenDecidesRightly`; `IndexExact`, `QueryExact` |
| `delineate_batch` | `batch`: 2 calls, 17 inputs, 6 session shapes × raster source × remote (602,086); `carve` (61,793); `polygonize`: every mask of 3 × 4, the insides of a 5 × 5 frame, nested frames (116,261); `assembly` (128,652); `validity` (17,848); `wkb` (28,224) | 954,864 | `BestEffortTotal`, `OutcomeIsTrue`; `RefinementExact`; `PolygonsAreTheMask`; `SoundUnitsAssemble`, `AreaIsOfTheRegion`; `VerdictExact`; `OneCanonicalForm` |
| `polygonize_nested` | `polygonize` | violation | `HolesOfTheirPolygon` fails, finding 5 |
| `parquet_cache` | `parquet`: 2 fair readers, 2 ranges, room for one at a time, 1 republication (115,115); `fetch`: sizes up to 12 in ranges of 4, 3 requests (26,272); `python`: 2 fair threads, 1 engine (312,537); `kwargs` (5,359); `export` (4,849); `cli`: up to 3 outlets (20,032) | 484,164 | `AnswersInOrder`, `OneCurrentSession`, `CountersAddUp`, `ReadsReturn`; `FetchSound`; `BatchAndEventsAgree`, `PythonCallsReturn`; `ExportRight`; `OutputHonest` |
| `parquet_oversized` | `parquet`, 1 reader, budget above the largest weight | violation | `OversizedUncached` fails, finding 4 |
| `py_label` | `python` | violation | `LabelNamesItsData` fails, finding 6 |
| `resolver` | `resolver`: 14,979 calls: up to 3 targets of 9, 3 catchments of 11, 2 declarations of 24 (149,004); `snaps` (20,412); `listing` (11,283); `staged`: 2 engines (502,575); `source`: 2 threads, 2 paths, 3 operations (252,364); `stages`: 2 threads, 3 spans (336,715) | 1,272,353 | `ResolvedRightly`; `SnapAnswersExact`; `ExportComplete`; `StagesCompose`; `CountersHonest`; `TraceHonest` |

Why the bounds are enough for the interesting cases:

* `cache`: two threads of one process give a leader and a waiter, the third task a
  competing process; two calls let a task meet the entry, file or wake-up its own
  earlier call left. Windows do not interact (each has its own entry and file), so
  one suffices. `live` has a leader, a waiter in time and a late one.
* `cog`: tiles of two pixels and rasters that end inside a tile; boxes on pixel
  edges, across tiles, partly and wholly outside; directories and
  chunks that are short, out of range, of a wrong type or beyond a ceiling; integer
  samples that single precision does not have, some next to the nodata value.
* `remote_open`: an opener that wrote the cache and one that reads it while it is
  written, over a source whose graph disagrees with its catchments; two openers
  are interchangeable, so symmetry is used. Three opens with republication are
  what a stale sidecar takes: fill, attest, believe.
* `traversal`: `<<2,2>>` repeats an id, `<<1>>` closes a cycle, `<<4>>` dangles,
  `<<2,3>>` and `<<3,2>>` give two orders; the diamond reaches a unit on two
  paths at different positions of the queue. `open`: two faults are what it takes
  for one to hide or cancel the other; null list elements stand over an id, over zero and
  over a dangling one. `catchments`: a group without statistics
  before two that have them, and faults in every group.
* `batch`: sessions without a readable declaration (with and without an
  unreadable one), with two tiles that overlap, with a declaration whose
  accumulation raster is smaller than its direction raster, with two coordinate
  systems, and with an unclaimed one behind a covering tile. Terminals lie inside
  a tile, in the overlap, on an edge, across two tiles and outside. The second
  call meets windows the first one stored.
* `polygonize`: rings through a corner from both sides, holes that touch their
  exterior, and an island in a hole; an island with a hole of its own is what
  finding 5 needs.
* `carve`: terminals that end inside a pixel, on its edge and off the raster; loops
  of directions; equal distances and accumulations that are equal, or are equal once
  rounded; a raster of other pixels; both encodings.
* `assembly`, `validity`: three rings that meet in one point or form a chain of
  contacts, islands in holes, overlaps and shared edges.
* `parquet`: a capacity of one range makes every insert evict; requests repeat a
  range and ask for two in both orders.
* `python`: one thread opens with the mutex held while the other waits for it.
  `export`: up to ten rows in
  row groups of two to four, over a grid of four by four cells; labels and ids
  collide in both ways.
* `resolver`: three hits are what a tie-break named from the first two can get
  wrong; the pool of targets holds ties in every field and the edges of the band
  and of the circle. `snaps`, `listing`: float32 rounding at the edge of the box,
  points, and null boxes.
* `staged`: two engines, two outlets and two levels, one piece of each kind held.

`CHECK_DEADLOCK FALSE` is set in all configurations: a finished call, read, open
or process leaves nothing to do. That nobody waits for ever is stated by the
liveness properties.

## Fairness

* `RasterCache`, part `live`: weak fairness of each thread's own step. The tasks
  are threads of a pool, each blocked only in its own `await`; a remote read ends
  with an answer or an error because the object store client has timeouts
  (`source.rs:42-49`). Calls, crashes and power losses are not fair.
* `Traversal`: weak fairness of the one thread that runs the call.
* `ParquetCache`: weak fairness of each reader's step. Waiting for the mutex
  needs no stronger assumption: each reader makes one call and a holder always
  lets go.
* `PyEngine`: weak fairness of each thread's step. The calls are finitely many, so a
  thread that waits for the GIL or the mutex cannot be overtaken for ever; that
  the interpreter hands the GIL on is Python's.
* The others state no liveness. A call of a batch may hang in the window cache
  (finding 1), so its termination would not be true; the remaining parts are one
  thread that runs to its end.

## Proofs

Each proof module extends the module it is about, or the MC module that puts it
beside others. In all of them the argument is that a conjunction of named parts
holds initially, is preserved by each action, and implies the properties.

A property that the run checks of one part (`part = "cli" => ...`) is proved of the
specification that the run checks: the part's invariant, guarded by `part`, is an
invariant of `MCSpec`. `ResolverProofs` and `ParquetCacheProofs` instantiate
`StageTelemetryProofs` and `PyEngineProofs` for that, so that the run's theorem
(`TraceOfTheRunHonest`, `BatchesOfTheRunAgree`) rests on the component's. The
sizes and the inputs of those parts are constants of the MC modules
(`StageThreads`, `PyThread`, `CliRows`, `FetchTarget`, `ApiFabric`, `CogObject`,
`OpenDataset`, `StoreFile`, `SnapFiles`, `ListingCases`, `SourceThreads`, `ExportJob`,
`ExportBits` and so on),
given values in the configurations only. Their assumptions are stated in the
component (`StagesAssumption`, `PyEngineAssumption`, `CliAssumption`,
`TargetAssumption`, `FabricAssumption`, `CogAssumption`, `OpenAssumption`,
`CatchmentAssumption`, `SnapStoreAssumption`, `SnapExportAssumption`,
`SourceAssumption`, `ExportAssumption`), assumed by the MC module and evaluated by TLC. They say what
an input is (a file has rows of such fields) and that markers such as `None` are no
such value; the few that say more are named below.

Induction is by the least counterexample: `LeastElement` (every nonempty set of
naturals has a least element) follows from `WFMin` of the library, which takes a
set and not an operator. With it the recursive functions that loops are written as
are unfolded by hand: a function that satisfies the recursion exists for every
length, so the `CHOOSE` behind the definition is one (`KeptExists`,
`JoinsExists`, `WalkExists`, `KeepsExists`, `GluesExists`, `CurvesExist`,
`DigitsExist`).

* `RasterCacheProofs`: `TypeCorrect`, `SingleFlightHolds`, `EntryHasLeaderHolds`,
  `PublishedIsDurableHolds`, `OkHasFileHolds`, `WriteOnceHolds`,
  `RefinesWindowStore`, and the properties of the run
  `FlightsSoundHolds`, `KeepsWindowsHolds`. Single flight is not inductive: it needs that a leader
  owns the entry with *its* `Notify` (`LeaderHoldsEntry`), that `Notify` objects
  were issued and are never shared (`NotesIssued`, `NotesDiffer`), together
  `FlightInv`. Durability needs that a temporary file has reached the stage its
  task's position implies (`TempReady`); Ok answers need `ResultKnown` and
  `OkStored`; together `FileInv`. Since a power loss may remove names, `WriteOnceHolds`
  and the refinement rest on it ending every call: no Ok answer survives that names a
  lost window. Assumed: every task has a process; the number
  of calls is a natural.
* `RasterCacheProofs`, the COG reader of its run: `ReaderInvariantHolds`,
  `WindowCoversHolds`, `WindowExactAndBoundedHolds`, for any object and any
  request. `CogInv` goes along the stages: the window lies in the raster (`CogBox`),
  every range asked for is within its bound and what the stage needs was read
  (`CogAsked`), the tiles resolved are those of the plan, in the chunk of the
  index (`CogChunks`), and a pixel of the buffer is the raster's own or its tile is
  still to come (`CogPixels`), rounded where it is an integer beyond 2^24. When no tile is left every pixel is the raster's.
  The rest is arithmetic of windows, tiles and rows. Assumed of an object: where its
  layout is one that the reader takes, its raster is what a decoder makes of the
  chunks that inflate; nothing is assumed of the directory, the index or the chunks.
* `TraversalProofs`: `TraversalTypeCorrect`, `UpstreamExactHolds`,
  `DanglingIsRealHolds`, `CheckedDataSucceedsHolds`, `RecordsFollowUnitsHolds`,
  `TraversalExactHolds`.
  `WalkInv` is the invariant of the walk: `units` followed by `queue` lists
  `visited` once, everything visited reaches the terminal, and the visited set is
  closed below every unit already scanned, up to position `k` of the current
  one. With an empty queue the visited set is closed, hence contains everything
  upstream. `ProduceInv` is the invariant of the record loop. Reachability is
  stated as membership in every closed set, which avoids induction. Assumed: the
  datasets are what the readers deliver.
* `TraversalProofs`, the local open of its run: `OpenDecidesRightlyHolds` (an open
  succeeds exactly on a sound dataset, and a refusal names a fault that is there),
  from `OpenStagesHold`. `LocalInv` says what each stage has established; a check
  that is a loop is shown equal to the quantifier it stands for. Null bits of a list are
  free in the datasets: the theorem says that no verdict depends on them.
* `TraversalProofs`, the catchment store of its run: `IndexExactHolds` and
  `QueryExactHolds`, for any file, number of row groups in flight and order in
  which they answer, from `StoreStagesHold`. `StoreInv` has two halves. `KeepsOk`:
  the boxes are those of the row groups and an index, scanned or loaded, describes
  the file, each id once. `AsksOk`: a read that ended holds the matching rows of its
  row group, no row group left out can hold one (`Serves`), and an error is that of
  the first row group in file order that has one. Assumed of the environment: an
  index file that is intact, complete and carries the ETag of the object was written
  from that object; any other may be stored under its path.
* `DelineateProofs`: `DelineateTypeCorrect`, `BestEffortTotalHolds`,
  `RequireD8RefinesHolds`, `OnePiecePerUnitHolds`, `AppliedIsCoveredHolds`,
  `GivenUpIsUncoveredHolds`, `SkipIsTrueHolds`, `OutcomeIsTrueHolds`. The invariant is about each call
  on its own (`Modes`, `Selection`, `Verdicts`, `Outcomes`, `Localized`), so
  that a step of another call preserves it because the windows stored only grow.
  Assumed: claimed and unclaimed coordinate systems are disjoint.
* `ParquetCacheProofs`: `ParquetTypeCorrect`, `AnswersInOrderHolds`,
  `NeverOlderThanHeadHolds`, `OneSessionHolds`, `OneCurrentSessionHolds`,
  `CountersAddUpHolds`. `CallsOK` relates the answers
  placed so far and the list of misses, `CachesOK` says that an entry under a
  version holds its own range at that version or a later one, `SessionOK` ties
  the slot, the mutex and the calls. `CountInv` counts the ranges that calls have
  looked up and not yet added to the counters as the cardinality of a set of pairs
  (call, range), to which each step adds one pair or from which it takes all of a
  call's. Assumed: the marker for an empty place is
  not a byte range, and the marker of a free mutex no reader.
* `ParquetCacheProofs`, the other parts of its run. `OutputHonestHolds`:
  `CliInv` says that the outlets finished are distinct rows of the CSV
  (`WorkDone`) and that what is on standard output and in the file are documents of
  the whole batch, once it is complete (`Written`); `SelectKept` is what the loop
  of `Select` keeps. `FetchSoundHolds`: `FetchInv` says that what HEAD saw is a
  version published by now (`HeadSeen`) and that, as long as none is newer, each
  chunk that is here is its range of it (`ChunksOfTheObject`). That the ranges tile
  (`RangesOf`, `EndsMeet`) is arithmetic: with K ranges of width W over S bytes,
  the last is not empty because (K - 1)^2 < S. This is where the assumption
  `Target >= (MaxConcurrency - 1)^2` is used; the code's values are 4 MiB and 16.
  `FlattenPieces` joins the chunks.
* `ParquetCacheProofs`, the export of its run: `ExportRightHolds`, for any inputs,
  any size of row groups, any number of bits of the curve and any limits of the
  coordinates. `ExportInv` goes along the stages: the rows so far are those of the
  first sources, under keys that differ, and a remembered origin is that of an
  earlier row (`Materializing`); the sorted rows are the rows of all sources, each
  once (`AllSorted`); the row groups written cut the sorted rows where the plan says
  (`WritingGroups`, `Filled`). Four results carry it. `CurveGrows`: from a curve of
  `b` bits that steps from neighbour to neighbour, ends in the corners and never
  leaves an aligned square before it is through with it, `CurveStep` makes such a
  curve of `b + 1` bits, so that `Hilbert` is one (`HilbertIsCurve`). `PlanIs`: the
  sizes are legal and add up to the number of rows, whence planning never fails.
  `SortedIs`: in a total order of distinct keys the rank of a row, the number of rows
  before it, is a permutation. `OutwardIs` and `HullCovers`: the boxes. Assumed,
  beyond what an input is: the target size of a row group is twice the least one, as
  in the code (4,096 and 8,192); the plan needs it. The prover's backends
  have no rule for `^`: that `2 ^ (n + 1)` is twice `2 ^ n` (`TwoToNext`) is taken from
  `FS_SUBSET` of the library's `FiniteSetTheorems`, the number of subsets, whose
  proof in the library rests on that same equation, stated there without a proof.
* `RemoteOpenProofs`: `RemoteOpenTypeCorrect`, `SessionIsRemoteHolds`,
  `SidecarHonestHolds`, `InvalidIsRealHolds`, `GivenSessionsConsistent`,
  `RepublishedSessionsConsistent`. Three layers. `OpenInv`: what an opener has at
  hand at each step, and what kind of text each cache file holds. `GivenInv`: as
  long as nothing was republished, everything read, cached or asked for is of the
  URL it is used for. It assumes `DatasetPerKey`: URLs with the same fabric name
  and adapter version hold the same artifacts; `remote_open_shared` shows what
  happens without (finding 3). `GivenSessionsConsistent` also assumes that nothing
  is ever republished. `RepublishInv`: one dataset, republished between opens
  (`Quiet`), without loss of cached files (`~Loss`). The manifest and the graph that
  every open uses are then either those published now, and whoever has begun to
  cache them will finish, or completely cached for good; what is validated, or
  attested by a sidecar, is always these two. Without `~Loss` it is false
  (finding 2).
* `PyEngineProofs`: `PyEngineTypeCorrect`, `BatchAndEventsAgreeHolds` and the
  action property `SessionOpenedOnce` (a session once in its slot is never
  replaced). `PyInv` says of each call, from the session and the keyword arguments
  alone, which outlets were worked on, which failed and what the callback heard,
  and that whoever opens holds the mutex of the slot.
* `StageTelemetryProofs`: `TraceHonestHolds`. `TraceInv` relates the stack of a
  thread to its spans, the counts noted to the innermost stage, the lines to come
  to the closed stages, and the pieces in the file to whole lines as long as no
  write failed.
* `ResolverProofs`: `ResolverTypeCorrect`, `SnappedToBestHolds`,
  `DeclarationIsFirstHolds`, `RefusedRightlyHolds`, `InsideBeforeEdgeHolds`,
  `TieBreakIsTrueHolds`, `ResolvedRightlyHolds`. The invariant is that of three folds: the targets kept
  are the qualifying ones among those seen (`ScoredSoFar`), the nearest is a
  lower bound (`NearestSoFar`), the best is unbeaten among those seen
  (`BestSoFar`). That unbeaten-so-far is preserved rests on `DominatesTransfers`
  (the comparison is a weak order); `UnbeatenPassesFilters` turns it into the
  filters of the property. Assumed: ids of catchments are unique (the store
  rejects repetitions); ids of snap targets need not be.
* `ResolverProofs`, the staged calls of its run: `StagesComposeHolds`, for any
  engines, datasets, coordinates and order of calls. `StagedInv` says of each piece
  that is not mixed that it is the piece delineating its outlet with its engine
  gives, and of the records of any traversal that they are of its level.
  `UpstreamIsWatershed` shows that the walk of a stage, as many rounds as there are
  units, is the least set closed upstream: a round that adds nothing ends it, and
  there are no more rounds that add something than units (`WalkCloses`). Assumed: a
  dataset has finitely many units.
* `ResolverProofs`, the snap store of its run: `SnapAnswersExactHolds`, for any file,
  box, number of row groups in flight and order in which they answer. `SnapsInv`
  says that the reads that ended are the rows of their row groups, or the first
  fault in them; that the references of the membership are those of all rows, in
  order; and that a row group that is not asked for holds no row due. The last
  is where rounding matters: statistics are wider than the geometry by at most the
  half unit that `may_intersect` does not lose. A row blamed is a row that is at fault
  in the file.
* `ResolverProofs`, the listing of its run: `ExportCompleteHolds`, for any sets,
  row groups, batch size and scope, and a process that may end at each step.
  `ListingInv` says how far the listing is: `m` sets and `v` row groups of the next
  are done, and what was handed over, with the rows of the batch still to go,
  is what those and the decoded rows of the current row group give (`Visiting`,
  `Handed`). `UnvisitedRightly` shows that a row group skipped by its statistics
  gives nothing, `VisitedGather` that one visited gives its rows of the scope.
  Names of the selected sets are apart (`NamesApart`), which the selection checks and
  without which one layer would hide another. Assumed of the rows: a bounding box
  encloses its geometry, as HFX requires.
* `ResolverProofs`, the counting store of its run: `CountersHonestHolds`, for any
  number of threads, paths and requests. `SourceInv` accounts for each counter: the
  total is what was moved, and the sum over the paths falls short of it by the
  additions under way (`Accounted`); a snapshot under way has read no more than was
  there (`SnapshotBehind`). The sum over a finite set is that of the library; it is
  unfolded for one element added or changed.

Only model-checked:

* the liveness properties (`WaiterWakes`, `LeaderEnds`, `TraversalEnds`,
  `ReadsReturn`, `PythonCallsReturn`): the prover does not reason about fairness
  and ENABLED;
* `SoundUnitsAssemble`, `AreaIsOfTheRegion`, `VerdictExact`: `GridRegion` computes
  components with RECURSIVE operators, for which the prover has no backend, and
  `MCDelineate`, which instantiates it, is out of reach of a theorem with it; so
  are `RefinementExact`, `PolygonsAreTheMask` and `OneCanonicalForm`, whose parts
  belong to the same run.

`TypeOK` of the modules with theorems is proved and not part of a run.

## Findings

1. **Lost wake-up** (`raster_cache.rs:88`). The `Notified` future is created after
   the entry's lock is dropped. A leader that removes the entry and calls
   `notify_waiters` in between wakes nobody, and the waiter hangs, with the batch
   it belongs to. `RegisteredWaiterWakes` shows that this window is the only
   one: a waiter that registered in time is woken.
2. **A sidecar for a graph that was never checked** (`session.rs:481`). On a cache
   hit the checks run on the cached graph while the sidecar written after them
   attests the HEAD of the current one. When the cached graph is evicted, the
   next open fetches the new graph and skips the checks.
3. **A directory shared by two sources** (`cache.rs:113`). Manifest and graph are
   kept per fabric and adapter version, not per URL; one URL can be answered with
   another's manifest and graph.
4. **Oversized chunks are cached** (`parquet_cache.rs:109`). The weigher clamps to
   `u32::MAX`; the documentation says such chunks are not cached.
5. **Holes of nested islands** (`algo/polygonize.rs:79`). A hole goes to the first
   exterior, in the order of their smallest vertices, whose filled outline
   contains the hole's first vertex. The hole of an island that lies in another
   polygon's hole goes to the outer polygon, which then has a hole in its hole,
   and the island is filled. The windings are right (`PolygonsAreTheMask` holds),
   the assignment is not.
6. **A label older than its data** (`crates/python/src/engine.rs:224`). The fabric
   identity is read by the constructor, the session opened by the first call; a
   dataset republished in between is delineated in its new version and exported
   under the old one's label.

Observations met while modelling, that are not findings of a run:

* `SnapStore::query_by_bbox` skips row groups by raw statistics
  (`reader/snap_store.rs:606`) while it tests rows by padded boxes: which point
  just outside the box is answered depends on how rows are grouped. No target
  whose geometry meets the box is missed (`SnapAnswersExact`).
* `read_all_snap_membership_refs` builds `ProjectionMask::roots` from leaf column
  indices (about line 781); they agree as long as no column before them is nested.
* A BigTIFF whose tile index has two LONG entries inline is refused (`cog.rs`).
* `File::create` truncates an existing export before the rows are checked
  (`crates/python/src/export.rs:110`); with `--json` a failing file write of the
  command line puts a second document on standard output, and `fs::write`
  truncates in place.
* A null element of `upstream_ids` is not refused: the value under it is read as an id
  (`reader/graph.rs:295`, `:311`), which may be stale.
* The directory is not synced after `persist_noclobber` (`cog.rs:2233`): after a power loss a published window may have to be fetched again.
* Counts beyond 2^24 of an Int32 accumulation may tie after the cast to f32, and the
  seed is then the first of the raster.
* An Int32 accumulation with a NaN nodata value treats zero as nodata.
* Shape errors of the manifest come before the version check that
  `reader/manifest.rs` calls first; names of snap declarations may repeat.
* A ranged read of an artifact that is republished meanwhile may mix versions: no
  request carries a condition (`session.rs`).
* `record_bytes` within an instrumented function inside a stage is lost, and a
  failed write leaves a partial line in the trace.
* `Engine(path, snap_radius=None)` raises TypeError although the stub's type
  admits `None` (`crates/python/python/pourpoint/__init__.pyi:332`).
* The staged calls accept pieces of another engine at the same level, and
  `refine` does not compare its outlet with its units.

## Not modelled

* Projection, geodesic distance and area formulas, the resolver's search box in
  single precision, `self_intersection` splitting, `largest_polygon` and the
  removal of slivers: floating-point arithmetic. The models take what these
  computations are compared by as inputs, or a grid on which they are exact.
* Decoders: JSON, Parquet, DEFLATE, WKB bytes and the hfx crate are external; the
  models start from what they deliver.
* GDAL's configuration and the foreign calls themselves: what they return is an
  input of `RasterCarve`, `SnapExport` and `Assembly`.
* Argument syntax (clap), log and error wording, the error enums, the benchmark
  binary and `testutil.rs`.
* A panic or a dropped future in the window cache: the callers block on the
  future. Either would leak the in-flight entry, since there is no drop guard.
* The version of a raster behind a cached window: the canonical path does not
  name it, and the model gives a window none.
* A progress event that cannot be built (`crates/python/src/engine.rs:711-716`): the
  interpreter is out of memory then.
* The local TIFF reader of test builds over files that are not tiled as the remote
  ones are: the tiff library decodes them.
* Weak memory: relaxed atomics are interleaved in program order.

## Plan

Done: `RasterCache` with `WindowStore`, `RemoteOpen`, `Traversal`, `Delineate`,
`ParquetCache`, `Resolver`; the readers (`LocalOpen`, `CatchmentStore`,
`SnapRows`, `SnapStore`, `ArtifactFetch`, `CogWindow`), the algorithms of a call
(`RasterCarve`, `Polygonize`, `Assembly`, `GeometryValidity`, `CanonicalWkb`) and
the callers (`PyEngine`, `StagedApi`, `BasinExport`, `SnapExport`, `Cli`, the
telemetry). Proofs of the six modules named first, of the readers (`LocalOpen`,
`CatchmentStore`, `SnapRows`, `SnapStore`, `ArtifactFetch`, `CogWindow`), of the batch
and the events of `PyEngine`, and of `Cli`, `StagedApi`, `BasinExport`, `SnapExport`,
`SourceTelemetry` and `StageTelemetry`.

What could follow:

* `GridRegion` with recursive functions in place of its RECURSIVE operators, which
  brings the parts of `MCDelineate` within reach of the prover; components by
  repeated growth can be treated as the walk of `StagedApi` is.
