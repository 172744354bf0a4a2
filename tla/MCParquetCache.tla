--------------------------- MODULE MCParquetCache ---------------------------
(***************************************************************************)
(* Remote reads and the callers of the library.  A behaviour is about one  *)
(* part, which the variable part names and which never changes:            *)
(*   parquet  ParquetCache: two threads over two ranges, of which the      *)
(*            cache can hold one at a time, and one republication;         *)
(*   fetch    ArtifactFetch: objects up to twelve bytes in ranges of at    *)
(*            least four, up to three requests;                            *)
(*   python   PyEngine: two Python threads that share one engine;          *)
(*   kwargs   PyEngine: one call of an engine constructed with up to two   *)
(*            keyword arguments;                                           *)
(*   export   BasinExport: one export;                                     *)
(*   cli      Cli: one process, CSV files of up to three rows.             *)
(* Every part has its variables; those of the other parts rest.            *)
(***************************************************************************)
EXTENDS ParquetCache, Integers

CONSTANTS
  Parts, gA, gB, Earlier, None,
  FetchTarget, FetchMin, FetchMax, FetchDefault, FetchSettings,  \* of the part fetch,
  FetchSize, FetchVersions,                                      \* and its bounds
  PyThread, PyOutlets, PyBatch, PyCalls, PyPublications,  \* of the part python
  ExportJob, ExportGroup, ExportBits, ExportX, ExportY,   \* of the part export
  CliRows, MaxCliRows  \* of the part cli

VARIABLES
  part,
  sizes, setting, fetching, meta, ranges, result, firstV,
  published, self, gil, session, pyCall, calls, exports,
  job, writing, inputs, origins, rows, plan, exported, error,
  args, running, done, stdout, file, exit

fetch == <<sizes, setting, fetching, meta, ranges, result, firstV>>

python == <<published, self, gil, session, pyCall, calls, exports>>

export == <<job, writing, inputs, origins, rows, plan, exported, error>>

cli == <<args, running, done, stdout, file, exit>>

MCChunk == {gA, gB}

MCRequest == {<<gA>>, <<gB, gA>>, <<gA, gA>>}

MCLength == [g \in MCChunk |-> IF g = gA THEN 2 ELSE 3]

MCFetchSettings == {None, 0, 2, 9}

MCCliRows == {[id |-> None, fate |-> "ok"], [id |-> "a", fate |-> "ok"],
           [id |-> "b", fate |-> "fails"], [id |-> "c", fate |-> "bad"]}

-----------------------------------------------------------------------------
(* The other parts. *)

Artifact == INSTANCE ArtifactFetch WITH
  Target <- FetchTarget, MinConcurrency <- FetchMin, MaxConcurrency <- FetchMax,
  Default <- FetchDefault, Settings <- FetchSettings, MaxSize <- FetchSize,
  MaxVersion <- FetchVersions, pc <- fetching, chunks <- ranges

Py == INSTANCE PyEngine WITH
  Threads <- PyThread, Outlets <- PyOutlets, Passable <- {}, MaxPassed <- 0, Remote <- TRUE,
  MaxBatch <- PyBatch, MaxCalls <- PyCalls, MaxPublications <- PyPublications,
  slot <- session, call <- pyCall

PyArgs == INSTANCE PyEngine WITH
  Threads <- PyThread, Outlets <- {"coarse"}, Passable <- {Py!Kwargs[i] : i \in 1 .. 8}, MaxPassed <- 2,
  Remote <- TRUE, MaxBatch <- 1, MaxCalls <- 1, MaxPublications <- 1,
  slot <- session, call <- pyCall

Jobs == INSTANCE MCBasinExport WITH Dot <- 10

MCExportJob == Jobs!MCJob

Export == INSTANCE BasinExport WITH
  Job <- ExportJob, MinGroup <- ExportGroup, TargetGroup <- 2 * ExportGroup, Bits <- ExportBits,
  MinX <- -ExportX, MaxX <- ExportX, MinY <- -ExportY, MaxY <- ExportY,
  MaxIdBytes <- 3, Legal <- 0 .. 10, Dot <- 10, Device <- {<<9, 9>>},
  pc <- writing, file <- exported

Main == INSTANCE Cli WITH Rows <- CliRows, MaxRows <- MaxCliRows, pc <- running

ASSUME FetchAssumption == Artifact!TargetAssumption

ASSUME WriterAssumption == Export!ExportAssumption

ASSUME PythonAssumption == Py!PyEngineAssumption

ASSUME CommandLineAssumption == Main!CliAssumption

FetchRest ==
  /\ sizes = None /\ setting = None /\ fetching = None /\ meta = None /\ ranges = None
  /\ result = None /\ firstV = None

ExportRest ==
  /\ job = None /\ writing = None /\ inputs = None /\ origins = None /\ rows = None
  /\ plan = None /\ exported = None /\ error = None

CliRest ==
  args = None /\ running = None /\ done = None /\ stdout = None /\ file = None /\ exit = None

MCInit ==
  /\ part \in Parts
  /\ IF part = "parquet" THEN Init ELSE identified = TRUE /\ Init
  /\ IF part = "fetch" THEN Artifact!Init ELSE FetchRest
  /\ Py!Init
  /\ IF part = "export" THEN Export!Init ELSE ExportRest
  /\ IF part = "cli" THEN Main!Init ELSE CliRest

MCNext ==
  \/ part = "parquet" /\ Next /\ UNCHANGED <<part, fetch, python, export, cli>>
  \/ part = "fetch" /\ Artifact!Next /\ UNCHANGED <<part, vars, python, export, cli>>
  \/ part = "python" /\ Py!Next /\ UNCHANGED <<part, vars, fetch, export, cli>>
  \/ part = "kwargs" /\ PyArgs!Next /\ UNCHANGED <<part, vars, fetch, export, cli>>
  \/ part = "export" /\ Export!Next /\ UNCHANGED <<part, vars, fetch, python, cli>>
  \/ part = "cli" /\ Main!Next /\ UNCHANGED <<part, vars, fetch, python, export>>

\* Fairness of ParquetCache and of PyEngine.
MCSpec ==
  /\ MCInit /\ [][MCNext]_<<part, vars, fetch, python, export, cli>>
  /\ \A r \in Reader : WF_vars(part = "parquet" /\ Step(r))
  /\ \A t \in PyThread : WF_python(part = "python" /\ Py!Step(t))

-----------------------------------------------------------------------------

\* Every read returns, also the ones that wait for a thread whose open fails
\* (parquet_cache.rs, session.rs).
ReadsReturn == (part = "parquet") => CallsReturn

\* A large artifact is fetched exactly: the ranges tile the object, and what is
\* put together from them, in whatever order they arrive, is one version of it
\* unless it was republished meanwhile (remote_artifact_ranges, session.rs).
FetchSound == (part = "fetch") => Artifact!FetchSound

\* The batch and what its callback heard tell the same story, that of the
\* outlets one after the other (delineate_batch, engine.rs).
BatchAndEventsAgree == part \in {"python", "kwargs"} => Py!BatchAndEventsAgree

\* Every Python call returns, even when the thread that opens the session, or a
\* worker of a batch, must have the GIL for a warning while the others wait for
\* the mutex or for the workers (delineation_engine, engine.rs:603-625).
PythonCallsReturn == (part = "python") => Py!CallsReturn

\* The label of an exported row names the data the row was delineated from
\* (docs/basin-geoparquet-export.md: "identifies source fabric data").
LabelNamesItsData == (part = "python") => Py!LabelNamesItsData

\* A readable export is complete and in the order of the curve, and an export is
\* refused only for what is wrong with it (write_basins, export/writer.rs).
ExportRight == (part = "export") => Export!ExportRight

\* What is written and the exit code agree with what happened to the outlets
\* (write_output and main, main.rs).
OutputHonest == (part = "cli") => Main!OutputHonest

=============================================================================
