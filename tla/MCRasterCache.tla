--------------------------- MODULE MCRasterCache ---------------------------
(***************************************************************************)
(* Remote raster windows.  A behaviour is about one part, which the        *)
(* variable part names and which never changes:                            *)
(*   cache   RasterCache: two processes share the cache directory, and the *)
(*           first runs two threads; nothing is assumed to go on;          *)
(*   live    RasterCache: threads of one process want the same window, a   *)
(*           leader, a waiter that comes in time and one that comes late;  *)
(*           threads go on running;                                        *)
(*   cog     CogWindow: one read of a window.                              *)
(* Every part has its variables; those of the other parts rest.            *)
(***************************************************************************)
EXTENDS RasterCache, TLC

CONSTANTS
  Parts,           \* the parts to check
  t1, t2, t3, pA, pB, w1,
  LiveTask,        \* the threads of the part live
  CogObject, CogRequest,  \* of the part cog: objects and requests,
  CogTile, CogPixel, CogWordMod, CogPrecise, CogShort, CogLong,  \* sizes,
  CogIfdEntries, CogIfdBytes, CogAscii, CogTiles, CogChunk, CogCovered, CogDecoded,
  CogWindowBytes,  \* and ceilings
  Text, NaN, None

VARIABLES
  part,
  lPc, lWin, lNote, lInFlight, lNextNote, lTemp, lDisk, lResult, lCalls,
  object, request, step, asked, window, plan, tiles, out, answer, error

live == <<lPc, lWin, lNote, lInFlight, lNextNote, lTemp, lDisk, lResult, lCalls>>

cog == <<object, request, step, asked, window, plan, tiles, out, answer, error>>

MCProcOf == (t1 :> pA) @@ (t2 :> pA) @@ (t3 :> pB)

LiveProcOf == [t \in LiveTask |-> pA]

Live == INSTANCE RasterCache WITH
  Task <- LiveTask, Process <- {pA}, ProcOf <- LiveProcOf, MaxCalls <- 1,
  pc <- lPc, win <- lWin, note <- lNote, in_flight <- lInFlight, nextNote <- lNextNote,
  temp <- lTemp, disk <- lDisk, result <- lResult, calls <- lCalls

Rasters == INSTANCE MCCogWindow

MCCogObject == Rasters!MCObject

MCCogRequest == Rasters!MCRequest

Cog == INSTANCE CogWindow WITH
  Object <- CogObject, Request <- CogRequest, Tile <- CogTile, Pixel <- CogPixel,
  WordMod <- CogWordMod, Precise <- CogPrecise, MaxShort <- CogShort, MaxLong <- CogLong,
  MaxIfdEntries <- CogIfdEntries, MaxIfdBytes <- CogIfdBytes,
  MaxAscii <- CogAscii, MaxTiles <- CogTiles, MaxChunk <- CogChunk, MaxCovered <- CogCovered,
  MaxDecoded <- CogDecoded, MaxWindow <- CogWindowBytes,
  pc <- step

ASSUME ReaderAssumption == Cog!CogAssumption

CacheRest == win = [t \in Task |-> w1] /\ Init

CogRest ==
  /\ object = None /\ request = None /\ step = None /\ asked = None /\ window = None
  /\ plan = None /\ tiles = None /\ out = None /\ answer = None /\ error = None

MCInit ==
  /\ part \in Parts
  /\ IF part = "cache" THEN Init ELSE CacheRest
  /\ Live!Init
  /\ IF part = "cog" THEN Cog!Init ELSE CogRest

MCNext ==
  \/ part = "cache" /\ Next /\ UNCHANGED <<part, live, cog>>
  \/ part = "live" /\ Live!Next /\ UNCHANGED <<part, vars, cog>>
  \/ part = "cog" /\ Cog!Next /\ UNCHANGED <<part, vars, live>>

\* Fairness of RasterCache, for the threads of the part live.
MCSpec ==
  /\ MCInit /\ [][MCNext]_<<part, vars, live, cog>>
  /\ \A t \in LiveTask : WF_live(part = "live" /\ Live!Step(t))

-----------------------------------------------------------------------------

\* A thread that registered for the Notify of a leader's entry is woken
\* (raster_cache.rs, notify_waiters).
WaiterWakes == (part = "live") => Live!RegisteredWaiterWakes

\* A leader's call ends, whatever fails on the way, and with it its entry
\* (raster_cache.rs, the Vacant arm).
LeaderEnds == (part = "live") => Live!LeaderReturns

\* Every call of the cache ends, hence every outlet of Engine::delineate_batch
\* gets its result.
CallsEnd == (part = "live") => Live!EveryCallReturns

\* The window read is the raster's, and no directory makes the reader ask for
\* bytes outside the object or beyond its ceiling (read_window, cog.rs).
WindowExactAndBounded == (part = "cog") => Cog!WindowExactAndBounded

\* The window holds every pixel that the box meets; "outside" is said only of a
\* box that meets none (cog.rs, the window of a bounding box).
WindowCovers == (part = "cog") => Cog!WindowCovers

=============================================================================
