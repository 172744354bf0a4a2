SPECIFICATION MCSpec
CONSTANTS
  Parts = {"resolver", "snaps", "listing", "staged", "source", "stages"}
  Case <- MCCase
  Level <- MCLevel
  t1 = t1
  t2 = t2
  Old = Old
  ApiEngines <- MCApiEngines
  ApiCoords <- MCApiCoords
  ApiFabric <- MCApiFabric
  LimitX = 12
  LimitY = 12
  SnapFiles <- MCSnapFiles
  SnapBoxes <- MCSnapBoxes
  SnapScans = 3
  SnapReads = 2
  ListingCases <- MCListingCases
  ListingRows = 2
  SourceThreads = {t1, t2}
  SourcePaths = {"object", "<root>"}
  SourceOps = 3
  SourceChunk = 1
  StageThreads = {t1, t2}
  MaxSpans = 3
  None = None
SYMMETRY Symmetric
INVARIANTS
  ResolvedRightly
  SnapAnswersExact
  ExportComplete
  StagesCompose
  CountersHonest
  TraceHonest
\* A call stops when it has its answer, a composed result is final.
CHECK_DEADLOCK FALSE
