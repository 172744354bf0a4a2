SPECIFICATION MCSpec
CONSTANTS
  Parts = {"python"}
  gA = gA
  gB = gB
  Chunk <- MCChunk
  Request <- MCRequest
  Length <- MCLength
  Capacity = 4
  NoBytes = NoBytes
  Free = Free
  Earlier = Earlier
  None = None
  FetchTarget = 4
  FetchMin = 1
  FetchMax = 3
  FetchDefault = 3
  FetchSettings <- MCFetchSettings
  FetchSize = 12
  FetchVersions = 2
  PyThread = {t1, t2}
  PyOutlets = {"coarse", "Resolution", "Assembly", "bad"}
  PyBatch = 2
  PyCalls = 2
  PyPublications = 2
  ExportJob <- MCExportJob
  ExportGroup = 2
  ExportBits = 2
  ExportX = 16
  ExportY = 16
  CliRows <- MCCliRows
  MaxCliRows = 3
  Reader = {r1, r2}
  MaxWeight = 3
  MaxVersion = 2
INVARIANT LabelNamesItsData
\* A thread stops when its call has returned, a process when it is done.
CHECK_DEADLOCK FALSE
