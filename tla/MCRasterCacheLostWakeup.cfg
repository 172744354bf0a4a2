SPECIFICATION MCSpec
CONSTANTS
  Parts = {"live"}
  t1 = t1
  t2 = t2
  t3 = t3
  pA = pA
  pB = pB
  w1 = w1
  Task = {t1, t2, t3}
  Process = {pA, pB}
  ProcOf <- MCProcOf
  Window = {w1}
  MaxCalls = 2
  Text = Text
  NaN = NaN
  None = None
  LiveTask = {t1, t2}
  CogObject <- MCCogObject
  CogRequest <- MCCogRequest
  CogTile = 2
  CogPixel = 2
  CogWordMod = 4096
  CogPrecise = 16
  CogShort = 40000
  CogLong = 60000
  CogIfdEntries = 40
  CogIfdBytes = 400
  CogAscii = 8
  CogTiles = 5
  CogChunk = 20
  CogCovered = 45
  CogDecoded = 16
  CogWindowBytes = 40
PROPERTIES
  CallsEnd
CHECK_DEADLOCK FALSE
