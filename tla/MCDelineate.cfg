SPECIFICATION MCSpec
CONSTANTS
  Parts = {"batch", "carve", "polygonize", "assembly", "validity", "wkb"}
  c1 = c1
  c2 = c2
  Call = {c1, c2}
  Unit <- MCUnit
  Crs = {"wgs84", "utm"}
  BadCrs = {"mars"}
  Engine <- MCEngine
  Input <- MCInput
  NaN = NaN
  Infinity = Infinity
  None = None
  RemoveAll = RemoveAll
SYMMETRY Symmetric
INVARIANTS
  BestEffortTotal
  OutcomeIsTrue
  RefinementExact
  PolygonsAreTheMask
  SoundUnitsAssemble
  AreaIsOfTheRegion
  VerdictExact
  OneCanonicalForm
\* A batch stops when all its calls have returned, a call when it has.
CHECK_DEADLOCK FALSE
