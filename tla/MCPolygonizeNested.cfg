SPECIFICATION MCSpec
CONSTANTS
  Parts = {"polygonize"}
  c1 = c1
  c2 = c2
  Call = {c1, c2}
  Unit <- MCUnit
  Crs = {"wgs84", "utm"}
  BadCrs = {"mars"}
  Engine <- MCEngine
  Input <- MCInput
  NaN = NaN
  Infinity = Infinity
  None = None
  RemoveAll = RemoveAll
INVARIANT HolesOfTheirPolygon
CHECK_DEADLOCK FALSE
