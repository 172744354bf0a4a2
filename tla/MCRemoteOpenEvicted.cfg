SPECIFICATION MCSpec
CONSTANTS
  Parts = {"given"}
  s1 = s1
  s2 = s2
  s3 = s3
  c1 = c1
  c2 = c2
  c3 = c3
  c4 = c4
  kA = kA
  kB = kB
  kC = kC
  None = None
  Opener = {o1}
  Source = {s1}
  Content = {c1, c2, c3}
  UnitsOf <- MCUnitsOf
  Key = {kA}
  KeyOf <- OneFabric
  Published <- AllSound
  Tagged = {s1}
  Loss = TRUE
  Quiet = TRUE
  MaxOpens = 3
  MaxRepublish = 1
INVARIANT
  SessionConsistent
\* Openers stop when their opens are used up.
CHECK_DEADLOCK FALSE
