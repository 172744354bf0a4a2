SPECIFICATION MCSpec
CONSTANTS
  Parts = {"given", "republishing"}
  s1 = s1
  s2 = s2
  s3 = s3
  c1 = c1
  c2 = c2
  c3 = c3
  c4 = c4
  kA = kA
  kB = kB
  kC = kC
  None = None
  Opener = {o1, o2}
  Source = {s1, s2, s3}
  Content = {c1, c2, c3, c4}
  UnitsOf <- MCUnitsOf
  Key = {kA, kB, kC}
  KeyOf <- ThreeFabrics
  Published <- SoundAndBroken
  Tagged = {s1, s2}
  Loss = TRUE
  Quiet = TRUE
  MaxOpens = 2
  MaxRepublish = 0
SYMMETRY OpenerSymmetry
INVARIANTS
  SessionConsistent
  SessionIsRemote
  SidecarHonest
  InvalidIsReal
\* Openers stop when their opens are used up.
CHECK_DEADLOCK FALSE
