SPECIFICATION Spec
CONSTANTS
  Radio = {r1, r2, r3}
  Name = {n1}
  NoName = noName
  Process = {p1, p2}
  Admin = {a1, a2}
  Reader = {d1}
  MaxUnits = 1
  CacheSeconds = 1
  NoCache = noCache
  MaxClock = 1
INVARIANTS
  OvershootBounded
  StaleOnlyWithinWindow
SYMMETRY Symmetry
