\* Two people on two keys with three rows; a newer version may expire first.
SPECIFICATION Spec
CONSTANTS
  Keys = {k1, k2}
  NoKey = NoKey
  People = {p1, p2}
  Lifetimes = {1, 2}
  Window = 2
  BatchSize = 1
  MaxRows = 3
  MaxClock = 2
SYMMETRY MemorySymmetry
INVARIANTS
  TypeOK
  RedactedHasNoVector
  VersionsFollowTime
PROPERTIES
  NeverStale
  VersionsStay
