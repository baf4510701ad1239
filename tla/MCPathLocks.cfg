SPECIFICATION Spec
CONSTANTS
  Procs = {p1, p2, p3}
  Paths = {1}
  Ids = {i1, i2, i3, i4}
  None = None
  MaxRounds = 2
SYMMETRY PathLocksSymmetry
INVARIANTS MutualExclusion
PROPERTIES OnlyOwnLockFileUnlinked ImplementsPathMutex
CHECK_DEADLOCK FALSE
