SPECIFICATION FairSpec
CONSTANTS
  Swappers = {s1, s2}
  NumFiles = 2
  Dups = {1, 2}
  Capacity <- MCCapacity
INVARIANTS NobodySleepsBesideWork ReturnMeansImported
PROPERTIES SwapsInTime ImportEnds
CHECK_DEADLOCK FALSE
