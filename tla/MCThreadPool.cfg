SPECIFICATION FairSpec
CONSTANTS
  Main = Main
  Workers = {w1, w2}
  Items = {i1, i2, i3}
  None = None
  MaxThreads = 3
INVARIANTS ReturnMeansAllDone NobodyRunsAfterwards
PROPERTIES PoolEnds
CHECK_DEADLOCK FALSE
