SPECIFICATION FairSpec
CONSTANTS
  Procs = {p1, p2}
  Paths = {q1, q2}
  Pins = {q2}
  None = None
  MaxStarts = 1
PROPERTIES PinnedSurvive ToolsEnd
CHECK_DEADLOCK FALSE
