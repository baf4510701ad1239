SPECIFICATION Spec
CONSTANTS
  Procs = {p1, p2}
  Paths = {q1}
  Pins = {}
  None = None
  MaxStarts = 1
INVARIANTS AlwaysValidIsComplete
CHECK_DEADLOCK FALSE
