SPECIFICATION Spec
CONSTANTS
  Procs = {p1, p2, p3}
  Paths = {q1}
  Pins = {}
  None = None
  MaxStarts = 2
SYMMETRY StoreSymmetry
INVARIANTS ValidIsComplete
PROPERTIES ImportDelivers AlarmIsTrueOrEarly
CHECK_DEADLOCK FALSE
