SPECIFICATION Spec
CONSTANTS
  Procs = {p1, p2}
  n1 = n1
  n2 = n2
  a = a
  b = b
  Nodes = {n1, n2}
  Contents = {a, b}
  Size <- MCSameSize
  Want <- MCWant
  Inodes = {i1, i2, i3}
  None = None
  MaxSpoils = 1
SYMMETRY FarmSymmetry
INVARIANTS EveryKeyTellsContent
CHECK_DEADLOCK FALSE
