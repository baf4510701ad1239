SPECIFICATION Spec
CONSTANTS
  Procs = {p1, p2}
  n1 = n1
  n2 = n2
  a = a
  b = b
  Nodes = {n1, n2}
  Contents = {a, b}
  Size <- MCSize
  Want <- MCWant
  Inodes = {i1, i2, i3}
  None = None
  MaxSpoils = 1
SYMMETRY FarmSymmetry
INVARIANTS KeysTellContent SettledIsShared
PROPERTIES RelinkKeepsContent
CHECK_DEADLOCK FALSE
