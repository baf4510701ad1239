SPECIFICATION OpenSpec
CONSTANTS
  Openers = {p1, p2, p3}
  Files = {f1, f2, f3, f4}
  Statements = 2
  NoFile = NoFile
  MaxOpens = 2
SYMMETRY OpenSymmetry
INVARIANTS SchemaMeansTables SchemaIsComplete
CHECK_DEADLOCK FALSE
