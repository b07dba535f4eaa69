SPECIFICATION Spec
CONSTANTS
  Writers = {w1, w2}
  Readers = {}
  Rows = {x1, x2, x3}
  Decls = {d1}
  None = none
  MaxErrors = 0
INVARIANTS
  StagedIsCovered
