SPECIFICATION Spec
CONSTANTS
  Writers = {w1, w2}
  Readers = {r1}
  Rows = {x1, x2, x3}
  Decls = {d1}
  None = none
  MaxErrors = 2
INVARIANTS
  TypeOK
  RowsCovered
  PinnedRowsDurable
  PinnedRowsSearchable
