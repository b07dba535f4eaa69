SPECIFICATION Spec
CONSTANTS
  WordBits = 7
  GroupBits = 3
  n1 = n1
  n2 = n2
  Names = {n1, n2}
  Docs <- MCDocs
  Periods <- MCPeriods
  Day = 63
  BatchLimit = 4
  SketchBudget = 2
  MaxEdits = 5
  MaxCommits = 2
  MaxOpens = 1
SYMMETRY MCSymmetry
CHECK_DEADLOCK FALSE
INVARIANTS
  TypeOK
  FooterLoads
  CommittedReload
  ReadBack
  IndexesAgree
  VectorsFound
  SearchExact
  TermIdsStable
  FusionKeepsOrder
  CodecsInvert
  QuantizersExact
