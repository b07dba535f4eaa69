SPECIFICATION FairSpec
CONSTANTS
  Callers = {c1, c2, c3}
  MaxCalls = 2
  MaxErrors = 1
  DropDirtyOnError = FALSE
INVARIANTS
  TypeOK
  OkImpliesDurable
  WaitersHaveWaker
PROPERTIES
  EveryCallReturns
  BarrierSpec
CHECK_DEADLOCK FALSE
