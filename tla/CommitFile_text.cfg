SPECIFICATION Spec
CONSTANT Settings <- TextSettings
INVARIANTS
  AckedIndexed
CHECK_DEADLOCK FALSE
