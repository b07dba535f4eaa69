SPECIFICATION Spec
CONSTANT Settings <- OrphanSettings
INVARIANTS
  AckedSurvive
CHECK_DEADLOCK FALSE
