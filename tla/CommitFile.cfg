SPECIFICATION Spec
CONSTANT Settings <- MCSettings
INVARIANTS
  TypeOK
  OpenSucceeds
  AckedSurvive
  AckedReadable
  RecoveredReadable
  IndexedUntilError
PROPERTIES
  StoreSpec
CHECK_DEADLOCK FALSE
