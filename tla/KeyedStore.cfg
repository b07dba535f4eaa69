\* One key in two periods: every order of puts, updates, deletes, forgets
\* and compactions, with one I/O error or process death.  Beside it, three
\* definitions, declarations or registrations, and one reopening.
SPECIFICATION MCSpec
CONSTANTS
  Keys = {k1}
  Times = {0, 1}
  PeriodLen = 1
  BulkThreshold = 2
  MaxPuts = 2
  MaxFailures = 1
  MaxSessions = 3
  MaxSteps = 3
  MaxOpens = 1
CHECK_DEADLOCK FALSE
INVARIANTS
  TypeOK
  OneVersion
  AckedSurvive
  VectorsFollow
  ReadOnePut
  KeysDurable
  StagedOwnersLive
  BulkAccepts
  DeclarationsReload
PROPERTY ShapesStay
