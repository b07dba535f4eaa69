\* A batch is put and its writer dropped without commit; then a compaction.
\* No failure of any kind happens.
SPECIFICATION Spec
CONSTANTS
  Keys = {k1}
  Times = {0}
  PeriodLen = 1
  BulkThreshold = 2
  MaxPuts = 2
  MaxFailures = 0
  MaxSessions = 3
CHECK_DEADLOCK FALSE
INVARIANT CompactKeepsRecords
