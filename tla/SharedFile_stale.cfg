SPECIFICATION Spec
CONSTANTS
  t1 = t1
  t2 = t2
  t3 = t3
  p1 = p1
  p2 = p2
  Threads = {t1, t2}
  Processes = {p1}
  ProcessOf <- MCProcessOf
  None = none
  MaxHandles = 4
  MaxItems = 2
  MaxErrors = 0
  CreateFirst = TRUE
INVARIANTS
  AckedStays
CHECK_DEADLOCK FALSE
