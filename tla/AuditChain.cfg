SPECIFICATION FairSpec
CONSTANTS
  Procs = {p1, p2}
  Records = {a, b, c}
  NonAscii = {b, c}
  Splitting = {c}
  MaxFaults = 2
  None = None
INVARIANTS TypeOK BreakHasCause LostHasCause TamperEvident
PROPERTIES VerifiedKept TasksEnd
CHECK_DEADLOCK FALSE
