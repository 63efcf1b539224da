SPECIFICATION Spec
CONSTANTS
  Procs = {p1}
  Records = {a, b, c}
  NonAscii = {}
  Splitting = {}
  MaxFaults = 1
  None = None
INVARIANTS EachDecisionRecorded
CHECK_DEADLOCK FALSE
