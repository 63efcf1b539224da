SPECIFICATION Spec
CONSTANTS
  Conns = {c1, c2}
  Requests <- MCRequests
  Configs <- MCConfigs
  BodyLimit = 2
  Window = 3
  Ticks = 2
  Attempts = 3
  Skews = {0, 4}
  NoValue = NoValue
  MaxTime = 4
  MaxRequests = 3
  MaxRecords = 1
  MaxResets = 1
INVARIANTS TypeOK BodyIntact QuotaHolds RefusalIsDue AccessIsGranted
  DeliveryHasCause
PROPERTY AuditEnds
CHECK_DEADLOCK FALSE
