SPECIFICATION Spec
CONSTANTS
  Replicas = {r1, r2}
  Verifiers = {v1}
  PassportTtl = 2
  TicketTtl = 3
  RetireAfter = 2
  CacheTime = 1
  MaxKeys = 3
  MaxTime = 3
  MaxTokens = 1
SYMMETRY Symmetry
INVARIANTS TypeOK LiveTokenKnown RefusalHasCause WithdrawnKeyDies
CHECK_DEADLOCK FALSE
