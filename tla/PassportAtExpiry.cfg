SPECIFICATION Spec
CONSTANTS
  w1 = w1
  w2 = w2
  k1 = k1
  None = None
  EndUser = end_user
  Decisions = {d1}
  Payloads = {p1}
  Ids = {i1}
  Roles = {end_user}
  Policies = {l1}
  Clients = {c1}
  Approvers = {c1}
  Submitters = {s1}
  Workers = {w1}
  Caches = {k1}
  CacheOf <- OneThread
  PassportTTL = 1
  TicketTTL = 2
  MaxTime = 2
INVARIANTS PassportPresentedOnce
CHECK_DEADLOCK FALSE
