SPECIFICATION Spec
CONSTANTS
  NoValue = NoValue
  Calls = {c1, c2}
  Workers = {w1, w2}
  Requests <- MCRequests
  Rewrites <- MCRewrites
  ToolTenant = "t1"
  AuthMode = "jwt"
  Cedar = TRUE
  MaxSent = 3
  MaxIds = 2
  MaxRows = 1
SYMMETRY Symmetry
INVARIANTS TypeOK RunsAsAuthorised OncePerAuthorisation DenialHolds
  SpentHasCause
CHECK_DEADLOCK FALSE
