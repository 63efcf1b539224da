SPECIFICATION Spec
CONSTANTS
  Replicas = {r1}
  Tasks = {t1, t2}
  Labels = {l1, l2}
  MaxVersions = 3
  None = None
SYMMETRY CacheSymmetry
INVARIANTS TypeOK OnlyValidServed QuietReloadTakesEffect QuietReloadRevokes
