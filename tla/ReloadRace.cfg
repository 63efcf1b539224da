SPECIFICATION Spec
CONSTANTS
  Replicas = {r1}
  Tasks = {t1}
  Labels = {l1, l2}
  MaxVersions = 2
  None = None
SYMMETRY CacheSymmetry
INVARIANTS ReloadTakesEffect
