CONSTANTS
  c1 = c1
  c2 = c2
  Clusters = {c1, c2}
  Skewed = {c1}
  r1 = r1
  Replicas = {r1}
  j1 = j1
  j2 = j2
  Jobs = {j1, j2}
  MaxFails = 1
  MaxOverlaps = 1
SPECIFICATION LiveSpec
INVARIANTS
  TypeOK
  OneCluster
PROPERTIES
  Known
  Forgotten
CHECK_DEADLOCK FALSE
