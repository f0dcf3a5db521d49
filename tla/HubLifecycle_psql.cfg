CONSTANTS
  r1 = r1
  Req = {r1}
  Free = Free
  Orphan = Orphan
  MaxWrites = 1
  Accepts = {"hc_collect", "hc_restore"}
  QuietCollect = TRUE
  Faults = {"sql"}
SPECIFICATION Spec
PROPERTIES
  FailedLoadStops
