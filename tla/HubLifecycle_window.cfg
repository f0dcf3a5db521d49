CONSTANTS
  r1 = r1
  Req = {r1}
  Free = Free
  Orphan = Orphan
  MaxWrites = 1
  Accepts = {"hc_collect"}
  QuietCollect = FALSE
  Faults = {}
SPECIFICATION Spec
INVARIANTS
  DataKept
