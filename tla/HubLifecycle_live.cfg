CONSTANTS
  r1 = r1
  r2 = r2
  Req = {r1, r2}
  Free = Free
  Orphan = Orphan
  MaxWrites = 0
  Accepts = {"hc_collect", "trc_ws", "hc_delete"}
  QuietCollect = TRUE
  Faults = {"delete_ns", "drop", "dump", "disk", "lookup", "lock"}
SPECIFICATION LiveSpec
PROPERTIES
  StoredComesBack
  BlockEnds
