CONSTANTS
  r1 = r1
  r2 = r2
  Req = {r1, r2}
  Free = Free
  Orphan = Orphan
  MaxWrites = 2
  Accepts = {"hc_collect", "hc_restore", "hc_switch_up", "trc_ws"}
  QuietCollect = TRUE
  Faults = {"api", "chart", "scale", "drop", "psql", "dump", "sql", "disk", "remove", "lookup", "lock", "unlock", "crash"}
SYMMETRY Symmetry
SPECIFICATION Spec
INVARIANTS
  TypeOK
  DataKept
  LoadAlone
PROPERTIES
  ComesBackWhole
  KeepsPromise
