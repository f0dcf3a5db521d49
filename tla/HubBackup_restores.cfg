SPECIFICATION Spec
CONSTANTS
  Snaps = {s1}
  Reqs = {q1, q2, q3}
  Files = {f1}
  Restores = {r1, r2}
  MaxCrashes = 1
  MaxFails = 1
INVARIANTS
  TypeOK
  ListedWithDump
  BackupKept
SYMMETRY Perms
CHECK_DEADLOCK FALSE
