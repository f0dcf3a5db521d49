SPECIFICATION Spec
CONSTANTS
  Reqs = {r1, r2, r3}
  None = None
  Names = {n1, n2}
  LastOctet = 102
  Tries = 1
  MaxCrashes = 1
  MaxFails = 1
INVARIANTS
  TypeOK
  DbReached
  AllOfOne
SYMMETRY Perms
CHECK_DEADLOCK FALSE
