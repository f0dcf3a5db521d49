CONSTANTS
  r1 = r1
  r2 = r2
  Req = {r1, r2}
  Free = Free
  Cooldown = 1
  Faults = {"crash"}
SPECIFICATION LiveSpec
PROPERTIES
  TryAgain
