CONSTANTS
  d1 = d1
  d2 = d2
  Customs = {d1, d2}
  Within <- OneInTwo
  Starts = {}
  MaxPatches = 3
  MaxCrashes = 2
  MaxFails = 2
SPECIFICATION Spec
INVARIANTS
  DoneIsDone
CHECK_DEADLOCK FALSE
