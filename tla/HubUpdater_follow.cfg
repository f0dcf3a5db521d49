CONSTANTS
  w1 = w1
  w2 = w2
  Watchers = {w1, w2}
  Nobody = Nobody
  MaxTag = 1
  MaxPublishes = 1
  MaxPosts = 2
  MaxFails = 3
SPECIFICATION LiveSpec
INVARIANTS
  TypeOK
  OneWatcher
PROPERTIES
  NothingUndone
  Follows
  WorkEnds
CHECK_DEADLOCK FALSE
