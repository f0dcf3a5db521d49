CONSTANTS
  w1 = w1
  Watchers = {w1}
  Nobody = Nobody
  MaxTag = 1
  MaxPublishes = 2
  MaxPosts = 0
  MaxFails = 4
SPECIFICATION Spec
PROPERTIES
  SameTag
CHECK_DEADLOCK FALSE
