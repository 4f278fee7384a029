\* One level, two consumers: a node is reclaimed while it is linked, since a key is read
\* from a node that has been released.
SPECIFICATION Scheduled
CONSTANTS
  Producer = {"p"}
  Consumer = {"a", "b"}
  N = 5
  kMaxLevels = 1
  Key = {1, 2, 3}
  KEY_MAX = 4
  Contents <- One
  Calls = 3
  Schedule <- TwoConsumers
CHECK_DEADLOCK FALSE
INVARIANT
  UsedNotReclaimed
