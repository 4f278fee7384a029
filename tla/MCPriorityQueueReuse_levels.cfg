\* Two levels, one consumer: a node is reclaimed while it is linked, since a key is read
\* from a node that has been released.
SPECIFICATION Scheduled
CONSTANTS
  Producer = {"p", "q"}
  Consumer = {"c"}
  N = 5
  kMaxLevels = 2
  Key = {1, 2, 3}
  KEY_MAX = 4
  Contents <- Empty
  Calls = 3
  Schedule <- TwoLevels
CHECK_DEADLOCK FALSE
INVARIANT
  UsedNotReclaimed
