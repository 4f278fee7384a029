\* One producer, one consumer, two levels, a pool that runs out.
SPECIFICATION LockFreeSpec
CONSTANTS
  Producer = {p}
  Consumer = {c}
  N = 4
  kMaxLevels = 2
  Key = {1, 2}
  KEY_MAX = 4
  Contents <- High
  Calls = 2
CHECK_DEADLOCK FALSE
INVARIANTS
  TypeOK
  LevelsSorted
  UsedNotReclaimed
  PeekValid
PROPERTIES
  TakesMinimum
  LockFree
