\* All operations, two calls by each of two threads on two free nodes; only some thread
\* is sure to run.
SPECIFICATION LockFreeSpec
CONSTANTS
  Thread = {t1, t2}
  N = 4
  Key = {0, 1}
  LONG_MAX = 2
  Contents <- Empty
  Op = {"insert", "extractMinimum", "extractWithKey"}
  Calls = 2
CHECK_DEADLOCK FALSE
INVARIANTS
  TypeOK
  ListSorted
  UsedNotReclaimed
  ExtractedOnce
PROPERTIES
  TakesMinimum
  ImplementsKeySet
  FaultByKeyOnly
  LockFree
