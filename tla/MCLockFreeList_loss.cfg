\* Two extractions of the minimum on a list of two elements.
SPECIFICATION Spec
CONSTANTS
  Thread = {t1, t2}
  N = 5
  Key = {1, 2}
  LONG_MAX = 4
  Contents <- OneTwo
  Op = {"extractMinimum"}
  Calls = 1
CHECK_DEADLOCK FALSE
INVARIANT
  NothingLost
