\* An extraction by key and one of the minimum on a list of one element.
SPECIFICATION Spec
CONSTANTS
  Thread = {t1, t2}
  N = 5
  Key = {1, 2}
  LONG_MAX = 4
  Contents <- One
  Op = {"extractMinimum", "extractWithKey"}
  Calls = 1
CHECK_DEADLOCK FALSE
INVARIANT
  NoFault
