\* One producer, one consumer: the key of an element that is being extracted is
\* inserted again.
SPECIFICATION Spec
CONSTANTS
  Producer = {p}
  Consumer = {c}
  N = 4
  kMaxLevels = 1
  Key = {1}
  KEY_MAX = 4
  Contents <- One
  Calls = 1
CHECK_DEADLOCK FALSE
INVARIANT
  NodesReturned
