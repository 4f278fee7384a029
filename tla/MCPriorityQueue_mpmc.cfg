\* Two consumers help each other while a key is inserted again, one level.
SPECIFICATION Spec
CONSTANTS
  Producer = {p}
  Consumer = {c, d}
  N = 5
  kMaxLevels = 1
  Key = {1}
  KEY_MAX = 4
  Contents <- One
  Calls = 1
SYMMETRY Symmetry
CHECK_DEADLOCK FALSE
PROPERTIES
  ImplementsKeyMap
