\* Two consumers; keys are inserted below and above the only element.
SPECIFICATION Spec
CONSTANTS
  Producer = {p}
  Consumer = {c, d}
  N = 5
  kMaxLevels = 1
  Key = {1, 3}
  KEY_MAX = 4
  Contents <- Mid
  Calls = 2
SYMMETRY Symmetry
CHECK_DEADLOCK FALSE
PROPERTY
  TakesMinimum
