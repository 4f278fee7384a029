CONSTANTS
  Job = {j1, j2, j3}
  Capacity = 2
  Word = 64
  Base = 1
  First = 2
  Length = 2
  Last = 7
  Delay = {0, 3}
  Repetitions = {0, 1, 2}
  Gap = {3}
SPECIFICATION Spec
INVARIANTS TypeOK OneOwner OnTime
PROPERTY Served
CHECK_DEADLOCK FALSE
