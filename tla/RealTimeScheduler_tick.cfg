CONSTANTS
  Job = {j1, j2}
  Capacity = 2
  Word = 64
  Base = 1
  First = 2
  Length = 2
  Last = 7
  Delay = {0, 3}
  Repetitions = {0, 1, 2}
  Gap = {0, 3}
SPECIFICATION Spec
PROPERTY AcceptedRuns
CHECK_DEADLOCK FALSE
