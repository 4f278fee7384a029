\* startQueue on a queue that has just been initialised.
SPECIFICATION Spec
CONSTANTS
  RT = rt
  Main = main
  Caller = {c}
  rt = rt
  main = main
  c = c
  MaxSignals = 1
  MaxJobs = 0
INVARIANT StartRuns
CHECK_DEADLOCK FALSE
