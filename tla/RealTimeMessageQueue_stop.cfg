\* The response queue is stopped while the real-time thread dispatches to it.
SPECIFICATION Spec
CONSTANTS
  RT = rt
  Main = main
  Caller = {c}
  rt = rt
  main = main
  c = c
  MaxSignals = 1
  MaxJobs = 0
INVARIANT NeverFaults
CONSTRAINT Apart
CHECK_DEADLOCK FALSE
