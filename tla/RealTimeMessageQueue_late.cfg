\* Two threads meet in the exchange: a call gives up while the real-time thread is at work.
SPECIFICATION Spec
CONSTANTS
  RT = rt
  Main = main
  Caller = {c}
  rt = rt
  main = main
  c = c
  MaxSignals = 1
  MaxJobs = 0
INVARIANT RunsOnce
CHECK_DEADLOCK FALSE
