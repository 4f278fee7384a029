\* A synchronous call whose time is up returns although another thread still runs its block.
SPECIFICATION Spec
CONSTANTS
  RT = rt
  Main = main
  Caller = {c}
  rt = rt
  main = main
  c = c
  MaxSignals = 1
  MaxJobs = 0
PROPERTY SyncRuns
CHECK_DEADLOCK FALSE
