\* The main thread and another one dispatch a block each.
SPECIFICATION FairSpec
CONSTANTS
  RT = rt
  Main = main
  Caller = {main, c}
  MaxSignals = 1
  MaxJobs = 0
CHECK_DEADLOCK FALSE
CONSTRAINTS
  Apart
  StartedOnce
INVARIANTS
  TypeOK
  InOrder
  Exclusive
  NoFault
PROPERTIES
  SyncAfterRun
  Served
  StopReturns
