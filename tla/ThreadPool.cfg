SPECIFICATION FairSpec
CONSTANTS
  Worker <- MCWorker
  Task <- MCTask
  MaxCreate = 2
  Device = "mysql"
  SleepCoversConstructor = TRUE
INVARIANTS
  PoolSafe
PROPERTIES
  ImplementsService
  EventuallyReported
  ExitReturns
CHECK_DEADLOCK FALSE
