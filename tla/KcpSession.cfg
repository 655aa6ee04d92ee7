SPECIFICATION Spec
CONSTANTS
  CLOCK = 8
  Timeout = 1
  Interval = 1
  MaxObject = 3
  MaxSession = 2
  MaxSetup = 1
  MaxMsg = 2
  MinTime = 4
  MaxTime = 8
INVARIANTS
  SessionsSafe
  ClosedOnce
  TimeoutsHonest
CHECK_DEADLOCK FALSE
