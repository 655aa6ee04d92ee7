SPECIFICATION FairSpec
CONSTANTS
  Frame <- MCFrames
  ShortMax = 2
  MESSAGE_BUFFER_SIZE = 6
  MaxSent = 3
INVARIANTS
  FramesSafe
  OnCloseLast
PROPERTIES
  EventuallyPassed
CHECK_DEADLOCK FALSE
