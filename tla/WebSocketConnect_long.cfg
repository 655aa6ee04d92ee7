SPECIFICATION Spec
CONSTANTS
  Frame <- MCLongFrames
  ShortMax = 2
  MESSAGE_BUFFER_SIZE = 6
  MaxSent = 2
INVARIANT LongFramesInOrder
CHECK_DEADLOCK FALSE
