CONSTANTS
  End = {endA, endB}
  endA = endA
  endB = endB
  Wrap = 32
  First = 30
  IKCP_WND_SND = 2
  IKCP_WND_RCV = 3
  IKCP_OVERHEAD = 1
  IKCP_DEADLINK = 2
  IKCP_FASTACK_LIMIT = 1
  IKCP_THRESH_INIT = 2
  IKCP_THRESH_MIN = 2
  mss = 2
  fastresend = 1
  Modes <- MCModes
  MaxSend <- MCMaxSend
  MaxAck = 2
SPECIFICATION Spec
INVARIANTS
  DeliveredInOrder
  SegmentsKept
  NeverStuck
CHECK_DEADLOCK FALSE
