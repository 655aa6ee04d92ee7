SPECIFICATION FairSpec
CONSTANTS
  Packet <- MCPacket
  sendSize <- MCsendSize
  MAX_SEND_BYTE = 3
  MAX_SEND_PACKET = 2
INVARIANTS
  BatchSafe
  PacketsConserved
  SentInOrder
  NoWedge
PROPERTIES
  EventuallyRecycled
CHECK_DEADLOCK FALSE
