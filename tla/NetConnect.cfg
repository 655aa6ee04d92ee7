SPECIFICATION FairSpec
CONSTANTS
  MsgType <- MCMsgType
  Body <- MCBody
  MESSAGE_BUFFER_SIZE = 3
  MaxSent = 3
INVARIANTS
  DeliveredInOrder
  FramingSound
PROPERTIES
  ImplementsChannel
  EventuallyDelivered
CHECK_DEADLOCK FALSE
