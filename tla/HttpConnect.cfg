SPECIFICATION FairSpec
CONSTANTS
  Request <- AllRequests
  MESSAGE_BUFFER_SIZE = 6
  DEFAULT_SIZE = 5
  MaxHead = 6
  MaxRequest = 2
  MaxConn = 2
  MaxLater = 1
INVARIANTS
  RequestsInOrder
  ReuseSafe
PROPERTIES
  EventuallyHandled
CHECK_DEADLOCK FALSE
