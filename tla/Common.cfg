CONSTANTS
  w1 = w1
  w2 = w2
  w3 = w3
  c1 = c1
  c2 = c2
  c3 = c3
  Conn = {c1, c2, c3}
  TimerId = {1, 2, 3, 4, 5, 6}
  Range32 = 8
  UPDATE_LIMIT = 2
  StartTime = 4
  Plans <- MCPlans
  Clock = 64
  JUMP = 20
  interval = 3
  nodelay = TRUE
  rx_minrto = 2
  IKCP_RTO_DEF = 4
  IKCP_RTO_MAX = 8
  IKCP_PROBE_INIT = 4
  IKCP_PROBE_LIMIT = 7
  Slack = 1
  Start = 58
  MaxTime = 71
  Writer = {w1, w2, w3}
  maxsize = 2
  MaxDay = 2
  MaxLine = 2
  Object = {1, 2, 3, 4}
  PacketId = {1, 2}
  HEAD = 2
  MsgTypes = {7}
  PoolSizes = {0, 2}
  MaxSize = 6
  Values <- MCValues
SPECIFICATION Spec
INVARIANTS TimersSound ClockSound LogSound PacketsSound EndpointsSound
CHECK_DEADLOCK FALSE
