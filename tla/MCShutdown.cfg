SPECIFICATION MCLeavers
CONSTANTS
  p1 = p1
  p2 = p2
  Peer <- MCPeer
  Scenarios <- Progress
  Script <- MCScript
  EventCap = 12
  PeerCap = 3
  SocketCap = 2
  NetCap = 6
  ProcCap = 6
  Stoppable = TRUE
  MaxTicks = 0
CHECK_DEADLOCK FALSE
PROPERTIES
  ShutdownCompletes
  QueriesAnswered
  PeersForgotten
