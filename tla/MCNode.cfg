SPECIFICATION MCSpec
CONSTANTS
  p1 = p1
  p2 = p2
  Peer <- MCPeer
  Scenarios <- Safety
  Script <- MCScript
  EventCap = 1
  PeerCap = 1
  SocketCap = 1
  NetCap = 1
  ProcCap = 1
  Stoppable = TRUE
  MaxTicks = 1
CHECK_DEADLOCK FALSE
INVARIANTS
  AnswersInOrder
  
  HandshakeFirst
  RelayedOnce
  ShutdownLast
