SPECIFICATION MCLeavers
CONSTANTS
  p1 = p1
  p2 = p2
  Peer <- OnePeer
  Scenarios <- Pressure
  Script <- MCScript
  EventCap = 1
  PeerCap = 6
  SocketCap = 1
  NetCap = 1
  ProcCap = 1
  Stoppable = TRUE
  MaxTicks = 0
CHECK_DEADLOCK FALSE
PROPERTIES
  ShutdownCompletes
