SPECIFICATION ServeSpec
CONSTANTS
  p1 = p1
  p2 = p2
  Conns = {1, 2}
  Procs <- MCProcs
  Peers <- MCPeers
  Granted <- MCGranted
  MaxVersion = 2
  MaxFaults = 0
  FitsFrame = FALSE
PROPERTIES
  JoinsFailForAReason
CHECK_DEADLOCK FALSE
