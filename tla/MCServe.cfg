SPECIFICATION ServeSpec
CONSTANTS
  p1 = p1
  p2 = p2
  Conns = {1, 2}
  Procs <- MCProcs
  Peers <- MCPeers
  Granted <- MCGranted
  MaxVersion = 2
  MaxFaults = 1
  FitsFrame = TRUE
INVARIANTS
  ServeTypeOK
  NoncesOnce
  FramesOpen
  CopiesAreGranted
  IdentityStable
PROPERTIES
  CopiesAreRecent
  JoinsFailForAReason
  LinesAreHandled
  JoinsFinish
CHECK_DEADLOCK FALSE
