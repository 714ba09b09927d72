SPECIFICATION TerminalSpec
CONSTANTS
  n1 = n1
  n2 = n2
  va = va
  vb = vb
  Nodes = {n1, n2}
  Vaults = {va, vb}
  NoneOpen = NoneOpen
  Owner <- BothServe
  Ports = {8001}
  NoPort = NoPort
  Invites <- JoinEachOther
PROPERTY
  JoinsEnd
CHECK_DEADLOCK FALSE
