SPECIFICATION TerminalSpec
CONSTANTS
  n1 = n1
  n2 = n2
  va = va
  vb = vb
  Nodes = {n1, n2}
  Vaults = {va, vb}
  NoneOpen = NoneOpen
  Owner <- OneServes
  Ports = {8001, 8002}
  NoPort = NoPort
  Invites <- TwoJoinsOne
INVARIANTS
  TerminalTypeOK
  LockEndsServing
  CopiesAreOfTheServedVault
PROPERTIES
  DialogsActOnTheirVault
  JoinsEnd
  IdleVaultsLock
