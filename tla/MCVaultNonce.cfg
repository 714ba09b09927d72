SPECIFICATION VaultSpec
CONSTANTS
  f1 = f1
  f2 = f2
  p1 = p1
  p2 = p2
  Window = 3
  MaxSeq = 4
  Payloads = {0, 1, 2}
  Hashes <- MCHashes
  Hash <- MCHash
  ZeroHash = 0
  NumBlocks = 6
  Direct = 1
  PerIndex = 1
  IndexLike <- MCIndexLike
  MaxFiles = 2
  MaxRecipients = 2
  Names = {f1, f2}
  NoName = NoName
  Peers = {p1, p2}
  NoPeer = NoPeer
  Passwords = {"right"}
  AdminPassword = "right"
  Sizes = {1}
  MaxCalls = 2
  MaxFaults = 0
  FaultPoints <- AllPoints
PROPERTY
  NonceFresh
