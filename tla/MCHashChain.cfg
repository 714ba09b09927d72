SPECIFICATION ChainSpec
CONSTANTS
  Window = 3
  MaxSeq = 7
  Payloads = {1, 2}
  Hashes <- MCHashes
  Hash <- MCHash
  ZeroHash = 0
INVARIANTS
  HashChainTypeOK
  VerifyFailsOnlyIfTorn
  DamageIsOldest
  ChainInv
PROPERTY
  HistoryOnlyGrows
