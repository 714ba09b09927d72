SPECIFICATION ReplicationSpec
CONSTANTS
  Ranges = {r1, r2}
  Header = Header
  Peers = {p1}
  Capacity = 2
  Programs = {"console", "terminal"}
  MaxCalls = 4
  MaxFailures = 1
INVARIANTS
  ReplicationTypeOK
  SyncCatchesUp
  NextRecordCatchesUp
