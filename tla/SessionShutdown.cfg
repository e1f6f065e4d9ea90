SPECIFICATION FairSpec
CONSTANTS
  Apps = {a1}
  MaxSends = 1
  MaxRecvs = 1
  MaxQueue = 1
  MsgLen = 1
  Spare = {}
  Outcomes = {"accept", "cancel"}
INVARIANTS
  CleanupLast
  RecvArmed
PROPERTIES
  ShutdownCompletes
  DisconnectCleansUp
