SPECIFICATION Spec
CONSTANTS
  Apps = {a1}
  MaxSends = 2
  MaxRecvs = 0
  MaxQueue = 2
  MsgLen = 2
  Spare = {"send2"}
  Outcomes = {"accept", "reject", "cancel"}
INVARIANTS
  SendEventExclusive
  IoAccounted
  SendArmed
  StreamIntact
  FailureDisconnects
  QuietAfterShutdown
PROPERTIES
  NoticeBeforeClose
