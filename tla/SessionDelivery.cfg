SPECIFICATION FairSpec
CONSTANTS
  Apps = {a1}
  MaxSends = 2
  MaxRecvs = 0
  MaxQueue = 1
  MsgLen = 1
  Spare = {}
  Outcomes = {"accept", "reject"}
PROPERTIES
  MessagesLeave
  RejectedIsClosed
