CONSTANTS
  node = n1
  NoNode = NoNode
  Kind = {"modelctl"}
  OrphanKind = "orphan"
  ReqId = {"r1"}
  Timed = {}
  MaxJobsPerNode = 2
  MaxSockets = 2
  NoSocket = NoSocket
  PongPeriods = 0
  MaxRestarts = 0
SPECIFICATION FairSpec
PROPERTY BrokenJobsEnd
CHECK_DEADLOCK FALSE
