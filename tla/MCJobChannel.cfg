CONSTANTS
  node = n1
  NoNode = NoNode
  Kind = {"modelctl"}
  OrphanKind = "orphan"
  ReqId = {"r1", "r2"}
  Timed = {"r1"}
  MaxJobsPerNode = 2
  MaxSockets = 2
  NoSocket = NoSocket
  PongPeriods = 0
  MaxRestarts = 1
SPECIFICATION TimerSpec
INVARIANTS DoneIsTrue RunningIsAccounted
PROPERTIES SpawnsOnce JobsEnd
CHECK_DEADLOCK FALSE
