SPECIFICATION Spec
CONSTANTS
  Frames <- MCFrames
  LastMinute = 3
  Width <- MCWidth
  Keep <- MCKeep
  Grain = 1000
  MaxTraces = 2
  MaxTraceAge = 2
  MaxFrames = 3
  MaxRequests = 3
  desired = desired
  clients = clients
  AsyncFile = {desired}
  SyncFile = {clients}
  e1 = e1
  e2 = e2
  e3 = e3
  Edit = {e1, e2, e3}
  BackupsKeep = 2
  TracesDays = 1
  MaxBackups = 4
  MaxRestarts = 1
CONSTRAINT OneSide
INVARIANTS CountsAddUp AveragesTrue LongHoldsShort AnsweredIsStored RetentionKeepsNewest
CHECK_DEADLOCK FALSE
