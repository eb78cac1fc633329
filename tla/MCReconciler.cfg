SPECIFICATION FairSpec
CONSTANTS
  Node = {n1}
  NoNode = NoNode
  Socket = {s1, s2}
  NoSocket = NoSocket
  PongPeriods = 0
  c0 = c0  c1 = c1  c2 = c2
  Config = {c0, c1, c2}
  NoConfig = NoConfig
  Boot = c0
  Edits <- Forward
  MaxEdits = 2
  MaxRestarts = 1
INVARIANT OpenMeansCurrent
PROPERTIES EvictsOnlyItself NeverOlder Converges
CHECK_DEADLOCK FALSE
