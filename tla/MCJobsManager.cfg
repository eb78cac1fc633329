\* Two nodes, two kinds, rings of two, three reqIds.
CONSTANTS
  n1 = n1
  n2 = n2
  Node = {n1, n2}
  Kind = {"clock-apply", "modelctl"}
  OrphanKind = "orphan"
  ReqId = {"r1", "r2", "r3"}
  MaxJobsPerNode = 2
SPECIFICATION Spec
INVARIANTS IndexSound SingleFlightIndexed LiveTimer NotifiedOnce
PROPERTY KeepsLifecycle
