SPECIFICATION FairSpec
CONSTANTS
  Dep = {d1, d2}
  NoDep = NoDep
  Request = {q1}
  Chat = {}
  MaxActs = 1
PROPERTIES LateJobsStayWithTheirRecord EveryRequestAnswered IdleStops
CHECK_DEADLOCK FALSE
