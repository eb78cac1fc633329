SPECIFICATION ObedientSpec
CONSTANTS
  Dep = {d1}
  NoDep = NoDep
  Request = {q1}
  Chat = {}
  MaxActs = 0
PROPERTY IdleEngineStops
CHECK_DEADLOCK FALSE
