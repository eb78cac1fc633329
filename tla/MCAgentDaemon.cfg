SPECIFICATION DaemonFairSpec
CONSTANTS
  eco = eco  full = full  ghost = ghost
  Profile = {eco, full, ghost}
  NoProfile = NoProfile
  Cap = {"eco", "open"}
  Open = "open"
  NoCaps = NoCaps
  CapsOf <- MCCaps
  MaxQueue = 2
  MaxBoots = 2
  MaxWriteErrors = 1
INVARIANTS LastFrameWins CpuAsRecorded ReportsAsConfigured
PROPERTY RecordedInTheEnd
CHECK_DEADLOCK FALSE
