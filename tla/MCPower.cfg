SPECIFICATION FairSpec
CONSTANTS
  Full = full
  Quiet = quiet
  eco = eco
  odd = odd
  Open = open
  ecoCaps = ecoCaps
  quietCaps = quietCaps
  Profile = {full, eco, quiet, odd}
  ownCaps = ownCaps
  Cap = {open, ecoCaps, quietCaps, ownCaps}
  Partial = {ownCaps}
  NoProfile = noProfile
  NoCaps = noCaps
  CapsOf <- MCCapsOf
  Scheduled = {quiet, odd}
  Hold = 1
  MayFail = TRUE
  MaxChanges = 2
  MaxFaults = 1
INVARIANT ClockExplained
PROPERTIES RecoversAfterHold LetsGo DesiredFollows
