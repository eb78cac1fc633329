SPECIFICATION FairAlertSpec
CONSTANTS
  Rule = {r1}
  Entity = {n1, n2}
  ForTicks = 2
  NoBreach = NoBreach
  MaxMute = 2
  MaxRestarts = 1
INVARIANT OneOpenAlert
PROPERTIES FiresOnlyAfterHold ClearedIsResolved PersistentBreachAlerts
