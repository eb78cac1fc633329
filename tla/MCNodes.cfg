SPECIFICATION Spec
CONSTANTS
  n1 = n1
  n2 = n2
  f1 = f1
  f2 = f2
  store = store
  Node = {n1, n2}
  Thing = {n1, store, f1, f2}
  Cache = {n1}
  Folder = {f1, f2}
  NasFirst <- MCNasFirst
  NodeOf <- MCNodeOf
  NoModels = NoModels
  NoRecipe = NoRecipe
  NoMeta = NoMeta
  MaxGen = 1
  MaxJobs = 2
  TTL = 1
  StaleMultiplier = 2
  MaxClock = 3
  MaxBuilds = 2
  MaxInstalls = 1
CONSTRAINT OneSide
INVARIANT MetaOfOwnFolder
PROPERTIES ShowsNothingOlder RequestsAnswered
CHECK_DEADLOCK FALSE
