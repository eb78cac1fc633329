SPECIFICATION FairSpec
CONSTANTS
  t1 = t1
  t2 = t2
  Target = {t1, t2}
  NoTarget = NoTarget
  Request = {q1, q2}
  Chat = {q1}
  NoModel = NoModel
  Offered <- MCOffered
  FirstHealths <- MCDown
  MaxFrames = 1
  MovesTo = {"healthy"}
  MaxMoves = 1
  Conversation = {c1}
  NoConversation = NoConversation
  Folder = {f1}
  NoFolder = NoFolder
INVARIANTS RoutedWell StoreSound ShownIsStored
PROPERTY QuestionsAreAnswered
CHECK_DEADLOCK FALSE
