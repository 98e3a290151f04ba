SPECIFICATION FairSpec
CONSTANTS
  None = None
  me = me  other = other
  Actor = {me, other}
  Me = me
  Scopes <- ScopesOf
  MaxTurns = 2
  MaxConvs = 4
  Message <- Messages
  Calls <- OtherCalls
  Parts = 1
  HistoryLimit = 2
  Threshold = "HIGH"
  MaxFaults = 1
INVARIANTS TypeOK StreamIsFaithful ThreadsAreOwn AnswersAreGoverned
PROPERTIES EveryQuestionSettles
CHECK_DEADLOCK FALSE
