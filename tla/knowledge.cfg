SPECIFICATION Spec
CONSTANTS
  Doc <- MCDoc
  MaxRevision = 2
  Content <- MCContent
  Seed <- MCSeed
  Writes <- MCWrites
  MaxWrites = 2
  Requests <- MCRequests
  Asked <- MCAsked
  MaxSearches = 1
  MinScore = 1800
  Marks = {1, 2, 100}
  MaxFaults = 1
INVARIANTS
  TypeOK
  
  IndexesFollowTheStore
  AnswersRestOnPassages
CHECK_DEADLOCK FALSE
