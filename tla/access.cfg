SPECIFICATION Spec
CONSTANTS
  Browser = {b1, b2}
  b1 = b1
  b2 = b2
  Person <- MCPerson
  Groups <- MCGroups
  MaxAttempts = 2
  MaxClock = 3
  SessionTtl = 1
  ParkedTtl = 1
  TokenLife = 2
  Request = {1, 2, 3}
  Conversation = {"daily"}
  RecallLimit = 2
  RingLimit = 1
CONSTRAINT MCFocus
SYMMETRY MCSymmetry
INVARIANTS
  TypeOK
  OnlyTheLastAttemptSignsIn
  RevocationIsBounded
  
CHECK_DEADLOCK FALSE
