SPECIFICATION FairSpec
CONSTANTS
  t1 = t1  a1 = a1  a2 = a2  None = None
  Task <- OneTask
  Actor <- Actors
  Approver = {a1, a2}
  Owner <- OwnerIsA1
  Handler = {r1, r2}
  GateId = {g1, g2, g3}
  Manifest <- TwoDecisions
  MaxRisk = "HIGH"
  Threshold = "MEDIUM"
  ScopeSets <- FewerScopes
  MaxAttempts = 2
  Durable = TRUE
  RequireSeparateApprover = TRUE
  MaxRequests = 4
  MaxAborts = 1
CHECK_DEADLOCK FALSE
INVARIANTS
  CompletedWasApproved
  
PROPERTIES
  GuardedRunsAreApproved
  DecisionsAreFinal
  EveryRequestReturns
