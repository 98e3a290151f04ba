SPECIFICATION Spec
CONSTANTS
  t1 = t1  a1 = a1  a2 = a2  None = None
  Task <- OneTask
  Actor <- Actors
  Approver = {a2}
  Owner <- OwnerIsA1
  Handler = {r1}
  GateId = {g1, g2}
  Manifest <- Automation
  MaxRisk = "HIGH"
  Threshold = "HIGH"
  ScopeSets <- SomeScopes
  MaxAttempts = 3
  Durable = TRUE
  RequireSeparateApprover = TRUE
  MaxRequests = 6
  MaxAborts = 0
SYMMETRY Symmetry
CHECK_DEADLOCK FALSE
INVARIANTS
  GuardedRunsOnce
