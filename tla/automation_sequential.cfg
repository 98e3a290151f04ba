SPECIFICATION Spec
CONSTANTS
  t1 = t1  a1 = a1  a2 = a2  None = None
  Task <- OneTask
  Actor <- Actors
  Approver = {a1}
  Owner <- OwnerIsA1
  Handler = {r1}
  GateId = {g1, g2}
  Manifest <- Automation
  MaxRisk = "HIGH"
  Threshold = "HIGH"
  ScopeSets <- SomeScopes
  MaxAttempts = 3
  Durable = FALSE
  RequireSeparateApprover = FALSE
  MaxRequests = 7
  MaxAborts = 0
SYMMETRY Symmetry
CHECK_DEADLOCK FALSE
INVARIANTS
  TypeOK
  ReportsTellTheTruth
  MovesAreLegal
  NothingIsStranded
PROPERTIES
  KeepsThePromise
  RefusedNeverRuns
