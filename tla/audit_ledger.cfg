SPECIFICATION FairSpec
CONSTANTS
  Actor = {alice, bob}
  Approver = {bob}
  Approval = {a1}
  Session = {s1}
  Turn = {m1}
  None = None
  RequireSeparateApprover = TRUE
  PageSize = 1
  Handler = {r1, r2}
  MaxRequests = 3
  MaxAborts = 1
  MaxVerifications = 1
  MaxTampers = 1
INVARIANTS TypeOK VerificationIsRight
PROPERTIES ChangesAreAudited EveryoneFinishes
CHECK_DEADLOCK FALSE
