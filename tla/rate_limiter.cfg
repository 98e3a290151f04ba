SPECIFICATION Spec
CONSTANTS
  chat = chat
  approvals = approvals
  None = None
  Replica = {r1, r2}
  Key = {chat, approvals}
  Unexpiring = {approvals}
  Limit <- MCLimit
  Window = 2
  Cooldown = 2
  Timeout = 1
  Second = 2
  MaxRequests = 3
  MaxFaults = 2
  MaxTime = 6
INVARIANT TypeOK
PROPERTY LimitsAreKept
SYMMETRY Symmetry
CHECK_DEADLOCK FALSE
