SPECIFICATION FairSpec
CONSTANTS
  None = None
  Caller = {c1, c2}
  Commands <- MCCommands
  Live <- MCLive
  Paths = {"plan.md"}
  MaxAttempts = 2
  MaxFaults = 1
INVARIANTS TypeOK UnapprovedNeverRuns ReportsAreTrue
PROPERTIES EveryDispatchIsAnswered
CHECK_DEADLOCK FALSE
