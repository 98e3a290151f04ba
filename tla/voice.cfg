SPECIFICATION FairSpec
CONSTANTS
  None = None
  Turn = {t1, t2}
  Interrupts = TRUE
  Replays = TRUE
  MaxSentences = 2
  PagePoses = {"THINKING", "SUCCESS"}
INVARIANTS TypeOK ShownAsItIs
PROPERTIES SilentAfterStop EveryTurnEnds
CHECK_DEADLOCK FALSE
