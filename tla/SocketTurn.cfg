\* Two rounds of up to two tools; channels that fill up.
SPECIFICATION FairSpec
CONSTANTS
  EventCap = 2
  ApprovalCap = 1
  MaxRounds = 2
  MaxTools = 2
CHECK_DEADLOCK FALSE
INVARIANTS TypeOK AnswersKept
PROPERTIES KeepsRecord AbortFreesPrompt AbortedTurnEnds
