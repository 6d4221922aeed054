\* A client that leaves while the event channel is full.
SPECIFICATION FairSpec
CONSTANTS
  EventCap = 2
  ApprovalCap = 1
  MaxRounds = 1
  MaxTools = 2
CHECK_DEADLOCK FALSE
PROPERTY LeftTurnEnds
