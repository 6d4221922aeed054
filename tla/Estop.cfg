\* Two operators, the polling loop, restarts and a death of the process.
SPECIFICATION FairSpec
CONSTANTS
  Sends = {}
  NoSend = NoSend
  MaxRounds = 1
  MaxCalls = 1
  CompactAt = 2
  KeepRecent = 1
  MaxSeed = 0
  MaxSessions = 0
  SeedBound = 0
  LatePanics = FALSE
  Operators = {o1, o2}
  MaxCommands = 3
  MaxStarts = 2
  MaxDeaths = 1
  Polling = TRUE
INVARIANTS TypeOK AcknowledgedStopHolds
PROPERTY UiCatchesUp
