\* Two sends, panics and cancels at any point, every other call in between.
SPECIFICATION LocalFairSpec
CONSTANTS
  Sends = {s1, s2}
  NoSend = NoSend
  MaxRounds = 1
  MaxCalls = 1
  CompactAt = 2
  KeepRecent = 1
  MaxSeed = 0
  MaxSessions = 1
  SeedBound = 1
  LatePanics = TRUE
PROPERTIES CancelledSendLeavesLoop EverySendReturns
