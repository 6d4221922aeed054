\* Callers make one call at a time; the conversation behaves as Transcript says.
SPECIFICATION SerialSpec
CONSTANTS
  Sends = {s1, s2}
  NoSend = NoSend
  MaxRounds = 2
  MaxCalls = 1
  CompactAt = 4
  KeepRecent = 2
  MaxSeed = 2
  MaxSessions = 2
  SeedBound = 4
  LatePanics = FALSE
INVARIANT SessionIntact
PROPERTY KeepsContract
