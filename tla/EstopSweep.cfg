\* Two operators against a send, a start and the other session calls.
SPECIFICATION Spec
CONSTANTS
  Sends = {s1}
  NoSend = NoSend
  MaxRounds = 1
  MaxCalls = 1
  CompactAt = 2
  KeepRecent = 1
  MaxSeed = 1
  MaxSessions = 1
  SeedBound = 2
  LatePanics = FALSE
  Operators = {o1, o2}
  MaxCommands = 2
  MaxStarts = 1
  MaxDeaths = 0
  Polling = FALSE
SYMMETRY Symmetry
INVARIANT OnlyLateSendsEscape
