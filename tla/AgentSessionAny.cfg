\* Two concurrent sends and any other calls: shape of the committed history.
SPECIFICATION Spec
CONSTANTS
  Sends = {s1, s2}
  NoSend = NoSend
  MaxRounds = 2
  MaxCalls = 2
  CompactAt = 3
  KeepRecent = 2
  MaxSeed = 1
  MaxSessions = 1
  SeedBound = 1
  LatePanics = TRUE
SYMMETRY Symmetry
INVARIANTS TypeOK OnlyCommittedTurns WholeTurns ResultsPaired TokenHasOwner
