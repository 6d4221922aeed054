\* Two posts and two sockets at a queue of two.
SPECIFICATION FairSpec
CONSTANTS
  Posts = {p1, p2}
  Sockets = {c1, c2}
  MaxDepth = 2
INVARIANTS TypeOK PendingExact DepthBound
PROPERTIES EveryWaitEnds KeepsLock
