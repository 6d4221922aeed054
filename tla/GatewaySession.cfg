\* Two sockets and a post on one session, aborts, a DELETE, crashes and failed
\* calls of the store at any point.
SPECIFICATION Spec
CONSTANTS
  Posts = {p1}
  Sockets = {c1, c2}
  MaxTurns = 2
  FailsFrom = 2
  MaxSpoiled = 1
SYMMETRY Symmetry
INVARIANTS TypeOK WholeExchange TokenFollowsTurn StateAgrees
