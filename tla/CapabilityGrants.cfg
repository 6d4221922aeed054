\* Two scripts, two grants and a death of the process.
SPECIFICATION Spec
CONSTANTS
  Scripts = {s1, s2}
  Grants = {g1, g2}
  MaxRequests = 2
  MaxDeaths = 1
  Torn = Torn
SYMMETRY Symmetry
INVARIANTS TypeOK GrantsSurvive
PROPERTY KeepsBook
