\* Three starts, two stops and a borrower of the runtime, in any order.
SPECIFICATION FairSpec
CONSTANTS
  Starters = {a1, a2, a3}
  Stoppers = {z1, z2}
  Users = {u1}
  None = None
CHECK_DEADLOCK FALSE
INVARIANTS TypeOK NoOrphanTasks NoLeakedRuntime StopFindsRuntime HealthAgrees
PROPERTY EveryCallReturns
