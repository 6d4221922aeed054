\* Two start jobs, a stop, a setup, a death and two commands.
SPECIFICATION FairSpec
CONSTANTS
  Starts = {s1, s2}
  Stops = {t1}
  Setups = {u1}
  NoJob = NoJob
  MaxAttempts = 1
  MaxCommands = 2
  MaxDeaths = 1
INVARIANTS TypeOK NoDeafDaemon StopHolds
PROPERTY SettlesOnTruth
