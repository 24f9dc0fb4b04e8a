SPECIFICATION FairSpec
CONSTANTS
  Schedules = {s1}
  Machines = {m1}
  Patches = {p1}
  Windows = {}
  Procs = {a1}
  MachineStates = {"absent"}
  Verdicts = {"approved", "rejected"}
  Passes = {e1}
  Workers = {}
  MaxRetries = 2
  MaxDay = 1
  MaxFaults = 0
  Scope <- MCScope
  Target <- MCTarget
  Host <- MCHost
INVARIANTS
  TypeOK
  RetryBound
  NoDuplicateWork
PROPERTIES
  PendingIsTaken
  ResultIsLogged
