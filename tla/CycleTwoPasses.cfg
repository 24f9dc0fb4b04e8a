SPECIFICATION Spec
CONSTANTS
  Schedules = {s1}
  Machines = {m1}
  Patches = {p1}
  Windows = {}
  Procs = {a1}
  MachineStates = {"online"}
  Verdicts = {"approved", "rejected"}
  Passes = {e1, e2}
  Workers = {w1}
  MaxRetries = 3
  MaxDay = 0
  MaxFaults = 0
  Scope <- MCScope
  Target <- MCTarget
  Host <- MCHost
INVARIANTS
  NoDuplicateWork
