SPECIFICATION Spec
CONSTANTS
  Schedules = {s1}
  Machines = {m1}
  Patches = {p1}
  Windows = {m1}
  Procs = {a1}
  MachineStates = {"online"}
  Verdicts = {"approved"}
  Passes = {e1}
  Workers = {w1}
  MaxRetries = 1
  MaxDay = 0
  MaxFaults = 1
  Scope <- MCScope
  Target <- MCTarget
  Host <- MCHost
INVARIANTS
  BoundInv
  OneBackendJob
  LogAgrees
PROPERTIES
  TerminalIsFinal
