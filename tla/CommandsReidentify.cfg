SYMMETRY HostSymmetry
SPECIFICATION Spec
CONSTANTS
  Hosts = {h1, h2}
  Operators = {o1, o2}
  Passes = {}
  Requests = {"force_reidentify"}
  JobStates = {}
  Policy = "never"
  MaxPeriod = 1
  MaxCommands = 2
  MaxFaults = 1
INVARIANTS
  TypeOK
  ReservedOnce
  OneActiveReidentify
PROPERTIES
  LedgerSpec
