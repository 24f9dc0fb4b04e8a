SPECIFICATION Spec
CONSTANTS
  Operators = {o1, o2}
  Agent = agent
  Bodies <- MCBodies
  Machines <- MCMachines
  FirstRows <- MCFirstRows
  EventLimit = 2
  MaxOperations = 2
  MaxJobs = 1
SYMMETRY Symmetry
CHECK_DEADLOCK FALSE
INVARIANTS
  TypeOK
  GuardrailsExclusive
  SwitchTraced
  HostObeys
  RebootAuthorised
