SPECIFICATION FairSpec
CONSTANTS
  None = None
  Hosts = {h1, h2, h3}
  Silent = {h3}
  Operators = {o1, o2}
  MaxOperations = 4
  MaxWindows = 3
INVARIANTS
  TypeOK
  FlagIsResolvable
PROPERTIES
  ReviewStands
  ClonesAreFlagged
