SPECIFICATION FairSpec
CHECK_DEADLOCK FALSE
CONSTANTS
  Hosts = {h1}
  Operators = {o1}
  Operations = {"approve", "reject", "reopen", "requeue", "revoke", "reintegrate"}
  MaxOperations = 3
  MaxFaults = 0
PROPERTIES
  RevokedReturnsPending
