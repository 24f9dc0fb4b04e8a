SPECIFICATION FairSpec
CHECK_DEADLOCK FALSE
CONSTANTS
  Hosts = {h1, h2}
  Operators = {o1}
  Operations = {"approve", "reject", "reopen", "requeue", "revoke", "reintegrate"}
  MaxOperations = 3
  MaxFaults = 1
INVARIANTS
  TypeOK
  HandedKeyWorks
PROPERTIES
  ApprovalConnects
  HostsSettle
