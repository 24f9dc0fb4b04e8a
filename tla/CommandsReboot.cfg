SPECIFICATION FairSpec
CONSTANTS
  Hosts = {h1}
  Operators = {}
  Passes = {e1}
  Requests = {"reboot_now"}
  JobStates = {"reboot-required"}
  Policy = "if-needed"
  MaxPeriod = 2
  MaxCommands = 2
  MaxFaults = 1
INVARIANTS
  RebootOncePerPeriod
PROPERTIES
  VerdictStands
  LedgerSpec
  PendingIsClaimed
