\* One process, one target: an answer to a comment that never reaches GitHub.
SPECIFICATION Spec
CONSTANTS
  Procs = {p1}
  NumTargets = 1
  Selections = {{1}}
  PerTarget = 1
  MaxItems = 1
  Checks <- AllChecks
  RequireAll = TRUE
  Forbidden = {}
  NewDirectory <- NoDirectories
  MaxEdits = 2
  MaxOps = 5
  MaxFaults = 0
INVARIANT AddressedDelivered
CHECK_DEADLOCK FALSE
