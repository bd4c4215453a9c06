\* Two processes take two targets to review and back, in up to five commands,
\* with one fault.
SPECIFICATION Spec
CONSTANTS
  Procs = {p1, p2}
  NumTargets = 2
  Selections = {{1, 2}}
  PerTarget = 1
  MaxItems = 1
  Checks <- AllChecks
  RequireAll = TRUE
  Forbidden = {3}
  NewDirectory <- NewDirectories
  MaxEdits = 3
  MaxOps = 5
  MaxFaults = 1
SYMMETRY Symmetry
INVARIANTS LockMatches RowNamesTip UnrecordedIsLocked EditsAreSomewhere ForbiddenStaysOut AddressedAfterCommit
PROPERTY FeedbackForward
CHECK_DEADLOCK FALSE
