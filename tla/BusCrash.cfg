SPECIFICATION Spec
CONSTANTS
  Procs = {p1}
  NumMsgs = 1
  Limit = 1
  Unhandled = {}
  MaxFailed = 1
  Env = {"crash"}
INVARIANTS NothingLost
