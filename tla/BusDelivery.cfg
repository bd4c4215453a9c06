SPECIFICATION FairSpec
CONSTANTS
  Procs = {p1, p2}
  NumMsgs = 2
  Limit = 1
  Unhandled = {}
  MaxFailed = 2
  Env <- Recoverable
INVARIANTS NothingLost
PROPERTIES EventuallyHandled OutboxSettles
