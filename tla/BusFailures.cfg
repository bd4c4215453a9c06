SPECIFICATION Spec
CONSTANTS
  Procs = {p1, p2}
  NumMsgs = 3
  Limit = 2
  Unhandled = {2}
  MaxFailed = 3
  Env <- BusEvents
SYMMETRY ProcSymmetry
INVARIANTS SentIsSafe HandledOnce
