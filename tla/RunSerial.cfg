SPECIFICATION Spec
CONSTANTS
  Procs = {p1}
  NumTickets = 2
  NumNames = 1
  SeedDocs = FALSE
  Bootstrap = FALSE
  CustomPattern = FALSE
  StepRetries = 0
  Ops <- StandardOps
  MaxOps = 3
  Env <- SerialFaults
INVARIANTS TypeOK StoppedQuiesced ClosedMeansMerged MergesClean
PROPERTIES LegalTransitions StepsFollowHSM
