SPECIFICATION Spec
CONSTANTS
  Procs = {p1, p2}
  NumTickets = 1
  NumNames = 1
  SeedDocs = FALSE
  Bootstrap = FALSE
  CustomPattern = FALSE
  StepRetries = 0
  Ops = {"run", "stop"}
  MaxOps = 2
  Env = {}
PROPERTIES LegalTransitions
CHECK_DEADLOCK FALSE
