SPECIFICATION FairSpec
CONSTANTS
  Procs = {p1}
  NumTickets = 1
  NumNames = 2
  SeedDocs = FALSE
  Bootstrap = TRUE
  CustomPattern = FALSE
  StepRetries = 0
  Ops = {"run", "guide", "close", "stop", "status"}
  MaxOps = 2
  Env = {"post", "fail"}
INVARIANT BootstrapAllSignalled
PROPERTY GuidanceResolves
