SPECIFICATION FairSpec
CONSTANTS
  Procs = {p1}
  NumTickets = 1
  NumNames = 1
  SeedDocs = TRUE
  Bootstrap = FALSE
  CustomPattern = FALSE
  StepRetries = 1
  Ops <- AllStandardOps
  MaxOps = 4
  Env = {"shell", "tmux", "exit", "fail", "edit", "quiet"}
INVARIANTS CompletedMeansExecuted
PROPERTIES CommandsReturn ClosingEnds CloseSucceeds
