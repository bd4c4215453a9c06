SPECIFICATION Spec
CONSTANTS
  Agents = {a1, a2}
  Confirmations = 2
  RestartBudget = 2
  Configs <- FourConfigs
  MaxEvents = 3
  MaxFaults = 1
INVARIANTS TypeOK RestartsCounted ActsOnEvidence
PROPERTIES ToldInTheEnd EndAnnounced
