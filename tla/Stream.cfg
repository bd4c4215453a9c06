SPECIFICATION Spec
CONSTANTS
  Viewers = {"tab", "cli"}
  Pumps = {worker, request}
  NumEvents = 2
  OfTicket <- AllEvents
  OfRun <- SomeRun
  BufferSize = 1
  Limit = 1
  MaxConns = 2
  MaxFaults = 1
INVARIANTS TypeOK InOrder CursorAccountsFor
PROPERTIES Settles
CHECK_DEADLOCK FALSE
