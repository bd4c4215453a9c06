\* Two processes handle the messages of up to three commands on one thread.
SPECIFICATION FairSpec
CONSTANTS
  Procs = {p1, p2}
  Threads = {"ctl"}
  ControlThreads = {"ctl"}
  TicketOf <- OneTicket
  States = {"new", "answered", "closed"}
  Priorities = {"normal"}
  Assignees = {"alice"}
  Actors = {"agent"}
  NumIds = 3
  Scripts <- Scripts3
  MaxFaults = 1
INVARIANTS TypeOK ViewsFollow QueueOwed StatsSettled
PROPERTIES ImplementsLog Settles
