\* One suggestion, also marked and restored, under the fairness of the watcher,
\* one death of a process, one failed write, one late raise.
SPECIFICATION FairSpec
CONSTANTS
  a1 = a1
  a2 = a2
  b1 = b1
  d1 = d1
  w1 = w1
  w2 = w2
  p1 = p1
  p2 = p2
  Tickets <- OneTicket
  Briefing <- NoTickets
  Advisor <- OneTicket
  Email <- NoTickets
  Plans <- OnePlan
  NoPlan = NoPlan
  Threads <- OneThreadOfTheServer
  Terminal = Terminal
  Watcher = Watcher
  NoTicket = NoTicket
  Routes <- MarkRoutes
  PerTick = 3
  Replies = 1
  MaxCrashes = 1
  MaxFaults = 1
  MaxLapses = 1
PROPERTIES
  YesIsTakenUp
  CommentReturns
