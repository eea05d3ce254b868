\* One deck that is planned twice, the routes the shipped pages call, nobody dies.
SPECIFICATION Spec
CONSTANTS
  a1 = a1
  a2 = a2
  b1 = b1
  d1 = d1
  w1 = w1
  w2 = w2
  p1 = p1
  p2 = p2
  Tickets <- OneDeck
  Briefing <- NoTickets
  Advisor <- NoTickets
  Email <- NoTickets
  Plans <- TwoPlans
  NoPlan = NoPlan
  Threads <- TwoThreadsOfTheServer
  Terminal = Terminal
  Watcher = Watcher
  NoTicket = NoTicket
  Routes <- PageRoutes
  PerTick = 3
  Replies = 0
  MaxCrashes = 0
  MaxFaults = 0
  MaxLapses = 0
INVARIANTS
  BuildsTheApproved
