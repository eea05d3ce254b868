\* Two suggestions, the routes the shipped pages call, one death of a process, one
\* write of the ledger that fails, work that raises once after it had begun.
SPECIFICATION Spec
CONSTANTS
  a1 = a1
  a2 = a2
  b1 = b1
  d1 = d1
  w1 = w1
  w2 = w2
  p1 = p1
  p2 = p2
  Tickets <- TwoSuggestions
  Briefing <- NoTickets
  Advisor <- TwoSuggestions
  Email <- NoTickets
  Plans <- OnePlan
  NoPlan = NoPlan
  Threads <- OneThreadOfTheServer
  Terminal = Terminal
  Watcher = Watcher
  NoTicket = NoTicket
  Routes <- PageRoutes
  PerTick = 3
  Replies = 1
  MaxCrashes = 1
  MaxFaults = 1
  MaxLapses = 1
SYMMETRY Interchangeable
INVARIANTS
  OneHand
  DoneOnce
PROPERTY
  KeepsConsent
