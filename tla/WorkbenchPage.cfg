\* A thread from a briefing and a deck, the routes the shipped pages call and
\* the one that stages a ticket, one death of a process, one failed write, under
\* fairness.
SPECIFICATION FairSpec
CONSTANTS
  a1 = a1
  a2 = a2
  b1 = b1
  d1 = d1
  w1 = w1
  w2 = w2
  p1 = p1
  p2 = p2
  Tickets <- ThreadAndDeck
  Briefing <- OneThread
  Advisor <- NoTickets
  Email <- OneThread
  Plans <- OnePlan
  NoPlan = NoPlan
  Threads <- TwoThreadsOfTheServer
  Terminal = Terminal
  Watcher = Watcher
  NoTicket = NoTicket
  Routes <- DeckRoutes
  PerTick = 3
  Replies = 0
  MaxCrashes = 1
  MaxFaults = 1
  MaxLapses = 1
PROPERTIES
  IntentKept
  NoIsFinal
  WorkSettles
