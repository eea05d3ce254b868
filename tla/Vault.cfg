\* What keeps the vault: filing of meetings with its pool, the check-off, the
\* audit; and the notices of the plugin's update and of travel.
SPECIFICATION MCSpec
CONSTANTS
  m1 = m1
  m2 = m2
  m3 = m3
  Meetings <- Three
  Titled <- TitlesOf
  Mine <- MineOf
  ActionItems = {1, 2}
  Broken = {m2}
  Recent = 1
  PerRun = 1
  ReadAttempts = 2
  MaxTouches = 1
  MaxFaults = 1
  N = 3
  Workers = {1, 2, 3}
  Attempts = 2
  Chats = {c1}
  Unattended = {u1}
  Latest = 2
  Soon = 2
  Window = 2
  TravelKept = 1
  Cap = 1
  Overlap = FALSE
  LastDay = 2
  MaxMoves = 1
  None = None
  Flights = {"f1", "f2"}
  Away = {"town"}
  Planned <- Trips
  Full = {"f2"}
  Booked = {}
  Confirmed = {"f1"}
  Serves <- Brings
  Briefings = {"morning", "tea"}
  View <- Views
  Lead <- Leads
  Todos = {a, b}
  Twins <- Alike
  Owed <- ByWhom
  Kind <- KindOf
  Gathered <- Samples
  Fills <- Given
  a = a
  b = b
  Paged = {a}
  Dated = {b}
  Classes = {"inbound_mail"}
  ExpireDays = 1
  RejudgeDays = 1
  BatchSize = 1
  UndoBatches = 1
  Briefs = TRUE
  DoneEnd = 1
  MaxEdits = 1
  Findings = {1, 2, 3, 4}
  LogLines = 1
  ArchiveAfter = 2
  TableCap = 2
  MaxTurns = 2
INVARIANTS
  OneSet
  DeepReadKept
  DeferredForCap
  Told
  PutBackStays
  FixedWasGone
  ScoreBracket
PROPERTIES
  
  HistoryEnds
CHECK_DEADLOCK FALSE
