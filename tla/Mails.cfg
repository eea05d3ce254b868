\* The Saturday brief in its runs, by the schedule and by hand; the scan of the
\* mailboxes and the page of the daily briefings; the Note; the preps.
SPECIFICATION MCSpec
CONSTANTS
  Runs = {scheduled, hand}
  Forced = {hand}
  Nothing = Nothing
  WeekDays = 2
  DayTicks = 1
  CooldownDays = 2
  LastWeek = 1
  Overlap = FALSE
  MaxLost = 1
  MaxFaults = 1
  Parts = {"finance", "page", "scan", "note", "prep"}
  Pool <- ItemPool
  MinOpen = 4
  MaxOpen = 5
  Businesses <- TwoBusinesses
  Functions <- ThreeFunctions
  FunctionWords <- TwoFunctionWords
  WordLength <- Lengths
  Cap = 3
  StaleDays = 30
  Unassigned = "unassigned"
  Kinds <- ThreadKinds
  Count = 2
  Lines <- FileLines
  Modes = {"full", "feed", "save", "reuse", "tier2"}
  Window = 21
  ScanWindow = 60
  InboxWindow = 7
  MaxRuns = 2
  MaxScanFaults = 1
  None = None
  MaxMoves = 1
  MaxTroubles = 1
  Mails = {m1, m2}
  Passes = {m2}
  Slack = 1
  Lookback = 2
  Lag = 1
  NoteCap = 1
  NoteDay = 3
  NoteZone = 1
  NoteKept = 3
  NoteEnd = 4
  NotePlanned <- Daily
  Meetings = {"m1", "m2", "m3"}
  title <- Titles
  Within <- Holding
  Planned <- Starts
  Outside = {"m1", "m2", "m3"}
  Lead = 2
  RenderTime = 2
  DailyAt = 1
  PrepModes = {"each", "daily"}
  PrepDay = 3
  PrepKept = 5
  PrepEnd = 4
INVARIANTS
  OneCopy
  SpentForCause
  PageIsProof
  BestFirst
  Accounted
  Noticed
  OnceNoted
  PrepOnce
CHECK_DEADLOCK FALSE
