SPECIFICATION LockSpec
CONSTANTS
  Procs = {p1, p2, p3}
  p1 = p1
  p2 = p2
  p3 = p3
  NoFile = NoFile
  Stale = 2
  Wait = 1
  GoesAhead = TRUE
  MaxHold = 2
  Removable = TRUE
  MaxDeaths = 1
  Feeds = {"feed"}
  Scheduled = {"coffee"}
  ByHand = {"terminal"}
  JobOf <- JobOfRun
  Needs <- Dependencies
  BriefDays = {0}
  RUNS_CAP_ROWS = 2
  RENDER_ATTEMPTS = 2
  KickCap = 2
  MaxTrouble = 1
  None = None
INVARIANTS
  Exclusive
  MailedForCause
PROPERTIES
  WaitEnds
  RunEnds
CHECK_DEADLOCK FALSE
