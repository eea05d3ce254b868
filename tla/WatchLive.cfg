SPECIFICATION FairSpec
CONSTANTS
  None = None
  crash = crash
  limit = limit
  login = login
  flap = flap
  old = old
  Blank = blank
  Jobs = {tea}
  Filers = {tea}
  Failures = {limit, flap, login}
  ClassOf <- Classes
  KickCap = 1
  MaxPerDay = 1
  ByHand = FALSE
  SlotTicks = 3
  LastTick = 2
  MaxLost = 1
PROPERTIES
  WorkingSpared
  HoldsEnd
  DeadNoticed
CHECK_DEADLOCK FALSE
