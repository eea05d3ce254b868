SPECIFICATION Spec
CONSTANTS
  None = None
  crash = crash
  limit = limit
  login = login
  flap = flap
  old = old
  Blank = blank
  Jobs = {tea}
  Filers = {tea}
  Failures = {crash}
  ClassOf <- Classes
  KickCap = 2
  MaxPerDay = 1
  ByHand = TRUE
  SlotTicks = 1
  LastTick = 1
  MaxLost = 1
INVARIANTS
  BudgetHolds
  LooksBounded
CHECK_DEADLOCK FALSE
