SPECIFICATION Spec
CONSTANTS
  Findings = {1, 2, 3, 4}
  Kind <- KindOf
  LogLines = 1
  ArchiveAfter = 2
  Cap = 2
  LastDay = 2
  MaxTurns = 2
  MaxFaults = 1
  None = None
INVARIANT
  TableAccepted
CHECK_DEADLOCK FALSE
