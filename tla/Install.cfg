SPECIFICATION FairSpec
CONSTANTS
  Slots = {google}
  google = google
  microsoft = microsoft
  Hinted = TRUE
  Losable = {"vault", "accounts"}
  Legacy = TRUE
  MaxFaults = 1
  MaxNudges = 1
  None = None
PROPERTIES
  StampIsTrue
  InstallEnds
CHECK_DEADLOCK FALSE
