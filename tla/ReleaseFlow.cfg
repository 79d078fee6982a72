SPECIFICATION Spec
CONSTANTS
    None = None
    Torn = Torn
    Preparers = {p1, p2}
    MaxClaims = 2
    MaxKills = 2
    MaxReleases = 2
    MaxTouches = 1
INVARIANTS
  RecordLeads
  ActiveIsComplete
  RecordsMatchForge
PROPERTIES
  NothingTakenBack
  PublishedAsApproved
CHECK_DEADLOCK FALSE
