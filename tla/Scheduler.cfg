SPECIFICATION Spec
CONSTANTS
  Seats = {s1}
  Tasks = {t1}
  None = none
  MaxAttempts = 2
  MaxDeferrals = 2
  MaxEach = 1
  MaxTroubles = 2
INVARIANTS
  StepHasEntry
PROPERTIES
  NoLeaseBeforeCheck
  EveryReportDecided
  EveryAttemptChecked
