SPECIFICATION Spec
CONSTANTS
  Seats = {s1}
  Tasks = {t1}
  None = none
  MaxAttempts = 2
  MaxDeferrals = 1
  MaxEach = 0
  MaxTroubles = 0
PROPERTIES
  ResultOfOwnAttempt
