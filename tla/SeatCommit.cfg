SPECIFICATION Spec
CONSTANTS
  t1 = t1
  t2 = t2
  f = f
  g = g
  Tasks = {t1, t2}
  Paths = {f, g}
  Upstream = {g}
  New = {f}
  Declared <- MCDeclared
  MaxAttempts <- MCMaxAttempts
  Asking = {t2}
  Late <- MCLate
  MaxPRs = 1
  MaxFaults = 1
  MaxEdits = 2
  Strangers = {t2}
  Runners = {r1}
  None = none
INVARIANTS
  HeadKnown
  OwnWorkOnly
  CommitsSound
  BoundIsPushed
PROPERTIES
  KeptWork
CHECK_DEADLOCK FALSE
