SPECIFICATION Spec
CONSTANTS
  TaskIds = {t1, t2}
  Seats = {s1, s2}
  Lead = lead
  None = none
  Classes = {plain}
  Mechanical = {}
  Gates = {"none"}
  Paths = {p1, p2}
  Pools = {}
  WaitReasons = {}
  Trees = {}
  Commands = {}
  PRs = {}
  Heads = {}
  MergeCommits = {}
  Nonces = {}
  LeaseLen = 1
  RenewEvery = 1
  MarkerTTL = 1
  Lag = 0
  MaxTime = 0
  MaxAttempts = 3
  MaxDeps = 0
SYMMETRY Symmetry
INVARIANTS
  TypeOK
  OneHoldPerSeat
  FileLockExclusion
  LifecycleConsistent
  AttemptsSound
PROPERTIES
  HistoryIsFinal
  ImplementsBoard
CHECK_DEADLOCK FALSE
