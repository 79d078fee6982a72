SPECIFICATION Spec
CONSTANTS
  TaskIds = {t1}
  Seats = {s1, s2}
  Lead = lead
  None = none
  Classes = {gated}
  Mechanical = {gated}
  Gates = {"configured", "unconfigured", "unreadable"}
  Paths = {p1}
  Pools = {q1}
  WaitReasons = {}
  Trees = {tree1,tree2}
  Commands = {cmd1}
  PRs = {}
  Heads = {}
  MergeCommits = {}
  Nonces = {n1}
  LeaseLen = 2
  RenewEvery = 1
  MarkerTTL = 1
  Lag = 1
  MaxTime = 2
  MaxAttempts = 2
  MaxDeps = 0
SYMMETRY Symmetry
INVARIANTS
  UncleanSeatIdle
  VerdictsSound
PROPERTIES
  LeasesHonoured
  GateHolds
CHECK_DEADLOCK FALSE
