SPECIFICATION Spec
CONSTANTS
  TaskIds = {t1, t2}
  Seats = {s1}
  Lead = lead
  None = none
  Classes = {plain}
  Mechanical = {}
  Gates = {"none"}
  Paths = {p1}
  Pools = {}
  WaitReasons = {w1}
  Trees = {}
  Commands = {}
  PRs = {pr1, pr2}
  Heads = {h1, h2}
  MergeCommits = {m1, m2}
  Nonces = {}
  LeaseLen = 1
  RenewEvery = 1
  MarkerTTL = 1
  Lag = 0
  MaxTime = 0
  MaxAttempts = 2
  MaxDeps = 1
SYMMETRY Symmetry
INVARIANTS
  BindingsSound
PROPERTIES
  DependenciesFirst
CHECK_DEADLOCK FALSE
