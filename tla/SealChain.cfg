SPECIFICATION Spec
CONSTANTS
  Writers = {w1, w2}
  Peekers = {p1}
  None = none
  Faults = {"kill", "io"}
  MaxWrites = 4
  MaxFaults = 3
INVARIANTS
  HonestFileAccepted
  FileFollowsHead
PROPERTIES
  HeadNeverForks
CHECK_DEADLOCK FALSE
