SPECIFICATION Spec
CONSTANTS
  Writers = {w1}
  Peekers = {p1}
  None = none
  Faults = {}
  MaxWrites = 2
  MaxFaults = 0
INVARIANTS
  PeekAccepted
CHECK_DEADLOCK FALSE
