SPECIFICATION Spec
CONSTANTS
  Tasks = {1, 2}
  Writers = {w1, w2}
  Readers = {r1}
  None = none
  Ordered = TRUE
  Faults = {"kill", "power", "io"}
  Retries = 2
  MaxTxns = 2
  MaxFaults = 2
SYMMETRY Symmetry
INVARIANTS
  TransactionsWhole
  ToldSurvives
PROPERTIES
  ImplementsAtomicStore
