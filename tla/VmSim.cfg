SPECIFICATION MCSpec
CONSTANTS
  NFrames = 2
  Pages = {1, 2, 3}
  None = None
  Inputs <- MCInputs
  MaxTrace = 6
  MaxAgingTrace = 4
  Cycles = {0, 1, 3}
  RefreshRate = 2
INVARIANTS
  PTTypeOK
  TableInverse
  StatsConsistent
  FifoOrder
  DirtyExact
  OptIsOptimal
PROPERTIES
  AgingEvictsLeast
CHECK_DEADLOCK FALSE
