SPECIFICATION Spec
CONSTANTS
  MaxCalls = 3
  MaxPending = 2
  MaxAbandoned = 1
  Faulty = {"catch"}
  Project = {k1, k2}
  None = None
SYMMETRY Symmetric
INVARIANTS
  OnlyTheLatest
  NoStaleSingleton
  OwnModules
CHECK_DEADLOCK FALSE
