SPECIFICATION Spec
CONSTANTS
  Backends = {"sqlite", "dexie"}
  c1 = c1
  c2 = c2
  Callers = {c1, c2}
  Keys = {"k"}
  Chains = {"n"}
  Prices = {1, 2}
  MaxHeight = 2
  MaxCalls = 5
  MaxPaths = 2
SYMMETRY CallerSymmetry
INVARIANTS TypeOK SqliteFeesLatest
PROPERTY ImplementsPathStore
CHECK_DEADLOCK FALSE
