\* The store on SQLite: two tasks, ids up to three, a clock of two readings.
SPECIFICATION Spec
CONSTANTS
  t1 = t1
  t2 = t2
  h1 = h1
  h2 = h2
  p1 = p1
  q1 = q1
  None = None
  Tasks = {t1, t2}
  Hosts = {h1, h2}
  Payloads = {p1}
  Names = {q1}
  Arrivals <- MCArrivals
  Times <- MCTimes
  Dialect = "sqlite"
  MaxId = 3
SYMMETRY TaskSymmetry
INVARIANTS TypeOK SnapshotMirrorsNewest PayloadKept RoutingKept ResolvedIsBacked
PROPERTIES ImplementsLatestView 
