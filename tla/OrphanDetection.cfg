\* Two workers and one task that may be redelivered, up to two events.
SPECIFICATION OrphanSpec
CONSTANTS
  t1 = t1
  h1 = h1
  h2 = h2
  None = None
  Tasks = {t1}
  Hosts = {h1, h2}
  Workers = {h1}
  Payloads = {}
  Names = {}
  Arrivals <- MCArrivals
  Times <- MCTimes
  Dialect = "sqlite"
  MaxId = 2
INVARIANTS OrphanTypeOK OrphanRowsArePrefix ToldIsStored OrphansAreAnnounced OfflineIsAccountedFor
PROPERTY DeadWorkersTasksAreOrphaned
