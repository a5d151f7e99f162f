\* Two threads, two workflows of one trigger, one breaker key, one change of a workflow.
SPECIFICATION EngineSpec
CONSTANTS
  th1 = th1
  th2 = th2
  root = root
  None = None
  Workflows <- MCWorkflows
  Evals = {th1, th2}
  Events <- MCEvents
  Settings <- MCSettings
  Fields <- MCFields
  Keys = {root}
  Dialect = "postgresql"
  Hour = 0
  MaxTime = 1
  MaxExecs = 3
  MaxEdits = 1
SYMMETRY ThreadSymmetry
INVARIANTS EngineTypeOK RateLimitExceededByThreadsOnly BreakerExceededByThreadsOnly RunningIsOwned StatisticsNeverOvercount
