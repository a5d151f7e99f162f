\* SQLite: a workflow with a cooldown runs once and never again.
SPECIFICATION EngineSpec
CONSTANTS
  th1 = th1
  th2 = th2
  root = root
  None = None
  Workflows <- MCWorkflows
  Evals = {th1, th2}
  Events <- MCEvents
  Settings <- MCSettings
  Fields <- MCFields
  Keys = {root}
  Dialect = "sqlite"
  Hour = 0
  MaxTime = 1
  MaxExecs = 3
  MaxEdits = 1
PROPERTY CooldownEnds
