SPECIFICATION MonitorSpec
CONSTANTS
  Tasks = {t1, t2}
  BaseDelay = 1
  MaxDelay = 3
  MaxRetries = 1
INVARIANTS GaugesNeverOver
PROPERTIES Reconnects
CHECK_DEADLOCK FALSE
