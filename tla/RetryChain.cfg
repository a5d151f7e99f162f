SPECIFICATION RetrySpec
CONSTANTS
  Tasks = {1, 2, 3, 4}
  Originals = {1}
  Handlers = {h1, h2}
  None = None
  MaxRetries = 1
  MaxEvents = 2
INVARIANTS RetriedIsKnown SentIsRecorded
CHECK_DEADLOCK FALSE
SYMMETRY Sym
