SPECIFICATION RetrySpec
CONSTANTS
  Tasks = {1, 2, 3, 4}
  Originals = {1}
  Handlers = {h1, h2}
  None = None
  MaxRetries = 2
  MaxEvents = 2
INVARIANT ChainListsEveryRetry
CHECK_DEADLOCK FALSE
SYMMETRY Sym
