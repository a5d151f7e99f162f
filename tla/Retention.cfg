SPECIFICATION RetentionSpec
CONSTANTS
  Tasks = {t1, t2}
  Actions = {a1}
  None = None
  Values = {0}
  Default = 2
  MaxDays = 2
  Slots = {1}
  Window = 2
  MaxTime = 2
  MaxRows = 3
INVARIANTS TasksGoWhole RunsOncePerSlot
PROPERTIES HistoryIsKept
SYMMETRY Sym
CHECK_DEADLOCK FALSE
