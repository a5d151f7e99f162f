SPECIFICATION PipelineSpec
CONSTANTS
  Tasks = {a, b, c}
  None = None
  Workloads = {a, b}
  Reporters = {c}
  CacheSize = 1
  MaxEvents = 3
  MaxStamp = 2
SYMMETRY Sym
INVARIANTS NamesAgree CountedBetween ProgressIsNewest
CHECK_DEADLOCK FALSE
