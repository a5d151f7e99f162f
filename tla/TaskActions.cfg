SPECIFICATION ActionSpec
CONSTANTS
  Tasks = {1, 2, 3}
  Originals = {1}
  Requests = {r1, r2}
  None = None
  Plain = {"p"}
  Calls = {"secret", "long", "odd"}
  Menus = {{"rerun"}, {"resolve", "unresolve"}}
  MaxVersion = 2
  MaxSelection = 2
  SerialWriters = TRUE
INVARIANTS ActionsTypeOK PublishedIsAccountedFor ReplayRepeatsOriginal CommittedActionsAreWhole MarksAreBacked
PROPERTY ResolutionsTakeEffect
CHECK_DEADLOCK FALSE
SYMMETRY Sym
