SPECIFICATION SessionsSpec
CONSTANTS
  Users = {u1}
  Sessions = {s}
  None = None
  Keys = {k}
  Slots = {q1, q2}
  AccessLife = 1
  RefreshLife = 2
  MaxClock = 2
SYMMETRY Sym
INVARIANTS TokensOfOneAnswer SignedOutStaysOut
CHECK_DEADLOCK FALSE
