SPECIFICATION Spec
CONSTANTS
  a = a
  b = b
  c = c
  d = d
  None = None
  Sells = {a, b}
  Buys = {c}
  Qty = 1
  Windows = {"open", "none"}
  MaxFaults = 2
INVARIANTS
  Claimable
  NoOverlap
PROPERTIES
  BuysFollowSells
  StopsAfterFailure
CHECK_DEADLOCK FALSE
