SPECIFICATION FairSpec
CONSTANTS
  a = a
  b = b
  c = c
  d = d
  None = None
  Sells = {a}
  Buys = {c}
  Qty = 2
  Windows = {"open"}
  MaxFaults = 2
INVARIANTS
  RecordedAreTrades
  FilledIsProven
PROPERTIES
  OrdersEnd
CHECK_DEADLOCK FALSE
