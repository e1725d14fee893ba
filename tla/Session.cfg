SPECIFICATION FairSpec
CONSTANTS
  f1 = f1
  f2 = f2
  None = None
  Fills = {f1, f2}
  MaxFaults = 3
INVARIANTS
  TypeOK
  NothingMissed
  AccountIsCurrent
  InvalidationHolds
PROPERTIES
  Recovers
CHECK_DEADLOCK FALSE
