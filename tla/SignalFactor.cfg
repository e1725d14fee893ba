SPECIFICATION Spec
CONSTANTS
  s1 = s1
  s2 = s2
  None = None
  Signals = {s1, s2}
  Factor = TRUE
  Modes = {"manual", "auto"}
  NotBefore <- TwoOpen
  Expires <- TwoClose
  MaxTime = 4
  MaxRearms = 1
  MaxFaults = 1
INVARIANTS
  TypeOK
  SubmitOnce
  OrdersAreApproved
  ClaimHeld
PROPERTIES
  FactorWindowKept
  PlannedOnOwnPrices
  LifecycleSpec
ACTION_CONSTRAINT Scene
