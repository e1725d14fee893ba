SPECIFICATION FairSpec
CONSTANTS
  s1 = s1
  s2 = s2
  None = None
  Signals = {s1}
  Factor = FALSE
  Modes = {"manual", "auto"}
  NotBefore <- AtOnce
  Expires <- OneCloses
  MaxTime = 3
  MaxRearms = 0
  MaxFaults = 1
PROPERTIES
  ModeKeepsToItsClaims
  NewIsHandled
  PendingIsDecided
  ApprovedIsSettled
