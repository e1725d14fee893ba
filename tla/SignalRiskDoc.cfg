SPECIFICATION Spec
CONSTANTS
  s1 = s1
  s2 = s2
  None = None
  Signals = {s1}
  Factor = TRUE
  Modes = {"auto"}
  NotBefore <- OneOpens
  Expires <- OneCloses
  MaxTime = 3
  MaxRearms = 0
  MaxFaults = 0
INVARIANT
  RiskFailureIsRejected
