SPECIFICATION KeptSpec
CONSTANTS
  Sessions = {1, 2}
  MaxDay = 4
  None = None
  Corrupt = Corrupt
  JobSets = {{"prices", "breadth"}}
  Eventful = {{"prices", "breadth"}}
  StartTime = 11
  MaxTime = 13
  MaxAttempts = 1
  RetryInterval = 1
  MaxIncidents = 1
  PriceIds = {"spy"}
  MacroIds = {"hyg"}
  MemberIds = {"aapl"}
  BenchmarkId = "spy"
INVARIANT RequestedOnce
CHECK_DEADLOCK FALSE
