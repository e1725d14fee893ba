SPECIFICATION MCSpec
CONSTANTS
  Sessions = {1, 2}
  MaxDay = 3
  None = None
  Absent = Absent
  Corrupt = Corrupt
  JobSets <- AllJobSets
  Eventful <- SingleJobs
  StartTime = 8
  MaxTime = 10
  MaxAttempts = 2
  RetryInterval = 1
  MaxIncidents = 1
  PriceIds = {"spy", "aapl"}
  MacroIds = {"hyg", "vix"}
  MemberIds = {"aapl"}
  BenchmarkId = "spy"
  BreadthStaleAfter = 1
  MacroStaleAfter = 1
  EarningsStaleAfter = 1
  FundamentalStaleAfter = 1
  Raises = Raises
  Benchmark = "spy"
  EqualWeight = "rsp"
  SectorEtf <- OneSector
  SectorOf <- OneStock
  Periods <- Windows
  MembershipMaxAge = 2
  Change = 1
  MinRobust = 2
  RobustWindow = 3
  TrajectoryLength = 2
  AlignmentMaxAge = 1
  TrendBatch = 2
  PageSize = 2
  Lookback = 1
  Forward = 2
INVARIANTS
  ComputedIsReadable
  NoLookAhead
  SnapshotsReadable
  BudgetKept
  AuditsAgree
  BenchmarkIsThere
PROPERTIES
  SourcesAdvance
  BlockedStays
  AttemptsSettle
CHECK_DEADLOCK FALSE
