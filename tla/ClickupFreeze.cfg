SPECIFICATION Spec
CONSTANTS
  Runners <- CronOnly
  Scheduled = "cron"
  Tasks <- MCTasks
  Lists = 1
  ListOf <- MCListOf
  ContentsOf <- MCContentsOf
  BuBySlug <- MCBuBySlug
  KnownPriorities <- MCPriorities
  StatusMap <- MCStatusMap
  None = None
  Overlap = 1
  PageSize = 1
  MaxPages = 3
  IncludeArchived = TRUE
  MaxTime = 3
  MaxFaults = 1
  FetchSpan = 0
  StablePages = TRUE
  OutOfOrderFailures = TRUE
INVARIANTS
  NoLostUpdate
