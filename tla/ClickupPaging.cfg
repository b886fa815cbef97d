SPECIFICATION Spec
CONSTANTS
  Runners <- CronOnly
  Scheduled = "cron"
  Tasks <- ThreeTasks
  Lists = 1
  ListOf <- ThreeListOf
  ContentsOf <- ThreeContentsOf
  BuBySlug <- MCBuBySlug
  KnownPriorities <- MCPriorities
  StatusMap <- MCStatusMap
  None = None
  Overlap = 2
  PageSize = 1
  MaxPages = 4
  IncludeArchived = FALSE
  MaxTime = 3
  MaxFaults = 1
  FetchSpan = 1
  StablePages = FALSE
  OutOfOrderFailures = FALSE
INVARIANTS
  NoLostUpdate
