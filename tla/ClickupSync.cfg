SPECIFICATION FairSpec
CONSTANTS
  Runners <- CronOnly
  Scheduled = "cron"
  Tasks <- MCTasks
  Lists = 1
  ListOf <- MCListOf
  ContentsOf <- MCContentsOf
  BuBySlug <- MCBuBySlug
  KnownPriorities <- MCPriorities
  StatusMap <- MCStatusMap
  None = None
  Overlap = 2
  PageSize = 1
  MaxPages = 3
  IncludeArchived = TRUE
  MaxTime = 3
  MaxFaults = 1
  FetchSpan = 1
  StablePages = TRUE
  OutOfOrderFailures = FALSE
INVARIANTS
  TypeOK
  NoLostUpdate
  RowsAgree
PROPERTIES
  EventuallyReflected
