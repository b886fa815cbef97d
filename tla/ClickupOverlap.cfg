SPECIFICATION Spec
CONSTANTS
  Runners = {cron, hand}
  Scheduled = cron
  Tasks <- MCTasks
  Lists = 1
  ListOf <- MCListOf
  ContentsOf <- OverlapContentsOf
  BuBySlug <- MCBuBySlug
  KnownPriorities <- MCPriorities
  StatusMap <- MCStatusMap
  None = None
  Overlap = 2
  PageSize = 2
  MaxPages = 2
  IncludeArchived = FALSE
  MaxTime = 3
  MaxFaults = 1
  FetchSpan = 1
  StablePages = TRUE
  OutOfOrderFailures = FALSE
SYMMETRY RunnerSymmetry
INVARIANTS
  NoLostUpdate
  RowsAgree
