SPECIFICATION FairSpec
CONSTANTS
  Tickets <- MCTickets
  BUs <- MCBUs
  Versions <- MCVersions
  AdminStates <- MCAdminStates
  None = None
  Fine = 2
  Batch = 3
  MaxEvents = 4
  FullScanFailures = FALSE
INVARIANTS TypeOK NothingStale
PROPERTIES DecisionKept RowsPreserved EventuallyProjected
