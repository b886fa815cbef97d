SPECIFICATION Spec
CONSTANTS
  Tickets <- TwoTickets
  BUs <- MCBUs
  Versions <- TwoVersions
  AdminStates <- MCAdminStates
  None = None
  Fine = 2
  Batch = 3
  MaxEvents = 5
  FullScanFailures = TRUE
INVARIANTS NothingStale
