SPECIFICATION FairSpec
CONSTANTS
  Mails <- ThreeMails
  RefChoices <- ThreeRefChoices
  Tickets <- MCTickets
  CreatedAt <- MCCreatedAt
  Runners <- CronOnly
  Scheduled = "cron"
  MaxPages <- CronMaxPages
  PageTop = 1
  Overlap = 1
  Lag = 1
  FetchSpan = 0
  MaxTime = 3
  MaxFaults = 1
  None = None
INVARIANTS
  NothingDropped
PROPERTIES
  EventuallyAccounted
