SPECIFICATION FairSpec
CONSTANTS
  Mails <- ThreeMails
  RefChoices <- ThreeRefChoices
  Tickets <- MCTickets
  CreatedAt <- MCCreatedAt
  Runners <- CronOnly
  Scheduled = "cron"
  MaxPages <- ThreePages
  PageTop = 1
  Overlap = 1
  Lag = 0
  FetchSpan = 1
  MaxTime = 3
  MaxFaults = 0
  None = None
PROPERTIES
  MatchedOnceSynced
