SPECIFICATION FairSpec
CONSTANTS
  Mails <- MCMails
  RefChoices <- MCRefChoices
  Tickets <- MCTickets
  CreatedAt <- MCCreatedAt
  Runners <- MCRunners
  Scheduled = "cron"
  MaxPages <- MCMaxPages
  PageTop = 1
  Overlap = 1
  Lag = 0
  FetchSpan = 1
  MaxTime = 3
  MaxFaults = 1
  None = None
INVARIANTS
  TypeOK
  NothingDropped
  AckGenuine
PROPERTIES
  FirstWriteWins
