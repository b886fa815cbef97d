SPECIFICATION FairSpec
CONSTANTS
  acme = acme  zenith = zenith
  None = None
  Tickets = {1, 2}
  Units = {1, 2, 3}
  AccountOf <- MCAccountOf
  Words <- MCWords
  Scope <- MCScope
  KnownAccounts = {acme}
  KnownUnits = {1, 2, 3}
  RoutePriorities = {1, 2, 3}
  DayLength = 4
  DashboardSize = 1
  TicketsSize = 1
  AuditSize = 1
  Choices <- MCChoices
  Links <- MCLinks
  TicketVersions <- MCTicketVersions
  CopyVersions <- MCCopyVersions
  Entries <- MCEntries
  FirstTickets <- MCTickets
  FirstCopies <- MCCopies
  FirstEvents <- MCEvents
  MaxWrites = 1
  MaxAsks = 3
INVARIANTS TypeOK ShownIsAsked AuditComplete PagesPartition CardsMatchLists DetailIffListed
PROPERTIES Settles
CHECK_DEADLOCK FALSE
