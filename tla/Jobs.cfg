SPECIFICATION FairSpec
CONSTANTS
  DayLen = 3
  MaxDays = 30
  AllHours = AllHours
  Tickets <- MCTickets
  CreatedAt <- MCCreatedAt
  Origin <- MCOrigin
  Priorities <- MCPriorities
  FirstPriority <- MCFirstPriority
  Policies <- MCPolicies
  Batch = 1
  Runners <- MCRunners
  Zone <- MCZone
  FirstTime = 27
  MaxTime = 28
  Delays <- MCDelays
  Touched = {1}
  Entered = {"CLOSED"}
  MaxFaults = 1
  MaxEvents = 2
  None = None
  Cron <- MCCron
  Steps <- MCSteps
  PoolMax = 2
  MaxWeb = 1
  Free = Free
  Lost = Lost
INVARIANTS TypeOK OneAtATime RunExact DueIsWorked
PROPERTIES MilestoneStable BreachStands EventuallyRight
