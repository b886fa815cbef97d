SPECIFICATION FairSpec
CONSTANTS
  f1 = f1  f2 = f2
  anna = anna  ben = ben  adam = adam
  acme = acme  q1 = q1
  n1 = n1  e1 = e1  e2 = e2  s1 = s1  s2 = s2
  None = None
  Tokens = {f1, f2}
  Users = {anna, ben, adam}
  Account <- MCAccount
  Requests = {q1}
  IdleHours = 2
  MaxHours = 3
  RefreshAfter = 0
  Retention = 1
  MaxTime = 5
  Switched = {acme, anna}
  MaxChanges = 1
  MaxOpened = 1
  Routes <- MCRoutes
  UserRealm <- MCUserRealm
  UserProvider <- MCUserProvider
  UserEmail <- MCUserEmail
  FirstPinned <- MCPinned
  Namespaces = {n1}
  RawClaims <- MCRawClaims
  People = {s1, s2}
INVARIANTS TypeOK SessionOwner AuditedAdmission
PROPERTIES BoundForGood EvidenceKept FinishedAreRemoved KeepsPromise
CHECK_DEADLOCK FALSE
