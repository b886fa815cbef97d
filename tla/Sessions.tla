------------------------------- MODULE Sessions -------------------------------
(***************************************************************************)
(* Portal and admin sessions (server/auth/sessionStore.ts,                 *)
(* server/admin/adminSessionStore.ts) and their cleanup                    *)
(* (server/jobs/sessionCleanup.ts).  The two stores are the same code over *)
(* two tables; a user of the admin realm has no account, and the cleanup   *)
(* leaves admin sessions alone.  A request reads the row, decides whether  *)
(* the session is active, and refreshes last_seen_at in a second, separate *)
(* statement, and only if the last refresh is some time ago.               *)
(***************************************************************************)
EXTENDS Integers, FiniteSets

CONSTANTS
  Tokens,        \* session tokens
  Users,         \* portal_users and admin_users
  Account,       \* user |-> its account, None for an administrator
  Requests,      \* requests that may be under way at the same time
  IdleHours,     \* SESSION_IDLE_HOURS
  MaxHours,      \* SESSION_MAX_HOURS
  RefreshAfter,  \* LAST_SEEN_REFRESH_MS
  Retention,     \* RETENTION_DAYS
  MaxTime,       \* bound of the clock
  Switched,      \* bound: the users and accounts administrators switch on and off
  MaxChanges,    \* bound of what administrators change
  MaxOpened,     \* bound of the sessions that are created
  None           \* SQL NULL

ASSUME SessionsAssumption ==
  /\ IdleHours \in Nat \ {0} /\ MaxHours \in Nat \ {0}
  /\ RefreshAfter \in Nat /\ Retention \in Nat
  /\ MaxTime \in Nat /\ MaxChanges \in Nat /\ MaxOpened \in Nat
  /\ None \notin Nat /\ None \notin Users /\ None \notin Tokens
  /\ DOMAIN Account = Users
VARIABLES
  clock,
  activeUsers, activeAccounts,   \* is_active
  rows,       \* the tokens that have a row
  opened,     \* the tokens that ever had one
  owner, created, seen, revoked, \* token |-> columns of its row
  used,       \* token |-> when a request was last answered with it
  reading,    \* request |-> the session whose last_seen_at it has yet to refresh
  changes     \* changes administrators have made

rowVars == <<rows, owner, created, seen, revoked>>
sessionVars == <<clock, activeUsers, activeAccounts, rowVars, opened, used, reading, changes>>

Staff == {u \in Users : Account[u] = None}
Accounts == {Account[u] : u \in Users \ Staff}

SessionsInit ==
  /\ clock = 0
  /\ activeUsers = Users /\ activeAccounts = Accounts
  /\ rows = {} /\ opened = {}
  /\ owner = [k \in Tokens |-> None]
  /\ created = [k \in Tokens |-> 0]
  /\ seen = [k \in Tokens |-> 0]
  /\ revoked = [k \in Tokens |-> None]
  /\ used = [k \in Tokens |-> None]
  /\ reading = [q \in Requests |-> None]
  /\ changes = 0

ActiveAccount(u) == u \in Staff \/ Account[u] \in activeAccounts

\* A plausible mistake: the absolute cap is left to the cookie's Max-Age.
BadValidity(k, time) ==
  /\ revoked[k] = None
  /\ time < seen[k] + IdleHours
  /\ owner[k] \in activeUsers /\ ActiveAccount(owner[k])

\* sessionValidity = "active"
SessionValidity(k, time) ==
  /\ revoked[k] = None
  /\ time < created[k] + MaxHours
  /\ time < seen[k] + IdleHours
  /\ owner[k] \in activeUsers /\ ActiveAccount(owner[k])

\* createSession; expires_at is created_at + SESSION_MAX_HOURS.
CreateSession(k, u) ==
  /\ k \notin opened /\ Cardinality(opened) < MaxOpened
  /\ rows' = rows \cup {k} /\ opened' = opened \cup {k}
  /\ owner' = [owner EXCEPT ![k] = u]
  /\ created' = [created EXCEPT ![k] = clock]
  /\ seen' = [seen EXCEPT ![k] = clock]
  /\ UNCHANGED <<clock, activeUsers, activeAccounts, revoked, used, reading, changes>>

\* resolveSession up to the refresh: the row is read and found active, and the
\* request goes on with it.
Resolve(q, k) ==
  /\ reading[q] = None
  /\ k \in rows /\ SessionValidity(k, clock)
  /\ used' = [used EXCEPT ![k] = clock]
  /\ IF clock - seen[k] > RefreshAfter
     THEN reading' = [reading EXCEPT ![q] = k]
     ELSE UNCHANGED reading
  /\ UNCHANGED <<clock, activeUsers, activeAccounts, rowVars, opened, changes>>

\* The UPDATE of last_seen_at, whatever has become of the row by now.
Refresh(q) ==
  /\ reading[q] # None
  /\ seen' = [k \in Tokens |-> IF k = reading[q] /\ k \in rows THEN clock ELSE seen[k]]
  /\ reading' = [reading EXCEPT ![q] = None]
  /\ UNCHANGED <<clock, activeUsers, activeAccounts, rows, opened, owner, created, revoked,
                 used, changes>>

\* The request dies between its two statements.
RequestDies(q) ==
  /\ reading[q] # None
  /\ reading' = [reading EXCEPT ![q] = None]
  /\ UNCHANGED <<clock, activeUsers, activeAccounts, rowVars, opened, used, changes>>

\* revokeSession, by a logout.
Revoke(k) ==
  /\ k \in rows /\ revoked[k] = None
  /\ revoked' = [revoked EXCEPT ![k] = clock]
  /\ UNCHANGED <<clock, activeUsers, activeAccounts, rows, opened, owner, created, seen, used,
                 reading, changes>>

\* A plausible mistake: the idle time is forgotten.
BadStale(k) ==
  LET cutoff == clock - Retention
  IN \/ revoked[k] # None /\ revoked[k] < cutoff
     \/ created[k] + MaxHours < cutoff
     \/ seen[k] < cutoff

\* A plausible mistake: whoever logged out is left to the other conditions.
BadRevoked(k) ==
  LET cutoff == clock - Retention
  IN created[k] + MaxHours < cutoff \/ seen[k] + IdleHours < cutoff

\* The WHERE of the cleanup.
Stale(k) ==
  LET cutoff == clock - Retention
  IN \/ revoked[k] # None /\ revoked[k] < cutoff
     \/ created[k] + MaxHours < cutoff
     \/ seen[k] + IdleHours < cutoff

Cleanup ==
  LET dead == {k \in rows : owner[k] \notin Staff /\ Stale(k)}
      Clear(f, v) == [k \in Tokens |-> IF k \in dead THEN v ELSE f[k]]
  IN /\ dead # {}
     /\ rows' = rows \ dead
     /\ owner' = Clear(owner, None) /\ revoked' = Clear(revoked, None)
     /\ created' = Clear(created, 0) /\ seen' = Clear(seen, 0)
     /\ UNCHANGED <<clock, activeUsers, activeAccounts, opened, used, reading, changes>>

\* An administrator switches a user or an account on or off.
Switch ==
  /\ changes < MaxChanges /\ changes' = changes + 1
  /\ \/ /\ \E u \in Users \cap Switched : activeUsers' = (activeUsers \ {u}) \cup ({u} \ activeUsers)
        /\ UNCHANGED activeAccounts
     \/ /\ \E a \in Accounts \cap Switched :
             activeAccounts' = (activeAccounts \ {a}) \cup ({a} \ activeAccounts)
        /\ UNCHANGED activeUsers
  /\ UNCHANGED <<clock, rowVars, opened, used, reading>>

\* Before the first session nothing reads the clock.
Tick ==
  /\ clock < MaxTime /\ opened # {}
  /\ clock' = clock + 1
  /\ UNCHANGED <<activeUsers, activeAccounts, rowVars, opened, used, reading, changes>>

SessionsNext ==
  \/ \E q \in Requests : Refresh(q) \/ RequestDies(q) \/ \E k \in Tokens : Resolve(q, k)
  \/ \E k \in Tokens : Revoke(k)
  \/ Cleanup \/ Switch \/ Tick

(***************************************************************************)
(* Properties.                                                             *)
(***************************************************************************)
\* A row is removed only if no request was answered with it during the whole
\* retention window: what the cleanup deletes is what resolution already treats
\* as dead, however late a refresh or a logout came.
EvidenceKept ==
  [][\A k \in rows \ rows' : used[k] # None => used[k] < clock - Retention]_sessionVars

\* Every customer session that was revoked, or had its time, longer ago than the
\* retention window is removed in the end, also one that nobody logged out of.
Finished(k) ==
  /\ k \in rows /\ owner[k] \notin Staff
  /\ \/ revoked[k] # None /\ clock - revoked[k] > Retention
     \/ clock - created[k] > MaxHours + Retention
FinishedAreRemoved == \A k \in Tokens : Finished(k) ~> k \notin rows

\* The promise of SessionLife, about the rows and the clock.
Life(k) ==
  IF k \notin opened THEN "none"
  ELSE IF k \notin rows \/ revoked[k] # None \/ clock >= created[k] + MaxHours THEN "over"
  ELSE IF clock >= seen[k] + IdleHours THEN "asleep"
  ELSE "live"
Promise == INSTANCE SessionLife WITH
  life <- [k \in Tokens |-> Life(k)],
  late <- {k \in Tokens : \E q \in Requests : reading[q] = k},
  Times <- 0 .. MaxTime,
  Never <- None
\* The two stores, the refresh and the cleanup keep the promise.
KeepsPromise == Promise!LifeSpec
=============================================================================
