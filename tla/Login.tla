--------------------------------- MODULE Login ---------------------------------
(***************************************************************************)
(* Signing in (server/auth/handlers.ts with the customer and the admin     *)
(* realm).  A login route leaves the secrets of a flow in a cookie and     *)
(* sends the browser to the identity provider; the callback checks the     *)
(* cookie, redeems the code, looks the person up, binds the subject on a   *)
(* first login, writes the audit row and creates the session, each in a    *)
(* statement or transaction of its own.  A flow gets at most one session,  *)
(* so the flows stand for their tokens.                                    *)
(***************************************************************************)
EXTENDS Sessions, FiniteSetsExt, Sequences

CONSTANTS
  Routes,            \* realm and provider of the login routes
  UserRealm, UserProvider, UserEmail,  \* user |-> columns of its row
  FirstPinned,       \* user |-> issuer_namespace, null if not captured
  Namespaces,        \* issuer namespaces
  RawClaims,         \* provider |-> the ID-token claims it may answer with
  People             \* the subjects there are

Flows == Tokens

ClaimDenyReason ==
  {"NONCE_MISMATCH", "MISSING_NAMESPACE", "MISSING_SUBJECT", "ISSUER_MISMATCH"}
LoginDenyReason == ClaimDenyReason \cup
  {"NO_EMAIL_CLAIM", "NOT_PROVISIONED", "PROVIDER_MISMATCH", "NAMESPACE_NOT_CAPTURED",
   "NAMESPACE_MISMATCH", "EMAIL_ALREADY_BOUND", "EMAIL_NOT_VERIFIED", "USER_INACTIVE",
   "ACCOUNT_INACTIVE"}

ASSUME LoginAssumption ==
  /\ Routes \subseteq [realm : {"customer"}, provider : {"entra", "google"}]
                  \cup [realm : {"admin"}, provider : {"entra"}]
  /\ UserRealm = [u \in Users |-> IF u \in Staff THEN "admin" ELSE "customer"]
  /\ DOMAIN UserProvider = Users /\ DOMAIN UserEmail = Users
  /\ FirstPinned \in [Users -> Namespaces \cup {None}]
  /\ None \notin Namespaces \cup People /\ None \notin LoginDenyReason
  /\ \A route \in Routes : \A raw \in RawClaims[route.provider] :
       raw.subject \in People \cup {None}
\* portal_users_email_key, admin_users_email_key
ASSUME EmailIsUnique ==
  \A u, v \in Users :
    UserRealm[u] = UserRealm[v] /\ UserEmail[u] = UserEmail[v] => u = v

VARIABLES
  cookie,            \* the flow whose secrets the browser's cookie holds
  route,             \* flow |-> the route it was started at
  pc,                \* flow |-> where it is
  identity,          \* flow |-> its AuthenticatedIdentity
  who,               \* flow |-> the user it was decided for
  why,               \* flow |-> the reason it is denied for
  audit,             \* flow |-> its audit row: "login" or the reason of a denial
  subject, pinned    \* user |-> subject_identifier, issuer_namespace

flowVars == <<cookie, route, pc, identity, who, why, audit>>
vars == <<sessionVars, flowVars, subject, pinned>>

Init ==
  /\ SessionsInit
  /\ cookie = None
  /\ route = [f \in Flows |-> None]
  /\ pc = [f \in Flows |-> "new"]
  /\ identity = [f \in Flows |-> None]
  /\ who = [f \in Flows |-> None]
  /\ why = [f \in Flows |-> None]
  /\ audit = [f \in Flows |-> None]
  /\ subject = [u \in Users |-> None]
  /\ pinned = FirstPinned

(* ------------------------- claims and decisions ------------------------- *)

\* The reason of the first check that fails, None if none does.
FirstFailing(checks) ==
  LET failing == {i \in DOMAIN checks : checks[i].fails}
  IN IF failing = {} THEN None ELSE checks[Min(failing)].reason
Check(fails, reason) == [fails |-> fails, reason |-> reason]

\* validateEntraClaims and validateGoogleClaims: the order differs.
ClaimDenial(provider, raw) ==
  LET nonce == Check(~raw.nonce, "NONCE_MISMATCH")
      namespace == Check(raw.namespace = None, "MISSING_NAMESPACE")
      person == Check(raw.subject = None, "MISSING_SUBJECT")
      issuer == Check(~raw.issuer, "ISSUER_MISMATCH")
  IN IF provider = "entra" THEN FirstFailing(<<nonce, namespace, person, issuer>>)
     ELSE FirstFailing(<<nonce, person, namespace, issuer>>)

\* What is left of the claims: facts, no policy.
Identity(raw) == [namespace |-> raw.namespace, subject |-> raw.subject,
                  email |-> raw.email, verified |-> raw.verified]

\* policyFor and emailTrustedForBootstrap; Google must say "true".
EmailTrustedForBootstrap(provider, verified) ==
  IF provider = "google" THEN verified = "true" ELSE verified # "false"

InactiveChecks(u) == <<Check(u \notin activeUsers, "USER_INACTIVE"),
                       Check(~ActiveAccount(u), "ACCOUNT_INACTIVE")>>

\* decideLogin for a row that was found by email.
EmailChecks(f, u) ==
  LET id == identity[f]
  IN <<Check(subject[u] # None, "EMAIL_ALREADY_BOUND"),
       Check(UserProvider[u] # route[f].provider, "PROVIDER_MISMATCH"),
       Check(pinned[u] = None, "NAMESPACE_NOT_CAPTURED"),
       Check(pinned[u] # id.namespace, "NAMESPACE_MISMATCH"),
       Check(~EmailTrustedForBootstrap(route[f].provider, id.verified), "EMAIL_NOT_VERIFIED")>>
     \o InactiveChecks(u)

(* -------------------------------- the flow ------------------------------- *)

Goto(f, place) == pc' = [pc EXCEPT ![f] = place]
Deny(f, reason) ==
  /\ Goto(f, "deny")
  /\ why' = [why EXCEPT ![f] = reason]
  /\ who' = [who EXCEPT ![f] = None]
  /\ identity' = [identity EXCEPT ![f] = None]
\* A user is decided for.
Decide(f, u, place) ==
  /\ Goto(f, place)
  /\ who' = [who EXCEPT ![f] = u]
  /\ UNCHANGED <<identity, why>>
\* Every answer of a callback but an error 500 clears the flow cookie.
Respond(f) == Goto(f, "over") /\ cookie' = None

Start(f) ==
  /\ pc[f] = "new"
  /\ \E r \in Routes : route' = [route EXCEPT ![f] = r]
  /\ Goto(f, "away") /\ cookie' = f
  /\ UNCHANGED <<sessionVars, identity, who, why, audit, subject, pinned>>

\* The provider reports an error, the cookie is gone or another flow's, or the
\* code is not redeemed.
FlowFailure(f) ==
  /\ pc[f] = "away"
  /\ Respond(f)
  /\ UNCHANGED <<sessionVars, route, identity, who, why, audit, subject, pinned>>

\* The callback is called once more: its code has been redeemed.
CalledAgain(f) ==
  /\ pc[f] \notin {"new", "away"} /\ cookie # None
  /\ cookie' = None
  /\ UNCHANGED <<sessionVars, route, pc, identity, who, why, audit, subject, pinned>>

\* redeemCode and validateClaims.
Callback(f) ==
  /\ pc[f] = "away" /\ cookie = f
  /\ \E raw \in RawClaims[route[f].provider] :
       LET denial == ClaimDenial(route[f].provider, raw)
       IN IF denial # None
          THEN Deny(f, denial)
          ELSE /\ Goto(f, "find")
               /\ identity' = [identity EXCEPT ![f] = Identity(raw)]
               /\ UNCHANGED <<who, why>>
  /\ UNCHANGED <<sessionVars, cookie, route, audit, subject, pinned>>

\* findBoundUser: the (provider, namespace, subject) triple, in the flow's realm.
Bound(f) == {u \in Users : /\ UserRealm[u] = route[f].realm /\ UserProvider[u] = route[f].provider
                           /\ pinned[u] = identity[f].namespace
                           /\ subject[u] = identity[f].subject}

\* The decision is made at once if a bound row is found; email is not consulted.
\* stampLogin then sets last_login_at, which nothing reads.
FindBoundUser(f) ==
  /\ pc[f] = "find"
  /\ \/ \E u \in Bound(f) :
          LET denial == FirstFailing(InactiveChecks(u))
          IN IF denial # None
             THEN Deny(f, denial)
             ELSE Decide(f, u, "audit")
     \/ Bound(f) = {} /\ identity[f].email = None /\ Deny(f, "NO_EMAIL_CLAIM")
     \/ /\ Bound(f) = {} /\ identity[f].email # None
        /\ Goto(f, "byEmail") /\ UNCHANGED <<identity, who, why>>
  /\ UNCHANGED <<sessionVars, cookie, route, audit, subject, pinned>>

ByEmail(f) == {u \in Users : UserRealm[u] = route[f].realm /\ UserEmail[u] = identity[f].email}

FindUserByEmail(f) ==
  /\ pc[f] = "byEmail"
  /\ \/ ByEmail(f) = {} /\ Deny(f, "NOT_PROVISIONED")
     \/ \E u \in ByEmail(f) :
          LET denial == FirstFailing(EmailChecks(f, u))
          IN IF denial # None
             THEN Deny(f, denial)
             ELSE Decide(f, u, "bind")
  /\ UNCHANGED <<sessionVars, cookie, route, audit, subject, pinned>>

\* A plausible mistake: two rows may have the same triple.
BadTaken(u, namespace, person) == FALSE

\* idx_portal_users_identity, idx_admin_users_identity
Taken(u, namespace, person) ==
  \E v \in Users \ {u} : /\ UserRealm[v] = UserRealm[u] /\ UserProvider[v] = UserProvider[u]
                         /\ pinned[v] = namespace /\ subject[v] = person

\* A plausible mistake: the UPDATE does not ask whether the row is still free.
BadBindSubject(f) ==
  LET u == who[f]
      person == identity[f].subject
  IN /\ pc[f] = "bind" /\ ~Taken(u, pinned[u], person)
     /\ subject' = [subject EXCEPT ![u] = person]
     /\ Decide(f, u, "audit")
     /\ UNCHANGED <<sessionVars, cookie, route, audit, pinned>>

\* A plausible mistake: the loser of the race is let in as well.
BadRaceLost(f) ==
  LET u == who[f]
      person == identity[f].subject
  IN /\ pc[f] = "bind"
     /\ \/ /\ subject[u] = None /\ ~Taken(u, pinned[u], person)
           /\ subject' = [subject EXCEPT ![u] = person]
        \/ subject[u] # None /\ UNCHANGED subject
     /\ Decide(f, u, "audit")
     /\ UNCHANGED <<sessionVars, cookie, route, audit, pinned>>

\* bindSubject: whoever comes first has it; another flow of the same person may
\* go on, anybody else is denied.  A triple that another row has is an error.
BindSubject(f) ==
  LET u == who[f]
      person == identity[f].subject
  IN /\ pc[f] = "bind"
     /\ \/ /\ subject[u] = None /\ ~Taken(u, pinned[u], person)
           /\ subject' = [subject EXCEPT ![u] = person]
           /\ Decide(f, u, "audit")
        \/ subject[u] = person /\ Decide(f, u, "audit") /\ UNCHANGED subject
        \/ /\ subject[u] \notin {None, person}
           /\ Deny(f, "EMAIL_ALREADY_BOUND") /\ UNCHANGED subject
     /\ UNCHANGED <<sessionVars, cookie, route, audit, pinned>>

\* A plausible mistake: the audit row is written when the answer is on its way.
BadAuditAdmitted(f) ==
  /\ pc[f] = "audit"
  /\ Goto(f, "create")
  /\ UNCHANGED <<sessionVars, cookie, route, identity, who, why, audit, subject, pinned>>

AuditAdmitted(f) ==
  /\ pc[f] = "audit"
  /\ audit' = [audit EXCEPT ![f] = "login"]
  /\ Goto(f, "create")
  /\ UNCHANGED <<sessionVars, cookie, route, identity, who, why, subject, pinned>>

Admit(f) ==
  /\ pc[f] = "create"
  /\ CreateSession(f, who[f])
  /\ Respond(f)
  /\ who' = [who EXCEPT ![f] = None]
  /\ UNCHANGED <<route, identity, why, audit, subject, pinned>>

\* deniedIdentity
AuditDenied(f) ==
  /\ pc[f] = "deny"
  /\ audit' = [audit EXCEPT ![f] = why[f]]
  /\ Respond(f)
  /\ why' = [why EXCEPT ![f] = None]
  /\ UNCHANGED <<sessionVars, route, identity, who, subject, pinned>>

\* A statement fails: error 500, and the cookie stays.
Breaks(f) ==
  /\ pc[f] \notin {"new", "away", "over"}
  /\ Goto(f, "over")
  /\ identity' = [identity EXCEPT ![f] = None]
  /\ who' = [who EXCEPT ![f] = None] /\ why' = [why EXCEPT ![f] = None]
  /\ UNCHANGED <<sessionVars, cookie, route, audit, subject, pinned>>

\* admin:bootstrap for an email that has a row: pins a namespace and activates.
Bootstrap ==
  /\ changes < MaxChanges /\ changes' = changes + 1
  /\ \E u \in Staff, n \in Namespaces :
       /\ subject[u] # None => ~Taken(u, n, subject[u])
       /\ pinned' = [pinned EXCEPT ![u] = n]
       /\ activeUsers' = activeUsers \cup {u}
  /\ UNCHANGED <<clock, activeAccounts, rowVars, opened, used, reading, flowVars, subject>>

FlowStep(f) ==
  \/ Start(f) \/ FlowFailure(f) \/ CalledAgain(f) \/ Callback(f)
  \/ FindBoundUser(f) \/ FindUserByEmail(f) \/ BindSubject(f)
  \/ AuditAdmitted(f) \/ Admit(f) \/ AuditDenied(f) \/ Breaks(f)

Next ==
  \/ \E f \in Flows : FlowStep(f)
  \/ Bootstrap
  \/ SessionsNext /\ UNCHANGED <<flowVars, subject, pinned>>

Spec == Init /\ [][Next]_vars

\* The cleanup is a step of the scheduled pipeline.
FairSpec == Spec /\ WF_vars(Cleanup /\ UNCHANGED <<flowVars, subject, pinned>>)

(***************************************************************************)
(* Properties.                                                             *)
(***************************************************************************)
\* Types; in either realm, no two rows have the same provider, namespace and
\* subject, so that a person is never found twice.
TypeOK ==
  /\ clock \in 0 .. MaxTime /\ changes \in 0 .. MaxChanges
  /\ activeUsers \subseteq Users /\ activeAccounts \subseteq Accounts
  /\ rows \subseteq opened /\ opened \subseteq Tokens
  /\ owner \in [Tokens -> Users \cup {None}]
  /\ created \in [Tokens -> Nat] /\ seen \in [Tokens -> Nat]
  /\ revoked \in [Tokens -> Nat \cup {None}] /\ used \in [Tokens -> Nat \cup {None}]
  /\ reading \in [Requests -> Tokens \cup {None}]
  /\ cookie \in Flows \cup {None}
  /\ route \in [Flows -> Routes \cup {None}]
  /\ who \in [Flows -> Users \cup {None}]
  /\ why \in [Flows -> LoginDenyReason \cup {None}]
  /\ audit \in [Flows -> LoginDenyReason \cup {"login", None}]
  /\ subject \in [Users -> People \cup {None}]
  /\ pinned \in [Users -> Namespaces \cup {None}]
  /\ \A u, v \in Users :
       /\ subject[u] # None /\ subject[u] = subject[v] /\ pinned[u] = pinned[v]
       /\ UserRealm[u] = UserRealm[v] /\ UserProvider[u] = UserProvider[v]
       => u = v

\* The first binding stands: no later login, of the same or another person,
\* changes it, however the look-ups and the binding of two flows interleave.
BoundForGood ==
  [][\A u \in Users : subject[u] # None => subject'[u] = subject[u]]_vars

\* A session belongs to the row that is bound to the very person who signed in,
\* and stands in the realm that person signed in to.
SessionOwner ==
  \A f \in rows : /\ subject[owner[f]] = identity[f].subject
                  /\ UserRealm[owner[f]] = route[f].realm

\* There is no session without its audit row, and no flow that was denied has
\* one: the audit comes first, and what breaks in between leaves no session.
AuditedAdmission ==
  \A f \in Flows : /\ f \in opened => audit[f] = "login"
                   /\ audit[f] \notin {None, "login"} => f \notin opened
=============================================================================
