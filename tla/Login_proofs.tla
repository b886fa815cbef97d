------------------------------ MODULE Login_proofs ------------------------------
(***************************************************************************)
(* For any number of flows, users, requests and administrators' changes: a *)
(* binding stands, a session belongs to the person who signed in and has   *)
(* its audit row, no two rows of a realm have one identity, the cleanup    *)
(* removes only what was of no use for the retention window, and the       *)
(* tables keep the promise of SessionLife.                                 *)
(*                                                                         *)
(* The argument.  Every use of a session lies before each of the times the *)
(* cleanup looks at (UseInv); a flow between its binding and its session   *)
(* has a user whose subject is already that of its identity, and a subject *)
(* never changes (FlowInv).                                                *)
(***************************************************************************)
EXTENDS Login, WellFoundedInduction, TLAPS

Shapes ==
  /\ clock \in 0 .. MaxTime
  /\ rows \subseteq opened /\ opened \subseteq Tokens
  /\ DOMAIN owner = Tokens
  /\ created \in [Tokens -> Nat] /\ seen \in [Tokens -> Nat]
  /\ revoked \in [Tokens -> Nat \cup {None}]
  /\ used \in [Tokens -> (0 .. MaxTime) \cup {None}]
  /\ reading \in [Requests -> Tokens \cup {None}]
  /\ DOMAIN pc = Flows /\ DOMAIN identity = Flows /\ DOMAIN who = Flows
  /\ DOMAIN why = Flows /\ DOMAIN audit = Flows /\ DOMAIN route = Flows
  /\ DOMAIN subject = Users

\* Every use lies before the end of the session and the last refresh's idle time.
UsedInTime(k) ==
  /\ seen[k] <= clock /\ created[k] <= clock
  /\ revoked[k] # None => revoked[k] <= clock
  /\ used[k] # None => /\ used[k] <= clock
                       /\ revoked[k] # None => used[k] <= revoked[k]
                       /\ used[k] < created[k] + MaxHours
                       /\ used[k] < seen[k] + IdleHours

UseInv ==
  /\ \A k \in rows : UsedInTime(k)
  /\ \A k \in Tokens \ opened : used[k] = None /\ revoked[k] = None

\* What is known of a flow at each of its places.
Underway == {"find", "byEmail", "bind", "audit", "create"}
FlowInv ==
  \A f \in Flows :
    /\ pc[f] \in Underway => identity[f].subject # None
    /\ pc[f] \in {"bind", "audit", "create"} =>
         who[f] \in Users /\ UserRealm[who[f]] = route[f].realm
    /\ pc[f] \in {"audit", "create"} => subject[who[f]] = identity[f].subject
    /\ pc[f] = "create" => audit[f] = "login"
    /\ f \in opened => pc[f] = "over" /\ audit[f] = "login"
    /\ f \in rows => /\ owner[f] \in Users /\ UserRealm[owner[f]] = route[f].realm
                     /\ identity[f].subject # None
                     /\ subject[owner[f]] = identity[f].subject

IInv == Shapes /\ UseInv /\ FlowInv
-----------------------------------------------------------------------------
(* Sessions.                                                               *)

\* A step that is none of the sessions' business.
LEMMA SessionsIdle ==
  ASSUME Shapes, UseInv, UNCHANGED <<clock, rowVars, opened, used, reading>>
  PROVE  UseInv'
BY DEF UseInv, UsedInTime, rowVars

LEMMA CreateUse ==
  ASSUME Shapes, UseInv, NEW k \in Tokens, NEW u, CreateSession(k, u)
  PROVE  UseInv'
<1>1. /\ k \notin opened /\ rows' = rows \cup {k} /\ opened' = opened \cup {k}
      /\ created' = [created EXCEPT ![k] = clock] /\ seen' = [seen EXCEPT ![k] = clock]
      /\ UNCHANGED <<clock, revoked, used>>
  BY DEF CreateSession
<1>2. used[k] = None /\ revoked[k] = None BY <1>1 DEF UseInv
<1>3. UsedInTime(k)' BY <1>1, <1>2 DEF UsedInTime, Shapes
<1>4. ASSUME NEW j \in rows \ {k} PROVE UsedInTime(j)'
  BY <1>1, <1>4 DEF UsedInTime, UseInv, Shapes
<1> QED BY <1>1, <1>3, <1>4 DEF UseInv

LEMMA ResolveUse ==
  ASSUME Shapes, UseInv, NEW k \in Tokens, NEW q \in Requests, Resolve(q, k)
  PROVE  UseInv'
<1>1. /\ k \in rows /\ SessionValidity(k, clock) /\ used' = [used EXCEPT ![k] = clock]
      /\ UNCHANGED <<clock, rows, created, seen, revoked, opened>>
  BY DEF Resolve, rowVars
<1>2. UsedInTime(k)' BY <1>1 DEF UsedInTime, UseInv, SessionValidity, Shapes
<1>3. ASSUME NEW j \in rows \ {k} PROVE UsedInTime(j)'
  BY <1>1, <1>3 DEF UsedInTime, UseInv, Shapes
<1> QED BY <1>1, <1>2, <1>3 DEF UseInv, Shapes

LEMMA RefreshUse ==
  ASSUME Shapes, UseInv, NEW q \in Requests, Refresh(q)
  PROVE  UseInv'
<1>1. /\ seen' = [k \in Tokens |-> IF k = reading[q] /\ k \in rows THEN clock ELSE seen[k]]
      /\ UNCHANGED <<clock, rows, opened, created, revoked, used>>
  BY DEF Refresh
<1>2. ASSUME NEW k \in rows PROVE UsedInTime(k)'
  <2>1. k \in Tokens /\ seen[k] \in Nat /\ seen'[k] \in {clock, seen[k]} /\ clock \in Nat
    BY <1>1 DEF Shapes
  <2>2. seen[k] <= seen'[k] /\ seen'[k] <= clock BY <2>1 DEF UseInv, UsedInTime
  <2>3. used[k] # None => used[k] \in Nat BY <2>1 DEF Shapes
  <2>4. used[k] # None => used[k] < seen'[k] + IdleHours
    BY <2>1, <2>2, <2>3, SessionsAssumption DEF UseInv, UsedInTime
  <2> QED BY <1>1, <2>2, <2>4 DEF UseInv, UsedInTime
<1> QED BY <1>1, <1>2 DEF UseInv

LEMMA RevokeUse ==
  ASSUME Shapes, UseInv, NEW k \in Tokens, Revoke(k)
  PROVE  UseInv'
<1>1. /\ k \in rows /\ revoked' = [revoked EXCEPT ![k] = clock]
      /\ UNCHANGED <<clock, rows, opened, created, seen, used>>
  BY DEF Revoke
<1>2. UsedInTime(k)' BY <1>1 DEF UsedInTime, UseInv, Shapes
<1>3. ASSUME NEW j \in rows \ {k} PROVE UsedInTime(j)'
  BY <1>1, <1>3 DEF UsedInTime, UseInv, Shapes
<1> QED BY <1>1, <1>2, <1>3 DEF UseInv, Shapes

LEMMA CleanupUse ==
  ASSUME Shapes, UseInv, Cleanup
  PROVE  UseInv' /\ \A k \in rows \ rows' : Stale(k)
<1> DEFINE dead == {k \in rows : owner[k] \notin Staff /\ Stale(k)}
<1>1. /\ rows' = rows \ dead
      /\ revoked' = [k \in Tokens |-> IF k \in dead THEN None ELSE revoked[k]]
      /\ created' = [k \in Tokens |-> IF k \in dead THEN 0 ELSE created[k]]
      /\ seen' = [k \in Tokens |-> IF k \in dead THEN 0 ELSE seen[k]]
      /\ UNCHANGED <<clock, opened, used>>
  BY DEF Cleanup
<1>2. \A k \in rows \ rows' : Stale(k) BY <1>1
<1> HIDE DEF dead
<1>3. ASSUME NEW k \in rows' PROVE UsedInTime(k)'
  BY <1>1, <1>3 DEF UsedInTime, UseInv, Shapes
<1>4. ASSUME NEW k \in Tokens \ opened PROVE used'[k] = None /\ revoked'[k] = None
  BY <1>1, <1>4 DEF UseInv
<1> QED BY <1>1, <1>2, <1>3, <1>4 DEF UseInv

LEMMA TickUse ==
  ASSUME Shapes, UseInv, Tick
  PROVE  UseInv'
<1>1. clock' = clock + 1 /\ UNCHANGED <<rows, opened, created, seen, revoked, used>>
  BY DEF Tick, rowVars
<1>2. ASSUME NEW k \in rows PROVE UsedInTime(k)'
  <2>1. /\ clock \in Nat /\ k \in Tokens /\ seen[k] \in Nat /\ created[k] \in Nat
        /\ revoked[k] # None => revoked[k] \in Nat
        /\ used[k] # None => used[k] \in Nat
    BY DEF Shapes
  <2>2. UsedInTime(k) BY DEF UseInv
  <2> QED BY <1>1, <2>1, <2>2 DEF UsedInTime
<1> QED BY <1>1, <1>2 DEF UseInv

\* Every step, for the sessions.
LEMMA UseStep ==
  ASSUME Shapes, UseInv, [Next]_vars
  PROVE  UseInv'
<1>1. ASSUME NEW f \in Flows, FlowStep(f) PROVE UseInv'
  <2>1. CASE Admit(f) BY <2>1, CreateUse DEF Admit, Flows
  <2>2. CASE ~Admit(f)
    <3>1. UNCHANGED sessionVars
      BY <1>1, <2>2 DEF FlowStep, Start, FlowFailure, CalledAgain, Callback, FindBoundUser,
         FindUserByEmail, BindSubject, AuditAdmitted, AuditDenied, Breaks
    <3> QED BY <3>1, SessionsIdle DEF sessionVars
  <2> QED BY <2>1, <2>2
<1>2. CASE Bootstrap BY <1>2, SessionsIdle DEF Bootstrap
<1>3. CASE SessionsNext
  <2>1. CASE Switch BY <2>1, SessionsIdle DEF Switch
  <2>2. ASSUME NEW q \in Requests, RequestDies(q) PROVE UseInv'
    BY <2>2 DEF RequestDies, UseInv, UsedInTime, rowVars
  <2> QED BY <1>3, <2>1, <2>2, ResolveUse, RefreshUse, RevokeUse, CleanupUse, TickUse
          DEF SessionsNext
<1>4. CASE UNCHANGED vars BY <1>4, SessionsIdle DEF vars, sessionVars
<1> QED BY <1>1, <1>2, <1>3, <1>4 DEF Next
LEMMA ShapesStep ==
  ASSUME Shapes, [Next]_vars
  PROVE  Shapes'
<1> USE SessionsAssumption DEF Shapes, Flows
<1>1. ASSUME NEW f \in Flows, FlowStep(f) PROVE Shapes'
  <2>1. CASE Admit(f) BY <2>1 DEF Admit, CreateSession, Respond, Goto
  <2>2. CASE ~Admit(f)
    <3>1. UNCHANGED sessionVars
      BY <1>1, <2>2 DEF FlowStep, Start, FlowFailure, CalledAgain, Callback, FindBoundUser,
         FindUserByEmail, BindSubject, AuditAdmitted, AuditDenied, Breaks
    <3>2. /\ DOMAIN pc' = Flows /\ DOMAIN who' = Flows /\ DOMAIN why' = Flows
          /\ DOMAIN identity' = Flows
      BY <1>1, <2>2 DEF FlowStep, Start, FlowFailure, CalledAgain, Callback, FindBoundUser,
         FindUserByEmail, BindSubject, AuditAdmitted, AuditDenied, Breaks, Goto, Respond,
         Deny, Decide
    <3>3. DOMAIN audit' = Flows /\ DOMAIN route' = Flows /\ DOMAIN subject' = Users
      BY <1>1, <2>2 DEF FlowStep, Start, FlowFailure, CalledAgain, Callback, FindBoundUser,
         FindUserByEmail, BindSubject, AuditAdmitted, AuditDenied, Breaks, Goto, Respond,
         Deny, Decide
    <3> QED BY <3>1, <3>2, <3>3 DEF sessionVars, rowVars
  <2> QED BY <2>1, <2>2
<1>2. CASE Bootstrap BY <1>2 DEF Bootstrap, rowVars, flowVars
<1>3. CASE SessionsNext /\ UNCHANGED <<flowVars, subject, pinned>>
  <2> USE <1>3 DEF flowVars
  <2>1. CASE Switch BY <2>1 DEF Switch, rowVars
  <2>2. ASSUME NEW q \in Requests, RequestDies(q) PROVE Shapes'
    BY <2>2 DEF RequestDies, rowVars
  <2>3. ASSUME NEW q \in Requests, Refresh(q) PROVE Shapes' BY <2>3 DEF Refresh
  <2>4. ASSUME NEW q \in Requests, NEW k \in Tokens, Resolve(q, k) PROVE Shapes'
    BY <2>4 DEF Resolve, rowVars
  <2>5. ASSUME NEW k \in Tokens, Revoke(k) PROVE Shapes' BY <2>5 DEF Revoke
  <2>6. CASE Cleanup BY <2>6 DEF Cleanup
  <2>7. CASE Tick BY <2>7 DEF Tick, rowVars
  <2> QED BY <2>1, <2>2, <2>3, <2>4, <2>5, <2>6, <2>7 DEF SessionsNext
<1>4. CASE UNCHANGED vars BY <1>4 DEF vars, sessionVars, rowVars, flowVars
<1> QED BY <1>1, <1>2, <1>3, <1>4 DEF Next
-----------------------------------------------------------------------------
(* Flows.                                                                  *)

\* First come, first bound.
LEMMA SubjectStays ==
  ASSUME Shapes, [Next]_vars, NEW u \in Users, subject[u] # None
  PROVE  subject'[u] = subject[u]
<1>1. ASSUME NEW f \in Flows, BindSubject(f) PROVE subject'[u] = subject[u]
  BY <1>1 DEF BindSubject, Shapes
<1>2. ASSUME NEW f \in Flows, FlowStep(f), ~BindSubject(f) PROVE UNCHANGED subject
  BY <1>2 DEF FlowStep, Start, FlowFailure, CalledAgain, Callback, FindBoundUser,
     FindUserByEmail, AuditAdmitted, Admit, AuditDenied, Breaks
<1>3. CASE Bootstrap BY <1>3 DEF Bootstrap
<1> QED BY <1>1, <1>2, <1>3 DEF Next, vars

\* The flow f alone moves; the others keep what FlowInv says of them.
FlowOk(f) ==
  /\ pc[f] \in Underway => identity[f].subject # None
  /\ pc[f] \in {"bind", "audit", "create"} =>
       who[f] \in Users /\ UserRealm[who[f]] = route[f].realm
  /\ pc[f] \in {"audit", "create"} => subject[who[f]] = identity[f].subject
  /\ pc[f] = "create" => audit[f] = "login"
  /\ f \in opened => pc[f] = "over" /\ audit[f] = "login"
  /\ f \in rows => /\ owner[f] \in Users /\ UserRealm[owner[f]] = route[f].realm
                   /\ identity[f].subject # None
                   /\ subject[owner[f]] = identity[f].subject

Aside(g) ==
  /\ pc'[g] = pc[g] /\ identity'[g] = identity[g] /\ who'[g] = who[g]
  /\ audit'[g] = audit[g] /\ route'[g] = route[g]
  /\ g \in opened' <=> g \in opened
  /\ g \in rows' => g \in rows /\ owner'[g] = owner[g]

LEMMA OthersOk ==
  ASSUME Shapes, [Next]_vars, NEW g \in Flows, FlowOk(g), Aside(g)
  PROVE  FlowOk(g)'
<1>1. \A u \in Users : subject[u] # None => subject'[u] = subject[u] BY SubjectStays
<1>2. pc[g] \in {"audit", "create"} => subject'[who[g]] = subject[who[g]]
  BY <1>1 DEF FlowOk, Underway
<1>3. g \in rows => subject'[owner[g]] = subject[owner[g]] BY <1>1 DEF FlowOk
<1> QED BY <1>2, <1>3 DEF FlowOk, Aside

\* A flow's own step leaves the other flows and their sessions alone.
LEMMA OthersAside ==
  ASSUME Shapes, NEW f \in Flows, FlowStep(f), NEW g \in Flows, g # f
  PROVE  Aside(g)
<1> USE DEF Aside, Shapes, Goto, Respond, Deny, Decide, sessionVars, rowVars
<1>1. CASE Start(f) BY <1>1 DEF Start
<1>2. CASE FlowFailure(f) BY <1>2 DEF FlowFailure
<1>3. CASE CalledAgain(f) BY <1>3 DEF CalledAgain
<1>4. CASE Callback(f) BY <1>4 DEF Callback
<1>5. CASE FindBoundUser(f) BY <1>5 DEF FindBoundUser
<1>6. CASE FindUserByEmail(f) BY <1>6 DEF FindUserByEmail
<1>7. CASE BindSubject(f) BY <1>7 DEF BindSubject
<1>8. CASE AuditAdmitted(f) BY <1>8 DEF AuditAdmitted
<1>9. CASE Admit(f) BY <1>9 DEF Admit, CreateSession
<1>10. CASE AuditDenied(f) BY <1>10 DEF AuditDenied
<1>11. CASE Breaks(f) BY <1>11 DEF Breaks
<1> QED BY <1>1, <1>2, <1>3, <1>4, <1>5, <1>6, <1>7, <1>8, <1>9, <1>10, <1>11 DEF FlowStep

\* A check that fails yields a reason.
LEMMA FirstFailingFails ==
  ASSUME NEW a, NEW b, NEW c, NEW d, b.fails \/ c.fails,
         \A x \in {a, b, c, d} : x.reason # None
  PROVE  FirstFailing(<<a, b, c, d>>) # None
<1> DEFINE checks == <<a, b, c, d>>
           failing == {i \in DOMAIN checks : checks[i].fails}
<1>1. DOMAIN checks = 1 .. 4 /\ \A i \in 1 .. 4 : checks[i] \in {a, b, c, d}
  <2>1. checks[1] = a /\ checks[2] = b /\ checks[3] = c /\ checks[4] = d OBVIOUS
  <2> QED BY <2>1
<1>2. failing # {} /\ failing \subseteq 1 .. 4
  <2>1. checks[2] = b /\ checks[3] = c OBVIOUS
  <2>2. 2 \in failing \/ 3 \in failing BY <2>1, <1>1
  <2> QED BY <2>2, <1>1
<1> HIDE DEF failing
<1>3. \E i \in failing : \A j \in failing : i <= j
  <2>1. CASE 1 \in failing BY <1>2, <2>1
  <2>2. CASE 1 \notin failing /\ 2 \in failing BY <1>2, <2>2
  <2>3. CASE failing \cap {1, 2} = {} /\ 3 \in failing
    <3>1. \A j \in failing : j \in {3, 4} BY <1>2, <2>3
    <3> QED BY <2>3, <3>1
  <2>4. CASE failing \cap {1, 2, 3} = {}
    <3>1. \A j \in failing : j = 4 BY <1>2, <2>4
    <3>2. PICK i \in failing : TRUE BY <1>2
    <3>3. \A j \in failing : 4 <= j BY <3>1
    <3>4. 4 \in failing BY <3>1, <3>2
    <3> QED BY <3>3, <3>4
  <2> QED BY <1>2, <2>1, <2>2, <2>3, <2>4
<1>4. Min(failing) \in failing BY <1>3 DEF Min
<1>5. checks[Min(failing)].reason # None BY <1>1, <1>2, <1>4
<1> QED BY <1>2, <1>5 DEF FirstFailing, failing

\* Claims without a subject are denied.
LEMMA ClaimsHaveSubject ==
  ASSUME NEW provider, NEW raw, ClaimDenial(provider, raw) = None
  PROVE  Identity(raw).subject # None
<1> SUFFICES ASSUME raw.subject = None PROVE FALSE BY DEF Identity
<1> DEFINE nonce == Check(~raw.nonce, "NONCE_MISMATCH")
           namespace == Check(raw.namespace = None, "MISSING_NAMESPACE")
           person == Check(raw.subject = None, "MISSING_SUBJECT")
           issuer == Check(~raw.issuer, "ISSUER_MISMATCH")
<1>1. \A c \in {nonce, namespace, person, issuer} : c.reason # None
  <2>2. /\ nonce.reason = "NONCE_MISMATCH" /\ namespace.reason = "MISSING_NAMESPACE"
        /\ person.reason = "MISSING_SUBJECT" /\ issuer.reason = "ISSUER_MISMATCH"
    BY DEF Check
  <2>3. \A reason \in ClaimDenyReason : reason # None
    BY LoginAssumption DEF LoginDenyReason
  <2> HIDE DEF nonce, namespace, person, issuer
  <2> QED BY <2>2, <2>3 DEF ClaimDenyReason
<1>2. person.fails BY DEF Check
<1> HIDE DEF nonce, namespace, person, issuer
<1>3. FirstFailing(<<nonce, namespace, person, issuer>>) # None
  BY <1>1, <1>2, FirstFailingFails
<1>4. FirstFailing(<<nonce, person, namespace, issuer>>) # None
  BY <1>1, <1>2, FirstFailingFails
<1> QED BY <1>3, <1>4 DEF ClaimDenial, nonce, namespace, person, issuer

LEMMA FlowStepOk ==
  ASSUME Shapes, UseInv, NEW f \in Flows, FlowOk(f), FlowStep(f)
  PROVE  FlowOk(f)'
<1> USE DEF FlowOk, Underway, Shapes, Goto, Respond, Deny, Decide, sessionVars, rowVars
<1>1. CASE Start(f) BY <1>1 DEF Start
<1>2. CASE FlowFailure(f) BY <1>2 DEF FlowFailure
<1>3. CASE CalledAgain(f) BY <1>3 DEF CalledAgain
<1>4. CASE Callback(f)
  <2>1. PICK raw \in RawClaims[route[f].provider] :
          LET denial == ClaimDenial(route[f].provider, raw)
          IN IF denial # None
             THEN Deny(f, denial)
             ELSE /\ Goto(f, "find")
                  /\ identity' = [identity EXCEPT ![f] = Identity(raw)]
                  /\ UNCHANGED <<who, why>>
    BY <1>4 DEF Callback
  <2>2. CASE ClaimDenial(route[f].provider, raw) # None
    BY <1>4, <2>1, <2>2 DEF Callback
  <2>3. CASE ClaimDenial(route[f].provider, raw) = None
    <3>1. Identity(raw).subject # None BY <2>3, ClaimsHaveSubject
    <3> QED BY <1>4, <2>1, <2>3, <3>1 DEF Callback
  <2> QED BY <2>2, <2>3
<1>5. CASE FindBoundUser(f)
  <2>1. \A u \in Bound(f) : /\ u \in Users /\ UserRealm[u] = route[f].realm
                            /\ subject[u] = identity[f].subject
    BY DEF Bound
  <2> QED BY <1>5, <2>1 DEF FindBoundUser
<1>6. CASE FindUserByEmail(f)
  <2>1. \A u \in ByEmail(f) : u \in Users /\ UserRealm[u] = route[f].realm BY DEF ByEmail
  <2> QED BY <1>6, <2>1 DEF FindUserByEmail
<1>7. CASE BindSubject(f) BY <1>7 DEF BindSubject
<1>8. CASE AuditAdmitted(f) BY <1>8 DEF AuditAdmitted
<1>9. CASE Admit(f) BY <1>9 DEF Admit, CreateSession, Flows
<1>10. CASE AuditDenied(f) BY <1>10 DEF AuditDenied
<1>11. CASE Breaks(f) BY <1>11 DEF Breaks
<1> QED BY <1>1, <1>2, <1>3, <1>4, <1>5, <1>6, <1>7, <1>8, <1>9, <1>10, <1>11 DEF FlowStep
LEMMA FlowStepInv ==
  ASSUME IInv, [Next]_vars
  PROVE  FlowInv'
<1> USE DEF IInv
<1>1. \A g \in Flows : FlowOk(g) BY DEF FlowInv, FlowOk
<1>2. ASSUME NEW g \in Flows PROVE FlowOk(g)'
  <2>1. FlowOk(g) BY <1>1
  <2>2. ASSUME NEW f \in Flows, FlowStep(f) PROVE FlowOk(g)'
    <3>1. CASE f = g BY <2>1, <2>2, <3>1, FlowStepOk
    <3>2. CASE f # g
      <4>1. Aside(g) BY <2>2, <3>2, OthersAside
      <4> QED BY <2>1, <4>1, OthersOk
    <3> QED BY <3>1, <3>2
  <2>3. ASSUME \/ Bootstrap
               \/ SessionsNext /\ UNCHANGED <<flowVars, subject, pinned>>
               \/ UNCHANGED vars
        PROVE  FlowOk(g)'
    <3>1. UNCHANGED flowVars BY <2>3 DEF Bootstrap, vars
    <3>2. opened' = opened /\ (g \in rows' => g \in rows /\ owner'[g] = owner[g])
      <4>1. CASE Bootstrap BY <4>1 DEF Bootstrap, rowVars
      <4>2. CASE Cleanup BY <4>2 DEF Cleanup, Flows
      <4>3. CASE UNCHANGED vars BY <4>3 DEF vars, sessionVars, rowVars
      <4>4. CASE SessionsNext /\ ~Cleanup
        BY <4>4 DEF SessionsNext, Refresh, RequestDies, Resolve, Revoke, Switch, Tick, rowVars
      <4> QED BY <2>3, <4>1, <4>2, <4>3, <4>4
    <3>3. Aside(g) BY <3>1, <3>2 DEF Aside, flowVars
    <3> QED BY <2>1, <3>3, OthersOk
  <2> QED BY <2>2, <2>3 DEF Next
<1> QED BY <1>2 DEF FlowInv, FlowOk

LEMMA InitInv ==
  ASSUME Init
  PROVE  IInv
<1> USE SessionsAssumption, LoginAssumption DEF Init, SessionsInit
<1>1. Shapes BY DEF Shapes, Flows
<1>2. UseInv BY DEF UseInv
<1>3. FlowInv BY DEF FlowInv, Underway, Flows
<1> QED BY <1>1, <1>2, <1>3 DEF IInv

\* The inductive invariant, of every behaviour.
THEOREM Inductive == Spec => []IInv
<1>1. Init => IInv BY InitInv
<1>2. IInv /\ [Next]_vars => IInv'
  BY ShapesStep, UseStep, FlowStepInv DEF IInv
<1> QED BY <1>1, <1>2, PTL DEF Spec
-----------------------------------------------------------------------------
(* What follows.                                                           *)

\* A session belongs to the row bound to the person who signed in, in the realm
\* that person signed in to.
THEOREM SessionsOwned == Spec => []SessionOwner
<1>1. IInv => SessionOwner BY DEF IInv, FlowInv, Shapes, SessionOwner, Flows
<1> QED BY <1>1, Inductive, PTL

\* No session without its audit row, none for a flow that was denied.
THEOREM AdmissionAudited == Spec => []AuditedAdmission
<1>1. IInv => AuditedAdmission BY DEF IInv, FlowInv, AuditedAdmission
<1> QED BY <1>1, Inductive, PTL

\* The first binding of a user stands.
THEOREM BindingStands == Spec => BoundForGood
<1>1. IInv /\ [Next]_vars => [\A u \in Users : subject[u] # None => subject'[u] = subject[u]]_vars
  BY SubjectStays DEF IInv
<1> QED BY <1>1, Inductive, PTL DEF BoundForGood, Spec

\* What the cleanup removes was of no use for the whole retention window.
LEMMA StaleWasUnused ==
  ASSUME IInv, NEW k \in rows, Stale(k), used[k] # None
  PROVE  used[k] < clock - Retention
<1>1. k \in Tokens /\ UsedInTime(k) BY DEF IInv, Shapes, UseInv
<1>2. /\ clock \in Nat /\ created[k] \in Nat /\ seen[k] \in Nat /\ used[k] \in Nat
      /\ revoked[k] # None => revoked[k] \in Nat
  BY <1>1 DEF IInv, Shapes
<1>3. Retention \in Nat /\ IdleHours \in Nat /\ MaxHours \in Nat BY SessionsAssumption
<1> QED BY <1>1, <1>2, <1>3 DEF Stale, UsedInTime

LEMMA RowsRemoved ==
  ASSUME IInv, [Next]_vars, NEW k \in rows \ rows'
  PROVE  Stale(k)
<1>1. ASSUME NEW f \in Flows, FlowStep(f) PROVE rows \subseteq rows'
  BY <1>1 DEF FlowStep, Start, FlowFailure, CalledAgain, Callback, FindBoundUser,
     FindUserByEmail, BindSubject, AuditAdmitted, Admit, AuditDenied, Breaks, CreateSession,
     sessionVars, rowVars
<1>2. CASE Bootstrap BY <1>2 DEF Bootstrap, rowVars
<1>3. CASE Cleanup BY <1>3, CleanupUse DEF IInv
<1>4. CASE SessionsNext /\ ~Cleanup
  BY <1>4 DEF SessionsNext, Refresh, RequestDies, Resolve, Revoke, Switch, Tick, rowVars
<1> QED BY <1>1, <1>2, <1>3, <1>4 DEF Next, vars, sessionVars, rowVars

\* The cleanup removes no session that answered a request within the retention
\* window, whatever refreshes come late (runSessionCleanup).
THEOREM EvidenceIsKept == Spec => EvidenceKept
<1>1. IInv /\ [Next]_vars =>
        [\A k \in rows \ rows' : used[k] # None => used[k] < clock - Retention]_sessionVars
  BY RowsRemoved, StaleWasUnused
<1> QED BY <1>1, Inductive, PTL DEF EvidenceKept, Spec
-----------------------------------------------------------------------------
(* The sessions keep the promise of SessionLife: every step of the two      *)
(* stores is a step of it or leaves it alone.                               *)

Late(k) == \E q \in Requests : reading[q] = k

\* What a step may do to the row of k.
RowStep(k) ==
  /\ k \in opened => k \in opened'
  /\ k \in opened' \ opened => /\ k \in rows' /\ revoked'[k] = None /\ clock' = clock
                               /\ created'[k] = clock /\ seen'[k] = clock
  /\ k \in opened \ rows => k \notin rows'
  /\ k \in rows \cap rows' => /\ created'[k] = created[k]
                              /\ revoked[k] # None => revoked'[k] # None
                              /\ seen'[k] = seen[k] \/ Late(k)
  /\ clock' \in {clock, clock + 1}
  /\ used'[k] # used[k] => \E q \in Requests : Resolve(q, k)
  /\ Late(k)' => Late(k) \/ \E q \in Requests : Resolve(q, k)

LEMMA RowStepUnchanged ==
  ASSUME NEW k \in Tokens, Shapes,
         UNCHANGED <<clock, rowVars, opened, used, reading>>
  PROVE  RowStep(k)
BY DEF RowStep, rowVars, Shapes, Late

LEMMA RowSteps ==
  ASSUME IInv, [Next]_vars, NEW k \in Tokens
  PROVE  RowStep(k)
<1> USE DEF IInv, Shapes
<1>1. ASSUME NEW f \in Flows, FlowStep(f) PROVE RowStep(k)
  <2>1. CASE Admit(f)
    <3>1. CreateSession(f, who[f]) BY <2>1 DEF Admit
    <3>2. revoked[k] = None \/ k \in opened BY DEF UseInv
    <3> QED BY <3>1, <3>2 DEF CreateSession, RowStep, Late, Flows
  <2>2. CASE ~Admit(f)
    <3>1. UNCHANGED sessionVars
      BY <1>1, <2>2 DEF FlowStep, Start, FlowFailure, CalledAgain, Callback, FindBoundUser,
         FindUserByEmail, BindSubject, AuditAdmitted, AuditDenied, Breaks
    <3> QED BY <3>1, RowStepUnchanged DEF sessionVars
  <2> QED BY <2>1, <2>2
<1>2. CASE Bootstrap BY <1>2, RowStepUnchanged DEF Bootstrap
<1>3. CASE UNCHANGED vars BY <1>3, RowStepUnchanged DEF vars, sessionVars
<1>4. CASE SessionsNext
  <2>1. CASE Switch BY <2>1, RowStepUnchanged DEF Switch
  <2>2. ASSUME NEW q \in Requests, RequestDies(q) PROVE RowStep(k)
    <3>1. Late(k)' => Late(k) BY <2>2, SessionsAssumption DEF RequestDies, Late
    <3> QED BY <2>2, <3>1 DEF RequestDies, rowVars, RowStep
  <2>3. ASSUME NEW q \in Requests, Refresh(q) PROVE RowStep(k)
    <3>1. Late(k)' => Late(k) BY <2>3, SessionsAssumption DEF Refresh, Late
    <3>2. k \in rows => seen'[k] = seen[k] \/ Late(k) BY <2>3 DEF Refresh, Late
    <3> QED BY <2>3, <3>1, <3>2 DEF Refresh, RowStep
  <2>4. ASSUME NEW q \in Requests, NEW j \in Tokens, Resolve(q, j) PROVE RowStep(k)
    <3>1. CASE j = k BY <2>4, <3>1 DEF Resolve, rowVars, RowStep
    <3>2. CASE j # k
      <4>1. used'[k] = used[k] BY <2>4, <3>2 DEF Resolve
      <4>2. Late(k)' => Late(k) BY <2>4, <3>2 DEF Resolve, Late
      <4> QED BY <2>4, <4>1, <4>2 DEF Resolve, rowVars, RowStep
    <3> QED BY <3>1, <3>2
  <2>5. ASSUME NEW j \in Tokens, Revoke(j) PROVE RowStep(k)
    <3>1. clock # None BY SessionsAssumption
    <3> QED BY <2>5, <3>1 DEF Revoke, RowStep, Late
  <2>6. CASE Cleanup BY <2>6 DEF Cleanup, RowStep, Late
  <2>7. CASE Tick BY <2>7 DEF Tick, rowVars, RowStep, Late
  <2> QED BY <1>4, <2>1, <2>2, <2>3, <2>4, <2>5, <2>6, <2>7 DEF SessionsNext
<1> QED BY <1>1, <1>2, <1>3, <1>4 DEF Next

\* A request is answered only with a session that lives.
LEMMA AnsweredLives ==
  ASSUME IInv, NEW k \in Tokens, NEW q \in Requests, Resolve(q, k)
  PROVE  Life(k) = "live" /\ Life(k)' = "live"
<1>1. /\ k \in rows /\ k \in opened /\ revoked[k] = None
      /\ clock < created[k] + MaxHours /\ clock < seen[k] + IdleHours
      /\ UNCHANGED <<clock, rows, opened, created, seen, revoked>>
  BY DEF Resolve, SessionValidity, IInv, Shapes, rowVars
<1>2. clock \in Nat /\ created[k] \in Nat /\ seen[k] \in Nat /\ MaxHours \in Nat /\ IdleHours \in Nat
  BY SessionsAssumption DEF IInv, Shapes
<1> QED BY <1>1, <1>2 DEF Life

LEMMA LifeSteps ==
  ASSUME IInv, IInv', NEW k \in Tokens, RowStep(k)
  PROVE  \/ Life(k)' = Life(k)
         \/ Life(k) = "none" /\ Life(k)' = "live"
         \/ Life(k) = "live" /\ Life(k)' \in {"asleep", "over"}
         \/ Life(k) = "asleep" /\ Life(k)' = "over"
         \/ Life(k) = "asleep" /\ Life(k)' = "live" /\ Late(k)
<1> USE SessionsAssumption DEF IInv, Shapes, Life, RowStep
<1>1. CASE k \notin opened BY <1>1
<1>2. CASE k \in opened \ rows BY <1>2
<1>3. CASE k \in rows \ rows' BY <1>3
<1>4. CASE k \in rows \cap rows'
  <2>1. /\ clock \in Nat /\ clock' \in Nat /\ clock <= clock' /\ created[k] \in Nat
        /\ seen[k] \in Nat /\ seen'[k] \in Nat /\ created'[k] = created[k]
        /\ k \in opened /\ k \in opened' /\ MaxHours \in Nat /\ IdleHours \in Nat
    BY <1>4
  <2>2. CASE revoked[k] # None \/ clock >= created[k] + MaxHours BY <1>4, <2>1, <2>2
  <2>3. CASE ~(revoked[k] # None \/ clock >= created[k] + MaxHours)
    <3>1. clock >= seen[k] + IdleHours /\ ~(clock' >= seen'[k] + IdleHours) => Late(k)
      BY <1>4, <2>1
    <3> QED BY <1>4, <2>1, <2>3, <3>1
  <2> QED BY <2>2, <2>3
<1> QED BY <1>1, <1>2, <1>3, <1>4

LEMMA PromiseStep ==
  ASSUME IInv, IInv', [Next]_vars
  PROVE  Promise!LifeNext
<1>1. [k \in Tokens |-> Life(k)]' \in [Tokens -> {"none", "live", "asleep", "over"}]
  BY DEF Life
<1>2. {k \in Tokens : \E q \in Requests : reading[q] = k}' \subseteq Tokens OBVIOUS
<1>3. used' \in [Tokens -> (0 .. MaxTime) \cup {None}] BY DEF IInv, Shapes
<1>4. ASSUME NEW k \in Tokens
      PROVE  /\ Promise!Lives(k)
             /\ used'[k] # used[k] => Promise!Answered(k)
             /\ Late(k)' /\ ~Late(k) => Promise!Answered(k)
  <2>1. RowStep(k) BY RowSteps
  <2>2. Promise!Lives(k) BY <2>1, LifeSteps DEF Promise!Lives, Late
  <2>3. (\E q \in Requests : Resolve(q, k)) => Promise!Answered(k)
    BY AnsweredLives DEF Promise!Answered
  <2> QED BY <2>1, <2>2, <2>3 DEF RowStep
<1> QED BY <1>1, <1>2, <1>3, <1>4 DEF Promise!LifeNext, Late

\* The two stores, the throttled refresh and the cleanup implement SessionLife.
THEOREM PromiseKept == Spec => KeepsPromise
<1>1. Init => Promise!LifeInit
  BY SessionsAssumption DEF Init, SessionsInit, Promise!LifeInit, Life
<1>2. IInv /\ IInv' /\ [Next]_vars => [Promise!LifeNext]_(Promise!lifeVars) BY PromiseStep
<1> QED BY <1>1, <1>2, Inductive, PTL DEF KeepsPromise, Spec, Promise!LifeSpec
-----------------------------------------------------------------------------
(* Types, and that no two rows have the same identity.                     *)

\* The least element, which is what induction comes down to.
LEMMA NatHasLeast ==
  ASSUME NEW S, S \subseteq Nat, S # {}
  PROVE  \E m \in S : \A n \in S : m <= n
<1> DEFINE R == {ss \in Nat \X Nat : ss[1] < ss[2]}
<1>1. IsWellFoundedOn(R, Nat) BY NatLessThanWellFounded DEF OpToRel
<1> HIDE DEF R
<1>2. PICK m \in S : \A n \in S : <<n, m>> \notin R BY <1>1, WFMin
<1>3. \A n \in S : ~(n < m) BY <1>2 DEF R
<1> QED BY <1>3

\* Whatever checks there are, their outcome is one of their reasons or none.
Checks == [fails : BOOLEAN, reason : LoginDenyReason]

LEMMA CheckType ==
  ASSUME NEW fails \in BOOLEAN, NEW reason \in LoginDenyReason
  PROVE  Check(fails, reason) \in Checks
BY DEF Check, Checks

LEMMA FirstFailingType ==
  ASSUME NEW checks \in Seq(Checks)
  PROVE  FirstFailing(checks) \in LoginDenyReason \cup {None}
<1> DEFINE failing == {i \in DOMAIN checks : checks[i].fails}
<1>1. DOMAIN checks \subseteq Nat /\ \A i \in DOMAIN checks : checks[i].reason \in LoginDenyReason
  <2>1. \A c \in Checks : c.reason \in LoginDenyReason BY DEF Checks
  <2> QED BY <2>1
<1>2. CASE failing = {} BY <1>2 DEF FirstFailing
<1>3. CASE failing # {}
  <2>1. failing \subseteq DOMAIN checks OBVIOUS
  <2> HIDE DEF failing
  <2>2. \E i \in failing : \A j \in failing : i <= j BY <1>1, <1>3, <2>1, NatHasLeast
  <2>3. Min(failing) \in failing BY <2>2 DEF Min
  <2>4. FirstFailing(checks) = checks[Min(failing)].reason
    BY <1>3 DEF FirstFailing, failing
  <2> QED BY <1>1, <2>1, <2>3, <2>4
<1> QED BY <1>2, <1>3

LEMMA ClaimDenialType ==
  ASSUME NEW provider, NEW raw
  PROVE  ClaimDenial(provider, raw) \in LoginDenyReason \cup {None}
<1> DEFINE nonce == Check(~raw.nonce, "NONCE_MISMATCH")
           namespace == Check(raw.namespace = None, "MISSING_NAMESPACE")
           person == Check(raw.subject = None, "MISSING_SUBJECT")
           issuer == Check(~raw.issuer, "ISSUER_MISMATCH")
<1>1. /\ nonce \in Checks /\ namespace \in Checks /\ person \in Checks /\ issuer \in Checks
  BY CheckType DEF LoginDenyReason, ClaimDenyReason
<1> HIDE DEF nonce, namespace, person, issuer
<1>2. /\ <<nonce, namespace, person, issuer>> \in Seq(Checks)
      /\ <<nonce, person, namespace, issuer>> \in Seq(Checks)
  BY <1>1
<1> QED BY <1>2, FirstFailingType DEF ClaimDenial, nonce, namespace, person, issuer

LEMMA InactiveChecksType ==
  ASSUME NEW u
  PROVE  InactiveChecks(u) \in Seq(Checks)
<1> DEFINE a == Check(u \notin activeUsers, "USER_INACTIVE")
           b == Check(~ActiveAccount(u), "ACCOUNT_INACTIVE")
<1>1. a \in Checks /\ b \in Checks BY CheckType DEF LoginDenyReason
<1> HIDE DEF a, b
<1>2. <<a, b>> \in Seq(Checks) BY <1>1
<1> QED BY <1>2 DEF InactiveChecks, a, b

LEMMA EmailChecksType ==
  ASSUME NEW f, NEW u
  PROVE  EmailChecks(f, u) \in Seq(Checks)
<1> DEFINE a == Check(subject[u] # None, "EMAIL_ALREADY_BOUND")
           b == Check(UserProvider[u] # route[f].provider, "PROVIDER_MISMATCH")
           c == Check(pinned[u] = None, "NAMESPACE_NOT_CAPTURED")
           d == Check(pinned[u] # identity[f].namespace, "NAMESPACE_MISMATCH")
           e == Check(~EmailTrustedForBootstrap(route[f].provider, identity[f].verified),
                      "EMAIL_NOT_VERIFIED")
<1>1. a \in Checks /\ b \in Checks /\ c \in Checks /\ d \in Checks /\ e \in Checks
  BY CheckType DEF LoginDenyReason
<1> HIDE DEF a, b, c, d, e
<1>2. <<a, b, c, d, e>> \in Seq(Checks) BY <1>1
<1>3. <<a, b, c, d, e>> \o InactiveChecks(u) \in Seq(Checks) BY <1>2, InactiveChecksType
<1> QED BY <1>3 DEF EmailChecks, a, b, c, d, e

\* The types Shapes does not say, and who the person of an identity is.
Types ==
  /\ changes \in 0 .. MaxChanges
  /\ activeUsers \subseteq Users /\ activeAccounts \subseteq Accounts
  /\ owner \in [Tokens -> Users \cup {None}]
  /\ cookie \in Flows \cup {None}
  /\ route \in [Flows -> Routes \cup {None}]
  /\ who \in [Flows -> Users \cup {None}]
  /\ why \in [Flows -> LoginDenyReason \cup {None}]
  /\ audit \in [Flows -> LoginDenyReason \cup {"login", None}]
  /\ subject \in [Users -> People \cup {None}]
  /\ pinned \in [Users -> Namespaces \cup {None}]
  /\ \A f \in Flows : /\ pc[f] = "away" => route[f] \in Routes
                      /\ pc[f] \in Underway => identity[f].subject \in People

SameIdentity(u, v) ==
  /\ subject[u] # None /\ subject[u] = subject[v] /\ pinned[u] = pinned[v]
  /\ UserRealm[u] = UserRealm[v] /\ UserProvider[u] = UserProvider[v]
OneRow == \A u, v \in Users : SameIdentity(u, v) => u = v

LEMMA InitTypes ==
  ASSUME Init
  PROVE  Types /\ OneRow
BY SessionsAssumption, LoginAssumption
   DEF Init, SessionsInit, Types, OneRow, SameIdentity, Underway, Flows

\* A flow's step, for the rows of the users.
LEMMA BindTypes ==
  ASSUME IInv, Types, OneRow, NEW f \in Flows, BindSubject(f)
  PROVE  subject' \in [Users -> People \cup {None}] /\ OneRow'
<1>1. /\ who[f] \in Users /\ identity[f].subject \in People /\ UNCHANGED pinned
  BY DEF BindSubject, IInv, FlowInv, Types, Underway
<1>2. CASE UNCHANGED subject BY <1>1, <1>2 DEF Types, OneRow, SameIdentity
<1>3. CASE /\ subject[who[f]] = None /\ ~Taken(who[f], pinned[who[f]], identity[f].subject)
           /\ subject' = [subject EXCEPT ![who[f]] = identity[f].subject]
  <2>1. subject' \in [Users -> People \cup {None}] BY <1>1, <1>3 DEF Types
  <2>2. ASSUME NEW u \in Users, NEW v \in Users, SameIdentity(u, v)', u # v PROVE FALSE
    <3>1. CASE who[f] \notin {u, v}
      BY <1>1, <1>3, <2>2, <3>1 DEF Types, OneRow, SameIdentity
    <3>2. CASE who[f] = u BY <1>1, <1>3, <2>2, <3>2 DEF Types, SameIdentity, Taken
    <3>3. CASE who[f] = v BY <1>1, <1>3, <2>2, <3>3 DEF Types, SameIdentity, Taken
    <3> QED BY <3>1, <3>2, <3>3
  <2> QED BY <2>1, <2>2 DEF OneRow
<1> QED BY <1>2, <1>3 DEF BindSubject

\* A flow's step, for its own columns.
LEMMA FlowTypes ==
  ASSUME IInv, Types, NEW f \in Flows, FlowStep(f)
  PROVE  /\ cookie' \in Flows \cup {None}
         /\ route' \in [Flows -> Routes \cup {None}]
         /\ who' \in [Flows -> Users \cup {None}]
         /\ why' \in [Flows -> LoginDenyReason \cup {None}]
         /\ audit' \in [Flows -> LoginDenyReason \cup {"login", None}]
         /\ \A g \in Flows : /\ pc'[g] = "away" => route'[g] \in Routes
                             /\ pc'[g] \in Underway => identity'[g].subject \in People
<1> USE DEF Types, IInv, Shapes, Underway, Goto, Respond, Deny, Decide
<1>1. CASE Start(f) BY <1>1 DEF Start
<1>2. CASE FlowFailure(f) BY <1>2 DEF FlowFailure
<1>3. CASE CalledAgain(f) BY <1>3 DEF CalledAgain
<1>4. CASE Callback(f)
  <2>1. PICK raw \in RawClaims[route[f].provider] :
          LET denial == ClaimDenial(route[f].provider, raw)
          IN IF denial # None
             THEN Deny(f, denial)
             ELSE /\ Goto(f, "find")
                  /\ identity' = [identity EXCEPT ![f] = Identity(raw)]
                  /\ UNCHANGED <<who, why>>
    BY <1>4 DEF Callback
  <2>2. CASE ClaimDenial(route[f].provider, raw) # None
    <3>1. ClaimDenial(route[f].provider, raw) \in LoginDenyReason \cup {None}
      BY ClaimDenialType
    <3> QED BY <1>4, <2>1, <2>2, <3>1 DEF Callback
  <2>3. CASE ClaimDenial(route[f].provider, raw) = None
    <3>1. route[f] \in Routes BY <1>4 DEF Callback
    <3>2. raw.subject \in People \cup {None} BY <2>1, <3>1, LoginAssumption
    <3>3. Identity(raw).subject \in People BY <2>3, <3>2, ClaimsHaveSubject DEF Identity
    <3> QED BY <1>4, <2>1, <2>3, <3>3 DEF Callback
  <2> QED BY <2>2, <2>3
<1>5. CASE FindBoundUser(f)
  <2>1. \A u \in Bound(f) : /\ u \in Users
                            /\ FirstFailing(InactiveChecks(u)) \in LoginDenyReason \cup {None}
    BY InactiveChecksType, FirstFailingType DEF Bound
  <2>2. "NO_EMAIL_CLAIM" \in LoginDenyReason BY DEF LoginDenyReason
  <2> QED BY <1>5, <2>1, <2>2 DEF FindBoundUser
<1>6. CASE FindUserByEmail(f)
  <2>1. \A u \in ByEmail(f) : /\ u \in Users
                              /\ FirstFailing(EmailChecks(f, u)) \in LoginDenyReason \cup {None}
    BY EmailChecksType, FirstFailingType DEF ByEmail
  <2>2. "NOT_PROVISIONED" \in LoginDenyReason BY DEF LoginDenyReason
  <2> QED BY <1>6, <2>1, <2>2 DEF FindUserByEmail
<1>7. CASE BindSubject(f)
  <2>1. "EMAIL_ALREADY_BOUND" \in LoginDenyReason BY DEF LoginDenyReason
  <2>2. who[f] \in Users BY <1>7 DEF BindSubject, FlowInv
  <2> QED BY <1>7, <2>1, <2>2 DEF BindSubject
<1>8. CASE AuditAdmitted(f) BY <1>8 DEF AuditAdmitted
<1>9. CASE Admit(f) BY <1>9 DEF Admit
<1>10. CASE AuditDenied(f) BY <1>10 DEF AuditDenied
<1>11. CASE Breaks(f) BY <1>11 DEF Breaks
<1> QED BY <1>1, <1>2, <1>3, <1>4, <1>5, <1>6, <1>7, <1>8, <1>9, <1>10, <1>11 DEF FlowStep

\* Every step, for the types.
LEMMA TypesStep ==
  ASSUME IInv, Types, OneRow, [Next]_vars
  PROVE  Types' /\ OneRow'
<1>1. ASSUME NEW f \in Flows, FlowStep(f) PROVE Types' /\ OneRow'
  <2>1. UNCHANGED <<changes, activeUsers, activeAccounts, pinned>>
    BY <1>1 DEF FlowStep, Start, FlowFailure, CalledAgain, Callback, FindBoundUser,
       FindUserByEmail, BindSubject, AuditAdmitted, Admit, CreateSession, AuditDenied, Breaks,
       sessionVars
  <2>2. subject' \in [Users -> People \cup {None}] /\ OneRow'
    <3>1. CASE BindSubject(f) BY <3>1, BindTypes
    <3>2. CASE ~BindSubject(f)
      <4>1. UNCHANGED subject
        BY <1>1, <3>2 DEF FlowStep, Start, FlowFailure, CalledAgain, Callback, FindBoundUser,
           FindUserByEmail, AuditAdmitted, Admit, AuditDenied, Breaks
      <4> QED BY <2>1, <4>1 DEF Types, OneRow, SameIdentity
    <3> QED BY <3>1, <3>2
  <2>3. owner' \in [Tokens -> Users \cup {None}]
    <3>1. CASE Admit(f)
      <4>1. who[f] \in Users BY <3>1 DEF Admit, IInv, FlowInv
      <4> QED BY <3>1, <4>1 DEF Admit, CreateSession, Types
    <3>2. CASE ~Admit(f)
      <4>1. UNCHANGED owner
        BY <1>1, <3>2 DEF FlowStep, Start, FlowFailure, CalledAgain, Callback, FindBoundUser,
           FindUserByEmail, BindSubject, AuditAdmitted, AuditDenied, Breaks, sessionVars, rowVars
      <4> QED BY <4>1 DEF Types
    <3> QED BY <3>1, <3>2
  <2> QED BY <1>1, <2>1, <2>2, <2>3, FlowTypes DEF Types
<1>2. CASE Bootstrap
  <2>1. PICK u \in Staff, n \in Namespaces :
          /\ subject[u] # None => ~Taken(u, n, subject[u])
          /\ pinned' = [pinned EXCEPT ![u] = n]
          /\ activeUsers' = activeUsers \cup {u}
    BY <1>2 DEF Bootstrap
  <2>2. u \in Users /\ UNCHANGED <<subject, activeAccounts, owner, flowVars>>
    BY <1>2 DEF Bootstrap, Staff, rowVars
  <2>3. ASSUME NEW v \in Users, NEW w \in Users, SameIdentity(v, w)', v # w PROVE FALSE
    <3>1. CASE u \notin {v, w} BY <2>1, <2>2, <2>3, <3>1 DEF Types, OneRow, SameIdentity
    <3>2. CASE u = v BY <2>1, <2>2, <2>3, <3>2 DEF Types, SameIdentity, Taken
    <3>3. CASE u = w BY <2>1, <2>2, <2>3, <3>3 DEF Types, SameIdentity, Taken
    <3> QED BY <3>1, <3>2, <3>3
  <2>4. changes' \in 0 .. MaxChanges BY <1>2, SessionsAssumption DEF Bootstrap, Types
  <2>5. pinned' \in [Users -> Namespaces \cup {None}] BY <2>1, <2>2 DEF Types
  <2>6. activeUsers' \subseteq Users BY <2>1, <2>2 DEF Types
  <2> QED BY <2>2, <2>3, <2>4, <2>5, <2>6 DEF Types, OneRow, flowVars
<1>3. CASE SessionsNext /\ UNCHANGED <<flowVars, subject, pinned>>
  <2>1. OneRow' BY <1>3 DEF OneRow, SameIdentity
  <2>2. CASE Switch
    <3>1. activeUsers' \subseteq Users /\ activeAccounts' \subseteq Accounts
      BY <2>2 DEF Switch, Types
    <3>2. changes' \in 0 .. MaxChanges BY <2>2, SessionsAssumption DEF Switch, Types
    <3> QED BY <1>3, <2>1, <2>2, <3>1, <3>2 DEF Switch, Types, flowVars, rowVars, Accounts
  <2>3. CASE Cleanup BY <1>3, <2>1, <2>3 DEF Cleanup, Types, flowVars
  <2>4. CASE ~Switch /\ ~Cleanup
    <3>1. UNCHANGED <<changes, activeUsers, activeAccounts, owner>>
      BY <1>3, <2>4 DEF SessionsNext, Refresh, RequestDies, Resolve, Revoke, Tick, rowVars
    <3> QED BY <1>3, <2>1, <3>1 DEF Types, flowVars
  <2> QED BY <2>2, <2>3, <2>4
<1>4. CASE UNCHANGED vars
  BY <1>4 DEF vars, sessionVars, rowVars, flowVars, Types, OneRow, SameIdentity
<1> QED BY <1>1, <1>2, <1>3, <1>4 DEF Next

\* Types, and that nobody is found twice: no binding, of any two flows in any
\* order, and no admin:bootstrap gives two rows of a realm one identity.
THEOREM TypeCorrect == Spec => []TypeOK
<1>1. Init => Types /\ OneRow BY InitTypes
<1>2. IInv /\ Types /\ OneRow /\ [Next]_vars => Types' /\ OneRow' BY TypesStep
<1>3. IInv /\ Types /\ OneRow => TypeOK
  BY DEF IInv, Shapes, Types, OneRow, SameIdentity, TypeOK
<1> QED BY <1>1, <1>2, <1>3, Inductive, PTL DEF Spec
==============================================================================
