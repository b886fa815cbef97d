---------------------------------- MODULE Sla ----------------------------------
(***************************************************************************)
(* The SLA engine (server/sla/sla.ts and server/sla/compute.ts) and what   *)
(* the two sync engines write that it depends on.  A run takes the time    *)
(* once, when it starts, reads the tickets in batches by id and handles    *)
(* each in a transaction of its own: the milestones are read fresh from    *)
(* the events, every other column is the copy read with the batch.         *)
(*                                                                         *)
(* The actions take the runner; Jobs says who the runners are, which of    *)
(* them exclude each other, and from which pool they get connections.      *)
(***************************************************************************)
EXTENDS Calendar

CONSTANTS
  Tickets,      \* naturals, in the order of their UUIDs
  CreatedAt,    \* ticket |-> created_at
  Origin,       \* ticket |-> [account, bu], null for a shared ticket
  Priorities,   \* priority_level
  FirstPriority, \* ticket |-> the priority it arrives with
  Policies,     \* the active sla_policies rows, with their calendars as stored
  Zone,         \* the offset from UTC of the zone the engines' processes run in
  Batch,        \* BATCH
  Runners,      \* the invocations and processes that run engines
  FirstTime,    \* where the clock starts
  MaxTime,      \* bound of the clock
  Delays,       \* how long before the clock a mail or a transition may lie
  Touched,      \* bound: the tickets the sync engines change
  Entered,      \* bound: the stages those tickets enter
  MaxFaults,    \* bound of failures and crashes
  MaxEvents,    \* bound of these and the changes the sync engines write together
  None          \* SQL NULL

\* The stages a ticket has a milestone for.
Milestones == {"BUSINESS_REVIEW", "CLOSED"}

ASSUME SlaAssumption ==
  /\ Tickets \subseteq Nat \ {0} /\ IsFiniteSet(Tickets)
  /\ CreatedAt \in [Tickets -> Nat]
  /\ Zone \in Int /\ -DayLen < Zone /\ Zone < DayLen
  /\ FirstPriority \in [Tickets -> Priorities]
  /\ FirstTime \in Nat /\ MaxTime \in Nat /\ FirstTime <= MaxTime
  /\ Delays \subseteq Nat /\ Touched \subseteq Tickets /\ Entered \subseteq Milestones
  /\ Batch \in Nat \ {0} /\ MaxFaults \in Nat /\ MaxEvents \in Nat
  /\ None \notin Nat
\* The CHECKs of sla_policies, and the columns calendars are read from.
ASSUME PoliciesTyped ==
  \A p \in Policies :
    /\ p.response \in Nat \ {0} /\ p.resolution \in Nat \ {0} /\ p.atRisk \in 1 .. 100
    /\ p.calendar # AllHours =>
         /\ p.calendar = [offset |-> p.calendar.offset, windows |-> p.calendar.windows,
                          holidays |-> p.calendar.holidays]
         /\ p.calendar.offset \in Int /\ p.calendar.holidays \subseteq Int
         /\ DOMAIN p.calendar.windows \subseteq Nat
         /\ \A i \in DOMAIN p.calendar.windows :
              p.calendar.windows[i].start \in Int /\ p.calendar.windows[i].end \in Int
\* The row order of loadPolicies, which has no ORDER BY, then never decides.
ASSUME PoliciesDistinct ==
  \A p, q \in Policies :
    p.account = q.account /\ p.bu = q.bu /\ p.priority = q.priority => p = q

VARIABLES
  (* PostgreSQL *)
  clock,
  events,      \* ticket |-> its internal_ticket_events, [stage, at]
  priority, acked,       \* ticket |-> columns the sync engines own
  milestones, sla,       \* ticket |-> columns this engine owns
  (* the runs, by runner *)
  pc,          \* "idle", "lock", "page", "begin", "commit", "close"
  step,        \* the engine it runs
  now,         \* the time the engine works with
  last,        \* lastId
  batch,       \* ticket |-> its row, for the rows not handled yet
  more,        \* the batch was full
  seen,        \* the milestones the open transaction has read
  status,      \* of the run
  mixed,       \* a run that no lock keeps apart was under way at the same time
  (* the environment *)
  changes,     \* changes written by the sync engines so far
  faults       \* failures and crashes so far

syncVars == <<events, priority, acked, changes>>
dbVars == <<syncVars, milestones, sla>>
loopVars == <<last, batch, more, seen, status>>
startVars == <<step, now, mixed>>
runVars == <<pc, loopVars, startVars>>
slaVars == <<clock, dbVars, runVars, faults>>

(* ------------------------------- sla.ts ------------------------------- *)

AtRiskMinutes(target, pct) == (target * pct) \div 100

\* A plausible mistake: the holidays are looked up under another key than they are
\* kept, and none are found.
BadLoaded(cal) == IF cal = AllHours THEN AllHours ELSE [cal EXCEPT !.holidays = {}]

\* loadCalendars: the driver makes a DATE the midnight of the process's zone, and
\* toISOString() takes the date that instant has in UTC.
Loaded(cal) ==
  IF cal = AllHours THEN AllHours
  ELSE [offset |-> cal.offset, windows |-> cal.windows,
        holidays |-> {(date * DayLen - Zone) \div DayLen : date \in cal.holidays}]

\* addBusinessMinutes of everything it is called with, tabulated.
Spans == UNION {{p.response, p.resolution, AtRiskMinutes(p.response, p.atRisk),
                 AtRiskMinutes(p.resolution, p.atRisk)} : p \in Policies}
Reached == [t \in Tickets |-> [m \in Spans |-> [cal \in {p.calendar : p \in Policies} |->
              AddBusinessMinutes(CreatedAt[t], m, Loaded(cal))]]]

\* A plausible mistake: whatever is closed counts as met.
BadDimension(t, target, pct, milestone, time, cal) ==
  LET due == Reached[t][target][cal]
  IN [due |-> due,
      state |-> IF milestone # None THEN "MET" ELSE IF time > due THEN "BREACHED" ELSE "PENDING"]

DimensionState(t, target, pct, milestone, time, cal) ==
  LET due == Reached[t][target][cal]
      atRisk == Reached[t][AtRiskMinutes(target, pct)][cal]
  IN [due |-> due,
      state |-> CASE milestone # None -> IF milestone <= due THEN "MET" ELSE "BREACHED"
                  [] milestone = None /\ time > due -> "BREACHED"
                  [] milestone = None /\ time <= due /\ time >= atRisk -> "AT_RISK"
                  [] OTHER -> "PENDING"]

NotApplicable == [due |-> None, state |-> "NOT_APPLICABLE"]

\* Most specific first: business unit, then account, then global.
Score(p) == (IF p.bu # None THEN 2 ELSE 0) + (IF p.account # None THEN 1 ELSE 0)

ResolvePolicy(origin, pri) ==
  LET applicable == {p \in Policies : /\ p.priority = pri
                                      /\ p.account \in {None, origin.account}
                                      /\ p.bu \in {None, origin.bu}}
  IN IF applicable = {} THEN None
     ELSE CHOOSE p \in applicable : \A q \in applicable : Score(q) <= Score(p)

\* Tabulated as well.
Resolved == [t \in Tickets |-> [pri \in Priorities |-> ResolvePolicy(Origin[t], pri)]]

ComputeSlaSnapshot(t, ackedAt, closedAt, time, p) ==
  IF p = None
  THEN [response |-> NotApplicable, resolution |-> NotApplicable, policy |-> None]
  ELSE [response |-> DimensionState(t, p.response, p.atRisk, ackedAt, time, p.calendar),
        resolution |-> DimensionState(t, p.resolution, p.atRisk, closedAt, time, p.calendar),
        policy |-> p]

(* ----------------------------- compute.ts ------------------------------ *)

\* A plausible mistake: the last event of a stage counts.
BadMilestones(t) ==
  [stage \in Milestones |->
     LET when == {e.at : e \in {x \in events[t] : x.stage = stage}}
     IN IF when = {} THEN None ELSE Max(when)]

DeriveMilestones(t) ==
  [stage \in Milestones |->
     LET when == {e.at : e \in {x \in events[t] : x.stage = stage}}
     IN IF when = {} THEN None ELSE Min(when)]

\* What processTicket computes from the copy x of a row and milestones m.
Snapshot(t, x, m, time) ==
  ComputeSlaSnapshot(t, x.acked, m["CLOSED"], time, Resolved[t][x.priority])

\* The row as a SELECT returns it.
Row(t) == [priority |-> priority[t], acked |-> acked[t],
           milestones |-> milestones[t], sla |-> sla[t]]

NoMilestones == [stage \in Milestones |-> None]
NoBatch == [t \in {} |-> None]

SlaInit ==
  /\ clock = FirstTime
  /\ events = [t \in Tickets |-> {}]
  /\ priority = FirstPriority
  /\ acked = [t \in Tickets |-> None]
  /\ milestones = [t \in Tickets |-> NoMilestones]
  /\ sla = [t \in Tickets |-> [response |-> NotApplicable, resolution |-> NotApplicable,
                               policy |-> None]]
  /\ pc = [r \in Runners |-> "idle"]
  /\ step = [r \in Runners |-> None]
  /\ now = [r \in Runners |-> 0]
  /\ last = [r \in Runners |-> 0]
  /\ batch = [r \in Runners |-> NoBatch]
  /\ more = [r \in Runners |-> FALSE]
  /\ seen = [r \in Runners |-> NoMilestones]
  /\ status = [r \in Runners |-> "SUCCESS"]
  /\ mixed = [r \in Runners |-> FALSE]
  /\ changes = 0
  /\ faults = 0

\* The SELECT of a batch: the first BATCH rows after lastId, as they are now.
Page(r) ==
  LET ids == {t \in Tickets : t > last[r]}
      first == {t \in ids : Cardinality({u \in ids : u <= t}) <= Batch}
  IN /\ pc[r] = "page" /\ step[r] = "sla"
     /\ pc' = [pc EXCEPT ![r] = IF ids = {} THEN "close" ELSE "begin"]
     /\ batch' = [batch EXCEPT ![r] = [t \in first |-> Row(t)]]
     /\ more' = [more EXCEPT ![r] = Cardinality(first) >= Batch]
     /\ UNCHANGED <<clock, dbVars, startVars, last, seen, status, faults>>

\* The ticket of the batch the loop is at.
At(r) == Min(DOMAIN batch[r])

\* BEGIN and the SELECT of the milestones.
Begin(r) ==
  /\ pc[r] = "begin"
  /\ pc' = [pc EXCEPT ![r] = "commit"]
  /\ seen' = [seen EXCEPT ![r] = DeriveMilestones(At(r))]
  /\ UNCHANGED <<clock, dbVars, startVars, last, batch, more, status, faults>>

\* A plausible mistake: the run ends with its first batch.
BadDone(r) ==
  LET rest == DOMAIN batch[r] \ {At(r)}
  IN /\ pc' = [pc EXCEPT ![r] = IF rest # {} THEN "begin" ELSE "close"]
     /\ last' = [last EXCEPT ![r] = At(r)]
     /\ batch' = [batch EXCEPT ![r] = [t \in rest |-> batch[r][t]]]
     /\ seen' = [seen EXCEPT ![r] = NoMilestones]

\* The ticket is done; a batch shorter than BATCH was the last one.
Done(r) ==
  LET rest == DOMAIN batch[r] \ {At(r)}
  IN /\ pc' = [pc EXCEPT ![r] = CASE rest # {} -> "begin"
                                  [] rest = {} /\ more[r] -> "page"
                                  [] rest = {} /\ ~more[r] -> "close"]
     /\ last' = [last EXCEPT ![r] = At(r)]
     /\ batch' = [batch EXCEPT ![r] = [t \in rest |-> batch[r][t]]]
     /\ seen' = [seen EXCEPT ![r] = NoMilestones]

\* A plausible mistake: only a new milestone or policy counts as a change.
BadCommit(r) ==
  LET t == At(r)
      x == batch[r][t]
  IN /\ pc[r] = "commit"
     /\ \E wanted \in {Snapshot(t, x, seen[r], now[r])} :
          IF seen[r] = x.milestones /\ wanted.policy = x.sla.policy
          THEN UNCHANGED <<milestones, sla>>
          ELSE /\ milestones' = [milestones EXCEPT ![t] = seen[r]]
               /\ sla' = [sla EXCEPT ![t] = wanted]
     /\ Done(r)
     /\ UNCHANGED <<clock, syncVars, startVars, more, status, faults>>

\* Writes only if something differs from the row of the batch, and then every
\* column it owns, whatever the row has become.
Commit(r) ==
  LET t == At(r)
      x == batch[r][t]
  IN /\ pc[r] = "commit"
     /\ \E wanted \in {Snapshot(t, x, seen[r], now[r])} :
          IF seen[r] = x.milestones /\ wanted = x.sla
          THEN UNCHANGED <<milestones, sla>>
          ELSE /\ milestones' = [milestones EXCEPT ![t] = seen[r]]
               /\ sla' = [sla EXCEPT ![t] = wanted]
     /\ Done(r)
     /\ UNCHANGED <<clock, syncVars, startVars, more, status, faults>>

MayFail == faults < MaxFaults /\ changes + faults < MaxEvents
Fault == MayFail /\ faults' = faults + 1

\* The transaction fails and is rolled back; the run goes on with the next.
TicketFails(r) ==
  /\ pc[r] \in {"begin", "commit"}
  /\ Done(r)
  /\ status' = [status EXCEPT ![r] = "PARTIAL"]
  /\ UNCHANGED <<clock, dbVars, startVars, more>>

\* The SELECT of a batch fails, and the run with it.
BatchFails(r) ==
  /\ pc[r] = "page"
  /\ pc' = [pc EXCEPT ![r] = "close"]
  /\ status' = [status EXCEPT ![r] = "FAILED"]
  /\ UNCHANGED <<clock, dbVars, startVars, last, batch, more, seen>>

(* --------------------- what the sync engines write --------------------- *)

\* One change of one ticket by outlookSync (the first acknowledgement wins) or
\* clickupSync (a transition; a new priority).  A transition is later than the
\* recorded ones, unless a run that overlaps another one works on an older copy.
Sync(r) ==
  /\ pc[r] = "page" /\ step[r] = "sync" /\ changes + faults < MaxEvents
  /\ \E t \in Touched, d \in Delays :
       LET at == Later(CreatedAt[t], clock - d)
       IN \/ /\ acked[t] = None
             /\ acked' = [acked EXCEPT ![t] = at]
             /\ UNCHANGED <<events, priority>>
          \/ /\ mixed[r] \/ \A e \in events[t] : e.at < at
             /\ \E stage \in Entered :
                  events' = [events EXCEPT ![t] = @ \cup {[stage |-> stage, at |-> at]}]
             /\ UNCHANGED <<acked, priority>>
          \/ /\ \E p \in Priorities \ {priority[t]} :
                  priority' = [priority EXCEPT ![t] = p]
             /\ UNCHANGED <<acked, events>>
  /\ changes' = changes + 1
  /\ UNCHANGED <<clock, milestones, sla, runVars, faults>>

SyncEnds(r) ==
  /\ pc[r] = "page" /\ step[r] = "sync"
  /\ pc' = [pc EXCEPT ![r] = "close"]
  /\ UNCHANGED <<clock, dbVars, loopVars, startVars, faults>>

Tick ==
  /\ clock < MaxTime
  /\ clock' = clock + 1
  /\ UNCHANGED <<dbVars, runVars, faults>>
==============================================================================
