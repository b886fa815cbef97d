---------------------------------- MODULE Jobs ----------------------------------
(***************************************************************************)
(* Scheduled and manual runs (server/jobs/pipeline.ts, the route           *)
(* app/api/jobs/[step] and server/db.ts) around the engines of Sla.  A     *)
(* scheduled invocation takes a connection of the server's pool, tries the *)
(* advisory lock on it and keeps both until its engine has ended; the      *)
(* engine takes further connections of the same pool, and so do the        *)
(* requests of the portal.  A run started by hand is a process with a pool *)
(* of its own and takes no lock.                                           *)
(***************************************************************************)
EXTENDS Sla

CONSTANTS
  Cron,      \* the runners that are scheduled invocations
  Steps,     \* runner |-> the steps it may run
  PoolMax,   \* PGPOOL_MAX
  MaxWeb,    \* bound of requests that use the pool at the same time
  Free,      \* nobody holds the advisory lock
  Lost       \* a session of a process that is gone holds it

ASSUME JobsAssumption ==
  /\ Cron \subseteq Runners /\ IsFiniteSet(Runners)
  /\ Steps \in [Runners -> SUBSET {"sla", "sync"}]
  /\ PoolMax \in Nat \ {0} /\ MaxWeb \in Nat
  /\ Free \notin Runners \cup {Lost} /\ Lost \notin Runners

VARIABLES
  lock,   \* who holds (LOCK_CLASS, LOCK_ID)
  bare,   \* invocations that lost the lock's connection and go on working
  web     \* connections the portal's requests have

vars == <<slaVars, lock, bare, web>>
poolVars == <<lock, bare, web>>

Init == SlaInit /\ lock = Free /\ bare = {} /\ web = 0

Invoked == {r \in Cron : pc[r] # "idle"}
Engines == {r \in Runners : pc[r] \notin {"idle", "lock"}}

InUse == web + Cardinality(Invoked) + Cardinality({r \in Invoked : pc[r] = "commit"})

\* A plausible mistake: the pool hands out one connection too many.
BadSpare(r) == r \in Cron => InUse <= PoolMax

\* pool.connect() is answered.
Spare(r) == r \in Cron => InUse < PoolMax

\* Engines that hold a connection each wait for a second one, and connect() gives
\* up after connectionTimeoutMillis.  (A wait behind requests is shorter.)
TimesOut(r) ==
  r \in Cron /\ Cardinality(Engines \cap Cron) >= PoolMax /\ UNCHANGED faults

\* The runners the lock keeps apart.
Guarded == Cron \ bare

Unlocked(q, r) == q # r /\ (q \notin Guarded \/ r \notin Guarded)

\* The runners in R forget what they were doing.
Reset(f, R, v) == [r \in Runners |-> IF r \in R THEN v ELSE f[r]]
Forget(R) ==
  /\ pc' = Reset(pc, R, "idle") /\ step' = Reset(step, R, None) /\ now' = Reset(now, R, 0)
  /\ last' = Reset(last, R, 0) /\ batch' = Reset(batch, R, NoBatch)
  /\ more' = Reset(more, R, FALSE) /\ seen' = Reset(seen, R, NoMilestones)
  /\ status' = Reset(status, R, "SUCCESS") /\ mixed' = Reset(mixed, R, FALSE)
  /\ bare' = bare \ R

\* dispatch: the engine notes the time and begins.
Dispatch(r, s) ==
  /\ pc' = [pc EXCEPT ![r] = "page"]
  /\ step' = [step EXCEPT ![r] = s]
  /\ now' = [now EXCEPT ![r] = clock]
  /\ mixed' = [q \in Runners |->
                 IF q = r THEN \E x \in Engines : Unlocked(x, r)
                 ELSE mixed[q] \/ (q \in Engines /\ Unlocked(q, r))]
  /\ UNCHANGED <<clock, dbVars, loopVars, faults, bare, web>>

\* The route is called; withClient takes the lock's connection.
Invoke(r, s) ==
  /\ r \in Cron /\ pc[r] = "idle" /\ s \in Steps[r] /\ Spare(r)
  /\ pc' = [pc EXCEPT ![r] = "lock"]
  /\ step' = [step EXCEPT ![r] = s]
  /\ UNCHANGED <<clock, dbVars, loopVars, now, mixed, faults, poolVars>>

\* A plausible mistake: what pg_try_advisory_lock answered is not looked at.
BadTakeLock(r) ==
  /\ pc[r] = "lock"
  /\ lock' = IF lock = Free THEN r ELSE lock
  /\ Dispatch(r, step[r])

TakeLock(r) ==
  /\ pc[r] = "lock" /\ lock = Free
  /\ lock' = r
  /\ Dispatch(r, step[r])

\* skipped: "locked"
SkipLocked(r) ==
  /\ pc[r] = "lock" /\ lock # Free
  /\ Forget({r})
  /\ UNCHANGED <<clock, dbVars, faults, lock, web>>

StartByHand(r, s) ==
  /\ r \notin Cron /\ pc[r] = "idle" /\ s \in Steps[r]
  /\ Dispatch(r, s)
  /\ UNCHANGED lock

\* closeRun, then the finally of runJobStep unlocks and releases; it does so as
\* well when closeRun fails.
Close(r) ==
  /\ pc[r] = "close"
  /\ \/ Spare(r) /\ UNCHANGED faults
     \/ Fault
     \/ TimesOut(r)
  /\ Forget({r})
  /\ lock' = IF lock = r THEN Free ELSE lock
  /\ UNCHANGED <<clock, dbVars, web>>

\* The session that holds the lock ends while the engine goes on: its connection
\* breaks, or the pooler behind DATABASE_URL gives it to somebody else.
LoseLock ==
  /\ lock \in Cron /\ Fault
  /\ lock' = Free
  /\ bare' = bare \cup {lock}
  /\ UNCHANGED <<clock, dbVars, runVars, web>>

\* The server's function times out or crashes, with all its connections.
Crash ==
  /\ Invoked # {} /\ Fault
  /\ Forget(Cron)
  /\ web' = 0
  /\ lock' = IF lock \in Cron THEN Lost ELSE lock
  /\ UNCHANGED <<clock, dbVars>>

\* PostgreSQL notices that the connection is gone.
Reap ==
  /\ lock = Lost
  /\ lock' = Free
  /\ UNCHANGED <<slaVars, bare, web>>

ProcessDies(r) ==
  /\ r \in Engines \ Cron /\ Fault
  /\ Forget({r})
  /\ UNCHANGED <<clock, dbVars, lock, web>>

RequestBegins ==
  /\ web < MaxWeb /\ InUse < PoolMax
  /\ web' = web + 1
  /\ UNCHANGED <<slaVars, lock, bare>>

RequestEnds ==
  /\ web > 0
  /\ web' = web - 1
  /\ UNCHANGED <<slaVars, lock, bare>>

\* What the engine does next; all but the COMMIT asks the pool first.
Work(r) ==
  /\ \/ Spare(r) /\ (Page(r) \/ Begin(r) \/ SyncEnds(r))
     \/ Commit(r)
  /\ UNCHANGED poolVars

Fails(r) ==
  /\ TicketFails(r) \/ BatchFails(r)
  /\ Fault \/ (pc[r] # "commit" /\ TimesOut(r))
  /\ UNCHANGED poolVars

RunnerStep(r) ==
  \/ \E s \in {"sla", "sync"} : Invoke(r, s) \/ StartByHand(r, s)
  \/ TakeLock(r) \/ SkipLocked(r)
  \/ Work(r) \/ Fails(r) \/ Close(r) \/ ProcessDies(r)
  \/ Spare(r) /\ Sync(r) /\ UNCHANGED poolVars

Next ==
  \/ \E r \in Runners : RunnerStep(r)
  \/ LoseLock \/ Crash \/ Reap \/ RequestBegins \/ RequestEnds
  \/ Tick /\ UNCHANGED poolVars

Spec == Init /\ [][Next]_vars

\* The pool serves in order, so a run that keeps asking gets its connection;
\* cron fires the SLA step again and again, and not always into a held lock.
Fairness ==
  /\ \A r \in Cron : SF_vars(TakeLock(r) \/ SkipLocked(r) \/ Work(r) \/ Close(r)
                                \/ (Fails(r) /\ TimesOut(r)))
  /\ \A r \in Runners \ Cron : WF_vars(Work(r) \/ Close(r))
  /\ \A r \in {r \in Cron : "sla" \in Steps[r]} :
       SF_vars(Invoke(r, "sla") /\ lock = Free) /\ SF_vars(TakeLock(r))
  /\ WF_vars(Reap) /\ WF_vars(RequestEnds)
FairSpec == Spec /\ Fairness

(***************************************************************************)
(* Properties.                                                             *)
(***************************************************************************)
\* Types, and the pool never hands out more connections than it has.
TypeOK ==
  /\ clock \in FirstTime .. MaxTime
  /\ pc \in [Runners -> {"idle", "lock", "page", "begin", "commit", "close"}]
  /\ step \in [Runners -> {None, "sla", "sync"}]
  /\ now \in [Runners -> Nat] /\ last \in [Runners -> Tickets \cup {0}]
  /\ status \in [Runners -> {"SUCCESS", "PARTIAL", "FAILED"}]
  /\ more \in [Runners -> BOOLEAN] /\ mixed \in [Runners -> BOOLEAN]
  /\ lock \in Cron \cup {Free, Lost} /\ bare \subseteq Cron
  /\ web \in 0 .. MaxWeb /\ InUse <= PoolMax

\* Scheduled engines never overlap, whatever crashes, but for one that goes on
\* after it lost the lock's connection; the lock is held by the one that works, or
\* by nobody, or by a session that is about to go.
OneAtATime ==
  /\ \A q, r \in Engines \cap Guarded : q = r
  /\ \A r \in Cron : lock = r <=> r \in Engines \ bare

\* What a ticket's columns should be at a given time.
RightAt(t, time) ==
  /\ milestones[t] = DeriveMilestones(t)
  /\ sla[t] = Snapshot(t, Row(t), DeriveMilestones(t), time)

\* A run that ends in SUCCESS and overlapped no run outside the lock has left
\* every ticket as the events, the acknowledgement, the priority and the run's
\* own time want it: no ticket was skipped between two batches, and nothing was
\* computed from a row that changed meanwhile.
RunExact ==
  \A r \in Engines :
    step[r] = "sla" /\ pc[r] = "close" /\ status[r] = "SUCCESS" /\ ~mixed[r]
      => \A t \in Tickets : RightAt(t, now[r])

\* What due times presuppose: the windows lie within their day, and in MAX_DAYS
\* days from a ticket's arrival there are the minutes its policies promise.
Horizon(s, cal) == ZonedWallToUtc(ZonedDate(s, cal) + MaxDays, 0, cal)
Attainable ==
  \A p \in Policies, t \in Tickets :
    p.calendar # AllHours =>
      /\ \A i \in DOMAIN p.calendar.windows :
           0 <= p.calendar.windows[i].start /\ p.calendar.windows[i].end <= DayLen
      /\ \A target \in {p.response, p.resolution} :
           target <= WorkedMinutes(CreatedAt[t], Horizon(CreatedAt[t], p.calendar), p.calendar)

\* Where holidays are read as the table has them: east of UTC, each is taken for
\* the day before (compute.ts:77).
UtcOrWest == Zone <= 0

\* A due time that is on record is the end of the last of `target` worked
\* minutes since the ticket was created, counted minute by minute with the holidays
\* of the table, and the code's own way of counting agrees, if UtcOrWest.
DueIsWorked ==
  \A t \in Tickets :
    LET p == sla[t].policy
        Right(due, target) ==
          /\ WorkedMinutes(CreatedAt[t], due, p.calendar) = target
          /\ Working(due - 1, p.calendar)
          /\ BusinessMinutesBetween(CreatedAt[t], due, p.calendar) = target
    IN p # None => /\ Right(sla[t].response.due, p.response)
                   /\ Right(sla[t].resolution.due, p.resolution)

\* The first time wins for milestones: once on record, a closure is neither taken
\* back nor replaced by a later one when the ticket is reopened and closed again,
\* unless a run outside the lock interferes.
MilestoneStable ==
  [][\A t \in Tickets, stage \in Milestones :
       milestones[t][stage] \notin {None, milestones'[t][stage]}
         => \/ milestones'[t][stage] # None /\ milestones'[t][stage] < milestones[t][stage]
            \/ \E r \in Engines : mixed[r] /\ pc[r] = "commit"]_vars

\* A breach stands: a resolution on record as BREACHED leaves that state only
\* for another policy, or because a closure in time was recorded late, or
\* through a run outside the lock.
BreachStands ==
  [][\A t \in Tickets :
       (sla[t].resolution.state = "BREACHED" /\ sla'[t].resolution.state # "BREACHED")
         => \/ sla'[t].policy # sla[t].policy
            \/ /\ milestones'[t]["CLOSED"] # None
               /\ milestones'[t]["CLOSED"] <= sla[t].resolution.due
            \/ \E r \in Engines : mixed[r] /\ pc[r] = "commit"]_vars

\* Once the clock and the sync engines rest, every row becomes right for that time
\* and stays so, whatever failed, crashed or overlapped before.
EventuallyRight == <>[](\A t \in Tickets : RightAt(t, clock))
=============================================================================
