----------------------------- MODULE ClickupSync -----------------------------
(***************************************************************************)
(* The ClickUp ingestion engine (server/sync/clickupSync.ts with the pure  *)
(* resolver server/sync/resolve.ts and the paging of                       *)
(* server/clickup/client.ts): a run polls the tasks changed since a        *)
(* watermark, page by page, and applies them one transaction each to the   *)
(* internal tables, while people keep editing tasks in ClickUp.  The       *)
(* scheduler's advisory lock keeps its own runs apart, but a run by hand   *)
(* (npm run sync:clickup) takes no lock and may overlap any other.         *)
(*                                                                         *)
(* Time is the date_updated clock of ClickUp.  Task ids are naturals       *)
(* because ClickUp must break ties of date_updated somehow and the model   *)
(* breaks them by id.                                                      *)
(***************************************************************************)
EXTENDS Naturals, Sequences, FiniteSets

CONSTANTS
  Runners,            \* the processes that run the engine
  Scheduled,          \* the one the scheduler starts; the others run by hand
  Tasks,              \* the ClickUp tasks of the support folder
  Lists,              \* how many lists the folder has
  ListOf,             \* the list (1 .. Lists) each task lives in
  ContentsOf,         \* task |-> the contents its editors choose from
  BuBySlug,           \* Customer label |-> active business unit
  KnownPriorities,    \* the SLA Priority labels P1 .. P4
  StatusMap,          \* mapped ClickUp status |-> portal stage
  None,               \* "no such row" / SQL NULL
  Overlap,            \* CLICKUP_SYNC_OVERLAP_MS, in clock units
  PageSize,           \* PAGE_SIZE
  MaxPages,           \* MAX_PAGES
  IncludeArchived,    \* CLICKUP_INCLUDE_ARCHIVED
  MaxTime,            \* bound of the clock
  MaxFaults,          \* bound of the fatal errors and crashes
  FetchSpan,          \* how far the clock may move while one run retrieves
  StablePages,        \* no task behind a stream's offset is edited between its pages
  OutOfOrderFailures  \* a transaction may fail on a task that is older than
                      \* one the same run has already advanced past

ASSUME RunnersAssumption == Scheduled \in Runners
ASSUME TasksAssumption == Tasks \subseteq Nat /\ IsFiniteSet(Tasks)
ASSUME ListAssumption == Lists \in Nat \ {0} /\ ListOf \in [Tasks -> 1 .. Lists]
ASSUME BoundAssumption ==
  /\ Overlap \in Nat /\ FetchSpan \in Nat /\ MaxTime \in Nat \ {0}
  /\ PageSize \in Nat \ {0} /\ MaxPages \in Nat \ {0} /\ MaxFaults \in Nat
ASSUME FlagAssumption ==
  /\ IncludeArchived \in BOOLEAN
  /\ StablePages \in BOOLEAN
  /\ OutOfOrderFailures \in BOOLEAN

Moments == 0 .. MaxTime
Contents == UNION {ContentsOf[t] : t \in Tasks}
Stages == {StatusMap[s] : s \in DOMAIN StatusMap}
BUs == {BuBySlug[l] : l \in DOMAIN BuBySlug}

\* A task as ClickUp returned it, with its place in the Map of the run.
Copy == [content : Contents, updated : Moments, batch : Nat, rank : Moments]

VARIABLES
  (* ClickUp *)
  clock,      \* the time of the latest edit
  tasks,      \* task |-> [content, updated, archived]; content None: not created yet
  (* the runs, by runner *)
  phase,      \* "idle", "fetch" or "process"
  started,    \* the clock when the run read its watermark
  since,      \* the watermark it read
  fetchSince, \* the run's date_updated_gt
  stream,     \* 0: active tasks, n: archived tasks of list n
  page,       \* next page of that stream
  batch,      \* pages fetched so far by the run, over all its streams
  got,        \* the tasks at the offsets the current stream has passed
  collected,  \* task |-> its latest fetched copy and its place in the Map, or None
  watermark,  \* the watermark the run has advanced to
  frozen,     \* watermarkFrozen: a task of the run failed
  before,     \* the runs under way when it inserted its sync_runs row
  superseded, \* a run with a later sync_runs row has recorded its cursor
  (* PostgreSQL *)
  cursor,     \* what lastWatermark() returns
  ticket,     \* internal_tickets row of each task, or None
  visible,    \* internal_ticket_business_units of each task
  events,     \* internal_ticket_events of each task, in id order
  (* history: what no code keeps *)
  newest,     \* the date_updated of the newest copy of a task applied so far
  behind,     \* tasks whose row was last written from an older copy
  overtaken,  \* tasks whose row was ever written from an older copy
  (* the environment *)
  faults      \* fatal errors and crashes so far

sourceVars == <<clock, tasks>>
fetchVars == <<started, since, fetchSince, stream, page, batch, got>>
orderVars == <<before, superseded>>
runVars == <<phase, fetchVars, collected, watermark, frozen, orderVars>>
historyVars == <<newest, behind, overtaken>>
dbVars == <<ticket, visible, events>>
vars == <<sourceVars, runVars, cursor, dbVars, historyVars, faults>>

-----------------------------------------------------------------------------
(* resolve.ts                                                              *)

\* The Customer labels that name an active business unit.
MatchedBUs(c) == {BuBySlug[l] : l \in c.customers \cap DOMAIN BuBySlug}

PriorityLabels(c) == c.priorities \cap KnownPriorities

(* resolveTicket accepts a content when none of its quarantine reasons     *)
(* applies: NO_CUSTOM_ID, MISSING_CREATED_TIMESTAMP, BU_UNDETERMINED,      *)
(* SLA_PRIORITY_MISSING / _MULTIPLE and STATUS_UNMAPPED.                   *)
Resolvable(c) ==
  /\ c.customId
  /\ c.created
  /\ MatchedBUs(c) # {}
  /\ Cardinality(PriorityLabels(c)) = 1
  /\ c.status \in DOMAIN StatusMap

Stage(c) == StatusMap[c.status]

\* ORIGIN is only real when the visibility set has exactly one member.
Origin(c) ==
  IF Cardinality(MatchedBUs(c)) = 1 THEN CHOOSE b \in MatchedBUs(c) : TRUE ELSE None

\* The fields canonicalHash digests, the visibility set among them.
ContentHash(c) == <<c.text, c.status, Stage(c), PriorityLabels(c), MatchedBUs(c)>>

\* An internal_tickets row; the other columns are functions of the hash.
Row(c) == [hash |-> ContentHash(c), stage |-> Stage(c), origin |-> Origin(c)]

Rows == {Row(c) : c \in {d \in Contents : Resolvable(d)}}

ASSUME NoneAssumption == None \notin Contents \cup Copy \cup Rows

-----------------------------------------------------------------------------
(* ClickUp                                                                 *)

Exists(t) == tasks[t].content # None

(* A person creates, edits, archives or unarchives a task (or several of   *)
(* these before anyone looks).  A task gets one date_updated per clock     *)
(* unit, two tasks may share one.  While a run retrieves, the clock moves  *)
(* at most FetchSpan, and under StablePages a task at an offset its stream *)
(* has passed stays where it is until the stream's last page.              *)
Edit(t) ==
  \E c \in ContentsOf[t], a \in BOOLEAN, now \in clock .. clock + 1 :
    /\ now <= MaxTime
    /\ tasks[t].updated < now
    /\ a => IncludeArchived /\ Exists(t)
    /\ <<c, a>> # <<tasks[t].content, tasks[t].archived>>
    /\ \A r \in Runners : phase[r] = "fetch" =>
         /\ now <= started[r] + FetchSpan
         /\ StablePages => t \notin got[r]
    /\ clock' = now
    /\ tasks' = [tasks EXCEPT ![t] = [content |-> c, updated |-> now, archived |-> a]]
    /\ UNCHANGED <<runVars, cursor, dbVars, historyVars, faults>>

-----------------------------------------------------------------------------
(* Retrieval                                                               *)

\* The overlap is subtracted from a young watermark too (mutant of FetchFrom).
Unclamped(mark) == IF mark > 0 THEN mark - Overlap ELSE 0

\* since > 0 ? max(0, since - overlap) : 0
FetchFrom(mark) == IF mark > Overlap THEN mark - Overlap ELSE 0

Active == {r \in Runners : phase[r] # "idle"}

StartRun(r) ==
  /\ phase[r] = "idle"
  /\ phase' = [phase EXCEPT ![r] = "fetch"]
  /\ started' = [started EXCEPT ![r] = clock]
  /\ since' = [since EXCEPT ![r] = cursor]
  /\ fetchSince' = [fetchSince EXCEPT ![r] = FetchFrom(cursor)]
  /\ watermark' = [watermark EXCEPT ![r] = cursor]
  /\ before' = [before EXCEPT ![r] = Active]
  /\ UNCHANGED <<sourceVars, stream, page, batch, got, collected, frozen, superseded,
                 cursor, dbVars, historyVars, faults>>

\* What the query of a run's stream n matches: date_updated_gt is strict.
Matching(r, n) ==
  {t \in Tasks : /\ Exists(t)
                 /\ tasks[t].updated > fetchSince[r]
                 /\ IF n = 0 THEN ~tasks[t].archived
                    ELSE tasks[t].archived /\ ListOf[t] = n}

\* order_by=updated, ascending.
Earlier(t, u) ==
  \/ tasks[t].updated < tasks[u].updated
  \/ tasks[t].updated = tasks[u].updated /\ t < u

\* P holds the first n tasks of M, or all of M when it has fewer.
IsPrefix(P, M, n) ==
  /\ P \subseteq M
  /\ IF Cardinality(M) <= n THEN P = M ELSE Cardinality(P) = n
  /\ \A t \in P, u \in M \ P : Earlier(t, u)

\* Map.set: a task already in the Map keeps its place and takes the new copy.
Collect(r, S) ==
  [t \in Tasks |->
     LET old == collected[r][t] IN
     IF t \notin S THEN old
     ELSE [content |-> tasks[t].content,
           updated |-> tasks[t].updated,
           batch   |-> IF old = None THEN batch[r] ELSE old.batch,
           rank    |-> IF old = None THEN tasks[t].updated ELSE old.rank]]

\* The archived streams are forgotten (mutant of LastStream).
ActiveOnly == 0

LastStream == IF IncludeArchived THEN Lists ELSE 0

(* One page request, by offset, of the query's result at this moment; then *)
(* the next page, or the next stream when the page is short, is the last,  *)
(* or is the MAX_PAGES-th.                                                 *)
FetchPage(r) ==
  /\ phase[r] = "fetch"
  /\ LET M == Matching(r, stream[r]) IN
     \E skipped \in SUBSET M : \E S \in SUBSET (M \ skipped) :
       /\ IsPrefix(skipped, M, page[r] * PageSize)
       /\ IsPrefix(S, M \ skipped, PageSize)
       /\ collected' = [collected EXCEPT ![r] = Collect(r, S)]
       /\ batch' = [batch EXCEPT ![r] = @ + 1]
       /\ IF Cardinality(S) = PageSize /\ skipped \cup S # M /\ page[r] + 1 < MaxPages
          THEN /\ page' = [page EXCEPT ![r] = @ + 1]
               /\ got' = [got EXCEPT ![r] = skipped \cup S]
               /\ UNCHANGED <<phase, stream>>
          ELSE /\ page' = [page EXCEPT ![r] = 0]
               /\ got' = [got EXCEPT ![r] = {}]
               /\ IF stream[r] < LastStream
                  THEN stream' = [stream EXCEPT ![r] = @ + 1] /\ UNCHANGED phase
                  ELSE /\ stream' = [stream EXCEPT ![r] = 0]
                       /\ phase' = [phase EXCEPT ![r] = "process"]
  /\ UNCHANGED <<sourceVars, started, since, fetchSince, watermark, frozen, orderVars,
                 cursor, dbVars, historyVars, faults>>

-----------------------------------------------------------------------------
(* Processing                                                              *)

Pending(r) == {t \in Tasks : collected[r][t] # None}

\* Insertion order of the Map: page by page, ascending within a page.
Precedes(r, t, u) ==
  LET p == collected[r][t]  q == collected[r][u] IN
  \/ p.batch < q.batch
  \/ p.batch = q.batch /\ p.rank < q.rank
  \/ p.batch = q.batch /\ p.rank = q.rank /\ t < u

IsNext(r, t) ==
  /\ phase[r] = "process"
  /\ t \in Pending(r)
  /\ \A u \in Pending(r) \ {t} : Precedes(r, t, u)

\* An advance that ignores the freeze (mutant of Advance).
AdvanceAnyway(r, ms) ==
  watermark' = [watermark EXCEPT ![r] = IF ms > @ THEN ms ELSE @]

Advance(r, ms) ==
  watermark' = [watermark EXCEPT ![r] = IF ~frozen[r] /\ ms > @ THEN ms ELSE @]

\* ORDER BY changed_at DESC, id DESC LIMIT 1
LatestEvent(es) ==
  LET Newest(i) == \A j \in DOMAIN es :
                     es[j].at < es[i].at \/ (es[j].at = es[i].at /\ j <= i)
  IN  es[CHOOSE i \in DOMAIN es : Newest(i)]

\* Appends an event on the first insert only (mutant of StageEvents).
FirstEventOnly(es, stage, at) ==
  IF es = <<>> THEN <<[stage |-> stage, at |-> at]>> ELSE es

\* ensureStatusEvent: append unless the latest event already says so.
StageEvents(es, stage, at) ==
  IF es # <<>> /\ LatestEvent(es).stage = stage
  THEN es
  ELSE Append(es, [stage |-> stage, at |-> at])

\* The row was made from a content with this hash.
UpToDate(t, c) == ticket[t] # None /\ ticket[t].hash = ContentHash(c)

(* withTransaction(upsertTicket; reconcileVisibility; ensureStatusEvent):  *)
(* insert, skip on an equal content hash, or update.  Two transactions on  *)
(* one task are as good as one after the other: the UPDATE waits for the   *)
(* row, the visibility set and the events are read and written after it.   *)
(* The audit row of an origin transition is a log no engine reads and is   *)
(* left out.                                                               *)
Upsert(t, c, at) ==
  IF UpToDate(t, c)
  THEN UNCHANGED dbVars
  ELSE /\ ticket' = [ticket EXCEPT ![t] = Row(c)]
       /\ visible' = [visible EXCEPT ![t] = MatchedBUs(c)]
       /\ events' = [events EXCEPT ![t] = StageEvents(events[t], Stage(c), at)]

\* History: was the copy written over what a newer one had left?
Recall(t, c, at) ==
  LET older == at < newest[t] IN
  /\ newest' = [newest EXCEPT ![t] = IF older THEN @ ELSE at]
  /\ IF UpToDate(t, c) THEN UNCHANGED <<behind, overtaken>>
     ELSE /\ behind' = IF older THEN behind \cup {t} ELSE behind \ {t}
          /\ overtaken' = IF older THEN overtaken \cup {t} ELSE overtaken

Done(r, t) == collected' = [collected EXCEPT ![r][t] = None]

Ingest(r, t) ==
  LET copy == collected[r][t] IN
  /\ IsNext(r, t)
  /\ Resolvable(copy.content)
  /\ Upsert(t, copy.content, copy.updated)
  /\ Recall(t, copy.content, copy.updated)
  /\ Advance(r, copy.updated)
  /\ Done(r, t)
  /\ UNCHANGED <<sourceVars, phase, fetchVars, frozen, orderVars, cursor, faults>>

\* A quarantined task writes nothing and is advanced past.
Quarantine(r, t) ==
  /\ IsNext(r, t)
  /\ ~Resolvable(collected[r][t].content)
  /\ Advance(r, collected[r][t].updated)
  /\ Done(r, t)
  /\ UNCHANGED <<sourceVars, phase, fetchVars, frozen, orderVars, cursor, dbVars,
                 historyVars, faults>>

\* The transaction rolls back; the run goes on with the watermark frozen.
Fail(r, t) ==
  /\ IsNext(r, t)
  /\ Resolvable(collected[r][t].content)
  /\ \/ OutOfOrderFailures
     \/ watermark[r] = since[r]
     \/ watermark[r] <= collected[r][t].updated
  /\ frozen' = [frozen EXCEPT ![r] = TRUE]
  /\ Done(r, t)
  /\ UNCHANGED <<sourceVars, phase, fetchVars, watermark, orderVars, cursor, dbVars,
                 historyVars, faults>>

\* The run's local variables go out of scope.
EndRun(r) ==
  /\ phase' = [phase EXCEPT ![r] = "idle"]
  /\ started' = [started EXCEPT ![r] = 0]
  /\ since' = [since EXCEPT ![r] = 0]
  /\ fetchSince' = [fetchSince EXCEPT ![r] = 0]
  /\ stream' = [stream EXCEPT ![r] = 0]
  /\ page' = [page EXCEPT ![r] = 0]
  /\ batch' = [batch EXCEPT ![r] = 0]
  /\ got' = [got EXCEPT ![r] = {}]
  /\ collected' = [collected EXCEPT ![r] = [t \in Tasks |-> None]]
  /\ watermark' = [watermark EXCEPT ![r] = 0]
  /\ frozen' = [frozen EXCEPT ![r] = FALSE]
  /\ before' = [q \in Runners |-> IF q = r THEN {} ELSE before[q] \ {r}]

(* closeRun with SUCCESS or PARTIAL.  lastWatermark() reads the cursor of  *)
(* the closed run with the largest id, so that of a run which ends after a *)
(* later one has closed is never read.                                     *)
CloseRun(r) ==
  /\ phase[r] = "process"
  /\ Pending(r) = {}
  /\ EndRun(r)
  /\ cursor' = IF superseded[r] THEN cursor ELSE watermark[r]
  /\ superseded' = [q \in Runners |-> q # r /\ (superseded[q] \/ q \in before[r])]
  /\ UNCHANGED <<sourceVars, dbVars, historyVars, faults>>

-----------------------------------------------------------------------------
(* Faults                                                                  *)

(* A request that fails for good closes the run FAILED, whose cursor       *)
(* lastWatermark() does not read; a crash, a kill by the platform's time   *)
(* limit or a lost connection leaves the row RUNNING, not read either.     *)
Abandon(r) ==
  /\ faults < MaxFaults
  /\ faults' = faults + 1
  /\ EndRun(r)
  /\ superseded' = [superseded EXCEPT ![r] = FALSE]
  /\ UNCHANGED <<sourceVars, cursor, dbVars, historyVars>>

FatalError(r) == phase[r] = "fetch" /\ Abandon(r)

Crash(r) == phase[r] = "process" /\ Abandon(r)

-----------------------------------------------------------------------------

Init ==
  /\ clock = 1
  /\ tasks = [t \in Tasks |-> [content |-> None, updated |-> 0, archived |-> FALSE]]
  /\ phase = [r \in Runners |-> "idle"]
  /\ started = [r \in Runners |-> 0]
  /\ since = [r \in Runners |-> 0]
  /\ fetchSince = [r \in Runners |-> 0]
  /\ stream = [r \in Runners |-> 0]
  /\ page = [r \in Runners |-> 0]
  /\ batch = [r \in Runners |-> 0]
  /\ got = [r \in Runners |-> {}]
  /\ collected = [r \in Runners |-> [t \in Tasks |-> None]]
  /\ watermark = [r \in Runners |-> 0]
  /\ frozen = [r \in Runners |-> FALSE]
  /\ before = [r \in Runners |-> {}]
  /\ superseded = [r \in Runners |-> FALSE]
  /\ cursor = 0
  /\ ticket = [t \in Tasks |-> None]
  /\ visible = [t \in Tasks |-> {}]
  /\ events = [t \in Tasks |-> <<>>]
  /\ newest = [t \in Tasks |-> 0]
  /\ behind = {}
  /\ overtaken = {}
  /\ faults = 0

Next ==
  \/ \E t \in Tasks : Edit(t)
  \/ \E r \in Runners :
       \/ StartRun(r)
       \/ FetchPage(r)
       \/ \E t \in Tasks : Ingest(r, t) \/ Quarantine(r, t) \/ Fail(r, t)
       \/ CloseRun(r)
       \/ FatalError(r)
       \/ Crash(r)

Spec == Init /\ [][Next]_vars

(* The scheduler starts a run every fifteen minutes and a run that neither *)
(* crashes nor fails goes on: weak fairness.  A task's transaction fails   *)
(* for transient reasons only, so one that is tried again and again        *)
(* succeeds in the end: strong fairness.  Nobody has to start a run by     *)
(* hand, nor does such a run have to end.                                  *)
Fairness ==
  LET r == Scheduled IN
  /\ WF_vars(StartRun(r))
  /\ WF_vars(FetchPage(r))
  /\ WF_vars(CloseRun(r))
  /\ \A t \in Tasks : SF_vars(Ingest(r, t)) /\ WF_vars(Quarantine(r, t))

FairSpec == Spec /\ Fairness
-----------------------------------------------------------------------------
(* Properties                                                              *)

TypeOK ==
  /\ clock \in Moments
  /\ tasks \in [Tasks -> [content : Contents \cup {None}, updated : Moments, archived : BOOLEAN]]
  /\ phase \in [Runners -> {"idle", "fetch", "process"}]
  /\ started \in [Runners -> Moments]
  /\ since \in [Runners -> Moments]
  /\ fetchSince \in [Runners -> Moments]
  /\ stream \in [Runners -> 0 .. Lists]
  /\ page \in [Runners -> Nat] /\ batch \in [Runners -> Nat]
  /\ got \in [Runners -> SUBSET Tasks]
  /\ collected \in [Runners -> [Tasks -> Copy \cup {None}]]
  /\ watermark \in [Runners -> Moments]
  /\ frozen \in [Runners -> BOOLEAN]
  /\ before \in [Runners -> SUBSET Runners]
  /\ superseded \in [Runners -> BOOLEAN]
  /\ cursor \in Moments
  /\ ticket \in [Tasks -> Rows \cup {None}]
  /\ visible \in [Tasks -> SUBSET BUs]
  /\ events \in [Tasks -> Seq([stage : Stages, at : Moments])]
  /\ newest \in [Tasks -> Moments]
  /\ behind \in SUBSET Tasks /\ overtaken \in SUBSET Tasks
  /\ faults \in 0 .. MaxFaults

(* The database holds what the task says now: nothing to do for a task the *)
(* resolver quarantines; otherwise the row, its visibility set and its     *)
(* latest status event are those of the task's present content.            *)
Reflected(t) ==
  LET c == tasks[t].content IN
  Resolvable(c) =>
    /\ ticket[t] = Row(c)
    /\ visible[t] = MatchedBUs(c)
    /\ LatestEvent(events[t]).stage = Stage(c)

(* No edit is lost: whatever the next run will not fetch again is in the   *)
(* database already.  This is what the watermark, its freeze on the first  *)
(* failure and the overlap window are for ("so the watermark can advance   *)
(* safely", "do not advance past a failure").  Runs may overlap; the one   *)
(* thing an overlap may do to a task is to leave it behind: one run wrote  *)
(* an older copy over what another run had written from a newer one.       *)
NoLostUpdate ==
  \A t \in Tasks :
    Exists(t) => tasks[t].updated > FetchFrom(cursor) \/ Reflected(t) \/ t \in behind

\* By changed_at and by insertion the history reads the same, and every event
\* is a transition.
InOrder(es) ==
  \A i \in 1 .. Len(es) - 1 :
    es[i].at <= es[i + 1].at /\ es[i].stage # es[i + 1].stage

(* Stage, audience, origin and history of a ticket tell one story          *)
(* (upsertTicket, reconcileVisibility and ensureStatusEvent together, with *)
(* the skip on an equal hash in between; docs/shared-tickets.md 9a-1..3),  *)
(* whatever runs overlap: somebody may see it, its origin is the sole      *)
(* member of its visibility set or NULL, and it has a history.  Its latest *)
(* event tells its stage unless the row was last written from a copy older *)
(* than one applied before, and its history is in order unless that has    *)
(* ever happened to it: an older copy is all that can set them at odds,    *)
(* and the next newer copy that changes the row sets the stage right.      *)
RowsAgree ==
  \A t \in Tasks :
    ticket[t] # None =>
      /\ visible[t] # {}
      /\ ticket[t].origin = IF Cardinality(visible[t]) = 1
                            THEN CHOOSE b \in visible[t] : TRUE ELSE None
      /\ events[t] # <<>>
      /\ t \notin behind => LatestEvent(events[t]).stage = ticket[t].stage
      /\ t \notin overtaken => InOrder(events[t])

(* Once people stop editing, every resolvable task is reflected for good,  *)
(* whatever finite number of runs failed or crashed on the way, save one   *)
(* that overlapping runs have left behind.                                 *)
EventuallyReflected ==
  \A t \in Tasks : <>[](Exists(t) => Reflected(t) \/ t \in behind)
==============================================================================
