# A verification model of the Pattern Support Portal

The portal copies support tickets from ClickUp into PostgreSQL, derives from
them what each customer may see, and shows it to customers and administrators
who log in with an identity provider. This directory models the parts in which
several things happen in an order nobody controls: the engines of the pipeline,
the lock and the pool they share, sessions and signing in, and the pages that
ask while all of that goes on. TLC checks small instances of each module, TLAPS
proves the safety properties for every value of the constants.

Paths below are relative to `src/web/src/server/` unless they start with `src/`.

## 1. The system

| Component | State | Operations | Talks to |
|---|---|---|---|
| ClickUp ingestion (`sync/clickupSync.ts`, `sync/resolve.ts`, `clickup/client.ts`) | `internal_tickets`, `internal_ticket_business_units`, `internal_ticket_events`; its `sync_runs` rows, whose last closed one holds the watermark | one run: read the watermark, page through the active and archived tasks changed since, then resolve and write each in a transaction of its own, close the run | ClickUp over HTTP; the SLA engine and the projection read its tables |
| Outlook acknowledgement (`sync/outlookSync.ts`, `sync/ackEmail.ts`, `graph/client.ts`) | `acknowledged_at`; its watermark | one run over the mailbox, first write wins | Microsoft Graph; bumps `updated_at`, which the projection reads |
| SLA computation (`sla/*.ts`) | due dates, states and milestones of a ticket | full scan by key, milestones from events, business-hours arithmetic | reads the events; bumps `updated_at` |
| Customer projection (`projection/*.ts`) | `customer_tickets`, `customer_ticket_timeline`, `visibility_state`; its watermark and the AUTO_PUBLISH_ENABLED it last ran with | one run: batches of changed tickets by (updated_at, id), one transaction per ticket | reads all internal tables and the audit trail of administrators' decisions |
| Pipeline (`jobs/pipeline.ts`, `db.ts`, `src/vercel.json`) | advisory locks, the connection pool | a cron step takes the step's lock or is skipped | starts every engine and the session cleanup; command lines start engines without it |
| Sessions (`auth/sessionStore.ts`, `admin/adminSessionStore.ts`, `jobs/sessionCleanup.ts`) | session rows | create, resolve with throttled refresh, revoke, clean up | every request; the hourly cleanup |
| Login (`auth/handlers.ts`, `auth/identity.ts`, `auth/flow.ts`, `customer/authRealm.ts`, `admin/authRealm.ts`) | flow cookie, subject bound to a user, audit rows | begin, callback, decide, bind on first login | identity provider, sessions |
| Read side (`customer/queries.ts`, `admin/queries.ts`) | none | filters, orders, pages and counts in SQL | all tables |
| Pages (`src/web/src/components/`, `src/web/src/lib/`) | the page's question (React state on the customer's dashboard, the URL on the console), the answer shown, fetches under way | navigate, filter, sort, turn pages, load more, retry | the read side over HTTP |
| Configuration, logging, scripts (`env.ts`, `log.ts`, `src/web/scripts/`) | none between calls | parse, log, migrate, verify | not modelled |

What is hard, and what makes each part correct:

* **Ingestion.** A watermark decides what is never read again. It has to stay
  behind every edit that is not in the database although tasks are edited while
  pages are fetched, several streams are processed one after the other, single
  transactions fail, and runs crash. Stage, audience, origin and status history
  of a ticket are four tables' worth of state that have to agree although an
  unchanged hash skips all of them.
* **Projection.** It also has a watermark, over timestamps its own writes bump,
  stored in microseconds and remembered in milliseconds, and read in batches
  while administrators decide. A change of AUTO_PUBLISH_ENABLED has to reach
  tickets behind the watermark. What incremental runs leave has to equal what a
  rebuild would leave; administrators' decisions and customer rows' identities
  have to survive.
* **Outlook.** An inclusive watermark, a bound on pages per run, tickets that
  arrive after their message, runs by hand between another run's SELECT and
  UPDATE. A message the watermark has passed has to have acknowledged its
  ticket or be on record, and the first acknowledgement has to stay.
* **SLA.** Calendar arithmetic at the borders of windows, days and holidays;
  reopened tickets; a transaction that compares fresh milestones with a row read
  a batch ago and then writes every column. A run that ends in success has to
  leave every ticket right, a breach has to stand.
* **Pipeline.** Two starts of a step, a run by hand that takes no lock, a dying
  lock holder, a pool that the lock holder, its engine and the portal's requests
  share. Scheduled engines must not overlap, and the pipeline must go on.
* **Sessions.** A refresh that comes after a logout or after the cleanup, a row
  read before a deactivation. What is over has to stay over, and the cleanup must
  not remove what was in use.
* **Login.** Two flows of two people for one row, or of one person for two rows,
  each in five statements; failures between them. The first binding has to
  stand, and every session has to have its owner and its audit row.
* **Read side and pages.** Answers that come late or never, a URL that is
  encoded and decoded on the way, keyset pages over a growing audit trail, cards
  and lists that are counted by different queries, offset pages over equal and
  missing sort values.

`PROJECT.json` lists every component with its status and every hazard with the
line where it bites and the properties that cover it.

## 2. Modules

| Module | What it is |
|---|---|
| `ClickupSync` | the ingestion engine with its source and its tables |
| `ClickupSync_proofs` | type correctness and `RowsAgree`, proved |
| `ClickupWatermark_proofs` | `NoLostUpdate`, proved |
| `Projection` | the projection engine with the other writers of its input |
| `OutlookSync` | the acknowledgement engine with the mailbox, the ticket table and overlapping runs |
| `OutlookSync_proofs` | type correctness, `FirstWriteWins`, `AckGenuine` and `NothingDropped`, proved |
| `Projection_proofs` | type correctness, `DecisionKept` and `RowsPreserved`, proved |
| `ProjectionFresh_proofs` | `NothingStale`, proved |
| `Calendar` | business-hours arithmetic in both directions, and its reference |
| `Sla` | the SLA engine: policies, states, milestones, batches; EXTENDS `Calendar` |
| `Jobs` | invocations, lock, pool and runs by hand around `Sla`, which it EXTENDS |
| `Jobs_proofs` | type correctness and the pool, `OneAtATime`, `RunExact`, `MilestoneStable`, `BreachStands` and `DueIsWorked`, proved |
| `SessionLife` | the abstract specification: what the portal promises of a session |
| `Sessions` | both session stores and the cleanup; the refinement mapping |
| `Login` | the flows of both realms around `Sessions`, which it EXTENDS |
| `Login_proofs` | type correctness, `SessionOwner`, `AuditedAdmission`, `BoundForGood`, `EvidenceKept` and the refinement, proved |
| `Reads` | the queries of the customer's portal and the console over both layers |
| `Console` | three pages, the client and the routes around `Reads`, which it EXTENDS |
| `Console_proofs` | type correctness, `ShownIsAsked`, `PagesPartition`, `AuditComplete`, `CardsMatchLists` and `DetailIffListed`, proved |
| `MCClickupSync`, `MCOutlookSync`, `MCProjection`, `MCJobs`, `MCLogin`, `MCConsole` | constants for TLC |

### ClickupSync

| Model | Code |
|---|---|
| `Edit` | a person creates, edits, archives or unarchives a task; `date_updated` moves |
| `StartRun(r)` | `runClickupSync` up to the retrieval: watermark, `fetchSince`, `openRun`, the locals |
| `FetchPage(r)` | one request of the active stream or of a list's archived stream, merged into the `Map`; moving to the next page, the next stream or the loop over tasks |
| `Ingest`, `Quarantine`, `Fail` | one turn of the loop: the transaction with upsert, visibility set and status event; the resolver's refusal; the per-task `catch` |
| `CloseRun` | `closeRun` with SUCCESS or PARTIAL |
| `FatalError`, `Crash` | a run closed FAILED, or never closed: `lastWatermark` reads neither |

The resolver (`Resolvable`, `MatchedBUs`, `Origin`, `Stage`, `ContentHash`) is
modelled on contents that are records of label sets, a status and a text. A
ticket row is its hash and the two columns a property speaks of; the hash is
the tuple of what it digests. The `Map` keeps the place of a task's first copy,
so a task has a place (`batch`, `rank`) besides its copy; `StartRun` and
`FetchPage` are separate steps, so edits come between them, and the state read
by one is used by the others.

The scheduler's runs exclude each other by the advisory lock, but
`npm run sync:clickup` calls the engine without it
(`src/web/scripts/sync/clickup.ts`), so there may be any number of runners and
each has the locals of a run of its own. As in `OutlookSync` below, `before` and
`superseded` stand for the order of `sync_runs` ids. Two runs may hold different
copies of one task, and the one with the older copy may write last: nothing in
the code compares the two. `newest` remembers, as no code does, the newest copy
applied; `behind` is the set of tasks whose row was last written from an older
one, `overtaken` of those to which that has ever happened. The properties name
these as exceptions, for there the code does break what they state: the row is
that of the older content, and the latest event by `changed_at` is that of the
newer one. With one runner both sets stay empty, which is proved.

The constants `FetchSpan`, `StablePages` and `OutOfOrderFailures` say what the
environment does. The code's correctness depends on them: the runs of section 3
show a violation when they are relaxed, and the theorem names them as premises.

Left out: the HTTP client's retries (a request answers or fails for good), log
lines, the audit row of an origin transition, columns no property reads, and
reference data that changes (business units, status mappings).

### OutlookSync

| Model | Code |
|---|---|
| `Deliver` | a message reaches the mailbox, at most `Lag` behind the newest one |
| `Ingest` | the ClickUp engine inserts a ticket (`upsertTicket`), at any time |
| `StartRun(r)` | `runOutlookSync` up to the page loop: watermark, `fetchSince`, `openRun` |
| `FetchPage(r)` | the first page or the next link, of the mailbox at that moment |
| `Ignore`, `SetAside` | the message has no acknowledgement or its ticket has one already; it is ambiguous, unmatched or older than its ticket and goes into the run's details |
| `Match`, `Write` | the SELECT with its checks; the guarded UPDATE. Other runs and the ClickUp engine act between the two |
| `Fail` | the per-message `catch`; an UPDATE whose answer was lost may have been committed |
| `CloseRun`, `FatalError`, `Crash` | a run closed SUCCESS or PARTIAL, closed FAILED, or left RUNNING |

The scheduler's runs take the step's lock, a run of `scripts/sync/outlook.ts`
takes none, so every runner has a run of its own. `lastWatermark` reads the
cursor of the closed run with the largest id, not that of the run closed last:
`before` and `superseded` stand for the order of the ids, so that a run that
ends after a later one is not heard.

A page is the prefix of the ordered result behind the pages already read; the
number of pages read counts, not their contents, so a message that shows up
behind newer ones shifts the rest. `Lag` is how late a message may be in that
sense, `FetchSpan` how long a run lasts in the mailbox's clock.

Left out: the HTTP client's retries, `updated_at`, the text of messages (a
message is the set of tickets it names), and MISSING_SENT_TIME, which needs a
message without `receivedDateTime` in a result filtered and ordered by it.

### Projection

| Model | Code |
|---|---|
| `Write` | any other engine inserts or updates a ticket and bumps `updated_at`, at any time: engines run by hand take no lock |
| `AdminDecides` | an administrator sets a visibility with its ADMIN audit event, at any time, also within a run |
| `ChangeFlag` | a deployment with the other AUTO_PUBLISH_ENABLED |
| `StartRun(rebuild)` | `runProjection` up to its loop |
| `FetchBatch` | `fetchBatch`: the first `Batch` rows after (updated_at, id) |
| `Begin`, `Process` | `processTicket`: BEGIN and the read of the audit trail; the writes and COMMIT |
| `Fail` | the per-ticket `catch`, before or after `Begin` |
| `NextBatch`, `CloseRun`, `Abandon` | the loop's end, `closeRun`, a run that fails for good or crashes |

`DetermineVisibility` and `Plan` are the two pure functions of
`projection/visibility.ts`. A ticket's columns are one `text` (what is copied
to the customer), `concealed` (deleted or cancelled), the visibility state and
`updated_at`. The audit trail is reduced to what `isAdminLocked` reads of it:
whether the latest visibility event is an administrator's.

Timestamps: PostgreSQL keeps microseconds, `Date` milliseconds. One moment of
the model is a microsecond and `Fine` of them are a millisecond; cursor,
watermark and `lastUpdatedAt` are milliseconds (`Ms`), `updated_at` is not. The
batch query compares the two as the code does, so rows of the cursor's own
millisecond are read again. `BatchAssumption` (fewer rows than a batch share a
millisecond) is what keeps that from looping; a bulk UPDATE of a whole batch
of rows would break it, as the hazard list says.

A ticket's transaction is two steps, because it is READ COMMITTED and takes no
lock before its UPDATE: `Begin` notes `now()` (`began`) and what `isAdminLocked`
answers (`saw`), and others commit between it and `Process`, which decides by
what was seen then. From the UPDATE on, the others wait for the row. So a
decision made in between is overridden: `internal_tickets` gets the transform's
state, while the audit trail's latest event stays the administrator's, and the
ticket is locked in a state nobody decided. `DecisionKept` speaks of the
decisions made before the transaction began and names this exception.

### Calendar, Sla and Jobs

| Model | Code |
|---|---|
| `BusinessMinutesBetween`, `AddBusinessMinutes` | the two loops of `sla/calendar.ts`, with their limit of MAX_DAYS and the visits beyond the end |
| `DimensionState`, `ResolvePolicy`, `ComputeSlaSnapshot` | `sla/sla.ts` |
| `Page(r)` | the SELECT of a batch by `id > lastId`, `sla/compute.ts` |
| `Begin(r)`, `Commit(r)` | `processTicket`: BEGIN and the milestones from the events; comparison with the batch's copy, UPDATE, COMMIT |
| `TicketFails(r)`, `BatchFails(r)` | the per-ticket `catch`; a SELECT that fails the run |
| `Sync(r)`, `SyncEnds(r)` | what an ingestion or acknowledgement step writes: an acknowledgement, a transition, another priority |
| `Invoke(r, s)` | the route `app/api/jobs/[step]` calls `runJobStep`; `withClient` takes the lock's connection |
| `TakeLock(r)`, `SkipLocked(r)` | `pg_try_advisory_lock`; then `dispatch`, where the engine notes its time, or `skipped: "locked"` |
| `StartByHand(r, s)`, `ProcessDies(r)` | `npm run sla` and the like: a pool of its own, no lock |
| `Close(r)` | `closeRun`, then the `finally` that unlocks and releases, also if `closeRun` fails |
| `LoseLock` | the session of the lock's connection ends, broken or given away by a pooler, while the engine goes on |
| `Crash`, `Reap` | the server's process ends with all its connections; PostgreSQL drops the session and its lock |
| `RequestBegins`, `RequestEnds` | a request of the portal takes and returns a connection |

`Sla` is the engine and the other engines' writes; its actions take the runner.
`Jobs` composes: it says who runs what, adds lock and pool, and guards each of
the engine's steps by `Spare`. `InUse` counts a connection for every invocation
(the lock's), one more while a transaction is open, and one per request. An
invocation that waits for a connection is one whose step is not enabled; when
engines that hold a connection each wait for a second one, `connect()` gives up
(`TimesOut`), which fails the step as any error would. `bare` are the
invocations that have lost the lock and go on; `Guarded` those it still keeps
apart.

`mixed` marks a run that was under way together with one that no lock keeps
apart from it. It is a history variable: it decides nothing, and the properties
say with it what the lock is good for. `acked` and `priority` are columns the
SLA engine reads from its batch, not afresh; that they may have changed by the
time it commits is what `mixed` runs are exposed to. A transition the sync engines
record is later than the recorded ones, unless the run is mixed: overlapping
ClickUp runs may append an older one.

Instants are naturals, calendars have a fixed offset and a week of windows, and
the reference counts worked instants one by one. `Loaded` is `loadCalendars`:
a DATE becomes midnight of the zone the process runs in and then the date of
that instant in UTC, so the holidays the engine uses are those of the table at
or west of UTC, and each a day early east of it. `Zone` is that zone's offset.
`Reached` and `Resolved`
tabulate what the code computes each time, because it depends on constants only.
The loops of `sla/calendar.ts` are recursive functions over the days they visit:
`Remaining` is what is left before each day, `Total` what has been counted.

### SessionLife, Sessions and Login

| Model | Code |
|---|---|
| `CreateSession`, `Resolve(q, k)`, `Refresh(q)`, `Revoke(k)` | `createSession`, `resolveSession` and its separate UPDATE of `last_seen_at`, `revokeSession`, in `auth/sessionStore.ts` and `admin/adminSessionStore.ts` |
| `RequestDies(q)` | a request ends between the two statements |
| `Cleanup` | the DELETE of `jobs/sessionCleanup.ts`, customers' sessions only |
| `Switch` | an administrator sets `is_active` of a user or an account |
| `Start`, `FlowFailure`, `CalledAgain`, `Callback` | the login route; a callback with an error, a lost or foreign cookie, or a code that is not redeemed; one that is called again; `redeemCode` and the claim checks |
| `FindBoundUser`, `FindUserByEmail`, `BindSubject` | the three statements of the realms, with `decideLogin` and its denials in order |
| `AuditAdmitted`, `Admit`, `AuditDenied`, `Breaks` | the audit row, the session, the denial's row; a statement that fails in between |
| `Bootstrap` | `admin:bootstrap` on an email that has a row |

The stores of the two realms are the same code over two tables; a user of the
admin realm has no account. A flow gets at most one session, so flows stand for
their tokens. `cookie` is one browser's flow cookie: a second flow overwrites
the first, which then fails at its callback.

`SessionLife` knows no tables and no clock: a session is live, asleep or over,
is answered only while live, and wakes only through a request answered before it
fell asleep (that refresh is late, and the code lets it). `Sessions!Promise`
maps rows, columns and clock to it; `KeepsPromise` is the refinement.

### Reads and Console

| Model | Code |
|---|---|
| `CustomerMatches`, `CustomerPage`, `CustomerDetail` | `listTickets` and `getTicketDetail`, `customer/queries.ts` |
| `AdminMatches`, `AdminPage`, `Stats`, `ListAudit` | `listTickets`, `getStats` and `listAudit`, `admin/queries.ts` |
| `ToParams`, `FromParams`, `ToQuery` | the codec between filters, URL and query, `src/web/src/lib/admin/types.ts` and `api.ts` |
| `Open(p)`, `Choose`, `Clear`, `Turn`, `Retry`, `LoadMore` | what a user does on the dashboard, the ticket list and the audit viewer |
| `CountRows(r)`, `Read(r)`, `Fail(r)` | the two statements of a list's route, the one of the audit's; a failure or a refusal |
| `SignedOut(r)` | 401: the client leaves the document |
| `Settle(r)`, `LoadedMore(r)` | the answer arrives: `cancelled` in an effect's clean-up; `loadMore`, which has no such check |
| `Write`, `Draw`, `Commit` | engines and administrators write; an audit row draws its id before its transaction commits |

`Reads` is stateless but for the tables: a query is a set, a page the part of it
that LIMIT and OFFSET cut out of an order. In `Console` effects are numbered; a
fetch carries the number of the effect it belongs to, and `effect` is the last
one. `chosen` is a history variable, the filters the user's actions amount to,
so that `ShownIsAsked` also speaks about the URL's codec. `late` are the
questions that the user had given up when the answer of their `loadMore` was
appended to the list of another filter: `loadMore`
(`src/web/src/components/admin/AuditPage.tsx:84`) does not ask whether the
filters are still those it asked for. `ShownIsAsked` requires that every listed
event answers the present filters or one of `late`; `AuditComplete` is about
lists to which nothing of the kind was appended.

The Published card counts copies in `customer_tickets`, as its hint says, and
links to a list of tickets; a shared ticket has several copies.
`CardsMatchLists` therefore compares it with what customers are shown, and with
the linked list as sets: the list has exactly the tickets with a published copy
(`Exposed`).

## 3. Runs

| Run | Instance | Question |
|---|---|---|
| `clickup_sync` | two tasks that go between private and shared, resolvable and quarantined, active and archived; page size 1, three clock units, one crash or fatal error; overlap 2 | no edit is lost, a ticket's tables agree, every edit is reflected in the end |
| `clickup_overlap` | a scheduled run and one by hand; two tasks, one of which goes between private and shared, open and closed; page size 2, three clock units, one crash or fatal error; overlap 2 | no edit is lost and the tables agree, but for a task left behind |
| `clickup_freeze` | as `clickup_sync` with failures in any order and an overlap of 1 | finding 1 |
| `clickup_paging` | three tasks, edits between page requests | finding 2 |
| `outlook` | two messages, two tickets, the scheduler's run (two pages) beside one by hand (one page); page size 1, overlap 1, one fault | no acknowledgement is dropped in silence, overwritten, or made up, whatever runs overlap |
| `outlook_live` | three messages, the scheduler only, two pages a run, messages that arrive late, one fault | every message is accounted for in the end although a run reads two of three |
| `outlook_unmatched` | as above with three pages and no fault | finding 4 |
| `projection` | three tickets, one of them shared, narrowed and cancelled over time; batches of 3, two moments per millisecond, four environment events at any point of a run | nothing stale, decisions kept, rows preserved, every ticket projected in the end |
| `projection_scan` | two tickets, failures in a full scan on any ticket | finding 3 |
| `jobs` | a scheduled SLA step, a scheduled sync step and an SLA run by hand; two tickets, batches of one, a pool of two, one request, two events (changes, and at most one fault, a lost lock among them), two moments; an office calendar with weekends and a holiday, a ticket that arrives on a Saturday, and 24x7; a process west of UTC | scheduled engines never overlap, a run is exact, due times are worked minutes, closures and breaches stand, and everything is right in the end |
| `login` | two flows, two customers and an administrator, people who share email addresses; one request, one session, one change by an administrator; idle 2, maximum 3, retention 1, five hours | sessions have their owner and their audit row, bindings stand, the cleanup keeps what was in use and removes what is finished, and the stores implement `SessionLife` |
| `console` | two tickets, three units of two accounts, three audit events and three effects, pages of one row, one write | what is shown was asked, the audit trail is complete, pages partition their list, cards, lists and details agree, loading ends |

The bounds are those at which the cases differ: a page of one task makes every
stream several pages long; a second task is needed to be skipped, a third one
to shift the offset of another; the overlap of two units has edits inside and
outside of it; a batch of three with three tickets is full once and short once
and, with two moments per millisecond, holds rows that share a millisecond.
Two messages are enough for two runs to compete for a ticket, three for a page
bound of two to stop a run. Four events of the environment are enough for a
ticket to be written, decided and written again, or written, decided or
redeployed over and failed or crashed upon.

A pool of two is the smallest in which a lock holder can work at all, and the
one in which a single request or a second invocation makes it wait; a batch of
one makes two tickets two pages; two changes are enough to close and to
acknowledge, or to change a priority behind a batch's copy, one beside a fault
to disturb what the fault left. One ticket's due times lie beyond a weekend and a
holiday, and the `ASSUME MCArithmetic` of `MCJobs` compares both loops with the
reference from every instant of a fortnight, starts inside, before and after a
window and on closed days among them; the other's calendar has no gaps, and one priority has no policy. Two
flows and two customers are enough for two people to race for a row and for one to have two;
the five hours let a session fall asleep, be woken late, end and be removed. A
session more would only repeat that beside itself: no action reads two rows but
`Cleanup`, which treats them apart. Three effects are an answer that is
superseded twice; with pages of one row every ticket and event is a page border.

The clock and the counters (`MaxTime`, `MaxFaults`, `MaxEvents`, `MaxChanges`,
`MaxOpened`, `MaxWrites`, `MaxAsks`) are bounded by guards of what happens to the
engines, stores and pages, never of what these do about it; for `Jobs`, the sync
engines' writes are on the former side.

**Fairness.** The scheduler starts the step every fifteen minutes and a run
that does not crash goes on (`src/vercel.json`): weak fairness of the run's own
steps. In `ClickupSync` a task's transaction may fail any number of times, for
transient reasons, so its success is strongly fair; crashes are bounded. In
`Projection` and `OutlookSync` failures are among the bounded events, so weak
fairness is enough. In `ClickupSync` and `OutlookSync` only the scheduler's runs are fair:
nobody has to start a run by hand, nor finish it.

In `Jobs` a step that needs a connection is enabled only now and then, while
requests come and go. `pg`'s pool serves its waiting clients in order, so one
that keeps asking is served: strong fairness of a scheduled run's work. The SLA
step is fired again and again (`src/vercel.json`), and not always while another
step holds the lock, whence strong fairness of its start with the lock free and
of taking it. Requests end, PostgreSQL reaps a lost session, a process started by
hand goes on unless it dies: weak fairness. The clock is not fair: `EventuallyRight` is
about the time at which it rests. In `Login` only the cleanup is fair,
a step of the same schedule. In `Console` every fetch is answered or fails; what
users and engines do is not fair. Nothing is assumed of editors,
senders, administrators or deployments. No engine ever stops: deadlock is
checked in all runs but two. In `login` flows end and the clock is bounded, in
`console` the number of effects is: there a last state is not a fault, and
`CHECK_DEADLOCK` is off.

`EventuallyAccounted` has one exception, `Crowded`: a page bound is progress
only while the messages of the overlap alone do not fill all pages of a run. If
they do, every run reads the same messages again and the watermark stays. The
deployed values (20 pages of 50 messages) leave that to a thousand messages
within the overlap.

Every property of a passing run has a mutant in `PROJECT.json`: the definition
in the module that is changed the way a slip in the code would change it and
that TLC must then refute.

## 4. Findings

1. **A failure freezes a watermark that is already past it**
   (`sync/clickupSync.ts:441`). Archived tasks are processed after all active
   ones, hence not in the order of `date_updated`. The promise of line 452,
   "watermark held before this task; will retry on next run", fails if the
   failing task is older by more than the overlap than one processed before it.
2. **Paging by offset over a moving result** (`sync/clickupSync.ts:355`). An
   edit of a task on an earlier page shifts the rest by one, and the task at the
   border of two pages is in neither. `clickup/client.ts:195` calls the paging
   safe; it is for tasks younger than the overlap only.
3. **A failure in a full scan is not retried** (`projection/transform.ts:586`).
   After a change of AUTO_PUBLISH_ENABLED the scan reads tickets older than the
   watermark. One that fails is behind the watermark however frozen it is, and
   the PARTIAL run records the new flag. Line 591 says "re-projected next run".
4. **An unmatched acknowledgement is not looked at again**
   (`sync/outlookSync.ts:178`). The watermark advances past a message whose
   ticket is not ingested yet, and the overlap covers a ticket that comes soon.
   One that comes later stays unacknowledged although its run's log says "will
   match on a later run once synced" (line 176). `src/docs/operations.md:63`
   has the operator's way out, resetting the watermark by hand.

Beside these, seven remarks for a maintainer that no run is spent on. The
dashboard's filter offers P4, the list's route does not accept it
(`src/web/src/app/api/tickets/route.ts:13`; the model's `RoutePriorities`), so
choosing it always ends in an error. The audit viewer's `loadMore` can append to
another filter's list (`late`, section 2). A day as an upper bound ends at
23:59:59 and so leaves out its last second
(`src/web/src/lib/admin/types.ts:172`). A list counts its rows in one
statement and reads a page of them in a second one, so that a total and its rows
may be of two moments.

The other three are about the exceptions the properties name. Two overlapping
ClickUp runs may leave a ticket in an older state than one already recorded, with
a history that says otherwise (`behind`; `sync/clickupSync.ts:230`, `:285`).
An administrator's decision that commits between a ticket's BEGIN and its UPDATE
is overridden and the ticket stays locked (`projection/transform.ts:379` and
`:390`; `src/docs/projection.md:75` says "keep current state"): without its
exception `DecisionKept` is violated after Write, StartRun, FetchBatch, Begin,
AdminDecides and Process. East of UTC, holidays apply a day early
(`sla/compute.ts:77`): with `Zone` = 1 in `MCJobs`, `DueIsWorked` is violated.
A server on Vercel runs in UTC; `npm run sla` runs wherever it is called.

## 5. Proofs

`ClickupSync_proofs`: `TypeCorrect`, and `RowsAlwaysAgree`
(`Spec => []RowsAgree`) for any number of overlapping runs. The
inductive invariant adds to the types that the cursor and all copies are not
from the future (`ClockInv`, `CopyInv`) and that histories are ordered and not
younger than the ticket (`HistoryInv`, `RowInv`): `ensureStatusEvent` compares
with the event of the latest `changed_at`, and appends at the end, so the two
orders must be shown to be one, for every ticket that was not `overtaken`; a
ticket not `behind` has the stage of its latest event either way, because the
copy that put it right was no older than any applied before.
`AloneNeverBehind` shows that with one runner there are no such exceptions: every
copy a run holds of a task is at least as new as what was ever applied of it,
since only this run applies any (`FreshInv`).

`ClickupWatermark_proofs`: `NothingLost`, `SafeRegime => (Spec => []NoLostUpdate)`.
`SafeRegime` is: stable pages, failures in date order, a retrieval shorter than
the overlap, and results within MAX_PAGES pages. The argument: during a run
every task whose edit is not reflected is still *owed*. While fetching, it is
matched by a stream not yet past it, or collected at its present version, or
edited since the run started and so younger than any watermark the run can
record minus the overlap (`FetchInv`). While processing, it is pending, or
younger, or the watermark is frozen at or before it (`ProcessInv`). When the run
closes, only the last two remain, which is the property. All of this is said of
each run by itself; another run can take a task out of *reflected* only by writing an older
copy, which makes it `behind`.

`OutlookSync_proofs`: `TypeCorrect` and `FirstWriteAlwaysWins` for any number of
overlapping runs. Between its SELECT and its UPDATE a run knows of its message
only that it names one ticket, which is there and not younger (`WriteInv`);
that it is still unacknowledged is exactly what it does not know, and the
UPDATE's own condition has to say. `AcksAreGenuine` rests on the same: a message
once delivered and a ticket once ingested keep their times, so what the SELECT
saw of them holds at the UPDATE and ever after, however late that is.
`NothingEverDropped`:
`LateRegime => (Spec => []NothingDropped)`, where `LateRegime` is
Lag + FetchSpan <= Overlap. The invariant `ScanInv` is a debt per run and
message (`Debt`): a delivered message is accounted for, or noted by the run, or
too fresh for any watermark of this run to drop, or still reached from the run's
watermark because it waits in the page, lies ahead of the scan, or the watermark
is frozen. When the run closes, the debt is the property. The premise is needed where a
message shows up behind a page already read: it is late by at most `Lag`, the
run has lasted at most `FetchSpan`, and the next query must still reach it.

`Projection_proofs`: `TypeCorrect`, where an auxiliary conjunct says that a
waiting row belongs to a ticket there is; `DecisionAlwaysKept` and
`RowsAlwaysPreserved`, action properties of the projection's transaction. The
first needs `LockInv`: only a ticket there is can have been decided upon, so a
ticket's first write does not meet an administrator's lock. It also needs
`TxInv`: while a ticket's transaction is under way, what it saw of the lock is
what there is, unless the ticket has an `updated_at` after `began`.
`ProjectionFresh_proofs`: `NothingEverStale`,
`~FullScanFailures => (Spec => []NothingStale)`. `NothingStale` alone is not
inductive. `ScanInv` says that during a run each ticket is projected under the
run's flag, or waits in the batch unchanged, or lies ahead of the scan, or
failed and froze the watermark at or before itself; `BatchInv` that a waiting
row that is no longer the present one belongs to a ticket ahead of the scan
(its administrator's decision bumped `updated_at`); `ClockInv` that no recorded
moment is in the future and that the watermark never passes the scan. The lemma
about a batch's transaction splits on whether the ticket's state changes, and on
whether the row was stale; the lemmas about milliseconds (`MsBelow`, `MsAbove`)
carry the comparison of the two units.

`Jobs_proofs`, for any number of runners, any pool, any policies and calendars.
`NeverOverlap`: `OneAtATime` is inductive with the types. `RunAlwaysExact`:
`RunExact` is not. A run is *alone* if it has met no other that no lock keeps
apart; by `OneAtATime` and `Watched` (two engines at work together are both
mixed) an alone SLA run is the only engine, so nobody writes what it reads. Then
`LoopExact` holds of it: the rows of its batch are the present ones, the
milestones it has read are those of the events, every ticket up to the last one
is right for the run's time, and the tickets after the batch are those the
next page reads. When the loop ends, the last clause is all tickets. The lemmas
`Counting`, `FirstRows` and `DoneStep` carry the argument about batches: a page
shorter than BATCH leaves none behind, a full one leaves only greater ids.

`MilestonesAlwaysStable` needs no run to be alone but the one that commits.
`RecordInv` says that every milestone on record, in a batch or read by an open
transaction *stands*: it is missing, or no earlier than what the events say now (`Kept`).
Events are only added, in any order (`EventsGrow`), so the earliest of a stage
can only become earlier, and what anybody ever read of it goes on standing. `BreachesAlwaysStand`: `BreachInv`
says that a resolution recorded as breached with no closure among the events is
late for the clock and for the time of every run that is alone. Such a run
started after the one that recorded the breach (`AloneSince`), and the due time
of a policy never changes. `TypeCorrect` contains the pool: `PoolKept` counts a
connection for every invocation, one more for each that commits, and one per
request; what grows any of these asks `Spare` or is already counted.

`DueAlwaysWorked`: `Attainable /\ UtcOrWest => (Spec => []DueIsWorked)`, where
`DueIsWorked` counts with the holidays of the table and the engine with those it
has loaded. `UtcOrWest` (`Zone <= 0`) is what makes the two one (`LoadedSame`): at or west of
UTC the midnight of a date is still on that date in UTC. `Attainable` says
that a calendar's windows lie within their day and that within MAX_DAYS days of
a ticket's arrival there are as many worked minutes as its policies promise;
without the second, the code gives up at some noon, as its comment says. The
instants of a span are split at midnights. On one date the worked ones are the
intersection of span and window (`DayWork`); hence what is left before a day of
`addBusinessMinutes` is the target less the instants worked until then
(`LeftIsWork`), and the first day on which it fits ends with it (`AddIsWorked`).
`businessMinutesBetween` adds up the same intersections (`TotalIsWork`), and the
date at which it stops looking begins after the end of the span
(`BetweenIsWorked`). `MCJobs` assumes both premises of its instance, so TLC
evaluates them.

`Login_proofs`: `UseInv` says that the last answer given with a session lies
within the idle time of its row's `last_seen_at`, within its maximum age and
before its logout, also while a refresh is late or came late; each of the three
conditions of the cleanup then excludes an answer within the retention window,
which is `EvidenceIsKept`. `FlowInv` says what is known of a flow at each of its
places (from the binding on, that the user decided for has the flow's realm and
subject; before the session, that its audit row is written) and gives
`SessionsOwned` and `AdmissionAudited`; a bound subject never changes, so what
one flow has found another does not undo. `BindingStands` follows from the guard of the UPDATE
alone, in every action that touches a subject. `PromiseKept` is
`Spec => KeepsPromise`, step by step: `RowSteps` says what each action does to
one row's columns, `LifeSteps` what that does to its life, `AnsweredLives` that
only a live session is answered. `TypeCorrect` contains that no two rows of a
realm have one identity (`OneRow`): two flows that have both found it unbound and go
on to bind it meet the unique index (`Taken`), and so does an `admin:bootstrap`
that moves a bound row to another namespace. It also contains the reason a flow gives for denying, which is the first of the checks that fail;
that there is a first one among any nonempty set of them is by well-foundedness.

`Console_proofs`, for any tables, filters and page sizes. `ChoiceIsShown`: the
invariant says that a page's filters are what its user has chosen (`Choice`,
through `RoundTrip`, the codec's round trip), that the fetch of the last effect
asks exactly that (`AsksTheChoice`), that what `loadMore` fetched only touches
the audit viewer (`MoreIsAudit`, `Lists`), and hence that what a loaded page shows
is labelled with its question (`Labelled`). `RowsAsked` is about the rows: an
answer's events match its own question (`ReadCovers`), and one that `LoadedMore`
appends either answers the present question or puts its own into `late`; events
never change, so they go on matching (`RowsStay`). `TypeCorrect` contains that `loading` is
true exactly while the load of the last effect is under way, and `loadingMore`
while an answer to this instance of the page is (`Waiting`): there is at most one of
each, because every question starts a new effect and `loadMore` asks only when
none is out.

`PagesArePartition`: an order made total by the id gives the rows of a finite list
distinct ranks, the numbers below the list's size (`Ranks`), and a page is the rows
whose ranks are an interval (`PageIsShort`, `OrderIsPaged`). That each of the orders
is strict, with NULLS LAST in both directions, is `NullsLastOrder`, `CustomerStrict`
and `AdminStrict`. `AuditIsComplete`: an answer *covers* what it was asked for if
it has every committed matching event between where it began and its last one, or
all of them if it is short (`Covers`, `ReadCovers`); by ranks again, because the first
LIMIT events below an id are those of the highest ranks (`NewestLists`). Events are
only added above, and the ids that were committed stay so, hence it goes on
covering (`CoversStays`), and the answer that begins where the list ends covers
with it what both do (`CoversBoth`). `GoesOn` says that what `loadMore` asked under
the last effect begins there, for the same filters. `CardsAreRight` and
`DetailIsListed` need only the tables' types (`StoredAlways`) and compare the
conditions of the two queries; that the Published card is never below the list
it links to is by the surjection from copies to their tickets, and that it counts
what customers are shown is `ShownIsExposed`.

The proofs rest on the `ASSUME`s of the modules, which TLC evaluates in every
run, and the premises just named. `PoliciesDistinct` is about data: with two
active policies for the same account, unit and priority, `loadPolicies` without an
ORDER BY lets the database choose. `EmailIsUnique` is a constraint of the schema;
`PoliciesTyped`, `ReadsAssumption` and the rows in `ConsoleAssumption` are its CHECKs,
enums and NOT NULLs, and that a table is finite.

Induction is by least elements: every nonempty set of naturals has one
(`NatHasLeast`, from the library's `WFMin`), hence a set that contains 0 and with
each number the next contains them all up to any bound (`Climb`). That is enough for
the calendar's loops, whose recursion is over days (`SumExists`, `SumSteps`).

Only model-checked are the liveness properties `EventuallyReflected`,
`EventuallyAccounted`, `EventuallyProjected`, `EventuallyRight`,
`FinishedAreRemoved` and `Settles`: liveness under fairness is beyond the prover.
Every invariant and every action property that a passing run checks is proved.

## 6. Plan

Done: the three engines with a watermark, `Calendar`, `Sla` and `Jobs`,
`SessionLife`, `Sessions` and `Login`, `Reads` and `Console`, with all their safety
properties proved, as above. What is left, in this order:

1. Refinement: the three engines implement one abstract *watermarked copy* (a
   source of changes, a cursor, a copy that is right for everything behind the
   cursor), with the proofs above as the step lemmas.
2. Two projection runs at a time, by hand; a ticket that fails for good;
   reference data of the ingestion that changes.
3. A change of SESSION_MAX_HOURS, where the stored `expires_at` and the limit
   computed at resolution part.
4. The retry loops of the two HTTP clients, with their budgets and the
   platform's time limit.

One passing run per module is planned, and a second one only for a statement of
the code that the model refutes or for another set of actors.

## 7. Not modelled

* Token exchange and validation of signatures, which a library does: the
  provider of the model answers with any of a set of claims, or fails.
* Zones with daylight saving: the code says of itself that it is exact for fixed
  offsets. Policies and calendars that change, and deleted tickets in the SLA
  scan. The milestone BUSINESS_REVIEW is in `Sla`, but no ticket of the TLC
  instance enters that stage: it is derived by the same expression as CLOSED and
  no dimension reads it.
* Two projection runs at a time: `Projection` has one, as the advisory lock
  leaves it, beside any other engine's writes; `npm run project` takes no lock.
  A long transaction of an administrator: `updated_at` is its `now()`, so one that
  commits after the watermark has passed that moment is read only after another
  write or by a full scan.
  The model's transactions, the run's own excepted, take one step.
* Bounds of the environment that exclude a case: with `Fine < Batch` no
  millisecond fills a batch, so the scan never meets its own cursor for ever; with the
  constants of `MCClickupSync` no run reaches MAX_PAGES (500 pages of a stream), and
  `NothingLost` assumes it; a run of `Console` has pages of one row and two rows, the
  theorem has any.
* A pooler in transaction mode in front of PostgreSQL beyond the loss of the
  lock: `pg_try_advisory_lock` presupposes a session, and a lock that the pooler
  keeps on one of its own connections after the holder has gone would stop every
  step until it closes that connection. The `error` event of a checked-out client,
  which without a listener ends the process: it is `Crash`.
* The ticket's account and unit are constants of `Sla`, although the ingestion may
  change them between a batch's SELECT and its UPDATE; `priority` and `acked`, read
  the same way, are not.
* The operator's runbook for binding a person anew (`src/docs/auth.md:314`).
  `SessionOwner` and `BoundForGood` are about subjects; the namespace is compared by
  the unique index and by `FindBoundUser` only. A session that expires by being idle is
  not claimed to be removed, only one that is revoked or over age.
* Records of runs other than those a watermark is read from; the projection that
  `npm run sla` starts afterwards.
* The columns nothing reads (`last_login_at`), the cookie jar apart from the
  flow cookie, the development login.
* The overview's, ticket detail's, quarantine's and sync runs' pages, which
  fetch once and show what comes; the session and reference fetches. Matching of
  search text is a table (`Words`). A render and the effects it causes are one
  step.
* Configuration parsing, logging, the migration and verification scripts, which
  keep no state between calls.
* A client's retries, timeouts of the pool and lost answers other than as
  failures, and the schema's constraints other than those named above.
