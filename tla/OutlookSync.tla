------------------------------ MODULE OutlookSync ------------------------------
(***************************************************************************)
(* The Outlook acknowledgement engine (server/sync/outlookSync.ts with the *)
(* parser server/sync/ackEmail.ts and the paging of                        *)
(* server/graph/client.ts).  A run scans the support mailbox in the order  *)
(* of receivedDateTime from a watermark on and records the first           *)
(* acknowledgement of each ticket.  Scheduled runs exclude each other, but *)
(* a run started by hand (scripts/sync/outlook.ts) takes no lock, so       *)
(* several runs overlap; meanwhile mail arrives and ClickUp tickets are    *)
(* ingested.                                                               *)
(*                                                                         *)
(* Mails are naturals because Graph must break ties of receivedDateTime    *)
(* somehow and the model breaks them by number.                            *)
(***************************************************************************)
EXTENDS Naturals, FiniteSets

CONSTANTS
  Mails,         \* the messages that may reach the mailbox
  RefChoices,    \* mail |-> the sets of tickets it may name
  Tickets,       \* the tickets, each known by its ticket_number
  CreatedAt,     \* ticket |-> its created_at
  Runners,       \* who may run the engine
  Scheduled,     \* the runner that is the scheduler
  MaxPages,      \* runner |-> its page bound (options.maxPages)
  PageTop,       \* PAGE_TOP
  Overlap,       \* GRAPH_SYNC_OVERLAP_MS, in clock units
  Lag,           \* how late a message may show up behind newer ones
  FetchSpan,     \* how far the clock may move while a run is under way
  MaxTime,       \* bound of the clock
  MaxFaults,     \* bound of failed messages, fatal errors and crashes
  None           \* "no such row" / SQL NULL / no sentDateTime

ASSUME MailAssumption ==
  /\ Mails \subseteq Nat /\ IsFiniteSet(Mails) /\ None \notin Mails
  /\ IsFiniteSet(Tickets)
  /\ RefChoices \in [Mails -> SUBSET SUBSET Tickets]
ASSUME RunnerAssumption ==
  /\ Scheduled \in Runners
  /\ MaxPages \in [Runners -> Nat \ {0}]
ASSUME BoundAssumption ==
  /\ PageTop \in Nat \ {0} /\ Overlap \in Nat /\ Lag \in Nat /\ FetchSpan \in Nat
  /\ MaxTime \in Nat \ {0} /\ MaxFaults \in Nat
  /\ CreatedAt \in [Tickets -> Nat]

Moments == 0 .. MaxTime

\* An internal_tickets row, as far as this engine reads or writes it.
Rows == [created : Moments, acked : Moments \cup {None}, source : Mails \cup {None}]

ASSUME NoneAssumption == None \notin Moments \cup Rows

VARIABLES
  (* the mailbox *)
  clock,      \* the latest receivedDateTime
  mail,       \* mail |-> [received, sent, refs]; received 0: not there yet
  (* the runs, by runner *)
  phase,      \* "idle", "scan", or "write" between the SELECT and the UPDATE
  started,    \* the clock when the run read its watermark
  fetchSince, \* the lower end of its query
  pages,      \* pageCount
  more,       \* the last page had a nextLink
  page,       \* the messages of the page it has yet to handle
  passed,     \* the messages up to the end of that page
  watermark,  \* the watermark it has advanced to; 0: null
  frozen,     \* a message of the run failed
  noted,      \* messages in its unmatchedRefs and anomalies so far
  before,     \* the runs under way when it inserted its sync_runs row
  superseded, \* a run with a later sync_runs row has recorded a cursor
  (* PostgreSQL *)
  cursor,     \* what lastWatermark() returns; 0: null
  onRecord,   \* messages in the details of the closed runs
  ticket,     \* ticket |-> its internal_tickets row, or None
  (* the environment *)
  faults      \* failures and crashes so far

sourceVars == <<clock, mail>>
scanVars == <<pages, more, passed>>
setupVars == <<started, fetchSince, before>>
dbVars == <<cursor, onRecord, ticket>>
vars == <<sourceVars, phase, setupVars, scanVars, page, watermark, frozen, noted,
          superseded, dbVars, faults>>

-----------------------------------------------------------------------------
(* The mailbox and the ticket table                                        *)

Delivered(m) == mail[m].received > 0

Active == {r \in Runners : phase[r] # "idle"}

(* A message arrives, with a receivedDateTime at most Lag older than the   *)
(* newest one; a run takes at most FetchSpan of the clock.                 *)
Deliver(m) ==
  \E now \in clock .. MaxTime, received \in 1 .. MaxTime, refs \in RefChoices[m] :
    \E sent \in {None, received - 1} :
      /\ ~Delivered(m)
      /\ received <= now /\ clock <= received + Lag
      /\ now > clock => received = now
      /\ \A r \in Active : now <= started[r] + FetchSpan
      /\ clock' = now
      /\ mail' = [mail EXCEPT ![m] = [received |-> received, sent |-> sent, refs |-> refs]]
      /\ UNCHANGED <<phase, setupVars, scanVars, page, watermark, frozen, noted,
                     superseded, dbVars, faults>>

\* The ClickUp engine inserts a ticket; it never writes the acknowledgement.
Ingest(t) ==
  /\ ticket[t] = None
  /\ CreatedAt[t] <= clock
  /\ ticket' = [ticket EXCEPT ![t] =
       [created |-> CreatedAt[t], acked |-> None, source |-> None]]
  /\ UNCHANGED <<sourceVars, phase, setupVars, scanVars, page, watermark, frozen, noted,
                 superseded, cursor, onRecord, faults>>

-----------------------------------------------------------------------------
(* ackEmail.ts: the references in a message that has the ack phrase        *)

\* The first reference counts when there are several (mutant of Unambiguous).
SomeRef(m) == mail[m].refs # {}

\* extractAckRef: "ok" needs exactly one reference, several are never guessed.
Unambiguous(m) == Cardinality(mail[m].refs) = 1

Ref(m) == CHOOSE t \in mail[m].refs : TRUE

\* msg.sentDateTime ?? msg.receivedDateTime
SentTime(m) == IF mail[m].sent # None THEN mail[m].sent ELSE mail[m].received

-----------------------------------------------------------------------------
(* A run                                                                   *)

\* No overlap at all (mutant of FetchFrom).
WithoutOverlap(mark) == mark

\* since ? since - overlap : undefined
FetchFrom(mark) == IF mark > Overlap THEN mark - Overlap ELSE 0

StartRun(r) ==
  /\ phase[r] = "idle"
  /\ phase' = [phase EXCEPT ![r] = "scan"]
  /\ started' = [started EXCEPT ![r] = clock]
  /\ fetchSince' = [fetchSince EXCEPT ![r] = FetchFrom(cursor)]
  /\ watermark' = [watermark EXCEPT ![r] = cursor]
  /\ more' = [more EXCEPT ![r] = TRUE]
  /\ before' = [before EXCEPT ![r] = Active]
  /\ UNCHANGED <<sourceVars, pages, passed, page, frozen, noted, superseded, dbVars, faults>>

\* receivedDateTime ge fetchSince
Matching(r) == {m \in Mails : Delivered(m) /\ mail[m].received >= fetchSince[r]}

\* $orderby=receivedDateTime asc
Earlier(m, n) ==
  \/ mail[m].received < mail[n].received
  \/ mail[m].received = mail[n].received /\ m < n

\* P holds the first n messages of M, or all of M when it has fewer.
IsPrefix(P, M, n) ==
  /\ P \subseteq M
  /\ IF Cardinality(M) <= n THEN P = M ELSE Cardinality(P) = n
  /\ \A p \in P, q \in M \ P : Earlier(p, q)

\* The bound of the scheduled runs is not passed on (mutant of MorePages).
Unbounded(r) == more[r]

\* while (page && pageCount < maxPages)
MorePages(r) == more[r] /\ pages[r] < MaxPages[r]

\* The page at the nextLink's offset, of the result at this moment.
FetchPage(r) ==
  /\ phase[r] = "scan"
  /\ page[r] = {}
  /\ MorePages(r)
  /\ LET M == Matching(r) IN
     \E skipped \in SUBSET M : \E S \in SUBSET (M \ skipped) :
       /\ IsPrefix(skipped, M, pages[r] * PageTop)
       /\ IsPrefix(S, M \ skipped, PageTop)
       /\ page' = [page EXCEPT ![r] = S]
       /\ passed' = [passed EXCEPT ![r] = skipped \cup S]
       /\ more' = [more EXCEPT ![r] = skipped \cup S # M]
  /\ pages' = [pages EXCEPT ![r] = @ + 1]
  /\ UNCHANGED <<sourceVars, phase, setupVars, watermark, frozen, noted, superseded,
                 dbVars, faults>>

IsNext(r, m) ==
  /\ phase[r] = "scan"
  /\ m \in page[r]
  /\ \A n \in page[r] \ {m} : Earlier(m, n)

\* An advance that ignores the freeze (mutant of Advance).
AdvanceAnyway(r, m) ==
  watermark' = [watermark EXCEPT ![r] =
                  IF mail[m].received > @ THEN mail[m].received ELSE @]

Advance(r, m) ==
  watermark' = [watermark EXCEPT ![r] =
                  IF ~frozen[r] /\ mail[m].received > @ THEN mail[m].received ELSE @]

Done(r, m) == page' = [page EXCEPT ![r] = @ \ {m}]

\* No acknowledgement, or one of a ticket that already has one.
Ignore(r, m) ==
  /\ IsNext(r, m)
  /\ \/ mail[m].refs = {}
     \/ /\ Unambiguous(m)
        /\ ticket[Ref(m)] # None
        /\ ticket[Ref(m)].acked # None
  /\ Advance(r, m)
  /\ Done(r, m)
  /\ UNCHANGED <<sourceVars, phase, setupVars, scanVars, frozen, noted, superseded,
                 dbVars, faults>>

\* AMBIGUOUS_REF, unmatched, ACK_BEFORE_CREATED: noted and advanced past.
SetAside(r, m) ==
  /\ IsNext(r, m)
  /\ mail[m].refs # {}
  /\ \/ ~Unambiguous(m)
     \/ ticket[Ref(m)] = None
     \/ /\ ticket[Ref(m)] # None
        /\ ticket[Ref(m)].acked = None
        /\ SentTime(m) < ticket[Ref(m)].created
  /\ noted' = [noted EXCEPT ![r] = @ \cup {m}]
  /\ Advance(r, m)
  /\ Done(r, m)
  /\ UNCHANGED <<sourceVars, phase, setupVars, scanVars, frozen, superseded, dbVars, faults>>

\* The SELECT found a ticket this message may acknowledge.
Match(r, m) ==
  /\ IsNext(r, m)
  /\ Unambiguous(m)
  /\ ticket[Ref(m)] # None
  /\ ticket[Ref(m)].acked = None
  /\ SentTime(m) >= ticket[Ref(m)].created
  /\ phase' = [phase EXCEPT ![r] = "write"]
  /\ UNCHANGED <<sourceVars, setupVars, scanVars, page, watermark, frozen, noted,
                 superseded, dbVars, faults>>

\* The message whose UPDATE is due.
InHand(r, m) ==
  /\ phase[r] = "write"
  /\ m \in page[r]
  /\ \A n \in page[r] \ {m} : Earlier(m, n)

\* The row of the ticket with the message as its acknowledgement.
Acked(m) == [created |-> ticket[Ref(m)].created, acked |-> SentTime(m), source |-> m]

\* The UPDATE trusts the SELECT before it (mutant of Acknowledge).
Overwrite(m) == ticket' = [ticket EXCEPT ![Ref(m)] = Acked(m)]

\* UPDATE ... WHERE id = $1 AND acknowledged_at IS NULL
Acknowledge(m) ==
  ticket' = IF ticket[Ref(m)].acked # None THEN ticket
            ELSE [ticket EXCEPT ![Ref(m)] = Acked(m)]

Write(r, m) ==
  /\ InHand(r, m)
  /\ Acknowledge(m)
  /\ Advance(r, m)
  /\ Done(r, m)
  /\ phase' = [phase EXCEPT ![r] = "scan"]
  /\ UNCHANGED <<sourceVars, setupVars, scanVars, frozen, noted, superseded, cursor,
                 onRecord, faults>>

(* The SELECT or the UPDATE throws; an UPDATE may have been committed      *)
(* before the connection was lost.  The run goes on with the watermark     *)
(* frozen.                                                                 *)
Fail(r, m) ==
  /\ faults < MaxFaults
  /\ faults' = faults + 1
  /\ \/ IsNext(r, m) /\ Unambiguous(m) /\ UNCHANGED ticket
     \/ InHand(r, m) /\ (Acknowledge(m) \/ UNCHANGED ticket)
  /\ frozen' = [frozen EXCEPT ![r] = TRUE]
  /\ Done(r, m)
  /\ phase' = [phase EXCEPT ![r] = "scan"]
  /\ UNCHANGED <<sourceVars, setupVars, scanVars, watermark, noted, superseded, cursor,
                 onRecord>>

\* The run's local variables go out of scope.
EndRun(r) ==
  /\ phase' = [phase EXCEPT ![r] = "idle"]
  /\ started' = [started EXCEPT ![r] = 0]
  /\ fetchSince' = [fetchSince EXCEPT ![r] = 0]
  /\ pages' = [pages EXCEPT ![r] = 0]
  /\ more' = [more EXCEPT ![r] = FALSE]
  /\ page' = [page EXCEPT ![r] = {}]
  /\ passed' = [passed EXCEPT ![r] = {}]
  /\ watermark' = [watermark EXCEPT ![r] = 0]
  /\ frozen' = [frozen EXCEPT ![r] = FALSE]
  /\ noted' = [noted EXCEPT ![r] = {}]
  /\ before' = [q \in Runners |-> IF q = r THEN {} ELSE before[q] \ {r}]

(* closeRun with SUCCESS or PARTIAL.  lastWatermark() reads the cursor of  *)
(* the closed run with the largest id that has one, so a run that ends     *)
(* after a later one has recorded its cursor is not heard.                 *)
CloseRun(r) ==
  /\ phase[r] = "scan"
  /\ page[r] = {}
  /\ ~MorePages(r)
  /\ EndRun(r)
  /\ onRecord' = onRecord \cup noted[r]
  /\ LET heard == watermark[r] > 0 IN
     /\ cursor' = IF heard /\ ~superseded[r] THEN watermark[r] ELSE cursor
     /\ superseded' = [q \in Runners |->
          q # r /\ (superseded[q] \/ (heard /\ q \in before[r]))]
  /\ UNCHANGED <<sourceVars, ticket, faults>>

-----------------------------------------------------------------------------
(* Faults                                                                  *)

Abandon(r) ==
  /\ faults < MaxFaults
  /\ faults' = faults + 1
  /\ EndRun(r)
  /\ superseded' = [superseded EXCEPT ![r] = FALSE]
  /\ UNCHANGED <<sourceVars, cursor, ticket>>

(* A page request fails for good, that of a page beyond the bound too: the *)
(* run closes FAILED with its details, but no later run reads its cursor.  *)
FatalError(r) ==
  /\ phase[r] = "scan"
  /\ page[r] = {}
  /\ more[r]
  /\ Abandon(r)
  /\ onRecord' = onRecord \cup noted[r]

\* A crash or the platform's time limit: the row stays RUNNING.
Crash(r) ==
  /\ phase[r] # "idle"
  /\ Abandon(r)
  /\ UNCHANGED onRecord

-----------------------------------------------------------------------------

Init ==
  /\ clock = 1
  /\ mail = [m \in Mails |-> [received |-> 0, sent |-> None, refs |-> {}]]
  /\ phase = [r \in Runners |-> "idle"]
  /\ started = [r \in Runners |-> 0]
  /\ fetchSince = [r \in Runners |-> 0]
  /\ pages = [r \in Runners |-> 0]
  /\ more = [r \in Runners |-> FALSE]
  /\ page = [r \in Runners |-> {}]
  /\ passed = [r \in Runners |-> {}]
  /\ watermark = [r \in Runners |-> 0]
  /\ frozen = [r \in Runners |-> FALSE]
  /\ noted = [r \in Runners |-> {}]
  /\ before = [r \in Runners |-> {}]
  /\ superseded = [r \in Runners |-> FALSE]
  /\ cursor = 0
  /\ onRecord = {}
  /\ ticket = [t \in Tickets |-> None]
  /\ faults = 0

Next ==
  \/ \E m \in Mails : Deliver(m)
  \/ \E t \in Tickets : Ingest(t)
  \/ \E r \in Runners :
       \/ StartRun(r)
       \/ FetchPage(r)
       \/ \E m \in Mails : Ignore(r, m) \/ SetAside(r, m) \/ Match(r, m)
                           \/ Write(r, m) \/ Fail(r, m)
       \/ CloseRun(r)
       \/ FatalError(r)
       \/ Crash(r)

Spec == Init /\ [][Next]_vars

(* The scheduler starts a run every fifteen minutes and the run goes on.   *)
(* Nobody has to start a run by hand, nor does such a run have to end.     *)
Fairness ==
  LET r == Scheduled IN
  /\ WF_vars(StartRun(r))
  /\ WF_vars(FetchPage(r))
  /\ WF_vars(\E m \in Mails : Ignore(r, m) \/ SetAside(r, m) \/ Match(r, m) \/ Write(r, m))
  /\ WF_vars(CloseRun(r))

FairSpec == Spec /\ Fairness
-----------------------------------------------------------------------------
(* Properties                                                              *)

TypeOK ==
  /\ clock \in Moments
  /\ mail \in [Mails -> [received : Moments, sent : Moments \cup {None},
                         refs : SUBSET Tickets]]
  /\ phase \in [Runners -> {"idle", "scan", "write"}]
  /\ started \in [Runners -> Moments]
  /\ fetchSince \in [Runners -> Moments]
  /\ pages \in [Runners -> Nat] /\ \A r \in Runners : pages[r] <= MaxPages[r]
  /\ more \in [Runners -> BOOLEAN]
  /\ page \in [Runners -> SUBSET Mails]
  /\ passed \in [Runners -> SUBSET Mails]
  /\ watermark \in [Runners -> Moments]
  /\ frozen \in [Runners -> BOOLEAN]
  /\ noted \in [Runners -> SUBSET Mails]
  /\ before \in [Runners -> SUBSET Runners]
  /\ superseded \in [Runners -> BOOLEAN]
  /\ cursor \in Moments
  /\ onRecord \in SUBSET Mails
  /\ ticket \in [Tickets -> Rows \cup {None}]
  /\ faults \in 0 .. MaxFaults

\* The ticket the message names, if only one, has its acknowledgement.
Settled(m) ==
  /\ Unambiguous(m)
  /\ ticket[Ref(m)] # None
  /\ ticket[Ref(m)].acked # None

\* What the engine owes a message: a ticket acknowledged, or a record.
Accounted(m) == mail[m].refs = {} \/ Settled(m) \/ m \in onRecord

(* No acknowledgement is dropped in silence: whatever the next run will    *)
(* not scan again has its ticket acknowledged or is in the details of a    *)
(* closed run ("Never guesses; never clamps", "SKIP + log + record in the  *)
(* run's anomalies", "hold watermark before the failure"), with any runs   *)
(* by hand beside the scheduled ones.                                      *)
NothingDropped ==
  \A m \in Mails :
    Delivered(m) => mail[m].received >= FetchFrom(cursor) \/ Accounted(m)

(* FIRST-WRITE-WINS: no step changes an acknowledgement once it is there,  *)
(* whatever another run does between a run's SELECT and its UPDATE.        *)
FirstWriteWins ==
  [][\A t \in Tickets :
       ticket[t] # None => /\ ticket'[t] # None
                           /\ ticket[t].acked # None => ticket'[t] = ticket[t]]_vars

(* An acknowledgement is the send time of a message that names its ticket  *)
(* and no other, and is not older than the ticket (the table's CHECK).     *)
AckGenuine ==
  \A t \in Tickets :
    ticket[t] # None /\ ticket[t].acked # None =>
      \E m \in Mails : /\ Delivered(m)
                       /\ mail[m].refs = {t}
                       /\ ticket[t] = Acked(m)
                       /\ ticket[t].acked >= ticket[t].created

\* The messages of the overlap alone fill the pages of a scheduled run.
Crowded ==
  Cardinality({m \in Mails : /\ Delivered(m)
                             /\ mail[m].received >= FetchFrom(cursor)
                             /\ mail[m].received <= cursor})
    >= PageTop * MaxPages[Scheduled]

(* Bounded runs make progress across invocations: every message is         *)
(* accounted for in the end, whatever finite number of runs failed, unless *)
(* the watermark is stuck in front of a crowded overlap.                   *)
EventuallyAccounted ==
  \A m \in Mails : <>[](Delivered(m) => Accounted(m) \/ Crowded)

(* "ticket not ingested yet; will match on a later run once synced": an    *)
(* acknowledgement noted as unmatched counts once its ticket is ingested.  *)
MatchedOnceSynced ==
  \A m \in Mails :
    <>[](m \in onRecord /\ Unambiguous(m) /\ ticket[Ref(m)] # None
           => SentTime(m) < ticket[Ref(m)].created \/ Settled(m))
==============================================================================
