------------------------------ MODULE Projection ------------------------------
(***************************************************************************)
(* The customer projection (server/projection/transform.ts and the pure    *)
(* rules of server/projection/visibility.ts): one run at a time pages      *)
(* through the internal tickets changed since a watermark and derives, in  *)
(* one transaction per ticket, one customer row per business unit of the   *)
(* ticket's visibility set.  The internal layer is written at any time by  *)
(* administrators and by the other engines: the pipeline's lock keeps the  *)
(* scheduled ones out of a run, but not one that is started by hand.       *)
(*                                                                         *)
(* Timestamps are PostgreSQL's microseconds; a JavaScript Date keeps their *)
(* milliseconds only, and Fine of the model's moments make one of those.   *)
(***************************************************************************)
EXTENDS Naturals, FiniteSets

CONSTANTS
  Tickets,       \* the internal tickets; the ids order them
  BUs,           \* the business units
  Versions,      \* ticket |-> what the sync may write: [text, concealed, members]
  AdminStates,   \* the visibility states an administrator chooses from
  None,          \* "no such row" / SQL NULL
  Fine,          \* how many moments make one millisecond
  Batch,         \* BATCH
  MaxEvents,     \* bound of the writes, decisions, flag changes, rebuilds and faults
  FullScanFailures  \* a transaction may fail in a full scan on a ticket older
                    \* than the watermark

ASSUME TicketAssumption == Tickets \subseteq Nat \ {0} /\ IsFiniteSet(Tickets)
ASSUME VersionAssumption ==
  \A t \in Tickets : \A w \in Versions[t] :
    w.concealed \in BOOLEAN /\ w.members \in (SUBSET BUs) \ {{}}

\* Each transaction has a moment of its own, so fewer rows than a batch share
\* a millisecond.  (A bulk UPDATE by hand of Batch rows would break this.)
ASSUME BatchAssumption == Fine \in Nat \ {0} /\ Batch \in Nat /\ Fine < Batch
ASSUME EventAssumption == MaxEvents \in Nat /\ FullScanFailures \in BOOLEAN

Visibility == {"internal_only", "ready_for_customer", "published", "hidden_from_customer"}

ASSUME AdminAssumption == AdminStates \subseteq Visibility

Texts == {w.text : w \in UNION {Versions[t] : t \in Tickets}}

\* What a run reads of an internal_tickets row.
InternalRow == [text : Texts, concealed : BOOLEAN, vis : Visibility, updated : Nat]

\* A customer_tickets row and the events its timeline was rebuilt from.
CustomerRow == [text : Texts, timeline : Texts \cup {None},
                vis : {"published", "hidden_from_customer"}, publishedAt : Nat]

ASSUME NoneAssumption == None \notin InternalRow \cup CustomerRow \cup BOOLEAN \cup Nat

VARIABLES
  clock,        \* the time of the latest write
  internal,     \* internal_tickets, None before the first sync
  members,      \* internal_ticket_business_units
  adminLocked,  \* the latest visibility_state audit event of a ticket is ADMIN's
  rows,         \* customer_tickets by ticket and business unit
  autoPublish,  \* AUTO_PUBLISH_ENABLED as deployed now
  cursor,       \* watermark of the last SUCCESS or PARTIAL run, in milliseconds
  lastFlag,     \* its details.autoPublish, None before the first run
  phase,        \* "idle", "fetch" or "process"
  flag,         \* the run's autoPublish
  fullScan,     \* the run scans every ticket
  lastAt,       \* lastUpdatedAt of the run, in milliseconds; None: null
  lastId,       \* lastId of the run
  batch,        \* rows fetched and not yet processed, by ticket
  full,         \* the latest batch had Batch rows
  watermark,    \* the run's watermark, in milliseconds
  frozen,       \* a ticket of the run failed
  began,        \* now() of the ticket transaction under way, 0: none
  saw,          \* what isAdminLocked answered it
  spent         \* environment events so far

internalVars == <<internal, members, adminLocked>>
runRecord == <<cursor, lastFlag>>
txVars == <<began, saw>>
scanVars == <<flag, fullScan, lastAt, lastId, batch, full, watermark, frozen, txVars>>
vars == <<clock, internalVars, rows, autoPublish, runRecord, phase, scanVars, spent>>

Exists(t) == internal[t] # None

\* Date.getTime(): what the driver keeps of a timestamp.
Ms(at) == at \div Fine

-----------------------------------------------------------------------------
(* visibility.ts                                                           *)

\* An administrator's decision is not special (mutant of DetermineVisibility).
DecisionIgnored(locked, current, concealed, publish) ==
  CASE concealed -> "hidden_from_customer"
    [] ~concealed /\ publish -> "published"
    [] OTHER -> "ready_for_customer"

\* concealed: deleted_at is set or the raw status is cancelled.
DetermineVisibility(locked, current, concealed, publish) ==
  CASE locked -> current
    [] ~locked /\ concealed -> "hidden_from_customer"
    [] ~locked /\ ~concealed /\ publish -> "published"
    [] OTHER -> "ready_for_customer"

\* planProjectionRows: which business units get a live row, which keep a
\* tombstone and which lose their row, given those that have one.
Plan(target, visible, existing) ==
  [publish |-> IF target = "published" THEN visible ELSE {},
   hide    |-> IF target = "published" THEN {} ELSE existing \cap visible,
   remove  |-> existing \ visible]

-----------------------------------------------------------------------------
(* The other writers                                                       *)

Spend == spent < MaxEvents /\ spent' = spent + 1

Later(a, b) == IF a < b THEN b ELSE a

\* The next transaction's moment, after that of the run's own.
Now == Later(clock, began) + 1

(* The sync, acknowledgement and SLA engines insert or update a ticket and *)
(* its visibility set and bump updated_at.                                 *)
Write(t) ==
  \E w \in Versions[t] :
    /\ Spend
    /\ clock' = Now
    /\ internal' = [internal EXCEPT ![t] =
         [text |-> w.text, concealed |-> w.concealed, updated |-> clock',
          vis |-> IF Exists(t) THEN internal[t].vis ELSE "internal_only"]]
    /\ members' = [members EXCEPT ![t] = w.members]
    /\ UNCHANGED <<adminLocked, rows, autoPublish, runRecord, phase, scanVars>>

\* UPDATE internal_tickets SET visibility_state = $2, updated_at = now()
SetVisibility(t, v, at) == [internal EXCEPT ![t] = [@ EXCEPT !.vis = v, !.updated = at]]

\* An administrator decides a ticket's visibility, with its audit event.
AdminDecides(t) ==
  \E v \in AdminStates :
    /\ Exists(t)
    /\ Spend
    /\ clock' = Now
    /\ internal' = SetVisibility(t, v, clock')
    /\ adminLocked' = [adminLocked EXCEPT ![t] = TRUE]
    /\ UNCHANGED <<members, rows, autoPublish, runRecord, phase, scanVars>>

\* A deployment with the other AUTO_PUBLISH_ENABLED.
ChangeFlag ==
  /\ Spend
  /\ autoPublish' = ~autoPublish
  /\ UNCHANGED <<clock, internalVars, rows, runRecord, phase, scanVars>>

-----------------------------------------------------------------------------
(* A run                                                                   *)

\* The flag of the last run is not compared (mutant of NeedsFullScan).
RebuildOnly(rebuild) == rebuild

NeedsFullScan(rebuild) ==
  rebuild \/ (lastFlag # None /\ lastFlag # autoPublish)

StartRun(rebuild) ==
  /\ phase = "idle"
  /\ IF rebuild THEN Spend ELSE UNCHANGED spent
  /\ phase' = "fetch"
  /\ flag' = autoPublish
  /\ fullScan' = NeedsFullScan(rebuild)
  /\ lastAt' = None /\ lastId' = 0
  /\ batch' = [t \in Tickets |-> None] /\ full' = FALSE
  /\ watermark' = cursor /\ frozen' = FALSE
  /\ UNCHANGED <<clock, internalVars, rows, autoPublish, runRecord, txVars>>

\* The millisecond a batch query starts from.
CursorAt == IF lastAt # None THEN lastAt ELSE IF fullScan THEN 0 ELSE cursor

\* WHERE (updated_at > $1 OR (updated_at = $1 AND id > $2))
Due == {t \in Tickets :
          /\ Exists(t)
          /\ \/ internal[t].updated > CursorAt * Fine
             \/ internal[t].updated = CursorAt * Fine /\ t > lastId}

\* ORDER BY updated_at ASC, id ASC
Earlier(r, t, q, u) == r.updated < q.updated \/ (r.updated = q.updated /\ t < u)

FetchBatch ==
  /\ phase = "fetch"
  /\ \E S \in SUBSET Due :
       /\ IF Cardinality(Due) <= Batch THEN S = Due ELSE Cardinality(S) = Batch
       /\ \A t \in S, u \in Due \ S : Earlier(internal[t], t, internal[u], u)
       /\ batch' = [t \in Tickets |-> IF t \in S THEN internal[t] ELSE None]
       /\ full' = (Cardinality(S) = Batch)
       /\ phase' = "process"
  /\ UNCHANGED <<clock, internalVars, rows, autoPublish, runRecord, flag, fullScan,
                 lastAt, lastId, watermark, frozen, txVars, spent>>

Waiting == {t \in Tickets : batch[t] # None}

IsNext(t) ==
  /\ phase = "process"
  /\ t \in Waiting
  /\ \A u \in Waiting \ {t} : Earlier(batch[t], t, batch[u], u)

\* lastUpdatedAt and lastId move with every row, also with one that fails.
Take(t) ==
  /\ began' = 0 /\ saw' = FALSE
  /\ lastAt' = Ms(batch[t].updated)
  /\ lastId' = t
  /\ batch' = [batch EXCEPT ![t] = None]

\* An advance that ignores the freeze (mutant of Advance).
AdvanceAnyway(ms) == watermark' = IF ms > watermark THEN ms ELSE watermark

Advance(ms) == watermark' = IF ~frozen /\ ms > watermark THEN ms ELSE watermark

\* A live row is deleted and inserted anew (mutant of Published).
Recreated(t, r, b) ==
  [text |-> r.text, timeline |-> internal[t].text, vis |-> "published",
   publishedAt |-> began]

\* upsertPublished and rebuildTimeline: the fields come from the row the batch
\* read, the timeline from the events there are now, and the row, its id and
\* its published_at stay if it was there before.
Published(t, r, b) ==
  [text |-> r.text, timeline |-> internal[t].text, vis |-> "published",
   publishedAt |-> IF rows[t][b] = None THEN began ELSE rows[t][b].publishedAt]

\* A tombstone that takes the ticket's own state (mutant of Tombstone).
MirroredTombstone(row, target) == [row EXCEPT !.vis = target, !.timeline = None]

\* hideRows
Tombstone(row, target) == [row EXCEPT !.vis = "hidden_from_customer", !.timeline = None]

(* processTicket, one READ COMMITTED transaction per ticket, first its     *)
(* read of the audit trail.  What others commit between that and the       *)
(* UPDATE of the ticket is not seen; from the UPDATE on they wait.         *)
Begin(t) ==
  /\ IsNext(t)
  /\ began = 0
  /\ began' = clock + 1
  /\ saw' = adminLocked[t]
  /\ UNCHANGED <<clock, internalVars, rows, autoPublish, runRecord, phase, flag, fullScan,
                 lastAt, lastId, batch, full, watermark, frozen, spent>>

(* Its writes and its commit: the visibility set is read here, the         *)
(* ticket's own columns were read with the batch.  now() is the moment the *)
(* transaction began, so a decision made in between has the later audit    *)
(* event and goes on being the latest.  A moment that stamps nothing is    *)
(* not used up.                                                            *)
Process(t) ==
  LET r == batch[t]
      target == DetermineVisibility(saw, r.vis, r.concealed, flag)
      plan == Plan(target, members[t], {b \in BUs : rows[t][b] # None})
  IN
  /\ IsNext(t)
  /\ began # 0
  /\ internal' = IF target = r.vis THEN internal ELSE SetVisibility(t, target, began)
  /\ rows' = [rows EXCEPT ![t] = [b \in BUs |->
       IF b \in plan.publish THEN Published(t, r, b)
       ELSE IF b \in plan.hide THEN Tombstone(rows[t][b], target)
       ELSE IF b \in plan.remove THEN None
       ELSE rows[t][b]]]
  /\ clock' = IF <<internal', rows'>> = <<internal, rows>> THEN clock ELSE Later(clock, began)
  /\ Advance(Ms(r.updated))
  /\ Take(t)
  /\ UNCHANGED <<members, adminLocked, autoPublish, runRecord, phase, flag, fullScan, full,
                 frozen, spent>>

\* The transaction rolls back; the run goes on with the watermark frozen.
Fail(t) ==
  /\ IsNext(t)
  /\ Spend
  /\ FullScanFailures \/ Ms(batch[t].updated) >= cursor
  /\ frozen' = TRUE
  /\ Take(t)
  /\ UNCHANGED <<clock, internalVars, rows, autoPublish, runRecord, phase, flag, fullScan,
                 full, watermark>>

\* After a full batch the next one is fetched.
NextBatch ==
  /\ phase = "process"
  /\ Waiting = {}
  /\ full
  /\ phase' = "fetch"
  /\ UNCHANGED <<clock, internalVars, rows, autoPublish, runRecord, scanVars, spent>>

\* The run's local variables go out of scope.
EndRun ==
  /\ phase' = "idle"
  /\ flag' = FALSE /\ fullScan' = FALSE
  /\ lastAt' = None /\ lastId' = 0
  /\ batch' = [t \in Tickets |-> None] /\ full' = FALSE
  /\ watermark' = 0 /\ frozen' = FALSE
  /\ began' = 0 /\ saw' = FALSE

\* closeRun with SUCCESS or PARTIAL records the watermark and the flag.
CloseRun ==
  /\ phase = "process"
  /\ Waiting = {}
  /\ ~full
  /\ EndRun
  /\ cursor' = watermark
  /\ lastFlag' = flag
  /\ UNCHANGED <<clock, internalVars, rows, autoPublish, spent>>

\* A batch query that fails closes the run FAILED, a crash leaves it RUNNING:
\* lastRun() reads neither.
Abandon ==
  /\ phase # "idle"
  /\ Spend
  /\ EndRun
  /\ UNCHANGED <<clock, internalVars, rows, autoPublish, runRecord>>

-----------------------------------------------------------------------------

Init ==
  /\ clock = 0
  /\ internal = [t \in Tickets |-> None]
  /\ members = [t \in Tickets |-> {}]
  /\ adminLocked = [t \in Tickets |-> FALSE]
  /\ rows = [t \in Tickets |-> [b \in BUs |-> None]]
  /\ autoPublish = FALSE
  /\ cursor = 0 /\ lastFlag = None
  /\ phase = "idle"
  /\ flag = FALSE /\ fullScan = FALSE
  /\ lastAt = None /\ lastId = 0
  /\ batch = [t \in Tickets |-> None] /\ full = FALSE
  /\ watermark = 0 /\ frozen = FALSE
  /\ began = 0 /\ saw = FALSE
  /\ spent = 0

Next ==
  \/ \E t \in Tickets : Write(t)
  \/ \E t \in Tickets : AdminDecides(t)
  \/ ChangeFlag
  \/ \E rebuild \in BOOLEAN : StartRun(rebuild)
  \/ FetchBatch
  \/ \E t \in Tickets : Begin(t)
  \/ \E t \in Tickets : Process(t)
  \/ \E t \in Tickets : Fail(t)
  \/ NextBatch
  \/ CloseRun
  \/ Abandon

Spec == Init /\ [][Next]_vars

(* The scheduler starts a run every fifteen minutes, and a run goes on     *)
(* unless it crashes.                                                      *)
Fairness ==
  /\ WF_vars(StartRun(FALSE))
  /\ WF_vars(FetchBatch)
  /\ \A t \in Tickets : WF_vars(Begin(t)) /\ WF_vars(Process(t))
  /\ WF_vars(NextBatch)
  /\ WF_vars(CloseRun)

FairSpec == Spec /\ Fairness
-----------------------------------------------------------------------------
(* Properties                                                              *)

TypeOK ==
  /\ clock \in Nat
  /\ internal \in [Tickets -> InternalRow \cup {None}]
  /\ members \in [Tickets -> SUBSET BUs]
  /\ adminLocked \in [Tickets -> BOOLEAN]
  /\ rows \in [Tickets -> [BUs -> CustomerRow \cup {None}]]
  /\ autoPublish \in BOOLEAN
  /\ cursor \in Nat /\ lastFlag \in BOOLEAN \cup {None}
  /\ phase \in {"idle", "fetch", "process"}
  /\ flag \in BOOLEAN /\ fullScan \in BOOLEAN
  /\ lastAt \in Nat \cup {None} /\ lastId \in Nat
  /\ batch \in [Tickets -> InternalRow \cup {None}] /\ full \in BOOLEAN
  /\ watermark \in Nat /\ frozen \in BOOLEAN
  /\ began \in Nat /\ saw \in BOOLEAN
  /\ spent \in 0 .. MaxEvents

(* What a rebuild under the given flag from an empty customer layer would  *)
(* leave for a ticket (docs/projection.md, "Projection determinism"), up   *)
(* to tombstones, which are retained history: live rows for exactly the    *)
(* visibility set of a published ticket, with the present fields.          *)
Projected(t, publish) ==
  LET r == internal[t] IN
  /\ r.vis = DetermineVisibility(adminLocked[t], r.vis, r.concealed, publish)
  /\ \A b \in BUs :
       /\ b \notin members[t] => rows[t][b] = None
       /\ b \in members[t] /\ r.vis = "published" =>
            /\ rows[t][b] # None
            /\ rows[t][b].vis = "published"
            /\ rows[t][b].text = r.text
            /\ rows[t][b].timeline = r.text
       /\ r.vis # "published" /\ rows[t][b] # None =>
            rows[t][b].vis = "hidden_from_customer" /\ rows[t][b].timeline = None

(* Incremental equals rebuild: a ticket the next incremental run does not  *)
(* read is projected as the last recorded run's flag wants it.  This is    *)
(* what the watermark, its freeze at the first failure and the full scan   *)
(* after a change of AUTO_PUBLISH_ENABLED are for.                         *)
NothingStale ==
  \A t \in Tickets :
    Exists(t) => internal[t].updated >= cursor * Fine \/ Projected(t, lastFlag)

(* The transform never overrides a decision an administrator has made      *)
(* before the ticket's transaction began: whenever the visibility of a     *)
(* locked ticket changes, an administrator changed it again, or the        *)
(* decision was made while the transaction was under way (docs/projection, *)
(* rule 1, without that exception; the ticket then stays locked in the     *)
(* state the transform gave it).                                           *)
DecisionKept ==
  [][\A t \in Tickets :
       adminLocked[t] /\ internal'[t].vis # internal[t].vis =>
         AdminDecides(t) \/ (began # 0 /\ internal[t].updated > began)]_vars

(* Surgical withdrawal (docs/projection.md, "Projection preservation"): a  *)
(* customer row is never recreated, and is deleted only when its business  *)
(* unit left the visibility set.                                           *)
RowsPreserved ==
  [][\A t \in Tickets, b \in BUs :
       rows[t][b] # None =>
         IF rows'[t][b] = None
         THEN b \notin members[t]
         ELSE rows'[t][b].publishedAt = rows[t][b].publishedAt]_vars

(* Once nobody writes any more, every ticket is projected for good under   *)
(* the flag as deployed, whatever finite number of runs failed or crashed. *)
EventuallyProjected ==
  \A t \in Tickets : <>[](Exists(t) => Projected(t, autoPublish))
==============================================================================
