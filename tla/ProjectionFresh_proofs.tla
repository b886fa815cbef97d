------------------------ MODULE ProjectionFresh_proofs ------------------------
(***************************************************************************)
(* The proof that no customer row is ever stale behind the projection's    *)
(* watermark: what an incremental run skips, it does not have to read.     *)
(***************************************************************************)
EXTENDS Projection_proofs

-----------------------------------------------------------------------------
(* The inductive invariant                                                 *)

\* The two halves of Projected: the state the flag wants, and the rows.
VisRight(t, publish) ==
  internal[t].vis =
    DetermineVisibility(adminLocked[t], internal[t].vis, internal[t].concealed, publish)

RowsRight(t) ==
  \A b \in BUs :
    /\ b \notin members[t] => rows[t][b] = None
    /\ b \in members[t] /\ internal[t].vis = "published" =>
         /\ rows[t][b] # None
         /\ rows[t][b].vis = "published"
         /\ rows[t][b].text = internal[t].text
         /\ rows[t][b].timeline = internal[t].text
    /\ internal[t].vis # "published" /\ rows[t][b] # None =>
         rows[t][b].vis = "hidden_from_customer" /\ rows[t][b].timeline = None

\* Every recorded moment is past, and the run's flag is the recorded one
\* unless the run scans everything or is the first.
ClockInv ==
  /\ \A t \in Tickets : Exists(t) =>
       0 < internal[t].updated /\ internal[t].updated <= clock
  /\ cursor * Fine <= clock
  /\ lastFlag = None => cursor = 0
  /\ phase # "idle" =>
       /\ watermark * Fine <= clock
       /\ lastAt # None => lastAt * Fine <= clock
       /\ ~fullScan /\ lastFlag # None => flag = lastFlag
       /\ watermark * Fine <= cursor * Fine
            \/ (lastAt # None /\ watermark * Fine <= lastAt * Fine)
  /\ phase # "process" => Waiting = {}

\* A transaction that is under way began after everything the run has read.
BeganInv ==
  began # 0 =>
    /\ cursor * Fine < began /\ watermark * Fine < began
    /\ \A u \in Waiting : batch[u].updated < began

\* The scan still has to come to the ticket as it is now, after all the rows
\* of the present batch; past the last batch, the next run will come to it.
Ahead(t) ==
  /\ t \in Due
  /\ \A u \in Waiting : Earlier(batch[u], u, internal[t], t)
  /\ phase = "process" /\ ~full => watermark * Fine <= internal[t].updated

\* A waiting row is the ticket's present one, or the ticket was written since.
BatchInv ==
  \A t \in Waiting :
    /\ batch[t].updated <= clock
    /\ lastAt # None => lastAt * Fine <= batch[t].updated
    /\ \/ batch[t] = internal[t]
       \/ Ahead(t) /\ cursor * Fine <= internal[t].updated

\* During a run every ticket is projected, or waits in the batch, or lies
\* ahead of the scan, or failed and froze the watermark at or before itself.
ScanInv ==
  phase # "idle" =>
    \A t \in Tickets : Exists(t) =>
      \/ VisRight(t, flag) /\ RowsRight(t)
      \/ batch[t] = internal[t]
      \/ Ahead(t)
      \/ frozen /\ watermark * Fine <= internal[t].updated

IInv ==
  /\ TypeInv
  /\ TxInv
  /\ ClockInv
  /\ BeganInv
  /\ BatchInv
  /\ ScanInv
  /\ NothingStale

-----------------------------------------------------------------------------
(* Lemmas                                                                  *)

(* A millisecond that began before a moment is at most the moment's own.   *)
LEMMA MsAbove ==
  ASSUME NEW at \in Nat, NEW ms \in Nat, ms * Fine <= at
  PROVE  ms * Fine <= Ms(at) * Fine
<1>1. Fine \in Nat /\ 0 < Fine
  BY BatchAssumption
<1>2. /\ Ms(at) \in Nat
      /\ at < (Ms(at) + 1) * Fine
  BY <1>1 DEF Ms
<1>3. ms * Fine < (Ms(at) + 1) * Fine
  BY <1>1, <1>2
<1>4. ms < Ms(at) + 1
  BY <1>1, <1>2, <1>3
<1>5. ms <= Ms(at)
  BY <1>2, <1>4
<1> QED
  BY <1>1, <1>2, <1>5

(* The rows a ticket's transaction leaves are those of its target.         *)
LEMMA NewRowsRight ==
  ASSUME TypeOK, NEW t \in Tickets, Exists(t),
         NEW r \in InternalRow, NEW target \in Visibility, internal[t].text = r.text, NEW b \in BUs
  PROVE  LET row == NewRows(t, r, target)[b] IN
         /\ b \notin members[t] => row = None
         /\ b \in members[t] /\ target = "published" =>
              /\ row # None
              /\ row.vis = "published" /\ row.text = r.text /\ row.timeline = r.text
         /\ target # "published" /\ row # None =>
              row.vis = "hidden_from_customer" /\ row.timeline = None
<1>1. rows[t][b] \in CustomerRow \cup {None}
  BY DEF TypeOK
<1>2. members[t] \subseteq BUs
  BY DEF TypeOK
<1> DEFINE P == Published(t, r, b)
           H == Tombstone(rows[t][b], target)
<1>3. P.vis = "published" /\ P.text = r.text /\ P.timeline = r.text
  BY DEF Published
<1>4. P # None
  BY PublishedType, NoneAssumption
<1>5. rows[t][b] # None => H.vis = "hidden_from_customer" /\ H.timeline = None
  BY <1>1 DEF Tombstone, CustomerRow
<1>6. NewRows(t, r, target)[b] =
        IF target = "published" /\ b \in members[t] THEN P
        ELSE IF target # "published" /\ rows[t][b] # None /\ b \in members[t] THEN H
        ELSE IF rows[t][b] # None /\ b \notin members[t] THEN None
        ELSE rows[t][b]
  BY DEF NewRows, Plan
<1> HIDE DEF P, H
<1> QED
  BY <1>3, <1>4, <1>5, <1>6

(* Taking a row moves the cursor up to it and no further, so a row later   *)
(* in the scan's order stays due.                                          *)
LEMMA TakeFacts ==
  ASSUME TypeInv, ClockInv, BatchInv, NEW t \in Tickets, t \in Waiting,
         \A u \in Waiting : u # t => Earlier(batch[t], t, batch[u], u), Take(t)
  PROVE  /\ batch[t] \in InternalRow /\ batch[t].updated \in Nat
         /\ lastAt' \in Nat /\ lastAt' # None /\ lastAt' = Ms(batch[t].updated)
         /\ lastAt' * Fine \in Nat /\ lastAt' * Fine <= batch[t].updated
         /\ lastAt # None => lastAt * Fine <= lastAt' * Fine
         /\ batch'[t] = None
         /\ Waiting' = Waiting \ {t}
         /\ \A u \in Waiting : u # t =>
              batch'[u] = batch[u] /\ lastAt' * Fine <= batch[u].updated
         /\ \A u \in Tickets : Exists(u)' /\ Earlier(batch[t], t, internal'[u], u)
              /\ internal'[u].updated \in Nat => u \in Due'
<1>1. batch[t] \in InternalRow /\ batch[t].updated \in Nat
  BY TypeFacts DEF Waiting, TypeInv
<1>2. lastAt' \in Nat /\ lastAt' # None /\ lastAt' = Ms(batch[t].updated)
  BY <1>1, MsFacts, NoneAssumption DEF Take
<1>3. lastAt' * Fine \in Nat /\ lastAt' * Fine <= batch[t].updated
  BY <1>1, <1>2, MsFacts
<1>4. lastAt # None => lastAt * Fine <= lastAt' * Fine
  BY <1>1, <1>2, MsAbove, TypeFacts DEF BatchInv, TypeInv
<1>5. /\ batch'[t] = None
      /\ \A u \in Tickets : u # t => batch'[u] = batch[u]
  BY DEF Take, TypeInv, TypeOK
<1>6. Waiting' = Waiting \ {t}
  BY <1>5 DEF Waiting
<1>7. ASSUME NEW u \in Waiting, u # t PROVE lastAt' * Fine <= batch[u].updated
  <2>1. u \in Tickets /\ batch[u].updated \in Nat
    BY TypeFacts DEF Waiting, TypeInv
  <2> QED
    BY <1>1, <1>3, <1>7, <2>1 DEF Earlier
<1>8. ASSUME NEW u \in Tickets, Exists(u)', Earlier(batch[t], t, internal'[u], u),
             internal'[u].updated \in Nat
      PROVE  u \in Due'
  <2>1. \/ internal'[u].updated > lastAt' * Fine
        \/ internal'[u].updated = lastAt' * Fine /\ u > lastId'
    <3>1. lastId' = t /\ t \in Nat /\ u \in Nat
      BY TicketAssumption DEF Take
    <3> QED
      BY <1>1, <1>3, <1>8, <3>1 DEF Earlier
  <2> QED
    BY <1>2, <1>8, <2>1 DEF Due, CursorAt
<1> QED
  BY <1>1, <1>2, <1>3, <1>4, <1>5, <1>6, <1>7, <1>8 DEF Waiting
-----------------------------------------------------------------------------
(* The invariant is inductive                                              *)

LEMMA FreshInit == Init => IInv
<1> SUFFICES ASSUME Init PROVE IInv
  OBVIOUS
<1>1. Waiting = {} /\ \A t \in Tickets : ~Exists(t)
  BY DEF Init, Waiting, Exists
<1>2. ClockInv
  BY <1>1, FineNat DEF Init, ClockInv
<1> QED
  BY <1>1, <1>2, TypeInit
     DEF Init, IInv, TxInv, BeganInv, BatchInv, ScanInv, NothingStale

(* What a step leaves that touches nothing the invariant speaks of.        *)
LEMMA FreshStutter ==
  ASSUME IInv, TypeInv', TxInv',
         UNCHANGED <<clock, internalVars, rows, runRecord, phase, scanVars>>
  PROVE  IInv'
<1> USE DEF internalVars, runRecord, scanVars, txVars
<1>0. BeganInv'
  BY DEF IInv, BeganInv, Waiting
<1>1. ClockInv'
  BY DEF IInv, ClockInv, Exists, Waiting
<1>2. Waiting' = Waiting /\ Due' = Due /\ \A t \in Tickets : Exists(t)' <=> Exists(t)
  BY DEF Waiting, Due, CursorAt, Exists
<1>3. \A t \in Tickets : Ahead(t) => Ahead(t)'
  BY <1>2 DEF Ahead, Earlier
<1>4. BatchInv'
  BY <1>2, <1>3 DEF IInv, BatchInv, Waiting
<1>5. \A t \in Tickets, f \in BOOLEAN : VisRight(t, f) /\ RowsRight(t)
        => (VisRight(t, f) /\ RowsRight(t))'
  BY DEF VisRight, RowsRight
<1>6. ScanInv'
  BY <1>2, <1>3, <1>5 DEF IInv, ScanInv, TypeInv, TypeOK
<1>7. NothingStale'
  BY <1>2 DEF IInv, NothingStale, Projected
<1> QED
  BY <1>0, <1>1, <1>4, <1>6, <1>7 DEF IInv

(* A ticket written during a run is ahead of the scan and of its batch.    *)
LEMMA FreshWritten ==
  ASSUME IInv, TypeInv', TxInv', NEW t \in Tickets,
         clock' = Now, internal'[t] # None, internal'[t].updated = Now,
         \A u \in Tickets : u # t =>
           /\ internal'[u] = internal[u] /\ adminLocked'[u] = adminLocked[u]
           /\ members'[u] = members[u],
         UNCHANGED <<rows, runRecord, phase, scanVars>>
  PROVE  IInv'
<1>2. /\ clock \in Nat /\ cursor * Fine \in Nat /\ watermark * Fine \in Nat
      /\ (lastAt # None => lastAt \in Nat /\ lastAt * Fine \in Nat)
      /\ clock' \in Nat /\ clock < clock'
  BY TypeFacts DEF IInv, TypeInv
<1>3. /\ internal'[t] # None /\ internal'[t].updated = clock'
      /\ \A u \in Tickets : u # t =>
           /\ internal'[u] = internal[u] /\ adminLocked'[u] = adminLocked[u]
           /\ members'[u] = members[u]
  OBVIOUS
<1>4. UNCHANGED <<rows, cursor, lastFlag, phase, flag, fullScan, lastAt, lastId,
                  batch, full, watermark, frozen, began>>
  BY DEF runRecord, scanVars, txVars
<1>5. Waiting' = Waiting /\ \A u \in Tickets : u # t => (Exists(u)' <=> Exists(u))
  BY <1>3, <1>4 DEF Waiting, Exists
<1>6. ASSUME NEW u \in Tickets, Exists(u)
      PROVE  internal[u].updated \in Nat /\ internal[u].updated <= clock
             /\ 0 < internal[u].updated
  BY <1>6, TypeFacts DEF IInv, ClockInv, TypeInv
<1>7. ClockInv'
  <2>1. ASSUME NEW u \in Tickets, Exists(u)'
        PROVE  0 < internal'[u].updated /\ internal'[u].updated <= clock'
    BY <1>2, <1>3, <1>5, <1>6, <2>1
  <2>2. clock <= clock' /\ clock' \in Nat
    BY <1>2
  <2> QED
    BY <1>2, <1>4, <1>5, <2>1, <2>2 DEF IInv, ClockInv
<1>8. CursorAt' = CursorAt /\ (phase # "idle" => CursorAt * Fine \in Nat /\ CursorAt * Fine <= clock)
  BY <1>2, <1>4, FineNat DEF CursorAt, IInv, ClockInv
<1>9. ASSUME phase # "idle" PROVE Ahead(t)'
  <2>1. t \in Due'
    BY <1>2, <1>3, <1>8, <1>9 DEF Due, Exists
  <2>2. ASSUME NEW u \in Waiting PROVE batch[u].updated \in Nat /\ batch[u].updated <= clock
    BY <2>2, TypeFacts DEF IInv, BatchInv, Waiting, TypeInv
  <2>3. watermark' * Fine <= internal'[t].updated
    BY <1>2, <1>3, <1>4, <1>9 DEF IInv, ClockInv
  <2> QED
    BY <1>2, <1>3, <1>4, <1>5, <2>1, <2>2, <2>3 DEF Ahead, Earlier
<1>10. ASSUME NEW u \in Tickets, u # t, Ahead(u) PROVE Ahead(u)'
  BY <1>3, <1>4, <1>5, <1>8, <1>10 DEF Ahead, Earlier, Due, Exists
<1>11. BatchInv'
  <2> SUFFICES ASSUME NEW u \in Waiting
               PROVE  /\ batch'[u].updated <= clock'
                      /\ lastAt' # None => lastAt' * Fine <= batch'[u].updated
                      /\ \/ batch'[u] = internal'[u]
                         \/ Ahead(u)' /\ cursor' * Fine <= internal'[u].updated
    BY <1>5 DEF BatchInv
  <2>1. /\ u \in Tickets /\ phase # "idle"
        /\ batch[u].updated \in Nat /\ batch[u].updated <= clock
        /\ lastAt # None => lastAt * Fine <= batch[u].updated
        /\ \/ batch[u] = internal[u]
           \/ Ahead(u) /\ cursor * Fine <= internal[u].updated
    BY TypeFacts DEF IInv, BatchInv, Waiting, ClockInv, TypeInv
  <2>2. CASE u = t
    BY <1>2, <1>3, <1>4, <1>9, <2>1, <2>2 DEF IInv, ClockInv
  <2>3. CASE u # t
    BY <1>2, <1>3, <1>4, <1>10, <2>1, <2>3
  <2> QED
    BY <2>2, <2>3
<1>12. ASSUME NEW u \in Tickets, u # t
       PROVE  /\ \A f : VisRight(u, f) => VisRight(u, f)'
              /\ RowsRight(u) => RowsRight(u)'
              /\ Projected(u, lastFlag) => Projected(u, lastFlag)'
  BY <1>3, <1>4, <1>12 DEF VisRight, RowsRight, Projected
<1>13. ScanInv'
  <2> SUFFICES ASSUME phase # "idle", NEW u \in Tickets, Exists(u)'
               PROVE  (\/ VisRight(u, flag) /\ RowsRight(u)
                       \/ batch[u] = internal[u]
                       \/ Ahead(u)
                       \/ frozen /\ watermark * Fine <= internal[u].updated)'
    BY <1>4 DEF ScanInv
  <2>1. CASE u = t
    BY <1>9, <2>1
  <2>2. CASE u # t
    <3>1. \/ VisRight(u, flag) /\ RowsRight(u)
          \/ batch[u] = internal[u]
          \/ Ahead(u)
          \/ frozen /\ watermark * Fine <= internal[u].updated
      BY <1>5, <2>2 DEF IInv, ScanInv
    <3>2. CASE VisRight(u, flag) /\ RowsRight(u)
      BY <1>4, <1>12, <2>2, <3>2 DEF VisRight
    <3>3. CASE batch[u] = internal[u]
      BY <1>3, <1>4, <2>2, <3>3
    <3>4. CASE Ahead(u)
      BY <1>10, <2>2, <3>4
    <3>5. CASE frozen /\ watermark * Fine <= internal[u].updated
      BY <1>3, <1>4, <2>2, <3>5
    <3> QED
      BY <3>1, <3>2, <3>3, <3>4, <3>5
  <2> QED
    BY <2>1, <2>2
<1>14. NothingStale'
  <2> SUFFICES ASSUME NEW u \in Tickets, Exists(u)'
               PROVE  (internal[u].updated >= cursor * Fine \/ Projected(u, lastFlag))'
    BY DEF NothingStale
  <2>1. CASE u = t
    BY <1>2, <1>3, <1>4, <2>1 DEF IInv, ClockInv
  <2>2. CASE u # t
    BY <1>3, <1>4, <1>5, <1>12, <2>2 DEF IInv, NothingStale
  <2> QED
    BY <2>1, <2>2
<1>15. BeganInv'
  BY <1>4, <1>5 DEF IInv, BeganInv
<1> QED
  BY <1>7, <1>11, <1>13, <1>14, <1>15 DEF IInv

LEMMA FreshWrite ==
  ASSUME IInv, TypeInv', TxInv', NEW t \in Tickets, Write(t)
  PROVE  IInv'
<1>1. PICK row \in InternalRow, ms \in SUBSET BUs :
        /\ row.updated = Now /\ clock' = Now
        /\ internal' = [internal EXCEPT ![t] = row]
        /\ members' = [members EXCEPT ![t] = ms]
        /\ UNCHANGED <<adminLocked, rows, runRecord, phase, scanVars>>
  BY WriteFacts DEF IInv, TypeInv
<1>2. /\ internal'[t] # None /\ internal'[t].updated = Now
      /\ \A u \in Tickets : u # t =>
           internal'[u] = internal[u] /\ members'[u] = members[u]
  BY <1>1, NoneAssumption DEF IInv, TypeInv, TypeOK
<1> QED
  BY <1>1, <1>2, FreshWritten

LEMMA FreshAdminDecides ==
  ASSUME IInv, TypeInv', TxInv', NEW t \in Tickets, AdminDecides(t)
  PROVE  IInv'
<1>1. PICK v \in Visibility :
        /\ Exists(t) /\ clock' = Now
        /\ internal' = SetVisibility(t, v, Now)
        /\ adminLocked' = [adminLocked EXCEPT ![t] = TRUE]
        /\ UNCHANGED <<members, rows, runRecord, phase, scanVars>>
  BY AdminAssumption DEF AdminDecides
<1>2. Now \in Nat
  BY TypeFacts DEF IInv, TypeInv
<1>3. /\ internal'[t] # None /\ internal'[t].updated = Now
      /\ \A u \in Tickets : u # t =>
           internal'[u] = internal[u] /\ adminLocked'[u] = adminLocked[u]
  BY <1>1, <1>2, Retouched DEF IInv, TypeInv, TypeOK
<1> QED
  BY <1>1, <1>3, FreshWritten

(* A transaction begins after all the run has read.                        *)
LEMMA FreshBegin ==
  ASSUME IInv, TypeInv', TxInv', NEW t \in Tickets, Begin(t)
  PROVE  IInv'
<1>1. /\ phase = "process" /\ began' = clock + 1
      /\ UNCHANGED <<clock, internal, members, adminLocked, rows, cursor, lastFlag, phase,
                     flag, fullScan, lastAt, lastId, batch, full, watermark, frozen>>
  BY DEF Begin, IsNext, internalVars, runRecord
<1>2. /\ Waiting' = Waiting /\ \A u \in Tickets : Exists(u)' <=> Exists(u)
      /\ \A u \in Tickets : Ahead(u) => Ahead(u)'
  BY <1>1 DEF Waiting, Exists, Ahead, Due, CursorAt
<1>3. ClockInv'
  BY <1>1, <1>2 DEF IInv, ClockInv
<1>4. BatchInv'
  BY <1>1, <1>2 DEF IInv, BatchInv, Waiting
<1>5. ScanInv'
  BY <1>1, <1>2 DEF IInv, ScanInv, VisRight, RowsRight
<1>6. BeganInv'
  <2>1. clock \in Nat /\ cursor * Fine \in Nat /\ watermark * Fine \in Nat
        /\ \A u \in Waiting : batch[u].updated \in Nat
    BY TypeFacts DEF IInv, TypeInv, Waiting
  <2> QED
    BY <1>1, <1>2, <2>1 DEF IInv, BeganInv, ClockInv, BatchInv
<1>7. NothingStale'
  BY <1>1, <1>2 DEF IInv, NothingStale, Projected
<1> QED
  BY <1>3, <1>4, <1>5, <1>6, <1>7 DEF IInv

(* What the invariant says of a ticket outside the runs survives a step    *)
(* that leaves the tickets, the rows and the last run's record.            *)
LEMMA StaleKept ==
  ASSUME IInv, UNCHANGED <<internalVars, rows, runRecord>>
  PROVE  NothingStale'
BY DEF IInv, NothingStale, Projected, Exists, internalVars, runRecord

LEMMA FreshStartRun ==
  ASSUME IInv, TypeInv', TxInv', NEW rebuild \in BOOLEAN, StartRun(rebuild)
  PROVE  IInv'
<1>1. /\ phase' = "fetch" /\ flag' = autoPublish /\ fullScan' = NeedsFullScan(rebuild)
      /\ lastAt' = None /\ lastId' = 0 /\ watermark' = cursor /\ Waiting' = {}
      /\ UNCHANGED <<clock, internal, members, adminLocked, rows, cursor, lastFlag>>
  BY DEF StartRun, Waiting, internalVars, runRecord
<1>2. cursor * Fine \in Nat /\ cursor * Fine <= clock
  BY TypeFacts DEF IInv, ClockInv, TypeInv
<1>3. ~fullScan' /\ lastFlag # None => flag' = lastFlag
  BY <1>1 DEF NeedsFullScan
<1>4. ClockInv'
  BY <1>1, <1>2, <1>3 DEF IInv, ClockInv, Exists
<1>5. ASSUME NEW t \in Tickets, Exists(t)
      PROVE  (VisRight(t, flag)' /\ RowsRight(t)') \/ t \in Due'
  <2>1. internal[t].updated \in Nat /\ 0 < internal[t].updated /\ t \in Nat \ {0}
    BY <1>5, TypeFacts, TicketAssumption DEF IInv, ClockInv, TypeInv
  <2>2. CursorAt' = IF fullScan' THEN 0 ELSE cursor
    BY <1>1 DEF CursorAt
  <2>3. ASSUME \/ internal[t].updated > CursorAt' * Fine
               \/ internal[t].updated = CursorAt' * Fine /\ t > 0
        PROVE  t \in Due'
    BY <1>1, <1>5, <2>3 DEF Due, Exists
  <2>4. CASE CursorAt' = 0
    BY <2>1, <2>3, <2>4, FineNat
  <2>5. CASE internal[t].updated >= cursor * Fine
    BY <1>2, <2>1, <2>2, <2>3, <2>4, <2>5
  <2>6. CASE Projected(t, lastFlag) /\ CursorAt' # 0
    <3>1. lastFlag # None /\ flag' = lastFlag
      BY <1>3, <2>2, <2>6 DEF IInv, ClockInv
    <3> QED
      BY <1>1, <2>6, <3>1 DEF Projected, VisRight, RowsRight
  <2> QED
    BY <1>5, <2>4, <2>5, <2>6 DEF IInv, NothingStale
<1>6. ScanInv'
  BY <1>1, <1>5 DEF ScanInv, Ahead, Exists
<1>7. BeganInv'
  BY DEF StartRun, IInv, TxInv, IsNext, BeganInv, txVars
<1> QED
  BY <1>1, <1>4, <1>6, <1>7, StaleKept DEF IInv, BatchInv, StartRun

(* A batch leaves out a due ticket only if it is full, and then the ticket *)
(* comes after all its rows.                                               *)
LEMMA FreshFetchBatch ==
  ASSUME IInv, TypeInv', TxInv', FetchBatch
  PROVE  IInv'
<1>1. PICK S \in SUBSET Due :
        /\ IF Cardinality(Due) <= Batch THEN S = Due ELSE Cardinality(S) = Batch
        /\ \A t \in S, u \in Due \ S : Earlier(internal[t], t, internal[u], u)
        /\ batch' = [t \in Tickets |-> IF t \in S THEN internal[t] ELSE None]
        /\ full' = (Cardinality(S) = Batch)
  BY DEF FetchBatch
<1>2. /\ phase = "fetch" /\ phase' = "process"
      /\ UNCHANGED <<clock, internal, members, adminLocked, rows, cursor, lastFlag, flag,
                     fullScan, lastAt, lastId, watermark, frozen>>
  BY DEF FetchBatch, internalVars, runRecord
<1>3. Waiting = {} /\ Waiting' = S /\ S \subseteq Tickets
      /\ \A t \in S : Exists(t) /\ batch'[t] = internal[t]
  BY <1>1, <1>2 DEF IInv, ClockInv, Waiting, Due, Exists
<1>4. ASSUME NEW t \in Tickets, t \in Due, t \notin S PROVE full'
  BY <1>1, <1>4
<1>5. Due' = Due
  BY <1>2 DEF Due, CursorAt, Exists
<1>6. ClockInv'
  BY <1>2 DEF IInv, ClockInv, Exists
<1>7. BatchInv'
  <2> SUFFICES ASSUME NEW t \in S
               PROVE  /\ internal[t].updated <= clock
                      /\ lastAt # None => lastAt * Fine <= internal[t].updated
    BY <1>2, <1>3 DEF BatchInv
  <2>1. internal[t].updated \in Nat /\ internal[t].updated <= clock
    BY <1>3, TypeFacts DEF IInv, ClockInv, TypeInv
  <2>2. lastAt # None => lastAt * Fine \in Nat
    BY TypeFacts DEF IInv, TypeInv
  <2> QED
    BY <1>1, <2>1, <2>2 DEF Due, CursorAt
<1>8. ScanInv'
  <2> SUFFICES ASSUME NEW t \in Tickets, Exists(t)
               PROVE  (\/ VisRight(t, flag) /\ RowsRight(t)
                       \/ batch[t] = internal[t]
                       \/ Ahead(t)
                       \/ frozen /\ watermark * Fine <= internal[t].updated)'
    BY <1>2 DEF ScanInv, Exists
  <2>1. batch[t] # internal[t]
    BY <1>3 DEF Waiting, Exists
  <2>2. CASE VisRight(t, flag) /\ RowsRight(t)
    BY <1>2, <2>2 DEF VisRight, RowsRight
  <2>3. CASE Ahead(t) /\ t \in S
    BY <1>2, <1>3, <2>3
  <2>4. CASE Ahead(t) /\ t \notin S
    <3>1. t \in Due'  /\ full'
      BY <1>4, <1>5, <2>4 DEF Ahead
    <3>2. \A u \in Waiting' : Earlier(batch'[u], u, internal'[t], t)
      BY <1>1, <1>2, <1>3, <1>5, <2>4, <3>1
    <3> QED
      BY <3>1, <3>2 DEF Ahead
  <2>5. CASE frozen /\ watermark * Fine <= internal[t].updated
    BY <1>2, <2>5
  <2> QED
    BY <1>2, <2>1, <2>2, <2>3, <2>4, <2>5 DEF IInv, ScanInv
<1>9. BeganInv'
  BY DEF FetchBatch, IInv, TxInv, IsNext, BeganInv, txVars
<1> QED
  BY <1>6, <1>7, <1>8, <1>9, StaleKept DEF IInv, FetchBatch

LEMMA FreshNextBatch ==
  ASSUME IInv, TypeInv', TxInv', NextBatch
  PROVE  IInv'
<1>1. /\ phase = "process" /\ phase' = "fetch" /\ Waiting = {} /\ Waiting' = {}
      /\ UNCHANGED <<clock, internal, members, adminLocked, rows, cursor, lastFlag, flag,
                     fullScan, lastAt, lastId, watermark, frozen, batch>>
  BY DEF NextBatch, internalVars, runRecord, scanVars, Waiting
<1>2. ClockInv'
  BY <1>1 DEF IInv, ClockInv, Exists
<1>3. ASSUME NEW t \in Tickets, Ahead(t) PROVE Ahead(t)'
  BY <1>1, <1>3 DEF Ahead, Due, CursorAt, Exists
<1>4. \A t \in Tickets : VisRight(t, flag) /\ RowsRight(t) =>
                           (VisRight(t, flag) /\ RowsRight(t))'
  BY <1>1 DEF VisRight, RowsRight
<1>5. ScanInv'
  BY <1>1, <1>3, <1>4 DEF IInv, ScanInv, Exists
<1>6. BeganInv'
  BY <1>1 DEF NextBatch, IInv, TxInv, IsNext, BeganInv, scanVars, txVars
<1> QED
  BY <1>1, <1>2, <1>5, <1>6, StaleKept DEF IInv, BatchInv, NextBatch

(* A run that ends has nothing left to come to, so a ticket that is not    *)
(* projected lies at or after the watermark the run records.               *)
LEMMA FreshCloseRun ==
  ASSUME IInv, TypeInv', TxInv', CloseRun
  PROVE  IInv'
<1>1. /\ phase = "process" /\ phase' = "idle" /\ Waiting = {} /\ Waiting' = {} /\ ~full
      /\ cursor' = watermark /\ lastFlag' = flag
      /\ UNCHANGED <<clock, internal, members, adminLocked, rows>>
  BY DEF CloseRun, EndRun, Waiting, internalVars
<1>2. flag # None
  BY NoneAssumption DEF IInv, TypeInv, TypeOK
<1>3. ClockInv'
  BY <1>1, <1>2 DEF IInv, ClockInv, Exists
<1>4. NothingStale'
  <2> SUFFICES ASSUME NEW t \in Tickets, Exists(t)
               PROVE  (internal[t].updated >= cursor * Fine \/ Projected(t, lastFlag))'
    BY <1>1 DEF NothingStale, Exists
  <2>1. internal[t].updated \in Nat /\ watermark * Fine \in Nat
    BY TypeFacts DEF IInv, TypeInv
  <2>2. CASE VisRight(t, flag) /\ RowsRight(t)
    BY <1>1, <2>2 DEF VisRight, RowsRight, Projected
  <2>3. CASE watermark * Fine <= internal[t].updated
    BY <1>1, <2>1, <2>3
  <2> QED
    BY <1>1, <2>2, <2>3 DEF IInv, ScanInv, Ahead, Waiting, Exists
<1>5. BeganInv'
  BY DEF CloseRun, EndRun, BeganInv
<1> QED
  BY <1>1, <1>3, <1>4, <1>5 DEF IInv, BatchInv, ScanInv

LEMMA FreshAbandon ==
  ASSUME IInv, TypeInv', TxInv', Abandon
  PROVE  IInv'
<1>1. /\ phase' = "idle" /\ Waiting' = {}
      /\ UNCHANGED <<clock, internal, members, adminLocked, rows, cursor, lastFlag>>
  BY DEF Abandon, EndRun, Waiting, internalVars, runRecord
<1>2. ClockInv'
  BY <1>1 DEF IInv, ClockInv, Exists
<1>3. BeganInv'
  BY DEF Abandon, EndRun, BeganInv
<1> QED
  BY <1>1, <1>2, <1>3, StaleKept DEF IInv, BatchInv, ScanInv, Abandon

(* A waiting ticket is ahead of the scan only if it was written since, and *)
(* then it stays so when a row before it is taken.                         *)
LEMMA AheadKept ==
  ASSUME IInv, TypeInv', NEW t \in Tickets, IsNext(t), Take(t),
         UNCHANGED <<phase, full>>,
         watermark' * Fine <= watermark * Fine \/ watermark' * Fine <= batch[t].updated,
         NEW u \in Tickets, Exists(u), Ahead(u), internal'[u] = internal[u]
  PROVE  Ahead(u)'
<1>1. /\ t \in Waiting /\ phase = "process"
      /\ \A w \in Waiting : w # t => Earlier(batch[t], t, batch[w], w)
  BY DEF IsNext
<1>2. /\ internal[u].updated \in Nat
      /\ watermark * Fine \in Nat /\ watermark' * Fine \in Nat
  BY TypeFacts, MsProduct DEF IInv, TypeInv, TypeOK
<1>3. Earlier(batch[t], t, internal[u], u) /\ Exists(u)'
  BY <1>1 DEF Ahead, Exists
<1>4. /\ u \in Due' /\ Waiting' = Waiting \ {t} /\ batch[t].updated \in Nat
      /\ \A w \in Waiting' : batch'[w] = batch[w]
  BY <1>1, <1>2, <1>3, TakeFacts DEF IInv
<1>5. phase' = "process" /\ ~full' => watermark' * Fine <= internal'[u].updated
  <2>1. batch[t].updated <= internal[u].updated
    BY <1>2, <1>3, <1>4 DEF Earlier
  <2> QED
    BY <1>1, <1>2, <1>4, <2>1 DEF Ahead
<1> QED
  BY <1>4, <1>5 DEF Ahead

(* The watermark is never after a row that is still to be taken.           *)
LEMMA WatermarkBehind ==
  ASSUME IInv, NEW t \in Tickets, IsNext(t), Take(t),
         cursor * Fine <= batch[t].updated
  PROVE  watermark * Fine <= batch[t].updated
<1>1. /\ t \in Waiting /\ phase = "process" /\ batch[t].updated \in Nat
      /\ cursor * Fine \in Nat /\ watermark * Fine \in Nat
      /\ lastAt # None => lastAt * Fine \in Nat /\ lastAt * Fine <= batch[t].updated
  BY TypeFacts DEF IsNext, Waiting, IInv, TypeInv, BatchInv
<1> QED
  BY <1>1 DEF IInv, ClockInv

(* A failure freezes the watermark at or before the ticket that failed,    *)
(* unless it failed in a full scan and lies before the last watermark.     *)
LEMMA FreshFail ==
  ASSUME ~FullScanFailures, IInv, TypeInv', TxInv', NEW t \in Tickets, Fail(t)
  PROVE  IInv'
<1>1. /\ IsNext(t) /\ Take(t) /\ frozen' = TRUE /\ Ms(batch[t].updated) >= cursor
      /\ UNCHANGED <<clock, internal, members, adminLocked, rows, cursor, lastFlag, phase,
                     flag, fullScan, full, watermark>>
  BY DEF Fail, internalVars, runRecord
<1>2. /\ t \in Waiting /\ phase = "process" /\ batch[t].updated <= clock
      /\ \A w \in Waiting : w # t => Earlier(batch[t], t, batch[w], w)
  BY <1>1 DEF IsNext, IInv, BatchInv
<1>3. /\ batch[t].updated \in Nat /\ clock \in Nat /\ cursor \in Nat
      /\ watermark * Fine \in Nat /\ cursor * Fine \in Nat
      /\ lastAt # None => lastAt * Fine \in Nat
  BY <1>2, TypeFacts DEF Waiting, IInv, TypeInv
<1>4. /\ lastAt' # None /\ lastAt' * Fine \in Nat /\ lastAt' * Fine <= batch[t].updated
      /\ lastAt # None => lastAt * Fine <= lastAt' * Fine
      /\ Waiting' = Waiting \ {t}
      /\ \A u \in Waiting : u # t =>
           batch'[u] = batch[u] /\ lastAt' * Fine <= batch[u].updated
  BY <1>1, <1>2, TakeFacts DEF IInv
<1>5. watermark * Fine <= batch[t].updated
  <2>1. cursor * Fine <= batch[t].updated
    BY <1>1, <1>3, MsBelow
  <2> QED
    BY <1>1, <2>1, WatermarkBehind
<1>6. ClockInv'
  BY <1>1, <1>2, <1>3, <1>4 DEF IInv, ClockInv, Exists
<1>7. ASSUME NEW u \in Tickets, Exists(u), Ahead(u) PROVE Ahead(u)'
  BY <1>1, <1>3, <1>7, AheadKept
<1>8. BatchInv'
  <2> SUFFICES ASSUME NEW u \in Waiting, u # t
               PROVE  \/ batch[u] = internal[u]
                      \/ Ahead(u)' /\ cursor * Fine <= internal[u].updated
    BY <1>1, <1>4 DEF BatchInv, IInv
  <2> QED
    BY <1>7 DEF BatchInv, IInv, TypeInv, Waiting
<1>9. ScanInv'
  <2> SUFFICES ASSUME NEW u \in Tickets, Exists(u)
               PROVE  (\/ VisRight(u, flag) /\ RowsRight(u)
                       \/ batch[u] = internal[u]
                       \/ Ahead(u)
                       \/ frozen /\ watermark * Fine <= internal[u].updated)'
    BY <1>1 DEF ScanInv, Exists
  <2>1. CASE VisRight(u, flag) /\ RowsRight(u)
    BY <1>1, <2>1 DEF VisRight, RowsRight
  <2>2. CASE batch[u] = internal[u] /\ u # t
    BY <1>1, <1>4, <2>2 DEF Waiting, Exists
  <2>3. CASE batch[u] = internal[u] /\ u = t
    BY <1>1, <1>5, <2>3
  <2>4. CASE Ahead(u)
    BY <1>7, <2>4
  <2>5. CASE frozen /\ watermark * Fine <= internal[u].updated
    BY <1>1, <2>5
  <2> QED
    BY <1>2, <2>1, <2>2, <2>3, <2>4, <2>5 DEF IInv, ScanInv
<1>10. BeganInv'
  BY <1>1 DEF Take, BeganInv
<1> QED
  BY <1>1, <1>6, <1>8, <1>9, <1>10, StaleKept DEF IInv, Fail

(* A ticket's transaction projects the ticket if its row was the present   *)
(* one, and leaves it to the rest of the scan if not.                      *)
LEMMA FreshProcess ==
  ASSUME IInv, TypeInv', TxInv', NEW t \in Tickets, Process(t)
  PROVE  IInv'
<1> DEFINE r == batch[t]
           target == DetermineVisibility(saw, r.vis, r.concealed, flag)
           keep == target = r.vis /\ UNCHANGED internal
           move == target # r.vis /\ ~saw /\ internal' = SetVisibility(t, target, began)
<1>1. /\ IsNext(t) /\ Take(t) /\ Advance(Ms(r.updated))
      /\ rows' = [rows EXCEPT ![t] = NewRows(t, r, target)]
      /\ keep \/ move
      /\ began # 0
      /\ clock' = IF <<internal', rows'>> = <<internal, rows>>
                  THEN clock ELSE Later(clock, began)
      /\ UNCHANGED <<members, adminLocked, cursor, lastFlag, phase, flag, fullScan, full,
                     frozen>>
  BY ProcessFacts DEF IInv, TypeInv, Process, runRecord
<1>2. /\ t \in Waiting /\ phase = "process" /\ r.updated <= clock /\ Exists(t)
      /\ \A w \in Waiting : w # t => Earlier(r, t, batch[w], w)
  BY <1>1 DEF IsNext, IInv, BatchInv, TypeInv
<1>3. /\ r \in InternalRow /\ r.updated \in Nat /\ clock \in Nat /\ cursor \in Nat
      /\ watermark * Fine \in Nat /\ cursor * Fine \in Nat
      /\ lastAt # None => lastAt * Fine \in Nat
      /\ internal[t] \in InternalRow /\ internal[t].updated \in Nat
      /\ began \in Nat
  BY <1>2, TypeFacts DEF Waiting, IInv, TypeInv
<1>4. /\ lastAt' # None /\ lastAt' * Fine \in Nat /\ lastAt' * Fine <= r.updated
      /\ lastAt' = Ms(r.updated)
      /\ lastAt # None => lastAt * Fine <= lastAt' * Fine
      /\ Waiting' = Waiting \ {t}
      /\ \A u \in Waiting : u # t =>
           batch'[u] = batch[u] /\ lastAt' * Fine <= batch[u].updated
  BY <1>1, <1>2, TakeFacts DEF IInv
<1>5. target \in Visibility
      /\ (~saw => target = DetermineVisibility(FALSE, target, r.concealed, flag))
  <2>1. /\ saw \in BOOLEAN /\ flag \in BOOLEAN
        /\ r.vis \in Visibility /\ r.concealed \in BOOLEAN
    BY <1>3, RowTypes DEF IInv, TypeInv, TypeOK
  <2>2. target \in Visibility
    BY <2>1, DetermineFacts
  <2> HIDE DEF r
  <2>3. ~saw => target = DetermineVisibility(FALSE, target, r.concealed, flag)
    BY <2>1 DEF DetermineVisibility, Visibility
  <2> QED
    BY <2>2, <2>3
<1>6. watermark' = watermark \/ (~frozen /\ watermark' = lastAt')
  BY <1>1, <1>4 DEF Advance
<1>7. move => /\ internal'[t] # None /\ internal'[t].vis = target
              /\ internal'[t].updated = began
              /\ internal'[t].text = internal[t].text
              /\ internal'[t].concealed = internal[t].concealed
  <2> HIDE DEF target
  <2> QED
    BY <1>2, <1>3, <1>5, Retouched DEF IInv, TypeInv, TypeOK
<1>8. ASSUME NEW u \in Tickets, u # t
      PROVE  internal'[u] = internal[u] /\ adminLocked'[u] = adminLocked[u]
             /\ rows'[u] = rows[u]
  <2> HIDE DEF target
  <2> QED
    BY <1>1, <1>2, <1>3, <1>5, <1>8, Retouched DEF IInv, TypeInv, TypeOK
<1>9. clock' \in Nat /\ clock <= clock' /\ (move => began <= clock')
  <2>1. clock' = clock \/ clock' = Later(clock, began)
    BY <1>1
  <2>2. clock' \in Nat /\ clock <= clock'
    BY <1>3, <2>1 DEF Later
  <2>3. ASSUME move, internal' = internal PROVE began <= clock
    BY <1>2, <1>7, <2>3 DEF IInv, ClockInv
  <2>4. ASSUME internal' # internal PROVE began <= clock'
    BY <1>1, <1>3, <2>4 DEF Later
  <2> QED
    BY <1>3, <2>2, <2>3, <2>4
<1>10. keep => internal' = internal /\ target = r.vis
  OBVIOUS
<1>11. rows'[t] = NewRows(t, r, target)
  BY <1>1 DEF IInv, TypeInv, TypeOK
<1>12. keep \/ move
  BY <1>1
<1>22. /\ cursor * Fine < began /\ watermark * Fine < began
       /\ \A u \in Waiting : batch[u].updated < began
  BY <1>1 DEF IInv, BeganInv
<1>23. ASSUME batch[t] = internal[t]
       PROVE  /\ saw => adminLocked[t]
              /\ ~saw => ~adminLocked[t]
  <2>1. internal[t].updated < began
    BY <1>2, <1>22, <1>23
  <2> QED
    BY <1>1, <1>3, <2>1 DEF IInv, TxInv
<1> HIDE DEF r, target, keep, move
<1>13. ClockInv'
  <2>1. ASSUME NEW u \in Tickets, Exists(u)'
        PROVE  0 < internal'[u].updated /\ internal'[u].updated <= clock'
    <3>1. CASE internal'[u] = internal[u]
      BY <1>3, <1>9, <2>1, <3>1, TypeFacts DEF IInv, ClockInv, Exists, TypeInv
    <3>2. CASE u = t /\ move
      BY <1>3, <1>7, <1>9, <1>22, <3>2
    <3> QED
      BY <1>8, <1>10, <1>12, <3>1, <3>2
  <2>2. watermark' * Fine <= clock' /\ lastAt' * Fine <= clock'
    BY <1>2, <1>3, <1>4, <1>6, <1>9 DEF IInv, ClockInv
  <2>3. \/ watermark' * Fine <= cursor * Fine
        \/ watermark' * Fine <= lastAt' * Fine
    BY <1>2, <1>3, <1>4, <1>6 DEF IInv, ClockInv
  <2> QED
    BY <1>1, <1>2, <1>3, <1>4, <1>9, <2>1, <2>2, <2>3 DEF IInv, ClockInv
<1>14. watermark' * Fine <= watermark * Fine \/ watermark' * Fine <= r.updated
  BY <1>3, <1>4, <1>6
<1>15. ASSUME NEW u \in Tickets, Exists(u), Ahead(u), u # t \/ keep PROVE Ahead(u)'
  BY <1>1, <1>8, <1>10, <1>14, <1>15, AheadKept DEF r
<1>16. ASSUME move PROVE Ahead(t)'
  <2>0. r.updated < began
    BY <1>2, <1>22 DEF r
  <2>1. t \in Due'
    BY <1>2, <1>3, <1>4, <1>7, <1>16, <2>0 DEF Due, CursorAt, Exists
  <2>2. ASSUME NEW u \in Waiting'
        PROVE  batch'[u].updated \in Nat /\ batch'[u].updated < began
    BY <1>4, <1>22, <2>2, TypeFacts DEF IInv, Waiting, TypeInv
  <2>3. watermark' * Fine <= internal'[t].updated
    BY <1>3, <1>4, <1>6, <1>7, <1>16, <1>22, <2>0
  <2> QED
    BY <1>3, <1>7, <1>16, <2>1, <2>2, <2>3 DEF Ahead, Earlier
<1>17. BatchInv'
  <2> SUFFICES ASSUME NEW u \in Waiting, u # t
               PROVE  /\ batch[u].updated <= clock'
                      /\ \/ batch[u] = internal[u]
                         \/ Ahead(u)' /\ cursor * Fine <= internal[u].updated
    BY <1>1, <1>4, <1>8 DEF BatchInv, Waiting
  <2>1. batch[u].updated <= clock /\ batch[u].updated \in Nat /\ u \in Tickets /\ Exists(u)
    BY TypeFacts DEF BatchInv, IInv, TypeInv, Waiting
  <2> QED
    BY <1>3, <1>9, <1>15, <2>1 DEF BatchInv, IInv
<1>18. ASSUME batch[t] = internal[t]
       PROVE  RowsRight(t)' /\ VisRight(t, flag)'
  <2>1. internal'[t].vis = target /\ internal'[t].text = r.text
        /\ internal'[t].concealed = r.concealed
    BY <1>7, <1>10, <1>12, <1>18 DEF r
  <2>2. RowsRight(t)'
    <3> SUFFICES ASSUME NEW b \in BUs
                 PROVE  LET row == NewRows(t, r, target)[b] IN
                        /\ b \notin members[t] => row = None
                        /\ b \in members[t] /\ target = "published" =>
                             /\ row # None
                             /\ row.vis = "published"
                             /\ row.text = r.text /\ row.timeline = r.text
                        /\ target # "published" /\ row # None =>
                             row.vis = "hidden_from_customer" /\ row.timeline = None
      BY <1>1, <1>11, <2>1 DEF RowsRight
    <3> QED
      BY <1>2, <1>3, <1>5, <1>9, <1>18, NewRowsRight DEF r, IInv, TypeInv
  <2>3. VisRight(t, flag)'
    <3>1. CASE saw
      <4>1. adminLocked'[t] /\ DetermineVisibility(TRUE, target, r.concealed, flag) = target
        BY <1>1, <1>18, <1>23, <3>1 DEF DetermineVisibility
      <4> QED
        BY <1>1, <2>1, <4>1 DEF VisRight, DetermineVisibility
    <3>2. CASE ~saw
      <4>1. ~adminLocked'[t]
        BY <1>1, <1>18, <1>23, <3>2
      <4> QED
        BY <1>1, <1>5, <2>1, <3>2, <4>1 DEF VisRight, DetermineVisibility
    <3> QED
      BY <3>1, <3>2
  <2> QED
    BY <2>2, <2>3
<1>19. ASSUME NEW u \in Tickets, u # t
       PROVE  /\ \A f : VisRight(u, f) => VisRight(u, f)'
              /\ RowsRight(u) => RowsRight(u)'
              /\ Projected(u, lastFlag) => Projected(u, lastFlag)'
  BY <1>1, <1>8, <1>19 DEF VisRight, RowsRight, Projected
<1>20. ScanInv'
  <2> SUFFICES ASSUME NEW u \in Tickets, Exists(u)'
               PROVE  (\/ VisRight(u, flag) /\ RowsRight(u)
                       \/ batch[u] = internal[u]
                       \/ Ahead(u)
                       \/ frozen /\ watermark * Fine <= internal[u].updated)'
    BY DEF ScanInv
  <2>1. CASE u = t
    <3>1. CASE batch[t] = internal[t]
      BY <1>18, <2>1, <3>1
    <3>2. CASE batch[t] # internal[t]
      BY <1>2, <1>12, <1>15, <1>16, <2>1, <3>2 DEF IInv, BatchInv
    <3> QED
      BY <3>1, <3>2
  <2>2. CASE u # t
    <3>1. Exists(u)
      BY <1>8, <2>2 DEF Exists
    <3>2. CASE VisRight(u, flag) /\ RowsRight(u)
      <4>1. VisRight(u, flag)' /\ RowsRight(u)'
        BY <1>1, <1>19, <2>2, <3>2 DEF VisRight
      <4> QED
        BY <4>1
    <3>3. CASE batch[u] = internal[u]
      BY <1>4, <1>8, <2>2, <3>1, <3>3 DEF Waiting, Exists
    <3>4. CASE Ahead(u)
      BY <1>15, <2>2, <3>1, <3>4
    <3>5. CASE frozen /\ watermark * Fine <= internal[u].updated
      BY <1>1, <1>6, <1>8, <2>2, <3>5
    <3> QED
      BY <1>2, <3>1, <3>2, <3>3, <3>4, <3>5 DEF IInv, ScanInv
  <2> QED
    BY <2>1, <2>2
<1>21. NothingStale'
  <2> SUFFICES ASSUME NEW u \in Tickets, Exists(u)'
               PROVE  (internal[u].updated >= cursor * Fine \/ Projected(u, lastFlag))'
    BY DEF NothingStale
  <2>1. CASE u # t
    BY <1>1, <1>8, <1>19, <2>1 DEF IInv, NothingStale, Exists
  <2>2. CASE u = t /\ move
    BY <1>1, <1>3, <1>7, <1>22, <2>2
  <2>3. CASE u = t /\ keep /\ internal[t].updated >= cursor * Fine
    BY <1>1, <1>10, <2>3
  <2>4. CASE u = t /\ keep /\ ~(internal[t].updated >= cursor * Fine)
    <3>1. batch[t] = internal[t] /\ Projected(t, lastFlag)
      BY <1>2, <1>3, <2>4 DEF IInv, BatchInv, NothingStale
    <3>2. RowsRight(t)'
      BY <1>18, <3>1
    <3>3. Projected(t, lastFlag)'
      BY <1>1, <1>10, <2>4, <3>1, <3>2 DEF Projected, RowsRight
    <3> QED
      BY <2>4, <3>3
  <2> QED
    BY <1>12, <2>1, <2>2, <2>3, <2>4
<1>24. BeganInv'
  BY <1>1 DEF Take, BeganInv
<1> QED
  BY <1>13, <1>17, <1>20, <1>21, <1>24 DEF IInv

-----------------------------------------------------------------------------

LEMMA FreshStep ==
  ASSUME ~FullScanFailures, IInv, [Next]_vars
  PROVE  IInv'
<1>1. TypeInv' /\ TxInv'
  BY TypeStep, WaitingStep, TxStep DEF IInv, TypeInv
<1>2. CASE ChangeFlag
  BY <1>1, <1>2, FreshStutter DEF ChangeFlag
<1>3. CASE UNCHANGED vars
  BY <1>1, <1>3, FreshStutter DEF vars
<1> QED
  BY <1>1, <1>2, <1>3, FreshWrite, FreshAdminDecides, FreshStartRun, FreshFetchBatch,
     FreshBegin, FreshProcess, FreshFail, FreshNextBatch, FreshCloseRun, FreshAbandon DEF Next

(* Incremental equals rebuild: if no ticket older than the watermark fails *)
(* in a full scan, then at every moment, whatever was written, decided,    *)
(* redeployed, failed or crashed, a ticket the next incremental run does   *)
(* not read is projected as the last recorded flag wants it.               *)
THEOREM NothingEverStale == ~FullScanFailures => (Spec => []NothingStale)
<1> SUFFICES ASSUME ~FullScanFailures PROVE Spec => []NothingStale
  OBVIOUS
<1>1. IInv /\ [Next]_vars => IInv'
  BY FreshStep
<1>2. IInv => NothingStale
  BY DEF IInv
<1> QED
  BY <1>1, <1>2, FreshInit, PTL DEF Spec
=============================================================================
