-------------------------- MODULE Projection_proofs --------------------------
(***************************************************************************)
(* Proofs about Projection for every value of its constants.               *)
(***************************************************************************)
EXTENDS Projection, TLAPS

-----------------------------------------------------------------------------
(* Lemmas about data                                                       *)

(* Milliseconds round down, and order moments as they order milliseconds.  *)
LEMMA MsFacts ==
  ASSUME NEW at \in Nat
  PROVE  /\ Ms(at) \in Nat
         /\ Ms(at) * Fine \in Nat
         /\ Ms(at) * Fine <= at
BY BatchAssumption DEF Ms

LEMMA MsBelow ==
  ASSUME NEW at \in Nat, NEW ms \in Nat, ms <= Ms(at)
  PROVE  ms * Fine <= at
BY BatchAssumption DEF Ms

LEMMA MsProduct == \A ms \in Nat : ms * Fine \in Nat
BY BatchAssumption

LEMMA FineNat == Fine \in Nat /\ Batch \in Nat /\ 0 * Fine = 0
BY BatchAssumption

(* The target of a ticket is a visibility state, the ticket's own one when *)
(* an administrator decided it, and does not depend on it otherwise.       *)
LEMMA DetermineFacts ==
  ASSUME NEW locked \in BOOLEAN, NEW current \in Visibility,
         NEW concealed \in BOOLEAN, NEW publish \in BOOLEAN
  PROVE  LET target == DetermineVisibility(locked, current, concealed, publish) IN
         /\ target \in Visibility
         /\ locked => target = current
         /\ ~locked => target = DetermineVisibility(FALSE, target, concealed, publish)
BY DEF DetermineVisibility, Visibility

(* Records of a type, and records with a field replaced.                   *)
LEMMA RowTypes ==
  ASSUME NEW r \in InternalRow
  PROVE  /\ r # None
         /\ r.text \in Texts /\ r.concealed \in BOOLEAN
         /\ r.vis \in Visibility /\ r.updated \in Nat
         /\ \A v \in Visibility, at \in Nat :
              /\ [r EXCEPT !.vis = v, !.updated = at] \in InternalRow
              /\ [r EXCEPT !.vis = v, !.updated = at].text = r.text
              /\ [r EXCEPT !.vis = v, !.updated = at].concealed = r.concealed
              /\ [r EXCEPT !.vis = v, !.updated = at].vis = v
              /\ [r EXCEPT !.vis = v, !.updated = at].updated = at
<1>1. r # None
  BY NoneAssumption
<1> QED
  BY <1>1 DEF InternalRow

LEMMA TypeFacts ==
  ASSUME TypeOK
  PROVE  /\ clock \in Nat /\ cursor \in Nat /\ watermark \in Nat /\ lastId \in Nat
         /\ cursor * Fine \in Nat /\ watermark * Fine \in Nat
         /\ lastAt # None => lastAt \in Nat /\ lastAt * Fine \in Nat
         /\ began \in Nat /\ Now \in Nat /\ clock < Now /\ began < Now
         /\ \A t \in Tickets :
              /\ t \in Nat
              /\ Exists(t) => internal[t] \in InternalRow /\ internal[t].updated \in Nat
              /\ batch[t] # None => batch[t] \in InternalRow /\ batch[t].updated \in Nat
<1>1. \A r \in InternalRow : r.updated \in Nat
  BY RowTypes
<1>2. clock \in Nat /\ began \in Nat
  BY DEF TypeOK
<1>3. Now \in Nat /\ clock < Now /\ began < Now
  BY <1>2 DEF Now, Later
<1> QED
  BY <1>1, <1>2, <1>3, MsProduct, TicketAssumption DEF TypeOK, Exists

(* A ticket's visibility and moment replaced, its other columns kept.      *)
LEMMA Retouched ==
  ASSUME TypeOK, NEW t \in Tickets, Exists(t), NEW v \in Visibility, NEW at \in Nat
  PROVE  LET f == SetVisibility(t, v, at) IN
         /\ f \in [Tickets -> InternalRow \cup {None}]
         /\ \A u \in Tickets : u # t => f[u] = internal[u]
         /\ f[t] \in InternalRow /\ f[t] # None
         /\ f[t].vis = v /\ f[t].updated = at
         /\ f[t].text = internal[t].text /\ f[t].concealed = internal[t].concealed
<1>1. internal \in [Tickets -> InternalRow \cup {None}] /\ internal[t] \in InternalRow
  BY TypeFacts DEF TypeOK
<1>q. PICK q \in InternalRow : q = internal[t]
  BY <1>1
<1> DEFINE f == SetVisibility(t, v, at)
           r == [q EXCEPT !.vis = v, !.updated = at]
<1>2. /\ r \in InternalRow /\ r.vis = v /\ r.updated = at
      /\ r.text = q.text /\ r.concealed = q.concealed
  BY DEF InternalRow
<1>3. f = [internal EXCEPT ![t] = r]
  BY <1>1, <1>q DEF SetVisibility
<1> HIDE DEF f, r
<1>4. f \in [Tickets -> InternalRow \cup {None}] /\ f[t] = r
      /\ \A u \in Tickets : u # t => f[u] = internal[u]
  BY <1>1, <1>2, <1>3
<1> QED
  BY <1>q, <1>2, <1>4, NoneAssumption DEF f

-----------------------------------------------------------------------------
(* Type correctness                                                        *)

\* A row that waits in the batch is a row there is.
TypeInv == TypeOK /\ \A t \in Waiting : Exists(t)

(* What a ticket's transaction makes of its customer rows.                 *)
NewRows(t, r, target) ==
  [b \in BUs |->
     LET plan == Plan(target, members[t], {c \in BUs : rows[t][c] # None}) IN
     IF b \in plan.publish THEN Published(t, r, b)
     ELSE IF b \in plan.hide THEN Tombstone(rows[t][b], target)
     ELSE IF b \in plan.remove THEN None
     ELSE rows[t][b]]

(* The writes of a ticket's transaction, with their target named.          *)
LEMMA ProcessFacts ==
  ASSUME TypeOK, NEW t \in Tickets, Process(t)
  PROVE  LET r == batch[t]
             target == DetermineVisibility(saw, r.vis, r.concealed, flag)
         IN
         /\ phase = "process" /\ t \in Waiting /\ began # 0
         /\ \A u \in Waiting : u # t => Earlier(r, t, batch[u], u)
         /\ \/ target = r.vis /\ UNCHANGED internal
            \/ target # r.vis /\ ~saw /\ internal' = SetVisibility(t, target, began)
         /\ clock' = IF <<internal', rows'>> = <<internal, rows>>
                     THEN clock ELSE Later(clock, began)
         /\ rows' = [rows EXCEPT ![t] = NewRows(t, r, target)]
         /\ Advance(Ms(r.updated))
         /\ Take(t)
         /\ UNCHANGED <<members, adminLocked, autoPublish, runRecord, phase, flag, fullScan,
                        full, frozen, spent>>
<1>1. phase = "process" /\ t \in Waiting
      /\ \A u \in Waiting : u # t => Earlier(batch[t], t, batch[u], u)
  BY DEF Process, IsNext
<1>2. batch[t] \in InternalRow
  BY <1>1, TypeFacts DEF Waiting
<1>3. saw =>
        DetermineVisibility(saw, batch[t].vis, batch[t].concealed, flag) = batch[t].vis
  BY DEF DetermineVisibility
<1> QED
  BY <1>1, <1>3 DEF Process, NewRows

LEMMA PublishedType ==
  ASSUME TypeOK, NEW t \in Tickets, Exists(t), NEW r \in InternalRow,
         NEW b \in BUs
  PROVE  Published(t, r, b) \in CustomerRow
<1>1. rows[t][b] \in CustomerRow \cup {None}
  BY DEF TypeOK
<1>2. internal[t].text \in Texts /\ r.text \in Texts
  BY TypeFacts, RowTypes
<1>3. rows[t][b] # None => rows[t][b].publishedAt \in Nat
  BY <1>1 DEF CustomerRow
<1>4. began \in Nat
  BY DEF TypeOK
<1> QED
  BY <1>2, <1>3, <1>4 DEF Published, CustomerRow

LEMMA NewRowsType ==
  ASSUME TypeOK, NEW t \in Tickets, Exists(t),
         NEW r \in InternalRow, NEW target \in Visibility
  PROVE  NewRows(t, r, target) \in [BUs -> CustomerRow \cup {None}]
<1> SUFFICES ASSUME NEW b \in BUs
             PROVE  NewRows(t, r, target)[b] \in CustomerRow \cup {None}
  BY DEF NewRows
<1>1. rows[t][b] \in CustomerRow \cup {None}
  BY DEF TypeOK
<1>2. Published(t, r, b) \in CustomerRow
  BY PublishedType
<1>3. rows[t][b] # None => Tombstone(rows[t][b], target) \in CustomerRow
  BY <1>1 DEF Tombstone, CustomerRow
<1>4. ASSUME b \in Plan(target, members[t], {c \in BUs : rows[t][c] # None}).hide
      PROVE  rows[t][b] # None
  BY <1>4 DEF Plan
<1> QED
  BY <1>1, <1>2, <1>3, <1>4 DEF NewRows

LEMMA TypeInit == Init => TypeInv
<1> SUFFICES ASSUME Init PROVE TypeInv
  OBVIOUS
<1>1. rows \in [Tickets -> [BUs -> CustomerRow \cup {None}]]
  BY DEF Init
<1>2. /\ internal \in [Tickets -> InternalRow \cup {None}]
      /\ batch \in [Tickets -> InternalRow \cup {None}]
  BY DEF Init
<1>3. members \in [Tickets -> SUBSET BUs] /\ adminLocked \in [Tickets -> BOOLEAN]
  BY DEF Init
<1>4. Waiting = {}
  BY DEF Init, Waiting
<1>5. 0 \in 0 .. MaxEvents
  BY EventAssumption
<1>6. TypeOK
  BY <1>1, <1>2, <1>3, <1>5 DEF Init, TypeOK
<1> QED
  BY <1>4, <1>6 DEF TypeInv

LEMMA SpendType == TypeOK /\ Spend => spent' \in 0 .. MaxEvents
BY EventAssumption DEF TypeOK, Spend

(* A write by another engine replaces the row and the visibility set.      *)
LEMMA WriteFacts ==
  ASSUME TypeOK, NEW t \in Tickets, Write(t)
  PROVE  \E row \in InternalRow, ms \in SUBSET BUs :
           /\ row.updated = Now
           /\ Exists(t) => row.vis = internal[t].vis
           /\ clock' = Now
           /\ internal' = [internal EXCEPT ![t] = row]
           /\ members' = [members EXCEPT ![t] = ms]
           /\ UNCHANGED <<adminLocked, rows, autoPublish, runRecord, phase, scanVars>>
<1>1. PICK w \in Versions[t] :
        /\ clock' = Now
        /\ internal' = [internal EXCEPT ![t] =
             [text |-> w.text, concealed |-> w.concealed, updated |-> clock',
              vis |-> IF Exists(t) THEN internal[t].vis ELSE "internal_only"]]
        /\ members' = [members EXCEPT ![t] = w.members]
  BY DEF Write
<1> DEFINE row == [text |-> w.text, concealed |-> w.concealed, updated |-> clock',
                   vis |-> IF Exists(t) THEN internal[t].vis ELSE "internal_only"]
<1>2. w.text \in Texts /\ w.concealed \in BOOLEAN /\ w.members \in SUBSET BUs
  BY VersionAssumption DEF Texts
<1>3. Exists(t) => internal[t].vis \in Visibility
  BY TypeFacts, RowTypes
<1>4. clock' \in Nat
  BY <1>1, TypeFacts
<1>5. row \in InternalRow
  BY <1>2, <1>3, <1>4 DEF InternalRow, Visibility
<1>6. row.updated = Now /\ (Exists(t) => row.vis = internal[t].vis)
  BY <1>1
<1>7. internal' = [internal EXCEPT ![t] = row]
  BY <1>1
<1> HIDE DEF row
<1> QED
  BY <1>1, <1>2, <1>5, <1>6, <1>7 DEF Write

LEMMA TypeStep == TypeInv /\ [Next]_vars => TypeOK'
<1> SUFFICES ASSUME TypeOK, \A t \in Waiting : Exists(t), [Next]_vars PROVE TypeOK'
  BY DEF TypeInv
<1> USE DEF TypeOK
<1>1. ASSUME NEW t \in Tickets, Write(t) PROVE TypeOK'
  <2>1. PICK row \in InternalRow, ms \in SUBSET BUs :
          /\ clock' = Now
          /\ internal' = [internal EXCEPT ![t] = row]
          /\ members' = [members EXCEPT ![t] = ms]
          /\ UNCHANGED <<adminLocked, rows, autoPublish, runRecord, phase, scanVars>>
    BY <1>1, WriteFacts
  <2>2. internal' \in [Tickets -> InternalRow \cup {None}]
    BY <2>1
  <2>3. members' \in [Tickets -> SUBSET BUs]
    BY <2>1
  <2>4. spent' \in 0 .. MaxEvents /\ Now \in Nat
    BY <1>1, SpendType, TypeFacts DEF Write
  <2> QED
    BY <2>1, <2>2, <2>3, <2>4 DEF runRecord, scanVars, txVars
<1>2. ASSUME NEW t \in Tickets, AdminDecides(t) PROVE TypeOK'
  <2>1. PICK v \in AdminStates :
          /\ Exists(t) /\ clock' = Now
          /\ internal' = SetVisibility(t, v, clock')
          /\ adminLocked' = [adminLocked EXCEPT ![t] = TRUE]
    BY <1>2 DEF AdminDecides
  <2>2. internal[t] \in InternalRow /\ v \in Visibility
    BY <2>1, TypeFacts, AdminAssumption
  <2>3. clock' \in Nat
    BY <2>1, TypeFacts
  <2>4. internal' \in [Tickets -> InternalRow \cup {None}]
    BY <2>1, <2>2, <2>3, Retouched
  <2>5. adminLocked' \in [Tickets -> BOOLEAN]
    BY <2>1
  <2>6. spent' \in 0 .. MaxEvents
    BY <1>2, SpendType DEF AdminDecides
  <2> QED
    BY <1>2, <2>1, <2>3, <2>4, <2>5, <2>6 DEF AdminDecides, runRecord, scanVars, txVars
<1>3. CASE ChangeFlag
  <2>1. spent' \in 0 .. MaxEvents
    BY <1>3, SpendType DEF ChangeFlag
  <2> QED
    BY <1>3, <2>1 DEF ChangeFlag, internalVars, runRecord, scanVars, txVars
<1>4. ASSUME NEW rebuild \in BOOLEAN, StartRun(rebuild) PROVE TypeOK'
  <2>1. spent' \in 0 .. MaxEvents
    BY <1>4, SpendType DEF StartRun
  <2>2. NeedsFullScan(rebuild) \in BOOLEAN
    BY DEF NeedsFullScan
  <2> QED
    BY <1>4, <2>1, <2>2 DEF StartRun, internalVars, runRecord, txVars
<1>5. CASE FetchBatch
  <2>1. PICK S \in SUBSET Due :
          /\ batch' = [t \in Tickets |-> IF t \in S THEN internal[t] ELSE None]
          /\ full' = (Cardinality(S) = Batch)
          /\ phase' = "process"
    BY <1>5 DEF FetchBatch
  <2>2. batch' \in [Tickets -> InternalRow \cup {None}]
    BY <2>1
  <2> QED
    BY <1>5, <2>1, <2>2 DEF FetchBatch, internalVars, runRecord, txVars
<1>6. ASSUME NEW t \in Tickets, t \in Waiting, Take(t)
      PROVE  /\ lastAt' \in Nat /\ lastId' \in Nat
             /\ began' \in Nat /\ saw' \in BOOLEAN
             /\ batch' \in [Tickets -> InternalRow \cup {None}]
             /\ Ms(batch[t].updated) \in Nat
  <2>1. Ms(batch[t].updated) \in Nat
    BY <1>6, TypeFacts, MsFacts DEF Waiting
  <2> QED
    BY <1>6, <2>1, TypeFacts DEF Take
<1>7. ASSUME NEW t \in Tickets, Process(t) PROVE TypeOK'
  <2> DEFINE r == batch[t]
             target == DetermineVisibility(saw, r.vis, r.concealed, flag)
  <2>1. /\ t \in Waiting
        /\ UNCHANGED internal \/ internal' = SetVisibility(t, target, began)
        /\ clock' \in {clock, Later(clock, began)}
        /\ rows' = [rows EXCEPT ![t] = NewRows(t, r, target)]
        /\ Advance(Ms(r.updated)) /\ Take(t)
        /\ UNCHANGED <<members, adminLocked, autoPublish, runRecord, phase, flag, fullScan,
                       full, frozen, spent>>
    BY <1>7, ProcessFacts
  <2>2. r \in InternalRow
    BY <2>1, TypeFacts DEF Waiting
  <2>3. target \in Visibility
    BY <2>2, RowTypes, DetermineFacts
  <2>4. clock' \in Nat
    BY <2>1 DEF Later
  <2>5. Exists(t)
    BY <2>1
  <2>6. internal' \in [Tickets -> InternalRow \cup {None}]
    BY <2>1, <2>3, <2>5, Retouched
  <2>7. rows' \in [Tickets -> [BUs -> CustomerRow \cup {None}]]
    <3>1. NewRows(t, r, target) \in [BUs -> CustomerRow \cup {None}]
      BY <2>2, <2>3, <2>5, NewRowsType
    <3> HIDE DEF target
    <3> QED
      BY <2>1, <3>1
  <2>8. watermark' \in Nat
    BY <2>1, <1>6 DEF Advance
  <2> QED
    BY <1>6, <2>1, <2>4, <2>6, <2>7, <2>8 DEF runRecord
<1>8. ASSUME NEW t \in Tickets, Fail(t) PROVE TypeOK'
  <2>1. t \in Waiting /\ Take(t)
    BY <1>8 DEF Fail, IsNext
  <2>2. spent' \in 0 .. MaxEvents
    BY <1>8, SpendType DEF Fail
  <2> QED
    BY <1>6, <1>8, <2>1, <2>2 DEF Fail, internalVars, runRecord
<1>9. CASE NextBatch
  BY <1>9 DEF NextBatch, internalVars, runRecord, scanVars, txVars
<1>10. ASSUME EndRun
       PROVE  /\ phase' \in {"idle", "fetch", "process"}
              /\ flag' \in BOOLEAN /\ fullScan' \in BOOLEAN
              /\ lastAt' \in Nat \cup {None} /\ lastId' \in Nat
              /\ batch' \in [Tickets -> InternalRow \cup {None}] /\ full' \in BOOLEAN
              /\ watermark' \in Nat /\ frozen' \in BOOLEAN
              /\ began' \in Nat /\ saw' \in BOOLEAN
  BY <1>10 DEF EndRun
<1>11. CASE CloseRun
  BY <1>10, <1>11 DEF CloseRun, internalVars
<1>12. CASE Abandon
  <2>1. spent' \in 0 .. MaxEvents
    BY <1>12, SpendType DEF Abandon
  <2> QED
    BY <1>10, <1>12, <2>1 DEF Abandon, internalVars, runRecord
<1>13. CASE UNCHANGED vars
  BY <1>13 DEF vars, internalVars, runRecord, scanVars, txVars
<1>14. ASSUME NEW t \in Tickets, Begin(t) PROVE TypeOK'
  BY <1>14 DEF Begin, internalVars, runRecord
<1> QED
  BY <1>1, <1>2, <1>3, <1>4, <1>5, <1>7, <1>8, <1>9, <1>11, <1>12, <1>13, <1>14 DEF Next

LEMMA WaitingStep == TypeInv /\ [Next]_vars => (\A t \in Waiting : Exists(t))'
<1> SUFFICES ASSUME TypeOK, \A t \in Waiting : Exists(t), [Next]_vars,
                    NEW u \in Tickets, batch'[u] # None
             PROVE  internal'[u] # None
  BY DEF TypeInv, Waiting, Exists
<1> USE DEF Exists, Waiting
<1>1. ASSUME batch'[u] = batch[u], internal[u] # None => internal'[u] # None
      PROVE  internal'[u] # None
  BY <1>1
<1>2. ASSUME NEW t \in Tickets, Write(t) PROVE internal'[u] # None
  <2>1. PICK row \in InternalRow, ms \in SUBSET BUs :
          internal' = [internal EXCEPT ![t] = row]
    BY <1>2, WriteFacts
  <2>2. internal[u] # None => internal'[u] # None
    BY <2>1, NoneAssumption DEF TypeOK
  <2> QED
    BY <1>1, <1>2, <2>2 DEF Write, scanVars
<1>3. ASSUME NEW t \in Tickets, Exists(t), NEW v \in Visibility, NEW at \in Nat,
             internal' = SetVisibility(t, v, at)
      PROVE  internal[u] # None => internal'[u] # None
  BY <1>3, Retouched
<1>4. ASSUME NEW t \in Tickets, AdminDecides(t) PROVE internal'[u] # None
  <2>1. PICK v \in Visibility : internal' = SetVisibility(t, v, Now)
    BY <1>4, AdminAssumption DEF AdminDecides
  <2>2. Now \in Nat
    BY TypeFacts
  <2> QED
    BY <1>1, <1>3, <1>4, <2>1, <2>2 DEF AdminDecides, scanVars
<1>5. CASE ChangeFlag
  BY <1>1, <1>5 DEF ChangeFlag, internalVars, scanVars
<1>6. ASSUME NEW rebuild \in BOOLEAN, StartRun(rebuild) PROVE internal'[u] # None
  BY <1>6 DEF StartRun
<1>7. CASE FetchBatch
  BY <1>7 DEF FetchBatch, Due, internalVars
<1>8. ASSUME NEW t \in Tickets, Take(t) PROVE batch'[u] = batch[u] /\ internal[u] # None
  BY <1>8 DEF Take, TypeOK
<1>9. ASSUME NEW t \in Tickets, Process(t) PROVE internal'[u] # None
  <2> DEFINE target == DetermineVisibility(saw, batch[t].vis, batch[t].concealed, flag)
  <2>1. /\ t \in Waiting /\ Take(t)
        /\ UNCHANGED internal \/ internal' = SetVisibility(t, target, began)
    BY <1>9, ProcessFacts
  <2>2. target \in Visibility
    BY <2>1, TypeFacts, RowTypes, DetermineFacts DEF TypeOK
  <2> HIDE DEF target
  <2> QED
    BY <1>3, <1>8, <2>1, <2>2, TypeFacts
<1>10. ASSUME NEW t \in Tickets, Fail(t) PROVE internal'[u] # None
  BY <1>8, <1>10 DEF Fail, internalVars
<1>11. CASE NextBatch
  BY <1>1, <1>11 DEF NextBatch, internalVars, scanVars
<1>12. CASE CloseRun \/ Abandon
  BY <1>12 DEF CloseRun, Abandon, EndRun
<1>13. CASE UNCHANGED vars
  BY <1>1, <1>13 DEF vars, internalVars, scanVars
<1>14. ASSUME NEW t \in Tickets, Begin(t) PROVE internal'[u] # None
  BY <1>1, <1>14 DEF Begin, internalVars
<1> QED
  BY <1>2, <1>4, <1>5, <1>6, <1>7, <1>9, <1>10, <1>11, <1>12, <1>13, <1>14 DEF Next

(* Every variable of the projection and of its input keeps its type.       *)
THEOREM TypeCorrect == Spec => []TypeOK
<1>1. TypeInv /\ [Next]_vars => TypeInv'
  BY TypeStep, WaitingStep DEF TypeInv
<1>2. TypeInv => TypeOK
  BY DEF TypeInv
<1> QED
  BY <1>1, <1>2, TypeInit, PTL DEF Spec
-----------------------------------------------------------------------------
(* What a step may never do                                                *)

\* Only a ticket there is can have been decided.
LockInv == \A t \in Tickets : adminLocked[t] => Exists(t)

\* A transaction is about the next ticket of the batch, and knows whether an
\* administrator decided it unless the ticket was written since it began.
TxInv ==
  began # 0 =>
    /\ \E t \in Tickets : IsNext(t)
    /\ \A t \in Tickets : IsNext(t) =>
         /\ saw => adminLocked[t]
         /\ adminLocked[t] => saw \/ internal[t].updated > began

(* What a step does to one ticket's state, unless an administrator decides *)
(* it: nothing if it was decided before the transaction under way began.   *)
LEMMA StepVis ==
  ASSUME TypeInv, LockInv, TxInv, [Next]_vars, NEW t \in Tickets
  PROVE  /\ adminLocked[t] => \/ AdminDecides(t)
                              \/ internal'[t].vis = internal[t].vis
                              \/ began # 0 /\ internal[t].updated > began
         /\ adminLocked'[t] => Exists(t)'
<1> USE DEF internalVars
<1> DEFINE G == /\ adminLocked[t] => \/ AdminDecides(t)
                                     \/ internal'[t].vis = internal[t].vis
                                     \/ began # 0 /\ internal[t].updated > began
                /\ adminLocked'[t] => Exists(t)'
<1>1. ASSUME internal'[t] = internal[t], adminLocked'[t] = adminLocked[t] PROVE G
  BY <1>1 DEF LockInv, Exists
<1>2. ASSUME NEW u \in Tickets, Write(u) PROVE G
  <2>1. PICK row \in InternalRow, ms \in SUBSET BUs :
          /\ Exists(u) => row.vis = internal[u].vis
          /\ internal' = [internal EXCEPT ![u] = row]
          /\ adminLocked' = adminLocked
    BY <1>2, WriteFacts DEF TypeInv
  <2>2. /\ internal'[u] = row
        /\ u # t => internal'[t] = internal[t]
    BY <2>1 DEF TypeInv, TypeOK
  <2> QED
    BY <1>1, <2>1, <2>2, NoneAssumption DEF LockInv, Exists
<1>3. ASSUME NEW u \in Tickets, AdminDecides(u) PROVE G
  <2>1. PICK v \in Visibility :
          /\ Exists(u)
          /\ internal' = SetVisibility(u, v, Now)
          /\ adminLocked' = [adminLocked EXCEPT ![u] = TRUE]
    BY <1>3, AdminAssumption DEF AdminDecides
  <2>2. Now \in Nat
    BY TypeFacts DEF TypeInv
  <2>3. internal'[u] # None /\ (u # t => internal'[t] = internal[t])
    BY <2>1, <2>2, Retouched DEF TypeInv
  <2>4. u # t => adminLocked'[t] = adminLocked[t]
    BY <2>1 DEF TypeInv, TypeOK
  <2> QED
    BY <1>1, <1>3, <2>3, <2>4 DEF Exists
<1>4. ASSUME NEW u \in Tickets, Process(u) PROVE G
  <2> DEFINE target == DetermineVisibility(saw, batch[u].vis, batch[u].concealed, flag)
  <2>1. /\ u \in Waiting /\ IsNext(u) /\ began # 0 /\ UNCHANGED adminLocked
        /\ \/ UNCHANGED internal
           \/ ~saw /\ internal' = SetVisibility(u, target, began)
    BY <1>4, ProcessFacts DEF TypeInv, Process
  <2>2. target \in Visibility /\ Exists(u) /\ began \in Nat
    <3>1. Exists(u) /\ began \in Nat /\ batch[u] \in InternalRow
      BY <2>1, TypeFacts DEF TypeInv, Waiting
    <3>2. saw \in BOOLEAN /\ flag \in BOOLEAN
      BY DEF TypeInv, TypeOK
    <3> QED
      BY <3>1, <3>2, RowTypes, DetermineFacts
  <2> HIDE DEF target
  <2>3. CASE UNCHANGED internal
    BY <1>1, <2>1, <2>3
  <2>4. CASE ~saw /\ internal' = SetVisibility(u, target, began)
    <3>1. internal'[u] # None /\ (u # t => internal'[t] = internal[t])
      BY <2>2, <2>4, Retouched DEF TypeInv
    <3>2. u = t /\ adminLocked[t] => internal[t].updated > began
      BY <2>1, <2>4 DEF TxInv
    <3> QED
      BY <1>1, <2>1, <3>1, <3>2 DEF Exists
  <2> QED
    BY <2>1, <2>3, <2>4
<1>5. CASE UNCHANGED <<internal, adminLocked>>
  BY <1>1, <1>5
<1>6. ASSUME NEW rebuild \in BOOLEAN, StartRun(rebuild) PROVE G
  BY <1>5, <1>6 DEF StartRun
<1>7. ASSUME NEW u \in Tickets, Fail(u) \/ Begin(u) PROVE G
  BY <1>5, <1>7 DEF Fail, Begin
<1>8. CASE ChangeFlag \/ FetchBatch \/ NextBatch \/ CloseRun \/ Abandon
  BY <1>5, <1>8 DEF ChangeFlag, FetchBatch, NextBatch, CloseRun, Abandon
<1>9. CASE UNCHANGED vars
  BY <1>5, <1>9 DEF vars
<1> QED
  BY <1>2, <1>3, <1>4, <1>6, <1>7, <1>8, <1>9 DEF Next

(* The batch holds one next ticket.                                        *)
LEMMA OneNext ==
  ASSUME TypeOK, NEW t \in Tickets, NEW u \in Tickets, IsNext(t), IsNext(u)
  PROVE  t = u
<1> SUFFICES ASSUME t # u PROVE FALSE
  OBVIOUS
<1>1. Earlier(batch[t], t, batch[u], u) /\ Earlier(batch[u], u, batch[t], t)
  BY DEF IsNext
<1>2. batch[t].updated \in Nat /\ batch[u].updated \in Nat /\ t \in Nat /\ u \in Nat
  BY TypeFacts DEF IsNext, Waiting
<1> QED
  BY <1>1, <1>2 DEF Earlier

(* A write while a transaction is under way is later than its moment.      *)
LEMMA TxWritten ==
  ASSUME TypeInv, TxInv, NEW u \in Tickets,
         internal'[u].updated = Now, adminLocked[u] => adminLocked'[u],
         \A t \in Tickets : t # u =>
           internal'[t] = internal[t] /\ adminLocked'[t] = adminLocked[t],
         UNCHANGED <<phase, scanVars>>
  PROVE  TxInv'
<1>1. UNCHANGED <<phase, batch, began, saw>>
  BY DEF scanVars, txVars
<1>2. \A t \in Tickets : IsNext(t)' <=> IsNext(t)
  BY <1>1 DEF IsNext, Waiting
<1>3. Now > began
  BY TypeFacts DEF TypeInv
<1> QED
  BY <1>1, <1>2, <1>3 DEF TxInv

LEMMA TxStep ==
  ASSUME TypeInv, TxInv, [Next]_vars
  PROVE  TxInv'
<1>1. ASSUME NEW u \in Tickets, Write(u) PROVE TxInv'
  <2>1. PICK row \in InternalRow :
          /\ row.updated = Now
          /\ internal' = [internal EXCEPT ![u] = row]
          /\ UNCHANGED <<adminLocked, phase, scanVars>>
    BY <1>1, WriteFacts DEF TypeInv
  <2>2. internal'[u].updated = Now
        /\ \A t \in Tickets : t # u => internal'[t] = internal[t]
    BY <2>1 DEF TypeInv, TypeOK
  <2> QED
    BY <2>1, <2>2, TxWritten
<1>2. ASSUME NEW u \in Tickets, AdminDecides(u) PROVE TxInv'
  <2>1. PICK v \in Visibility :
          /\ Exists(u)
          /\ internal' = SetVisibility(u, v, Now)
          /\ adminLocked' = [adminLocked EXCEPT ![u] = TRUE]
          /\ UNCHANGED <<phase, scanVars>>
    BY <1>2, AdminAssumption DEF AdminDecides
  <2>2. Now \in Nat
    BY TypeFacts DEF TypeInv
  <2>3. internal'[u].updated = Now
        /\ \A t \in Tickets : t # u => internal'[t] = internal[t]
    BY <2>1, <2>2, Retouched DEF TypeInv
  <2>4. adminLocked'[u] /\ \A t \in Tickets : t # u => adminLocked'[t] = adminLocked[t]
    BY <2>1 DEF TypeInv, TypeOK
  <2> QED
    BY <2>1, <2>3, <2>4, TxWritten
<1>3. ASSUME UNCHANGED <<internal, adminLocked, phase, scanVars>> PROVE TxInv'
  <2>1. UNCHANGED <<internal, adminLocked, phase, batch, began, saw>>
    BY <1>3 DEF scanVars, txVars
  <2> QED
    BY <2>1 DEF TxInv, IsNext, Waiting
<1>4. ASSUME NEW u \in Tickets, Begin(u) PROVE TxInv'
  <2>1. /\ IsNext(u) /\ saw' = adminLocked[u]
        /\ UNCHANGED <<internal, adminLocked, phase, batch>>
    BY <1>4 DEF Begin, internalVars
  <2>2. \A t \in Tickets : IsNext(t)' <=> IsNext(t)
    BY <2>1 DEF IsNext, Waiting
  <2>3. \A t \in Tickets : IsNext(t) => t = u
    BY <2>1, OneNext DEF TypeInv
  <2> QED
    BY <2>1, <2>2, <2>3 DEF TxInv
<1>5. ASSUME began = 0 \/ ~(\E t \in Tickets : IsNext(t)), UNCHANGED began PROVE TxInv'
  BY <1>5 DEF TxInv
<1>6. ASSUME NEW u \in Tickets, Process(u) \/ Fail(u) PROVE TxInv'
  BY <1>6 DEF Process, Fail, Take, TxInv
<1>7. CASE CloseRun \/ Abandon
  BY <1>7 DEF CloseRun, Abandon, EndRun, TxInv
<1>8. ASSUME NEW rebuild \in BOOLEAN, StartRun(rebuild) PROVE TxInv'
  BY <1>5, <1>8 DEF StartRun, IsNext, txVars
<1>9. CASE FetchBatch \/ NextBatch
  BY <1>5, <1>9 DEF FetchBatch, NextBatch, IsNext, scanVars, txVars
<1>10. CASE ChangeFlag \/ UNCHANGED vars
  BY <1>3, <1>10 DEF ChangeFlag, vars, internalVars
<1> QED
  BY <1>1, <1>2, <1>4, <1>6, <1>7, <1>8, <1>9, <1>10 DEF Next

(* The transform never overrides a decision an administrator had made when *)
(* the ticket's transaction began: the state of a decided ticket changes   *)
(* only when an administrator decides again, or when the ticket was        *)
(* written while a transaction that had not seen the decision was on it.   *)
THEOREM DecisionAlwaysKept == Spec => DecisionKept
<1>1. Init => TypeInv /\ LockInv /\ TxInv
  BY TypeInit DEF Init, LockInv, TxInv
<1>2. TypeInv /\ LockInv /\ TxInv /\ [Next]_vars => (TypeInv /\ LockInv /\ TxInv)'
  <2> SUFFICES ASSUME TypeInv, LockInv, TxInv, [Next]_vars
               PROVE  (TypeInv /\ LockInv /\ TxInv)'
    OBVIOUS
  <2>1. TypeInv'
    BY TypeStep, WaitingStep DEF TypeInv
  <2>2. LockInv'
    BY StepVis DEF LockInv
  <2> QED
    BY <2>1, <2>2, TxStep
<1>3. TypeInv /\ LockInv /\ TxInv /\ [Next]_vars =>
        [\A t \in Tickets :
           adminLocked[t] /\ internal'[t].vis # internal[t].vis =>
             AdminDecides(t) \/ (began # 0 /\ internal[t].updated > began)]_vars
  BY StepVis
<1> QED
  BY <1>1, <1>2, <1>3, PTL DEF Spec, DecisionKept

(* A transaction keeps the rows of the visibility set and their first      *)
(* publication; a step of another kind touches no row.                     *)
LEMMA StepRows ==
  ASSUME TypeInv, [Next]_vars, NEW t \in Tickets, NEW b \in BUs, rows[t][b] # None
  PROVE  IF rows'[t][b] = None
         THEN b \notin members[t]
         ELSE rows'[t][b].publishedAt = rows[t][b].publishedAt
<1>1. CASE UNCHANGED rows
  BY <1>1
<1>2. ASSUME NEW u \in Tickets, Process(u)
      PROVE  IF rows'[t][b] = None
             THEN b \notin members[t]
             ELSE rows'[t][b].publishedAt = rows[t][b].publishedAt
  <2> DEFINE target == DetermineVisibility(saw, batch[u].vis, batch[u].concealed, flag)
             plan == Plan(target, members[u], {c \in BUs : rows[u][c] # None})
  <2>1. /\ u \in Waiting
        /\ rows' = [rows EXCEPT ![u] = NewRows(u, batch[u], target)]
    BY <1>2, ProcessFacts DEF TypeInv
  <2> HIDE DEF target
  <2>2. CASE u # t
    BY <2>1, <2>2 DEF TypeInv, TypeOK
  <2>3. CASE u = t
    <3>1. rows'[t][b] = NewRows(t, batch[t], target)[b]
      BY <2>1, <2>3 DEF TypeInv, TypeOK
    <3>2. rows[t][b] \in CustomerRow
      BY DEF TypeInv, TypeOK
    <3>3. rows'[t][b] = IF b \in plan.publish THEN Published(t, batch[t], b)
                        ELSE IF b \in plan.hide THEN Tombstone(rows[t][b], target)
                        ELSE IF b \in plan.remove THEN None
                        ELSE rows[t][b]
      BY <2>3, <3>1 DEF NewRows
    <3>4. b \in plan.remove => b \notin members[t]
      BY <2>3 DEF Plan
    <3>5. Published(t, batch[t], b).publishedAt = rows[t][b].publishedAt
      BY DEF Published
    <3>6. Tombstone(rows[t][b], target).publishedAt = rows[t][b].publishedAt
      BY <3>2 DEF Tombstone, CustomerRow
    <3>7. b \in plan.publish \/ b \in plan.hide => rows'[t][b] # None
      <4>1. Exists(t) /\ batch[t] \in InternalRow /\ TypeOK
        BY <2>1, <2>3, TypeFacts DEF TypeInv, Waiting
      <4>2. Published(t, batch[t], b) \in CustomerRow
        BY <4>1, PublishedType
      <4>3. Tombstone(rows[t][b], target) \in CustomerRow
        BY <3>2 DEF Tombstone, CustomerRow
      <4> QED
        BY <3>3, <4>2, <4>3, NoneAssumption
    <3> HIDE DEF plan
    <3> QED
      BY <3>3, <3>4, <3>5, <3>6, <3>7
  <2> QED
    BY <2>2, <2>3
<1>3. ASSUME NEW u \in Tickets, Write(u) \/ AdminDecides(u) \/ Begin(u) \/ Fail(u)
      PROVE  UNCHANGED rows
  BY <1>3 DEF Write, AdminDecides, Begin, Fail
<1>4. ASSUME NEW rebuild \in BOOLEAN, StartRun(rebuild) PROVE UNCHANGED rows
  BY <1>4 DEF StartRun
<1>5. CASE ChangeFlag \/ FetchBatch \/ NextBatch \/ CloseRun \/ Abandon
  BY <1>1, <1>5 DEF ChangeFlag, FetchBatch, NextBatch, CloseRun, Abandon
<1>6. CASE UNCHANGED vars
  BY <1>1, <1>6 DEF vars
<1> QED
  BY <1>1, <1>2, <1>3, <1>4, <1>5, <1>6 DEF Next

(* Surgical withdrawal: a customer row keeps its identity for as long as   *)
(* its business unit stays in the visibility set, and is never recreated.  *)
THEOREM RowsAlwaysPreserved == Spec => RowsPreserved
<1>1. TypeInv /\ [Next]_vars => TypeInv'
  BY TypeStep, WaitingStep DEF TypeInv
<1>2. TypeInv /\ [Next]_vars =>
        [\A t \in Tickets, b \in BUs :
           rows[t][b] # None =>
             IF rows'[t][b] = None
             THEN b \notin members[t]
             ELSE rows'[t][b].publishedAt = rows[t][b].publishedAt]_vars
  BY StepRows
<1> QED
  BY <1>1, <1>2, TypeInit, PTL DEF Spec, RowsPreserved
=============================================================================
