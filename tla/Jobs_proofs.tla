------------------------------- MODULE Jobs_proofs -------------------------------
(***************************************************************************)
(* What the advisory lock is good for, for any number of invocations,      *)
(* manual processes, tickets and faults: scheduled engines that keep their *)
(* lock's connection never overlap, an SLA run that overlapped nothing and *)
(* ends in SUCCESS leaves every ticket right for its own time, and what    *)
(* such a run finds on record, a milestone or a breach, it leaves there.   *)
(* The pool is not exceeded, and a due time on record is so many worked    *)
(* minutes away.                                                           *)
(*                                                                         *)
(* The argument.  Two engines that work at the same time are either both   *)
(* under the lock, which OneAtATime excludes, or both marked mixed; who    *)
(* loses the lock held it alone, so that nobody new is beside it then.  So *)
(* nobody writes while an unmixed run works, its batch stays equal to the  *)
(* rows, and the tickets up to last are done.  Events are only added, so   *)
(* what anybody ever read of them has at most become earlier; and a run    *)
(* that is alone started after the last one that wrote, so that what was   *)
(* late then is late now.  For due times, what is left before each day of  *)
(* the code's loop is the target less the instants worked until then.      *)
(***************************************************************************)
EXTENDS Jobs, FiniteSetTheorems, TLAPS

Pcs == {"idle", "lock", "page", "begin", "commit", "close"}

Shapes ==
  /\ pc \in [Runners -> Pcs]
  /\ more \in [Runners -> BOOLEAN] /\ mixed \in [Runners -> BOOLEAN]
  /\ DOMAIN step = Runners /\ DOMAIN now = Runners /\ DOMAIN batch = Runners
  /\ DOMAIN last = Runners
  /\ DOMAIN seen = Runners /\ DOMAIN status = Runners
  /\ DOMAIN milestones = Tickets /\ DOMAIN sla = Tickets

\* Engines that no lock keeps apart know of each other.
Watched == \A q, r \in Engines : Unlocked(q, r) => mixed[q]

Handled(r) == status[r] = "SUCCESS" =>
                \A t \in Tickets : t <= last[r] => RightAt(t, now[r])

\* The batch is a copy of the next rows; without more, of all that are left.
BatchExact(r) ==
  /\ batch[r] = [t \in DOMAIN batch[r] |-> Row(t)]
  /\ DOMAIN batch[r] # {} /\ DOMAIN batch[r] \subseteq Tickets
  /\ \A t \in DOMAIN batch[r] : last[r] < t
  /\ \A t \in Tickets \ DOMAIN batch[r] :
       last[r] < t => more[r] /\ \A u \in DOMAIN batch[r] : u < t

LoopExact(r) ==
  /\ last[r] \in Nat
  /\ Handled(r)
  /\ pc[r] \in {"begin", "commit"} => BatchExact(r)
  /\ pc[r] = "commit" => seen[r] = DeriveMilestones(At(r))
  /\ pc[r] = "close" /\ status[r] = "SUCCESS" => \A t \in Tickets : RightAt(t, now[r])

\* A runner that runs the SLA engine with nobody else at work.
Alone(r) == r \in Engines /\ step[r] = "sla" /\ ~mixed[r]

\* Every run starts at the first ticket.
Fresh == \A r \in Runners \ Engines : last[r] = 0

\* Only scheduled runs have to do with the lock, and only working ones can lose it.
Queued == \A r \in Runners : pc[r] = "lock" => r \in Cron
Holders == lock \in Cron \cup {Free, Lost} /\ bare \subseteq Engines \cap Cron

IInv == /\ Shapes /\ OneAtATime /\ Watched /\ Fresh /\ Queued /\ Holders
        /\ \A r \in Runners : Alone(r) => LoopExact(r)

-----------------------------------------------------------------------------
(* The least element, which is what induction comes down to.               *)

LEMMA NatHasLeast ==
  ASSUME NEW S, S \subseteq Nat, S # {}
  PROVE  \E m \in S : \A n \in S : m <= n
<1> DEFINE R == {ss \in Nat \X Nat : ss[1] < ss[2]}
<1>1. IsWellFoundedOn(R, Nat) BY NatLessThanWellFounded DEF OpToRel
<1> HIDE DEF R
<1>2. PICK m \in S : \A n \in S : <<n, m>> \notin R BY <1>1, WFMin
<1>3. \A n \in S : ~(n < m) BY <1>2 DEF R
<1> QED BY <1>3

LEMMA LeastTicket ==
  \A S \in SUBSET Tickets : S # {} => \E t \in S : \A u \in S : t <= u
BY NatHasLeast, SlaAssumption

LEMMA MinIsLeast ==
  ASSUME NEW S, S \subseteq Nat, S # {}
  PROVE  Min(S) \in S /\ \A n \in S : Min(S) <= n
BY NatHasLeast DEF Min

LEMMA Climb ==
  ASSUME NEW N \in Nat, NEW S, 0 \in S, \A n \in 0 .. N - 1 : n \in S => n + 1 \in S
  PROVE  0 .. N \subseteq S
<1> SUFFICES ASSUME (0 .. N) \ S # {} PROVE FALSE OBVIOUS
<1> DEFINE T == (0 .. N) \ S
<1>0. T \subseteq Nat /\ T # {} OBVIOUS
<1>1. PICK m \in T : \A n \in T : m <= n
  <2> HIDE DEF T
  <2> QED BY <1>0, NatHasLeast
<1>2. m # 0 /\ m - 1 \in 0 .. N - 1 BY <1>1
<1>3. m - 1 \in S BY <1>1, <1>2
<1>4. m - 1 + 1 \in S BY <1>2, <1>3
<1> QED BY <1>1, <1>4

-----------------------------------------------------------------------------
(* The lock.                                                               *)

\* A step in which at most r moves between steps of its engine.
Works(r) == /\ pc[r] \in Pcs \ {"idle", "lock"}
            /\ \E x \in Pcs \ {"idle", "lock"} : pc' = [pc EXCEPT ![r] = x]
            /\ UNCHANGED <<lock, bare, mixed, step>>

LEMMA WorksKeepsLock ==
  ASSUME Shapes, OneAtATime, Watched, NEW r \in Runners, Works(r)
  PROVE  Engines' = Engines /\ OneAtATime' /\ Watched'
<1>1. Engines' = Engines BY DEF Shapes, Works, Engines
<1>2. OneAtATime' BY <1>1 DEF OneAtATime, Works, Guarded
<1>3. Watched' BY <1>1 DEF Watched, Works, Unlocked, Guarded
<1> QED BY <1>1, <1>2, <1>3

LEMMA ForgetKeepsLock ==
  ASSUME Shapes, OneAtATime, Watched, NEW R \in SUBSET Runners, Forget(R), UNCHANGED <<milestones, sla>>,
         \/ lock' = lock /\ lock \notin R
         \/ lock' \notin Cron /\ Engines' \cap Cron \subseteq bare'
  PROVE  Engines' = Engines \ R /\ OneAtATime' /\ Watched' /\ Shapes'
<1>1. Engines' = Engines \ R BY DEF Shapes, Forget, Reset, Engines, Pcs
<1>2. OneAtATime'
  <2>1. \A q \in Runners \ R : q \in Guarded' <=> q \in Guarded BY DEF Guarded, Forget
  <2>2. \A q, r \in Engines' \cap Guarded' : q = r
    BY <1>1, <2>1 DEF OneAtATime, Engines
  <2>3. \A r \in Cron : lock' = r <=> r \in Engines' \ bare'
    BY <1>1 DEF OneAtATime, Forget
  <2> QED BY <2>2, <2>3 DEF OneAtATime
<1>3. Watched' BY <1>1 DEF Watched, Forget, Reset, Unlocked, Guarded, Engines
<1>4. Shapes' BY DEF Shapes, Forget, Reset, Pcs
<1> QED BY <1>1, <1>2, <1>3, <1>4

LEMMA DispatchKeepsLock ==
  ASSUME Shapes, OneAtATime, Watched, NEW r \in Runners, NEW s, Dispatch(r, s),
         Holders, r \notin Engines,
         \/ r \notin Cron /\ lock' = lock
         \/ r \in Cron /\ lock' = r /\ lock = Free
  PROVE  Engines' = Engines \cup {r} /\ OneAtATime' /\ Watched' /\ Shapes'
<1>1. Engines' = Engines \cup {r} BY DEF Shapes, Dispatch, Engines, Pcs
<1>2. OneAtATime'
  <2>1. bare' = bare /\ Guarded' = Guarded /\ r \notin bare
    BY DEF Dispatch, Guarded, Holders
  <2>2. CASE r \notin Cron BY <1>1, <2>1, <2>2 DEF OneAtATime, Guarded
  <2>3. CASE r \in Cron /\ lock' = r /\ lock = Free
    <3>1. Engines \cap Guarded = {} BY <2>3, JobsAssumption DEF OneAtATime, Guarded
    <3> QED BY <1>1, <2>1, <2>3, <3>1, JobsAssumption DEF OneAtATime, Guarded
  <2> QED BY <2>2, <2>3
<1>3. Watched' BY <1>1 DEF Watched, Dispatch, Unlocked, Guarded, Engines, Shapes
<1>4. Shapes' BY DEF Shapes, Dispatch, Pcs, loopVars, dbVars
<1> QED BY <1>1, <1>2, <1>3, <1>4
-----------------------------------------------------------------------------
(* The loop.                                                               *)

SameFor(r) ==
  /\ pc'[r] = pc[r] /\ step'[r] = step[r] /\ now'[r] = now[r] /\ last'[r] = last[r]
  /\ batch'[r] = batch[r] /\ more'[r] = more[r] /\ seen'[r] = seen[r]
  /\ status'[r] = status[r] /\ mixed'[r] = mixed[r]

RowsSame == UNCHANGED <<events, priority, acked, milestones, sla>>

LEMMA SoleEngine ==
  ASSUME OneAtATime, Watched, NEW q \in Engines, NEW r \in Runners, Alone(r)
  PROVE  q = r
BY DEF OneAtATime, Watched, Alone, Unlocked, Guarded, Engines

LEMMA DerivedSame ==
  ASSUME UNCHANGED events, NEW t PROVE DeriveMilestones(t)' = DeriveMilestones(t)
BY DEF DeriveMilestones

LEMMA RowSame ==
  ASSUME RowsSame, NEW t PROVE Row(t)' = Row(t)
BY DEF RowsSame, Row

LEMMA HandledSame ==
  ASSUME RowsSame, NEW r, Handled(r), status'[r] = status[r], last'[r] = last[r],
         now'[r] = now[r]
  PROVE  Handled(r)'
BY DerivedSame, RowSame DEF Handled, RightAt, RowsSame, Snapshot

LEMMA Undisturbed ==
  ASSUME RowsSame, NEW r \in Runners, SameFor(r), LoopExact(r)
  PROVE  LoopExact(r)'
<1>1. Handled(r)' BY HandledSame DEF SameFor, LoopExact
<1>2. At(r)' = At(r) BY DEF At, SameFor
<1>3. ASSUME pc[r] \in {"begin", "commit"} PROVE BatchExact(r)'
  BY <1>3, RowSame DEF SameFor, LoopExact, BatchExact
<1>4. ASSUME pc[r] = "commit" PROVE (seen[r] = DeriveMilestones(At(r)))'
  BY <1>4, <1>2, DerivedSame DEF SameFor, LoopExact, RowsSame
<1>5. ASSUME pc[r] = "close" /\ status[r] = "SUCCESS", NEW t \in Tickets
      PROVE  RightAt(t, now[r])'
  BY <1>5, DerivedSame, RowSame DEF SameFor, LoopExact, RightAt, RowsSame, Snapshot
<1> QED BY <1>1, <1>3, <1>4, <1>5 DEF LoopExact, SameFor
\* The code asks for the smallest id; there is one.
LEMMA AtIsFirst ==
  ASSUME NEW r \in Runners, BatchExact(r)
  PROVE  At(r) \in DOMAIN batch[r] /\ \A u \in DOMAIN batch[r] : At(r) <= u
BY LeastTicket DEF At, Min, BatchExact

\* Counting the rows up to one: how LIMIT is expressed.
Upto(ids, t) == {u \in ids : u <= t}

LEMMA Counting ==
  ASSUME NEW ids \in SUBSET Tickets, NEW t \in ids
  PROVE  /\ IsFiniteSet(Upto(ids, t)) /\ Cardinality(Upto(ids, t)) \in Nat
         /\ \A u \in ids : u <= t => Cardinality(Upto(ids, u)) <= Cardinality(Upto(ids, t))
         /\ (\A u \in ids : t <= u) => Cardinality(Upto(ids, t)) = 1
<1>1. IsFiniteSet(Tickets) /\ Tickets \subseteq Nat BY SlaAssumption
<1>2. Upto(ids, t) \in SUBSET Tickets BY DEF Upto
<1>3. IsFiniteSet(Upto(ids, t)) BY <1>1, <1>2, FS_Subset
<1>4. Cardinality(Upto(ids, t)) \in Nat BY <1>3, FS_CardinalityType
<1>5. ASSUME NEW u \in ids, u <= t
      PROVE  Cardinality(Upto(ids, u)) <= Cardinality(Upto(ids, t))
  <2>1. \A v \in ids : v <= u => v <= t
    <3>1. t \in Nat /\ u \in Nat /\ \A v \in ids : v \in Nat BY <1>1, <1>5
    <3> QED BY <3>1, <1>5
  <2>2. Upto(ids, u) \in SUBSET Upto(ids, t) BY <2>1 DEF Upto
  <2> QED BY <2>2, <1>3, FS_Subset
<1>6. ASSUME \A u \in ids : t <= u PROVE Cardinality(Upto(ids, t)) = 1
  <2>1. \A v \in ids : v <= t <=> v = t
    <3>1. t \in Nat /\ \A v \in ids : v \in Nat BY <1>1
    <3> QED BY <3>1, <1>6
  <2>2. Upto(ids, t) = {t} BY <2>1 DEF Upto
  <2> QED BY <2>2, FS_Singleton
<1> QED BY <1>3, <1>4, <1>5, <1>6

\* The batch of a page: the rows that come first, all of them if they are few.
LEMMA FirstRows ==
  ASSUME NEW ids \in SUBSET Tickets, ids # {}, NEW first \in SUBSET ids,
         \A t \in ids : t \in first <=> Cardinality(Upto(ids, t)) <= Batch
  PROVE  /\ first # {}
         /\ \A t \in ids \ first : Cardinality(first) >= Batch /\ \A u \in first : u < t
<1>1. IsFiniteSet(Tickets) /\ Tickets \subseteq Nat /\ Batch \in Nat \ {0}
  BY SlaAssumption
<1>2. first \in SUBSET Tickets OBVIOUS
<1>3. IsFiniteSet(first) BY <1>1, <1>2, FS_Subset
<1>4. Cardinality(first) \in Nat BY <1>3, FS_CardinalityType
<1>5. first # {}
  <2>1. PICK m \in ids : \A u \in ids : m <= u BY LeastTicket
  <2>2. Cardinality(Upto(ids, m)) = 1 BY <2>1, Counting
  <2> QED BY <2>1, <2>2, <1>1
<1>6. ASSUME NEW t \in ids \ first, NEW u \in first PROVE u < t
  <2>1. t \in ids /\ u \in ids /\ t \in Nat /\ u \in Nat BY <1>1, <1>6
  <2>2. Cardinality(Upto(ids, u)) <= Batch /\ ~(Cardinality(Upto(ids, t)) <= Batch)
    BY <1>6
  <2>3. Cardinality(Upto(ids, u)) \in Nat /\ Cardinality(Upto(ids, t)) \in Nat
    BY <2>1, Counting
  <2>4. t <= u => Cardinality(Upto(ids, t)) <= Cardinality(Upto(ids, u))
    BY <2>1, Counting
  <2> QED BY <2>1, <2>2, <2>3, <2>4, <1>1
<1>7. ASSUME NEW t \in ids \ first PROVE Cardinality(first) >= Batch
  <2>1. ids \ first \in SUBSET Tickets /\ ids \ first # {} BY <1>7
  <2>2. PICK m \in ids \ first : \A u \in ids \ first : m <= u BY <2>1, LeastTicket
  <2>3. m \in ids /\ m \notin first /\ m \in Nat BY <2>2, <1>1
  <2>4. Upto(ids, m) = first \cup {m}
    <3>1. \A u \in first : u <= m BY <2>2, <2>3, <1>6, <1>1
    <3>2. \A u \in ids : u <= m => u \in first \/ u = m BY <2>2, <2>3, <1>1
    <3>3. m <= m BY <2>3
    <3>4. \A u \in ids : u <= m <=> u \in first \cup {m} BY <3>1, <3>2, <3>3
    <3> QED BY <2>3, <3>4 DEF Upto
  <2>5. Cardinality(Upto(ids, m)) = Cardinality(first) + 1
    BY <2>3, <2>4, <1>3, FS_AddElement
  <2>6. ~(Cardinality(Upto(ids, m)) <= Batch) BY <2>3
  <2> QED BY <2>5, <2>6, <1>1, <1>4
<1> QED BY <1>5, <1>6, <1>7
-----------------------------------------------------------------------------
(* One lemma per action of the engine, for the runner r that takes it.     *)

LEMMA PageStep ==
  ASSUME IInv, NEW r \in Runners, Page(r), UNCHANGED <<lock, bare>>
  PROVE  Works(r) /\ Shapes' /\ (Alone(r) => LoopExact(r)')
<1> DEFINE ids == {t \in Tickets : t > last[r]}
           first == {t \in ids : Cardinality({u \in ids : u <= t}) <= Batch}
<1>1. /\ pc[r] = "page"
      /\ pc' = [pc EXCEPT ![r] = IF ids = {} THEN "close" ELSE "begin"]
      /\ batch' = [batch EXCEPT ![r] = [t \in first |-> Row(t)]]
      /\ more' = [more EXCEPT ![r] = Cardinality(first) >= Batch]
  BY DEF Page
<1>2. ids \in SUBSET Tickets /\ first \in SUBSET ids OBVIOUS
<1>3. \A t \in ids : t \in first <=> Cardinality(Upto(ids, t)) <= Batch BY DEF Upto
<1>4. RowsSame /\ UNCHANGED <<startVars, last, seen, status, lock, bare>>
  BY DEF Page, RowsSame, dbVars, syncVars
<1> HIDE DEF first
<1>5. Works(r) BY <1>1, <1>4 DEF Works, IInv, Shapes, Pcs, startVars
<1>6. Shapes' BY <1>1, <1>4 DEF IInv, Shapes, Pcs, startVars, RowsSame
<1>7. ASSUME Alone(r) PROVE LoopExact(r)'
  <2>1. /\ last'[r] = last[r] /\ now'[r] = now[r] /\ status'[r] = status[r]
        /\ batch'[r] = [t \in first |-> Row(t)] /\ more'[r] = (Cardinality(first) >= Batch)
        /\ pc'[r] = IF ids = {} THEN "close" ELSE "begin"
    BY <1>1, <1>4 DEF IInv, Shapes, startVars
  <2>2. LoopExact(r) BY <1>7 DEF IInv
  <2>3. Handled(r)' BY <1>4, <2>1, <2>2, HandledSame DEF LoopExact
  <2>4. CASE ids = {}
    <3>1. \A t \in Tickets : t <= last[r]
      BY <2>2, <2>4, SlaAssumption DEF LoopExact
    <3>2. status[r] = "SUCCESS" => \A t \in Tickets : RightAt(t, now[r])'
      BY <2>3, <3>1, <2>1 DEF Handled
    <3> QED BY <2>1, <2>2, <2>3, <2>4, <3>2 DEF LoopExact
  <2>5. CASE ids # {}
    <3>1. /\ first # {}
          /\ \A t \in ids \ first : Cardinality(first) >= Batch /\ \A u \in first : u < t
      BY <1>2, <1>3, <2>5, FirstRows
    <3>2. \A t : Row(t)' = Row(t) BY <1>4, RowSame
    <3>3. DOMAIN batch'[r] = first BY <2>1
    <3>4. \A t \in Tickets : t \in ids <=> last[r] < t
      BY <2>2, SlaAssumption DEF LoopExact
    <3> HIDE DEF ids
    <3>5. BatchExact(r)'
      <4>1. batch'[r] = [t \in DOMAIN batch'[r] |-> Row(t)'] BY <2>1, <3>2, <3>3
      <4>2. \A t \in DOMAIN batch'[r] : last'[r] < t BY <1>2, <3>3, <3>4, <2>1
      <4>3. \A t \in Tickets \ DOMAIN batch'[r] :
              last'[r] < t => more'[r] /\ \A u \in DOMAIN batch'[r] : u < t
        BY <3>1, <3>3, <3>4, <2>1
      <4> QED BY <4>1, <4>2, <4>3, <3>1, <3>3, <1>2 DEF BatchExact
    <3> QED BY <2>1, <2>2, <2>3, <2>5, <3>5 DEF LoopExact
  <2> QED BY <2>4, <2>5
<1> QED BY <1>5, <1>6, <1>7

LEMMA BeginStep ==
  ASSUME IInv, NEW r \in Runners, Begin(r), UNCHANGED <<lock, bare>>
  PROVE  Works(r) /\ Shapes' /\ (Alone(r) => LoopExact(r)')
<1>1. RowsSame /\ UNCHANGED <<startVars, last, batch, more, status, lock, bare>>
  BY DEF Begin, RowsSame, dbVars, syncVars
<1>2. /\ pc[r] = "begin" /\ pc' = [pc EXCEPT ![r] = "commit"]
      /\ seen' = [seen EXCEPT ![r] = DeriveMilestones(At(r))]
  BY DEF Begin
<1>3. Works(r) BY <1>1, <1>2 DEF Works, IInv, Shapes, Pcs, startVars
<1>4. Shapes' BY <1>1, <1>2 DEF IInv, Shapes, Pcs, startVars, RowsSame
<1>5. ASSUME Alone(r) PROVE LoopExact(r)'
  <2>1. LoopExact(r) BY <1>5 DEF IInv
  <2>2. /\ pc'[r] = "commit" /\ seen'[r] = DeriveMilestones(At(r))
        /\ batch'[r] = batch[r] /\ last'[r] = last[r] /\ more'[r] = more[r]
        /\ status'[r] = status[r] /\ now'[r] = now[r]
    BY <1>1, <1>2 DEF IInv, Shapes, startVars
  <2>3. Handled(r)' BY <2>1, <2>2, <1>1, HandledSame DEF LoopExact
  <2>4. BatchExact(r)' BY <2>1, <2>2, <1>1, <1>2, RowSame DEF LoopExact, BatchExact
  <2>5. At(r)' = At(r) BY <2>2 DEF At
  <2>6. (seen[r] = DeriveMilestones(At(r)))'
    BY <2>2, <2>5, <1>1, DerivedSame DEF RowsSame
  <2> QED BY <2>1, <2>2, <2>3, <2>4, <2>6 DEF LoopExact
<1> QED BY <1>3, <1>4, <1>5
\* What Done does, whether or not the ticket's transaction was committed.
LEMMA DoneStep ==
  ASSUME Shapes, NEW r \in Runners, pc[r] \in {"begin", "commit"}, Done(r),
         BatchExact(r), last[r] \in Nat
  PROVE  LET rest == DOMAIN batch[r] \ {At(r)}
         IN /\ pc'[r] \in {"begin", "page", "close"}
            /\ pc'[r] = "begin" <=> rest # {}
            /\ pc'[r] = "close" <=> rest = {} /\ ~more[r]
            /\ last'[r] = At(r) /\ batch'[r] = [t \in rest |-> batch[r][t]]
            /\ At(r) \in Tickets /\ last[r] < At(r)
            /\ \A t \in Tickets : last[r] < t /\ t <= At(r) => t = At(r)
            /\ rest = {} /\ ~more[r] => \A t \in Tickets : t <= At(r)
<1> DEFINE rest == DOMAIN batch[r] \ {At(r)}
<1>1. At(r) \in DOMAIN batch[r] /\ \A u \in DOMAIN batch[r] : At(r) <= u BY AtIsFirst
<1>2. /\ pc'[r] = CASE rest # {} -> "begin"
                    [] rest = {} /\ more[r] -> "page"
                    [] rest = {} /\ ~more[r] -> "close"
      /\ last'[r] = At(r) /\ batch'[r] = [t \in rest |-> batch[r][t]]
  BY DEF Shapes, Done
<1>3. /\ At(r) \in Tickets /\ last[r] < At(r)
      /\ \A t \in Tickets : t \in Nat
      /\ last[r] \in Nat
  BY <1>1, SlaAssumption DEF BatchExact, Shapes
<1>4. \A t \in Tickets : last[r] < t /\ t <= At(r) => t = At(r)
  <2> TAKE t \in Tickets
  <2> HAVE last[r] < t /\ t <= At(r)
  <2>1. CASE t \in DOMAIN batch[r] BY <2>1, <1>1, <1>3
  <2>2. CASE t \notin DOMAIN batch[r]
    <3>1. At(r) < t BY <2>2, <1>1 DEF BatchExact
    <3> QED BY <3>1, <1>3
  <2> QED BY <2>1, <2>2
<1>5. ASSUME rest = {}, ~more[r], NEW t \in Tickets PROVE t <= At(r)
  <2>1. CASE t \in DOMAIN batch[r] BY <2>1, <1>5, <1>3
  <2>2. CASE t \notin DOMAIN batch[r]
    <3>1. ~(last[r] < t) BY <2>2, <1>5 DEF BatchExact
    <3> QED BY <3>1, <1>3
  <2> QED BY <2>1, <2>2
<1>6. more[r] \in BOOLEAN BY DEF Shapes
<1> HIDE DEF rest
<1>7. /\ pc'[r] \in {"begin", "page", "close"}
      /\ pc'[r] = "begin" <=> rest # {}
      /\ pc'[r] = "close" <=> rest = {} /\ ~more[r]
  BY <1>2, <1>6
<1> QED BY <1>2, <1>3, <1>4, <1>5, <1>7 DEF rest

\* The rest of the batch is still exact, whatever was written of the ticket.
LEMMA RestExact ==
  ASSUME Shapes, NEW r \in Runners, pc[r] \in {"begin", "commit"}, Done(r),
         BatchExact(r), last[r] \in Nat, UNCHANGED more, pc'[r] = "begin",
         \A t \in Tickets \ {At(r)} : Row(t)' = Row(t)
  PROVE  BatchExact(r)'
<1> DEFINE rest == DOMAIN batch[r] \ {At(r)}
<1>1. /\ rest # {} /\ last'[r] = At(r) /\ batch'[r] = [t \in rest |-> batch[r][t]]
      /\ At(r) \in Tickets
      /\ \A t \in Tickets : last[r] < t /\ t <= At(r) => t = At(r)
      /\ last[r] < At(r)
  BY DoneStep
<1>2. At(r) \in DOMAIN batch[r] /\ \A u \in DOMAIN batch[r] : At(r) <= u BY AtIsFirst
<1>3. DOMAIN batch[r] \subseteq Tickets /\ last[r] \in Nat /\ \A t \in Tickets : t \in Nat
  BY SlaAssumption DEF BatchExact, Shapes
<1>4. rest \subseteq Tickets \ {At(r)} BY <1>3
<1>5. \A t \in DOMAIN batch[r] : batch[r][t] = Row(t)
  <2>1. batch[r] = [t \in DOMAIN batch[r] |-> Row(t)] BY DEF BatchExact
  <2> QED BY <2>1
<1>6. batch'[r] = [t \in rest |-> Row(t)'] BY <1>1, <1>4, <1>5
<1>7. \A t \in rest : At(r) < t BY <1>2, <1>3
<1>8. ASSUME NEW t \in Tickets \ rest, At(r) < t
      PROVE  more[r] /\ \A u \in rest : u < t
  <2>1. t \notin DOMAIN batch[r] BY <1>8, <1>3
  <2>2. last[r] < t BY <1>8, <1>1, <1>3
  <2> QED BY <2>1, <2>2 DEF BatchExact
<1> HIDE DEF rest
<1>9. DOMAIN batch'[r] = rest BY <1>6
<1>10. batch'[r] = [t \in DOMAIN batch'[r] |-> Row(t)'] BY <1>6, <1>9
<1>11. rest \subseteq Tickets BY <1>4
<1> QED BY <1>1, <1>7, <1>8, <1>9, <1>10, <1>11 DEF BatchExact
LEMMA CommitStep ==
  ASSUME IInv, NEW r \in Runners, Commit(r), UNCHANGED <<lock, bare>>
  PROVE  Works(r) /\ Shapes' /\ (Alone(r) => LoopExact(r)')
<1> DEFINE t0 == At(r)
           x == batch[r][t0]
           wanted == Snapshot(t0, x, seen[r], now[r])
<1>1. /\ pc[r] = "commit" /\ Done(r)
      /\ UNCHANGED <<syncVars, startVars, more, status, lock, bare>>
      /\ \/ seen[r] = x.milestones /\ wanted = x.sla /\ UNCHANGED <<milestones, sla>>
         \/ /\ milestones' = [milestones EXCEPT ![t0] = seen[r]]
            /\ sla' = [sla EXCEPT ![t0] = wanted]
  BY DEF Commit
<1>2. /\ pc' = [pc EXCEPT ![r] = pc'[r]] /\ pc'[r] \in {"begin", "page", "close"}
      /\ DOMAIN last' = Runners /\ DOMAIN batch' = Runners /\ DOMAIN seen' = Runners
      /\ \A q \in Runners \ {r} : last'[q] = last[q]
      /\ last'[r] = t0
  <2>1. more[r] \in BOOLEAN BY DEF IInv, Shapes
  <2> QED BY <1>1, <2>1 DEF Done, IInv, Shapes
<1>3. Works(r) BY <1>1, <1>2 DEF Works, Pcs, startVars
<1>4. ASSUME Alone(r) PROVE LoopExact(r)'
  <2>1. LoopExact(r) /\ BatchExact(r) /\ Shapes /\ last[r] \in Nat BY <1>1, <1>4 DEF IInv, LoopExact
  <2>2. /\ t0 \in Tickets /\ t0 \in DOMAIN batch[r] /\ last[r] < t0
        /\ last'[r] = t0
        /\ \A t \in Tickets : last[r] < t /\ t <= t0 => t = t0
        /\ pc'[r] = "close" => \A t \in Tickets : t <= t0
    BY <1>1, <2>1, DoneStep, AtIsFirst
  <2> PICK t1 \in Tickets : t1 = t0 BY <2>2
  <2>3. x = Row(t1)
    <3>1. batch[r] = [t \in DOMAIN batch[r] |-> Row(t)] BY <2>1 DEF BatchExact
    <3>2. t1 \in DOMAIN batch[r] /\ x = batch[r][t1] BY <2>2
    <3> QED BY <3>1, <3>2
  <2>4. seen[r] = DeriveMilestones(t1) BY <1>1, <2>1 DEF LoopExact
  <2>5. /\ milestones'[t1] = seen[r] /\ sla'[t1] = wanted
        /\ \A t \in Tickets \ {t1} : milestones'[t] = milestones[t] /\ sla'[t] = sla[t]
    <3>1. x.milestones = milestones[t1] /\ x.sla = sla[t1] BY <2>3 DEF Row
    <3> QED BY <1>1, <2>1, <2>2, <3>1 DEF Shapes
  <2>6. UNCHANGED <<events, priority, acked>> /\ now'[r] = now[r] /\ status'[r] = status[r]
    BY <1>1 DEF syncVars, startVars
  <2>7. \A t \in Tickets \ {t1} : Row(t)' = Row(t) BY <2>5, <2>6 DEF Row
  <2>8. \A t : DeriveMilestones(t)' = DeriveMilestones(t) BY <2>6, DerivedSame
  <2>9. RightAt(t1, now[r])'
    <3>1. /\ Row(t1)'.acked = x.acked /\ Row(t1)'.priority = x.priority
      BY <2>3, <2>6 DEF Row
    <3>2. DeriveMilestones(t1)' = seen[r] BY <2>4, <2>8
    <3>3. wanted = Snapshot(t1, Row(t1)', seen[r], now[r]) BY <3>1 DEF Snapshot
    <3> QED BY <2>5, <2>6, <3>2, <3>3 DEF RightAt, Snapshot
  <2>10. ASSUME NEW t \in Tickets \ {t1}, RightAt(t, now[r]) PROVE RightAt(t, now[r])'
    BY <2>5, <2>6, <2>7, <2>8, <2>10 DEF RightAt, Snapshot
  <2>11. Handled(r)'
    <3>1. ASSUME status[r] = "SUCCESS", NEW t \in Tickets, t <= t1
          PROVE  RightAt(t, now[r])'
      <4>1. CASE t = t1 BY <4>1, <2>9
      <4>2. CASE t # t1
        <5>1. t <= last[r]
          <6>1. t \in Nat /\ last[r] \in Nat BY SlaAssumption, <2>1 DEF LoopExact
          <6> QED BY <6>1, <4>2, <3>1, <2>2
        <5>2. RightAt(t, now[r]) BY <5>1, <2>1, <3>1 DEF LoopExact, Handled
        <5> QED BY <5>2, <4>2, <2>10
      <4> QED BY <4>1, <4>2
    <3> QED BY <3>1, <2>2, <2>6 DEF Handled
  <2>12. pc'[r] = "begin" => BatchExact(r)'
    BY <1>1, <2>1, <2>7, RestExact
  <2>13. pc'[r] = "close" /\ status'[r] = "SUCCESS"
           => \A t \in Tickets : RightAt(t, now[r])'
    BY <2>11, <2>2 DEF Handled
  <2>14. last'[r] \in Nat BY <2>2, SlaAssumption
  <2> QED BY <1>2, <2>11, <2>12, <2>13, <2>14 DEF LoopExact
<1>5. Shapes'
  <2> QED BY <1>1, <1>2 DEF IInv, Shapes, Pcs, startVars
<1> QED BY <1>3, <1>4, <1>5
LEMMA TicketFailsStep ==
  ASSUME IInv, NEW r \in Runners, TicketFails(r), UNCHANGED <<lock, bare>>
  PROVE  Works(r) /\ Shapes' /\ (Alone(r) => LoopExact(r)')
<1>1. /\ pc[r] \in {"begin", "commit"} /\ Done(r)
      /\ status' = [status EXCEPT ![r] = "PARTIAL"]
      /\ UNCHANGED <<dbVars, startVars, more, lock, bare>>
  BY DEF TicketFails
<1>2. /\ pc' = [pc EXCEPT ![r] = pc'[r]] /\ pc'[r] \in {"begin", "page", "close"}
      /\ DOMAIN last' = Runners /\ DOMAIN batch' = Runners /\ DOMAIN seen' = Runners
  <2>1. more[r] \in BOOLEAN BY DEF IInv, Shapes
  <2> QED BY <1>1, <2>1 DEF Done, IInv, Shapes
<1>3. Works(r) BY <1>1, <1>2 DEF Works, Pcs, startVars
<1>4. Shapes' BY <1>1, <1>2 DEF IInv, Shapes, Pcs, startVars, dbVars
<1>5. ASSUME Alone(r) PROVE LoopExact(r)'
  <2>1. LoopExact(r) /\ BatchExact(r) /\ Shapes /\ last[r] \in Nat
    BY <1>1, <1>5 DEF IInv, LoopExact
  <2>2. last'[r] \in Nat BY <1>1, <2>1, DoneStep, SlaAssumption
  <2>3. status'[r] # "SUCCESS" BY <1>1, <2>1 DEF Shapes
  <2>4. RowsSame BY <1>1 DEF RowsSame, dbVars, syncVars
  <2>5. pc'[r] = "begin" => BatchExact(r)'
    <3>1. \A t \in Tickets \ {At(r)} : Row(t)' = Row(t) BY <2>4, RowSame
    <3> QED BY <1>1, <2>1, <3>1, RestExact
  <2> QED BY <1>2, <2>2, <2>3, <2>5 DEF LoopExact, Handled
<1> QED BY <1>3, <1>4, <1>5

LEMMA BatchFailsStep ==
  ASSUME IInv, NEW r \in Runners, BatchFails(r), UNCHANGED <<lock, bare>>
  PROVE  Works(r) /\ Shapes' /\ (Alone(r) => LoopExact(r)')
<1>1. /\ pc[r] = "page" /\ pc' = [pc EXCEPT ![r] = "close"]
      /\ status' = [status EXCEPT ![r] = "FAILED"]
      /\ UNCHANGED <<dbVars, startVars, last, batch, more, seen, lock, bare>>
  BY DEF BatchFails
<1>2. Works(r) BY <1>1 DEF Works, Pcs, startVars
<1>3. Shapes' BY <1>1 DEF IInv, Shapes, Pcs, startVars, dbVars
<1>4. ASSUME Alone(r) PROVE LoopExact(r)'
  <2>1. last'[r] \in Nat BY <1>1, <1>4 DEF IInv, LoopExact
  <2>2. pc'[r] = "close" /\ status'[r] # "SUCCESS" BY <1>1 DEF IInv, Shapes
  <2> QED BY <2>1, <2>2 DEF LoopExact, Handled
<1> QED BY <1>2, <1>3, <1>4

\* The sync engines: somebody else's work, as far as a run of SLA is concerned.
LEMMA SyncStep ==
  ASSUME IInv, NEW r \in Runners, Sync(r) \/ SyncEnds(r), UNCHANGED <<lock, bare>>
  PROVE  Works(r) /\ Shapes' /\ ~Alone(r)
<1>1. /\ pc[r] = "page" /\ step[r] = "sync"
      /\ \E x \in {"page", "close"} : pc' = [pc EXCEPT ![r] = x]
      /\ UNCHANGED <<startVars, loopVars, milestones, sla, lock, bare>>
  <2>1. CASE Sync(r)
    <3>1. pc' = [pc EXCEPT ![r] = "page"] BY <2>1 DEF Sync, runVars, IInv, Shapes
    <3> QED BY <2>1, <3>1 DEF Sync, runVars
  <2>2. CASE SyncEnds(r) BY <2>2 DEF SyncEnds, dbVars
  <2> QED BY <2>1, <2>2
<1>2. Works(r) BY <1>1 DEF Works, Pcs, startVars
<1>3. Shapes' BY <1>1 DEF IInv, Shapes, Pcs, startVars, loopVars
<1> QED BY <1>1, <1>2, <1>3 DEF Alone

LEMMA OthersSame ==
  ASSUME Shapes, NEW r \in Runners, NEW q \in Runners \ {r},
         Page(r) \/ Begin(r) \/ Commit(r) \/ TicketFails(r) \/ BatchFails(r)
           \/ Sync(r) \/ SyncEnds(r)
  PROVE  SameFor(q)
<1> USE DEF SameFor, Shapes, startVars, loopVars, runVars
<1>1. CASE Page(r) BY <1>1 DEF Page
<1>2. CASE Begin(r) BY <1>2 DEF Begin
<1>3. CASE Commit(r)
  <2>1. Done(r) /\ UNCHANGED <<startVars, more, status>> BY <1>3 DEF Commit
  <2> QED BY <2>1 DEF Done
<1>4. CASE TicketFails(r) BY <1>4 DEF TicketFails, Done
<1>5. CASE BatchFails(r) BY <1>5 DEF BatchFails
<1>6. CASE Sync(r)
  <2>1. UNCHANGED runVars BY <1>6 DEF Sync
  <2> QED BY <2>1
<1>7. CASE SyncEnds(r) BY <1>7 DEF SyncEnds
<1> QED BY <1>1, <1>2, <1>3, <1>4, <1>5, <1>6, <1>7
-----------------------------------------------------------------------------
(* The invariant.                                                          *)

\* An engine's step: nobody else's exactness is at stake, for whoever runs
\* alone has no other engine beside it.
LEMMA EngineStep ==
  ASSUME IInv, NEW r \in Runners, Works(r), Shapes', Alone(r) => LoopExact(r)',
         \A q \in Runners \ {r} : SameFor(q)
  PROVE  IInv'
<1>1. Engines' = Engines /\ OneAtATime' /\ Watched' BY WorksKeepsLock DEF IInv
<1>2. r \in Engines BY DEF Works, Engines, Pcs
<1>3. Fresh' BY <1>1, <1>2 DEF Fresh, IInv, SameFor
<1>4. ASSUME NEW q \in Runners, Alone(q)' PROVE LoopExact(q)'
  <2>1. Alone(q) BY <1>1, <1>4 DEF Works, Alone
  <2>2. q = r BY <2>1, <1>2, SoleEngine DEF IInv
  <2> QED BY <2>1, <2>2
<1>5. Queued' /\ Holders' BY <1>1 DEF Queued, Holders, IInv, Works, Shapes
<1> QED BY <1>1, <1>3, <1>4, <1>5 DEF IInv

LEMMA ForgetStep ==
  ASSUME IInv, NEW R \in SUBSET Runners, Forget(R), RowsSame,
         \/ lock' = lock /\ lock \notin R
         \/ lock' \in {Free, Lost} /\ Engines' \cap Cron \subseteq bare'
  PROVE  IInv'
<1>1. Engines' = Engines \ R /\ OneAtATime' /\ Watched' /\ Shapes'
  BY ForgetKeepsLock, JobsAssumption DEF IInv, RowsSame
<1>2. ASSUME NEW q \in Runners 
      PROVE  (q \in R => last'[q] = 0) /\ (q \notin R => SameFor(q))
  BY DEF Forget, Reset, SameFor
<1>3. Fresh' BY <1>1, <1>2 DEF Fresh, IInv, SameFor
<1>4. ASSUME NEW q \in Runners, Alone(q)' PROVE LoopExact(q)'
  <2>1. q \in Engines /\ q \notin R BY <1>1, <1>4 DEF Alone
  <2>2. SameFor(q) BY <2>1, <1>2
  <2>3. Alone(q) BY <1>4, <2>1, <2>2 DEF Alone, SameFor
  <2> QED BY <2>2, <2>3, Undisturbed DEF IInv
<1>5. Queued' BY DEF Queued, IInv, Forget, Reset
<1>6. Holders' BY <1>1 DEF Holders, IInv, Forget
<1> QED BY <1>1, <1>3, <1>4, <1>5, <1>6 DEF IInv

LEMMA DispatchStep ==
  ASSUME IInv, NEW r \in Runners, NEW s, Dispatch(r, s), r \notin Engines,
         \/ r \notin Cron /\ lock' = lock
         \/ r \in Cron /\ lock' = r /\ lock = Free
  PROVE  IInv'
<1>1. Engines' = Engines \cup {r} /\ OneAtATime' /\ Watched' /\ Shapes'
  BY DispatchKeepsLock DEF IInv
<1>2. UNCHANGED <<dbVars, loopVars>> /\ RowsSame /\ pc'[r] = "page" /\ last'[r] = 0
  BY DEF Dispatch, dbVars, syncVars, loopVars, RowsSame, IInv, Fresh, Shapes
<1>3. Fresh' BY <1>1, <1>2 DEF Fresh, IInv, loopVars
<1>4. ASSUME NEW q \in Runners, Alone(q)' PROVE LoopExact(q)'
  <2>1. CASE q = r
    <3>1. Handled(r)'
      <4>1. \A t \in Tickets : ~(t <= 0) BY SlaAssumption
      <4> QED BY <1>2, <4>1 DEF Handled
    <3> QED BY <1>2, <2>1, <3>1 DEF LoopExact
  <2>2. CASE q # r
    <3>1. q \in Engines BY <1>1, <1>4, <2>2 DEF Alone
    <3>2. /\ pc'[q] = pc[q] /\ step'[q] = step[q] /\ now'[q] = now[q]
          /\ mixed'[q] = (mixed[q] \/ (q \in Engines /\ Unlocked(q, r)))
      BY <2>2 DEF Dispatch, IInv, Shapes
    <3>3. ~mixed'[q] /\ step'[q] = "sla" BY <1>4 DEF Alone
    <3>4. mixed[q] \in BOOLEAN /\ mixed'[q] \in BOOLEAN BY <1>1 DEF IInv, Shapes
    <3>5. ~mixed[q] /\ mixed'[q] = mixed[q] BY <3>2, <3>3, <3>4
    <3>6. SameFor(q) BY <1>2, <3>2, <3>5 DEF SameFor, loopVars
    <3>7. Alone(q) BY <3>1, <3>2, <3>3, <3>5 DEF Alone
    <3> QED BY <1>2, <3>6, <3>7, Undisturbed DEF IInv
  <2> QED BY <2>1, <2>2
<1>5. Queued' /\ Holders' BY <1>1 DEF Queued, Holders, IInv, Dispatch, Shapes
<1> QED BY <1>1, <1>3, <1>4, <1>5 DEF IInv

\* Steps that move no engine.
LEMMA QuietStep ==
  ASSUME IInv, RowsSame, Shapes', OneAtATime', Engines' = Engines, Queued', Holders',
         Watched', UNCHANGED <<mixed, last>>, \A q \in Engines : SameFor(q)
  PROVE  IInv'
<1>2. Fresh' BY DEF Fresh, IInv
<1>3. ASSUME NEW q \in Runners, Alone(q)' PROVE LoopExact(q)'
  <2>1. q \in Engines /\ SameFor(q) BY <1>3 DEF Alone
  <2>2. Alone(q) BY <1>3, <2>1 DEF Alone, SameFor
  <2> QED BY <2>1, <2>2, Undisturbed DEF IInv
<1> QED BY <1>2, <1>3 DEF IInv

\* Whoever loses the lock held it alone: those it is no longer kept apart from
\* were not kept apart from it before.
LEMMA LoseLockStep ==
  ASSUME IInv, LoseLock
  PROVE  IInv'
<1>1. /\ lock \in Cron /\ lock' = Free /\ bare' = bare \cup {lock}
      /\ UNCHANGED <<dbVars, runVars>>
  BY DEF LoseLock
<1>2. RowsSame /\ (\A q : SameFor(q)) /\ UNCHANGED <<mixed, last, pc>>
  BY <1>1 DEF RowsSame, SameFor, dbVars, syncVars, runVars, loopVars, startVars
<1>3. Shapes' /\ Engines' = Engines
  BY <1>1 DEF IInv, Shapes, Engines, dbVars, runVars, loopVars, startVars
<1>4. lock \in Engines \ bare BY <1>1 DEF IInv, OneAtATime
<1>5. Engines \cap Guarded = {lock} BY <1>1, <1>4 DEF IInv, OneAtATime, Guarded
<1>6. Guarded' = Guarded \ {lock} BY <1>1 DEF Guarded
<1>7. OneAtATime'
  <2>1. Engines' \cap Guarded' = {} BY <1>3, <1>5, <1>6
  <2>2. Engines' \cap Cron \subseteq bare' BY <2>1 DEF Guarded
  <2> QED BY <1>1, <2>1, <2>2, JobsAssumption DEF OneAtATime
<1>8. Watched'
  <2> SUFFICES ASSUME NEW q \in Engines, NEW r \in Engines, Unlocked(q, r)'
               PROVE  mixed[q]
    BY <1>2, <1>3 DEF Watched
  <2>1. Unlocked(q, r)
    <3>1. q # r BY DEF Unlocked
    <3> QED BY <3>1, <1>5 DEF Unlocked
  <2> QED BY <2>1 DEF IInv, Watched
<1>9. Queued' /\ Holders' BY <1>1, <1>2, <1>3, <1>4 DEF Queued, Holders, IInv
<1> QED BY <1>2, <1>3, <1>7, <1>8, <1>9, QuietStep

\* Every state has the invariant.
THEOREM Inductive == Spec => []IInv
<1>1. Init => IInv
  <2> SUFFICES ASSUME Init PROVE IInv OBVIOUS
  <2>1. Shapes BY DEF Init, SlaInit, Shapes, Pcs
  <2>2. Engines = {} BY DEF Init, SlaInit, Engines
  <2>3. OneAtATime BY <2>2, JobsAssumption DEF Init, OneAtATime
  <2>4. Fresh BY DEF Init, SlaInit, Fresh
  <2>5. Queued /\ Holders BY DEF Init, SlaInit, Queued, Holders
  <2> QED BY <2>1, <2>2, <2>3, <2>4, <2>5 DEF IInv, Watched, Alone
<1>2. IInv /\ [Next]_vars => IInv'
  <2> SUFFICES ASSUME IInv, [Next]_vars PROVE IInv' OBVIOUS
  <2>1. ASSUME NEW r \in Runners,
               Page(r) \/ Begin(r) \/ Commit(r) \/ TicketFails(r) \/ BatchFails(r)
                 \/ Sync(r) \/ SyncEnds(r),
               UNCHANGED poolVars
        PROVE  IInv'
    <3>1. UNCHANGED <<lock, bare>> BY <2>1 DEF poolVars
    <3>2. \A q \in Runners \ {r} : SameFor(q) BY <2>1, OthersSame DEF IInv
    <3>3. Works(r) /\ Shapes' /\ (Alone(r) => LoopExact(r)')
      BY <2>1, <3>1, PageStep, BeginStep, CommitStep, TicketFailsStep, BatchFailsStep,
         SyncStep
    <3> QED BY <3>2, <3>3, EngineStep
  <2>2. ASSUME NEW r \in Runners, NEW s \in {"sla", "sync"}, Invoke(r, s) PROVE IInv'
    <3>1. /\ pc[r] = "idle" /\ pc' = [pc EXCEPT ![r] = "lock"]
          /\ step' = [step EXCEPT ![r] = s]
          /\ UNCHANGED <<dbVars, loopVars, now, mixed, lock, bare>>
      BY <2>2 DEF Invoke, poolVars
    <3>2. Shapes' BY <3>1 DEF IInv, Shapes, Pcs, dbVars, loopVars
    <3>3. Engines' = Engines /\ r \notin Engines BY <3>1 DEF IInv, Shapes, Engines
    <3>4. OneAtATime' /\ Watched'
      BY <3>1, <3>3 DEF IInv, OneAtATime, Watched, Guarded, Unlocked
    <3>5. \A q \in Engines : SameFor(q)
      BY <3>1, <3>3 DEF SameFor, loopVars, IInv, Shapes, Engines
    <3>6. RowsSame BY <3>1 DEF RowsSame, dbVars, syncVars
    <3>7. Queued' /\ Holders' BY <2>2, <3>1, <3>3 DEF Invoke, Queued, Holders, IInv, Shapes
    <3> QED BY <3>1, <3>2, <3>3, <3>4, <3>5, <3>6, <3>7, QuietStep DEF loopVars
  <2>3. ASSUME NEW r \in Runners, NEW s \in {"sla", "sync"}, StartByHand(r, s) PROVE IInv'
    <3>1. r \notin Engines BY <2>3 DEF StartByHand, Engines
    <3> QED BY <2>3, <3>1, DispatchStep DEF StartByHand
  <2>4. ASSUME NEW r \in Runners, TakeLock(r) PROVE IInv'
    <3>1. r \notin Engines BY <2>4 DEF TakeLock, Engines
    <3>2. CASE r \in Cron BY <2>4, <3>1, <3>2, DispatchStep DEF TakeLock
    <3>3. CASE r \notin Cron BY <2>4, <3>3 DEF TakeLock, IInv, Queued
    <3> QED BY <3>2, <3>3
  <2>5. ASSUME NEW r \in Runners, SkipLocked(r) PROVE IInv'
    <3>1. r \in Runners OBVIOUS
    <3>2. lock # r
      <4>1. r \notin Engines BY <2>5 DEF SkipLocked, Engines
      <4>2. r \in Cron BY <2>5 DEF SkipLocked, IInv, Queued
      <4> QED BY <4>1, <4>2 DEF IInv, OneAtATime
    <3>3. RowsSame BY <2>5 DEF SkipLocked, RowsSame, dbVars, syncVars
    <3> QED BY <2>5, <3>1, <3>2, <3>3, ForgetStep DEF SkipLocked
  <2>6. ASSUME NEW r \in Runners, Close(r) PROVE IInv'
    <3>1. RowsSame BY <2>6 DEF Close, RowsSame, dbVars, syncVars
    <3>2. CASE lock = r
      <4>1. Engines' = Engines \ {r} /\ bare' = bare \ {r} /\ lock' = Free
        BY <2>6, <3>2 DEF Close, Forget, Reset, Engines
      <4>2. Engines \cap Cron \subseteq bare \cup {r}
        BY <3>2 DEF IInv, OneAtATime
      <4>3. Engines' \cap Cron \subseteq bare' BY <4>1, <4>2
      <4> QED BY <2>6, <3>1, <4>1, <4>3, ForgetStep DEF Close
    <3>3. CASE lock # r BY <2>6, <3>1, <3>3, ForgetStep DEF Close
    <3> QED BY <3>2, <3>3
  <2>7. ASSUME NEW r \in Runners, ProcessDies(r) PROVE IInv'
    <3>1. RowsSame BY <2>7 DEF ProcessDies, RowsSame, dbVars, syncVars
    <3>2. r \notin Cron BY <2>7 DEF ProcessDies
    <3>3. lock # r BY <3>2, JobsAssumption DEF IInv, Holders
    <3> QED BY <2>7, <3>1, <3>3, ForgetStep DEF ProcessDies
  <2>8. ASSUME Crash PROVE IInv'
    <3>1. RowsSame BY <2>8 DEF Crash, RowsSame, dbVars, syncVars
    <3>2. Engines' \cap Cron = {} BY <2>8, JobsAssumption DEF Crash, Forget, Reset, Engines
    <3>3. lock' \in {Free, Lost} BY <2>8 DEF Crash, IInv, Holders
    <3>4. Cron \in SUBSET Runners BY JobsAssumption
    <3> QED BY <2>8, <3>1, <3>2, <3>3, <3>4, ForgetStep DEF Crash
  <2>9. ASSUME UNCHANGED <<dbVars, runVars, bare>>,
               lock' = lock \/ (lock = Lost /\ lock' = Free)
        PROVE  IInv'
    <3>1. RowsSame /\ \A q : SameFor(q)
      BY <2>9 DEF RowsSame, SameFor, dbVars, syncVars, runVars, loopVars, startVars
    <3>2. Shapes' /\ Engines' = Engines /\ UNCHANGED <<mixed, last>>
      BY <2>9 DEF IInv, Shapes, Engines, dbVars, runVars, loopVars, startVars
    <3>3. OneAtATime' /\ Watched'
      BY <2>9, <3>2, JobsAssumption DEF IInv, OneAtATime, Watched, Guarded, Unlocked
    <3>4. Queued' /\ Holders' BY <2>9, <3>2 DEF Queued, Holders, IInv, runVars
    <3> QED BY <3>1, <3>2, <3>3, <3>4, QuietStep
  <2>10. ASSUME NEW r \in Runners, RunnerStep(r) PROVE IInv'
    BY <2>1, <2>2, <2>3, <2>4, <2>5, <2>6, <2>7, <2>10 DEF RunnerStep, Work, Fails
  <2>11. CASE Reap \/ RequestBegins \/ RequestEnds \/ (Tick /\ UNCHANGED poolVars)
                \/ UNCHANGED vars
    BY <2>9, <2>11 DEF Reap, RequestBegins, RequestEnds, Tick, vars, slaVars, poolVars
  <2> QED BY <2>8, <2>10, <2>11, LoseLockStep DEF Next
<1> QED BY <1>1, <1>2, PTL DEF Spec

\* Scheduled engines never overlap, and the advisory lock is held by the one that
\* works: runJobStep's guarantee, through every crash.
THEOREM NeverOverlap == Spec => []OneAtATime
<1>1. IInv => OneAtATime BY DEF IInv
<1> QED BY <1>1, Inductive, PTL

\* A run that ends in SUCCESS, and that overlapped nothing outside the lock, has
\* left no ticket out and computed none from a row that changed meanwhile:
\* runSlaComputation's keyset pages and per-ticket transactions.
THEOREM RunAlwaysExact == Spec => []RunExact
<1>1. IInv => RunExact
  <2> SUFFICES ASSUME IInv, NEW r \in Engines, step[r] = "sla", pc[r] = "close",
                      status[r] = "SUCCESS", ~mixed[r]
               PROVE  \A t \in Tickets : RightAt(t, now[r])
    BY DEF RunExact
  <2>1. r \in Runners /\ Alone(r) BY DEF Alone, Engines
  <2> QED BY <2>1 DEF IInv, LoopExact
<1> QED BY <1>1, Inductive, PTL
-----------------------------------------------------------------------------
(* What is on record.  The milestones of a row are those of the events, or *)
(* not written yet, for every run; only when a run writes them is a matter *)
(* of who overlaps.                                                        *)

Times(t, stage) == {e.at : e \in {x \in events[t] : x.stage = stage}}

\* A time that was on record still is, or an earlier one.
Kept(old, new) == old = None \/ (old \in Nat /\ new \in Nat /\ new <= old)

\* What somebody once read of the events: none of it was taken back.
Stands(m, t) == \A stage \in Milestones : Kept(m[stage], DeriveMilestones(t)[stage])

Timed == /\ clock \in Nat
         /\ DOMAIN events = Tickets
         /\ \A t \in Tickets : \A e \in events[t] : e.at \in Nat

\* A run that handles tickets, mixed or not.
InBatch(r) == /\ step[r] = "sla"
              /\ DOMAIN batch[r] # {} /\ DOMAIN batch[r] \subseteq Tickets

RecordInv ==
  /\ Timed
  /\ \A r \in Runners : pc[r] \in {"begin", "commit"} => InBatch(r)
  /\ \A t \in Tickets : Stands(milestones[t], t)
  /\ \A r \in Runners : pc[r] = "commit" => Stands(seen[r], At(r))

LEMMA InBatchAt ==
  ASSUME NEW r, InBatch(r)
  PROVE  At(r) \in DOMAIN batch[r] /\ At(r) \in Tickets
BY MinIsLeast, SlaAssumption DEF At, InBatch

LEMMA Derived ==
  ASSUME NEW t, NEW stage \in Milestones
  PROVE  DeriveMilestones(t)[stage] = IF Times(t, stage) = {} THEN None ELSE Min(Times(t, stage))
BY DEF DeriveMilestones, Times

\* A stage that has a milestone keeps one, which more events make no later.
LEMMA DerivedType ==
  ASSUME Timed, NEW t \in Tickets, NEW stage \in Milestones
  PROVE  /\ Times(t, stage) \subseteq Nat
         /\ Times(t, stage) = {} => DeriveMilestones(t)[stage] = None
         /\ Times(t, stage) # {}
              => /\ DeriveMilestones(t)[stage] \in Times(t, stage)
                 /\ \A n \in Times(t, stage) : DeriveMilestones(t)[stage] <= n
<1>1. Times(t, stage) \subseteq Nat BY DEF Times, Timed
<1> QED BY <1>1, Derived, MinIsLeast

LEMMA DerivedKept ==
  ASSUME Timed, Timed', NEW t \in Tickets, NEW stage \in Milestones,
         events[t] \subseteq events'[t]
  PROVE  Kept(DeriveMilestones(t)[stage], DeriveMilestones(t)'[stage])
<1>1. CASE Times(t, stage) = {} BY <1>1, DerivedType DEF Kept
<1>2. CASE Times(t, stage) # {}
  <2>1. Times(t, stage) \subseteq Times(t, stage)' BY DEF Times
  <2>2. PICK S, T : S = Times(t, stage) /\ T = Times(t, stage)' OBVIOUS
  <2>3. S \subseteq Nat /\ S # {} /\ T \subseteq Nat /\ T # {}
    BY <1>2, <2>1, <2>2 DEF Times, Timed
  <2>4. DeriveMilestones(t)[stage] = Min(S) BY <1>2, <2>2, Derived
  <2>5. DeriveMilestones(t)'[stage] = Min(T) BY <2>2, <2>3 DEF DeriveMilestones, Times
  <2>6. /\ Min(S) \in S /\ Min(T) \in T /\ Min(T) <= Min(S)
    BY <2>1, <2>2, <2>3, MinIsLeast
  <2> QED BY <2>3, <2>4, <2>5, <2>6 DEF Kept
<1> QED BY <1>1, <1>2

\* What every step does to the events.
LEMMA EventsGrow ==
  ASSUME RecordInv, [Next]_vars
  PROVE  Timed' /\ \A t \in Tickets : events[t] \subseteq events'[t]
<1>1. ASSUME NEW r \in Runners, Sync(r)
      PROVE  Timed' /\ \A t \in Tickets : events[t] \subseteq events'[t]
  <2>1. clock' = clock BY <1>1 DEF Sync
  <2>2. CASE events' = events BY <2>1, <2>2 DEF RecordInv, Timed
  <2>3. CASE events' # events
    <3>1. PICK t1 \in Touched, d \in Delays, stage \in Entered :
            events' = [events EXCEPT ![t1] =
              @ \cup {[stage |-> stage, at |-> Later(CreatedAt[t1], clock - d)]}]
      BY <1>1, <2>3 DEF Sync
    <3>2. t1 \in Tickets /\ Later(CreatedAt[t1], clock - d) \in Nat
      <4>1. t1 \in Tickets /\ CreatedAt[t1] \in Nat /\ d \in Nat /\ clock \in Nat
        BY SlaAssumption DEF RecordInv, Timed
      <4> QED BY <4>1 DEF Later
    <3>3. PICK at \in Nat : at = Later(CreatedAt[t1], clock - d) BY <3>2
    <3>4. /\ DOMAIN events' = Tickets
          /\ events'[t1] = events[t1] \cup {[stage |-> stage, at |-> at]}
          /\ \A t \in Tickets \ {t1} : events'[t] = events[t]
      BY <3>1, <3>2, <3>3 DEF RecordInv, Timed
    <3> QED BY <2>1, <3>2, <3>4 DEF RecordInv, Timed
  <2> QED BY <2>2, <2>3
<1>2. ASSUME events' = events, clock' \in Nat
      PROVE  Timed' /\ \A t \in Tickets : events[t] \subseteq events'[t]
  BY <1>2 DEF RecordInv, Timed
<1>3. \/ \E r \in Runners : Sync(r)
      \/ events' = events /\ clock' = clock
      \/ events' = events /\ clock' = clock + 1
  <2> USE DEF dbVars, syncVars, slaVars
  <2>1. ASSUME NEW r \in Runners, RunnerStep(r)
        PROVE  Sync(r) \/ (events' = events /\ clock' = clock)
    <3>1. CASE \E s \in {"sla", "sync"} : Invoke(r, s) \/ StartByHand(r, s)
      BY <3>1 DEF Invoke, StartByHand, Dispatch
    <3>2. CASE TakeLock(r) \/ SkipLocked(r) BY <3>2 DEF TakeLock, SkipLocked, Dispatch
    <3>3. CASE Work(r) BY <3>3 DEF Work, Page, Begin, SyncEnds, Commit
    <3>4. CASE Fails(r) BY <3>4 DEF Fails, TicketFails, BatchFails
    <3>5. CASE Close(r) \/ ProcessDies(r) BY <3>5 DEF Close, ProcessDies
    <3> QED BY <2>1, <3>1, <3>2, <3>3, <3>4, <3>5 DEF RunnerStep
  <2>2. CASE LoseLock \/ Crash \/ Reap \/ RequestBegins \/ RequestEnds \/ UNCHANGED vars
    BY <2>2 DEF LoseLock, Crash, Reap, RequestBegins, RequestEnds, vars
  <2>3. CASE Tick BY <2>3 DEF Tick
  <2> QED BY <2>1, <2>2, <2>3 DEF Next
<1> QED BY <1>1, <1>2, <1>3 DEF RecordInv, Timed

LEMMA StandsKept ==
  ASSUME RecordInv, [Next]_vars, NEW t \in Tickets, NEW m, Stands(m, t)
  PROVE  \A stage \in Milestones : Kept(m[stage], DeriveMilestones(t)'[stage])
<1>1. Timed /\ Timed' /\ events[t] \subseteq events'[t] BY EventsGrow DEF RecordInv
<1>2. \A stage \in Milestones :
        Kept(DeriveMilestones(t)[stage], DeriveMilestones(t)'[stage])
  BY <1>1, DerivedKept
<1>3. \A a, b, c : Kept(a, b) /\ Kept(b, c) => Kept(a, c)
  BY SlaAssumption DEF Kept
<1> QED BY <1>2, <1>3 DEF Stands

\* What the events say now stands.
LEMMA DerivedStands ==
  ASSUME Timed, NEW t \in Tickets
  PROVE  Stands(DeriveMilestones(t), t)
<1>1. ASSUME NEW stage \in Milestones
      PROVE  \/ DeriveMilestones(t)[stage] = None
             \/ DeriveMilestones(t)[stage] \in Nat
  BY DerivedType
<1>2. \A n \in Nat : n <= n OBVIOUS
<1> QED BY <1>1, <1>2 DEF Stands, Kept

\* What a step may do to a run in the middle of a batch, and to the milestones.
BatchGoesOn(q) ==
  \/ pc'[q] \notin {"begin", "commit"}
  \/ /\ pc'[q] = pc[q] /\ step'[q] = step[q] /\ batch'[q] = batch[q] /\ seen'[q] = seen[q]
  \/ pc'[q] = "begin" /\ InBatch(q)'
  \/ /\ pc[q] = "begin" /\ step'[q] = step[q] /\ batch'[q] = batch[q]
     /\ seen'[q] = DeriveMilestones(At(q)) /\ UNCHANGED events

WrittenBy(q, t) == pc[q] = "commit" /\ At(q) = t /\ milestones'[t] = seen[q]

LEMMA RecordKept ==
  ASSUME RecordInv, [Next]_vars, \A q \in Runners : BatchGoesOn(q),
         \A t \in Tickets : \/ milestones'[t] = milestones[t]
                            \/ \E q \in Runners : WrittenBy(q, t)
  PROVE  RecordInv'
<1>1. Timed' BY EventsGrow
<1>2. ASSUME NEW q \in Runners, pc'[q] \in {"begin", "commit"} PROVE InBatch(q)'
  BY <1>2 DEF BatchGoesOn, RecordInv, InBatch
<1>3. ASSUME NEW t \in Tickets PROVE Stands(milestones[t], t)'
  <2>1. PICK m : m = milestones'[t] /\ Stands(m, t)
    BY DEF WrittenBy, RecordInv
  <2>2. \A stage \in Milestones : Kept(m[stage], DeriveMilestones(t)'[stage])
    BY <2>1, StandsKept
  <2> QED BY <2>1, <2>2 DEF Stands
<1>4. ASSUME NEW q \in Runners, pc'[q] = "commit" PROVE Stands(seen[q], At(q))'
  <2>1. InBatch(q)' BY <1>2, <1>4
  <2>2. \/ pc[q] = "commit" /\ batch'[q] = batch[q] /\ seen'[q] = seen[q]
        \/ /\ pc[q] = "begin" /\ batch'[q] = batch[q]
           /\ seen'[q] = DeriveMilestones(At(q)) /\ UNCHANGED events
    BY <1>4 DEF BatchGoesOn
  <2>3. At(q)' = At(q) BY <2>2 DEF At
  <2>4. At(q) \in Tickets BY <2>2, InBatchAt DEF RecordInv
  <2>5. CASE pc[q] = "commit" /\ batch'[q] = batch[q] /\ seen'[q] = seen[q]
    <3>1. PICK m : m = seen[q] /\ Stands(m, At(q)) BY <2>5 DEF RecordInv
    <3>2. PICK t \in Tickets : t = At(q) BY <2>4
    <3>3. \A stage \in Milestones : Kept(m[stage], DeriveMilestones(t)'[stage])
      BY <3>1, <3>2, StandsKept
    <3>4. At(q)' = t /\ seen'[q] = m BY <2>3, <2>5, <3>1, <3>2
    <3> QED BY <3>3, <3>4 DEF Stands, DeriveMilestones
  <2>6. CASE seen'[q] = DeriveMilestones(At(q)) /\ UNCHANGED events
    <3>1. PICK t \in Tickets : t = At(q) BY <2>4
    <3>2. DeriveMilestones(t)' = DeriveMilestones(t) BY <2>6, DerivedSame
    <3>3. At(q)' = t /\ seen'[q] = DeriveMilestones(t) BY <2>3, <2>6, <3>1
    <3>4. PICK m : m = DeriveMilestones(t) /\ Stands(m, t)
      BY DerivedStands DEF RecordInv
    <3>5. \A stage \in Milestones : Kept(m[stage], DeriveMilestones(t)'[stage])
      BY <3>4, StandsKept
    <3> QED BY <3>3, <3>4, <3>5 DEF Stands, DeriveMilestones
  <2> QED BY <2>2, <2>5, <2>6
<1> QED BY <1>1, <1>2, <1>3, <1>4 DEF RecordInv

\* What Done leaves of a batch, exact or not.
LEMMA DoneRest ==
  ASSUME Shapes, RecordInv, NEW r \in Runners, pc[r] \in {"begin", "commit"}, Done(r),
         UNCHANGED step
  PROVE  \A q \in Runners : \/ pc'[q] \notin {"begin", "commit"}
                            \/ pc'[q] = "begin" /\ InBatch(q)'
                            \/ q # r /\ pc'[q] = pc[q] /\ batch'[q] = batch[q] /\ seen'[q] = seen[q]
<1> DEFINE rest == DOMAIN batch[r] \ {At(r)}
<1>1. more[r] \in BOOLEAN BY DEF Shapes
<1>2. /\ pc'[r] = CASE rest # {} -> "begin"
                    [] rest = {} /\ more[r] -> "page"
                    [] rest = {} /\ ~more[r] -> "close"
      /\ batch'[r] = [t \in rest |-> batch[r][t]]
      /\ \A q \in Runners \ {r} : /\ pc'[q] = pc[q] /\ batch'[q] = batch[q]
                                  /\ seen'[q] = seen[q]
  BY DEF Shapes, Done
<1>3. InBatch(r) BY DEF RecordInv
<1>4. rest \subseteq Tickets BY <1>3 DEF InBatch
<1>5. DOMAIN batch'[r] = rest BY <1>2
<1> HIDE DEF rest
<1>6. pc'[r] = "begin" => InBatch(r)' BY <1>1, <1>2, <1>3, <1>4, <1>5 DEF InBatch
<1>7. pc'[r] \in {"begin", "page", "close"} BY <1>1, <1>2
<1> QED BY <1>2, <1>6, <1>7

LEMMA RecordNext ==
  ASSUME IInv, RecordInv, [Next]_vars
  PROVE  RecordInv'
<1> USE DEF IInv
<1>1. ASSUME NEW r \in Runners, Page(r) PROVE RecordInv'
  <2> DEFINE ids == {t \in Tickets : t > last[r]}
             first == {t \in ids : Cardinality({u \in ids : u <= t}) <= Batch}
  <2>1. /\ step[r] = "sla" /\ pc' = [pc EXCEPT ![r] = IF ids = {} THEN "close" ELSE "begin"]
        /\ batch' = [batch EXCEPT ![r] = [t \in first |-> Row(t)]]
        /\ UNCHANGED <<step, seen, milestones>>
    BY <1>1 DEF Page, startVars, dbVars
  <2>2. ids # {} => first # {}
    <3>1. ids \in SUBSET Tickets /\ first \in SUBSET ids OBVIOUS
    <3>2. \A t \in ids : t \in first <=> Cardinality(Upto(ids, t)) <= Batch BY DEF Upto
    <3> HIDE DEF first, ids
    <3> QED BY <3>1, <3>2, FirstRows
  <2>3. first \subseteq Tickets OBVIOUS
  <2> HIDE DEF first, ids
  <2>4. DOMAIN batch'[r] = first BY <2>1 DEF Shapes
  <2>5. ids # {} => InBatch(r)' BY <2>1, <2>2, <2>3, <2>4 DEF InBatch
  <2>6. \A q \in Runners : BatchGoesOn(q) BY <2>1, <2>5 DEF BatchGoesOn, Shapes
  <2> QED BY <2>1, <2>6, RecordKept
<1>2. ASSUME NEW r \in Runners, Begin(r) PROVE RecordInv'
  <2>1. /\ pc[r] = "begin" /\ pc' = [pc EXCEPT ![r] = "commit"]
        /\ seen' = [seen EXCEPT ![r] = DeriveMilestones(At(r))]
        /\ UNCHANGED <<step, batch, milestones, events>>
    BY <1>2 DEF Begin, startVars, dbVars, syncVars
  <2>2. \A q \in Runners : BatchGoesOn(q) BY <2>1 DEF BatchGoesOn, Shapes
  <2> QED BY <2>1, <2>2, RecordKept
<1>3. ASSUME NEW r \in Runners, Commit(r) PROVE RecordInv'
  <2>1. pc[r] = "commit" /\ Done(r) /\ UNCHANGED step BY <1>3 DEF Commit, startVars
  <2>2. \A q \in Runners : BatchGoesOn(q) BY <2>1, DoneRest DEF BatchGoesOn
  <2>3. \/ milestones' = milestones
        \/ milestones' = [milestones EXCEPT ![At(r)] = seen[r]]
    BY <1>3 DEF Commit
  <2>4. \A t \in Tickets : milestones'[t] = milestones[t] \/ WrittenBy(r, t)
    BY <2>1, <2>3 DEF WrittenBy, Shapes
  <2> QED BY <2>2, <2>4, RecordKept
<1>4. ASSUME NEW r \in Runners, TicketFails(r) PROVE RecordInv'
  <2>1. pc[r] \in {"begin", "commit"} /\ Done(r) /\ UNCHANGED <<step, milestones>>
    BY <1>4 DEF TicketFails, startVars, dbVars
  <2>2. \A q \in Runners : BatchGoesOn(q) BY <2>1, DoneRest DEF BatchGoesOn
  <2> QED BY <2>1, <2>2, RecordKept
<1>5. ASSUME NEW R \in SUBSET Runners, Forget(R), UNCHANGED milestones PROVE RecordInv'
  <2>1. \A q \in Runners : BatchGoesOn(q) BY <1>5 DEF Forget, Reset, BatchGoesOn, Shapes
  <2> QED BY <1>5, <2>1, RecordKept
<1>6. ASSUME UNCHANGED <<batch, seen, milestones>>,
             \A q \in Runners : \/ pc'[q] \in {"lock", "page", "close"}
                                \/ pc'[q] = pc[q] /\ step'[q] = step[q]
      PROVE  RecordInv'
  <2>1. \A q \in Runners : BatchGoesOn(q) BY <1>6 DEF BatchGoesOn
  <2> QED BY <1>6, <2>1, RecordKept
<1>7. ASSUME NEW r \in Runners, RunnerStep(r) PROVE RecordInv'
  <2> USE DEF dbVars, loopVars, startVars, runVars
  <2>1. ASSUME NEW s, Invoke(r, s) \/ Dispatch(r, s) PROVE RecordInv'
    BY <2>1, <1>6 DEF Invoke, Dispatch, Shapes
  <2>2. CASE SkipLocked(r) \/ Close(r) \/ ProcessDies(r)
    BY <2>2, <1>5 DEF SkipLocked, Close, ProcessDies
  <2>3. CASE SyncEnds(r) \/ BatchFails(r) \/ Sync(r)
    BY <2>3, <1>6 DEF SyncEnds, BatchFails, Sync, Shapes
  <2> QED BY <1>1, <1>2, <1>3, <1>4, <1>7, <2>1, <2>2, <2>3
          DEF RunnerStep, Work, Fails, StartByHand, TakeLock
<1>8. CASE Crash
  <2>1. Forget(Cron) /\ UNCHANGED milestones /\ Cron \in SUBSET Runners
    BY <1>8, JobsAssumption DEF Crash, dbVars
  <2> QED BY <2>1, <1>5
<1>9. CASE LoseLock \/ Reap \/ RequestBegins \/ RequestEnds \/ Tick \/ UNCHANGED vars
  BY <1>9, <1>6 DEF LoseLock, Reap, RequestBegins, RequestEnds, Tick, vars, slaVars, dbVars, runVars,
                    loopVars, startVars
<1> QED BY <1>7, <1>8, <1>9 DEF Next

LEMMA RecordInit == Init => RecordInv
<1> SUFFICES ASSUME Init PROVE RecordInv OBVIOUS
<1>1. Timed BY SlaAssumption DEF Init, SlaInit, Timed
<1>2. \A t \in Tickets : Stands(milestones[t], t)
  BY DEF Init, SlaInit, Stands, Kept, NoMilestones
<1> QED BY <1>1, <1>2 DEF Init, SlaInit, RecordInv

\* Every state has it, also where runs overlap outside the lock.
THEOREM AlwaysRecorded == Spec => []RecordInv
<1>1. IInv /\ RecordInv /\ [Next]_vars => RecordInv' BY RecordNext
<1> QED BY <1>1, RecordInit, Inductive, PTL DEF Spec

LEMMA OnlyCommitWrites ==
  ASSUME [Next]_vars
  PROVE  UNCHANGED <<milestones, sla>> \/ \E r \in Runners : Commit(r)
<1> USE DEF dbVars, slaVars
<1>1. ASSUME NEW r \in Runners, RunnerStep(r)
      PROVE  UNCHANGED <<milestones, sla>> \/ Commit(r)
  <2>1. CASE \E s \in {"sla", "sync"} : Invoke(r, s) \/ StartByHand(r, s)
    BY <2>1 DEF Invoke, StartByHand, Dispatch
  <2>2. CASE TakeLock(r) \/ SkipLocked(r) BY <2>2 DEF TakeLock, SkipLocked, Dispatch
  <2>3. CASE Work(r) BY <2>3 DEF Work, Page, Begin, SyncEnds
  <2>4. CASE Fails(r) BY <2>4 DEF Fails, TicketFails, BatchFails
  <2>5. CASE Close(r) \/ ProcessDies(r) BY <2>5 DEF Close, ProcessDies
  <2>6. CASE Sync(r) BY <2>6 DEF Sync
  <2> QED BY <1>1, <2>1, <2>2, <2>3, <2>4, <2>5, <2>6 DEF RunnerStep
<1>2. CASE LoseLock \/ Crash \/ Reap \/ RequestBegins \/ RequestEnds \/ Tick \/ UNCHANGED vars
  BY <1>2 DEF LoseLock, Crash, Reap, RequestBegins, RequestEnds, Tick, vars
<1> QED BY <1>1, <1>2 DEF Next

\* What a run that is alone commits: the row it read is the present one, and
\* so are the milestones.
LEMMA AloneCommits ==
  ASSUME IInv, RecordInv, NEW r \in Runners, Commit(r), ~mixed[r]
  PROVE  /\ Alone(r) /\ At(r) \in Tickets
         /\ batch[r][At(r)] = Row(At(r))
         /\ seen[r] = DeriveMilestones(At(r))
<1>1. pc[r] = "commit" BY DEF Commit
<1>2. InBatch(r) BY <1>1 DEF RecordInv
<1>3. Alone(r) BY <1>1, <1>2 DEF Alone, Engines, InBatch
<1>4. LoopExact(r) BY <1>3 DEF IInv
<1>5. batch[r] = [t \in DOMAIN batch[r] |-> Row(t)]
  BY <1>1, <1>4 DEF LoopExact, BatchExact
<1>6. At(r) \in DOMAIN batch[r] /\ At(r) \in Tickets BY <1>2, InBatchAt
<1>7. batch[r][At(r)] = Row(At(r)) BY <1>5, <1>6
<1> QED BY <1>1, <1>3, <1>4, <1>6, <1>7 DEF LoopExact

\* First write wins for milestones: processTicket takes the earliest event of a
\* stage, events are only added, and a run under the lock writes what the events
\* say now.  Only a run that met one outside the lock can put a later time there.
THEOREM MilestonesAlwaysStable == Spec => MilestoneStable
<1>1. ASSUME IInv, RecordInv, [Next]_vars, NEW t \in Tickets, NEW stage \in Milestones,
             milestones[t][stage] \notin {None, milestones'[t][stage]},
             ~(milestones'[t][stage] # None /\ milestones'[t][stage] < milestones[t][stage])
      PROVE  \E r \in Engines : mixed[r] /\ pc[r] = "commit"
  <2>1. PICK r \in Runners : Commit(r) BY <1>1, OnlyCommitWrites
  <2>2. pc[r] = "commit" /\ r \in Engines BY <2>1 DEF Commit, Engines
  <2>3. \/ milestones' = milestones
        \/ milestones' = [milestones EXCEPT ![At(r)] = seen[r]]
    BY <2>1 DEF Commit
  <2>4. At(r) = t /\ milestones'[t] = seen[r] BY <1>1, <2>3 DEF IInv, Shapes
  <2>5. CASE ~mixed[r]
    <3>1. milestones'[t] = DeriveMilestones(t) BY <1>1, <2>1, <2>4, <2>5, AloneCommits
    <3>2. Kept(milestones[t][stage], milestones'[t][stage])
      BY <1>1, <3>1 DEF RecordInv, Stands
    <3>3. None \notin Nat BY SlaAssumption
    <3> QED BY <1>1, <3>2, <3>3 DEF Kept
  <2> QED BY <2>2, <2>5
<1>2. IInv /\ RecordInv /\ [Next]_vars
        => [\A t \in Tickets, stage \in Milestones :
              milestones[t][stage] \notin {None, milestones'[t][stage]}
                => \/ milestones'[t][stage] # None /\ milestones'[t][stage] < milestones[t][stage]
                   \/ \E r \in Engines : mixed[r] /\ pc[r] = "commit"]_vars
  BY <1>1
<1> QED BY <1>2, Inductive, AlwaysRecorded, PTL DEF Spec, MilestoneStable

-----------------------------------------------------------------------------
(* The calendar: instants are numbers, and what is left before each day is *)
(* what the recursion says, day after day.                                 *)

IsCalendar(cal) ==
  /\ cal.offset \in Int /\ DOMAIN cal.windows \subseteq Nat
  /\ \A i \in DOMAIN cal.windows : cal.windows[i].start \in Int /\ cal.windows[i].end \in Int

LEMMA WindowType ==
  ASSUME NEW date \in Int, NEW cal, IsCalendar(cal)
  PROVE  WindowForDate(date, cal).from \in Int /\ WindowForDate(date, cal).to \in Int
<1> DEFINE today == {i \in DOMAIN cal.windows : cal.windows[i].day = IsoDow(date)}
<1>1. CASE date \in cal.holidays \/ today = {}
  BY <1>1 DEF WindowForDate, Shut
<1>2. CASE ~(date \in cal.holidays \/ today = {})
  <2>1. today \subseteq Nat /\ today # {} BY <1>2 DEF IsCalendar
  <2>2. Min(today) \in today BY <2>1, MinIsLeast
  <2>3. cal.windows[Min(today)].start \in Int /\ cal.windows[Min(today)].end \in Int
    BY <2>2 DEF IsCalendar
  <2>4. WindowForDate(date, cal)
          = [from |-> ZonedWallToUtc(date, cal.windows[Min(today)].start, cal),
             to |-> ZonedWallToUtc(date, cal.windows[Min(today)].end, cal)]
    BY <1>2 DEF WindowForDate
  <2>5. DayLen \in Int /\ cal.offset \in Int BY DayAssumption DEF IsCalendar
  <2>6. date * DayLen \in Int BY <2>5
  <2> QED BY <2>3, <2>4, <2>5, <2>6 DEF ZonedWallToUtc
<1> QED BY <1>1, <1>2

LEMMA DateType ==
  ASSUME NEW s \in Int, NEW cal, IsCalendar(cal)
  PROVE  ZonedDate(s, cal) \in Int
BY DayAssumption DEF ZonedDate, IsCalendar

LEMMA AvailType ==
  ASSUME NEW s \in Int, NEW cal, IsCalendar(cal), NEW i \in Nat
  PROVE  SpanStart(s, i, cal) \in Int /\ Avail(s, i, cal) \in Nat
<1>1. ZonedDate(s, cal) + i \in Int BY DateType
<1>2. /\ WindowForDate(ZonedDate(s, cal) + i, cal).from \in Int
      /\ WindowForDate(ZonedDate(s, cal) + i, cal).to \in Int
  BY <1>1, WindowType
<1>3. SpanStart(s, i, cal) \in Int BY <1>2 DEF SpanStart, Later
<1> QED BY <1>2, <1>3 DEF Avail, Later

\* f is the sum that c defines step by step.
IsSum(f, N, start, c) ==
  f = [i \in 0 .. N |-> IF i = 0 THEN start ELSE f[i - 1] + c[i - 1]]

Adds(f, N, c) == \A i \in 1 .. N : f[i] = f[i - 1] + c[i - 1]

LEMMA SumExists ==
  ASSUME NEW N \in Nat, NEW start \in Int, NEW c \in [0 .. N - 1 -> Int]
  PROVE  \E g : IsSum(g, N, start, c)
<1> DEFINE Counts(g, n) == /\ g[0] = start
                           /\ \A i \in 1 .. n : g[i] = g[i - 1] + c[i - 1]
           S == {n \in Nat : \E g \in [0 .. n -> Int] : Counts(g, n)}
<1>1. 0 \in S
  <2>1. [i \in 0 .. 0 |-> start] \in [0 .. 0 -> Int] /\ Counts([i \in 0 .. 0 |-> start], 0)
    OBVIOUS
  <2> QED BY <2>1
<1>2. ASSUME NEW n \in 0 .. N - 1, n \in S PROVE n + 1 \in S
  <2>1. PICK g \in [0 .. n -> Int] : Counts(g, n) BY <1>2
  <2> DEFINE h == [i \in 0 .. n + 1 |-> IF i = n + 1 THEN g[n] + c[n] ELSE g[i]]
  <2>2. n \in Nat /\ n \in 0 .. n /\ c[n] \in Int OBVIOUS
  <2>3. h \in [0 .. n + 1 -> Int] BY <2>2
  <2>4. h[0] = start BY <2>1, <2>2
  <2>5. ASSUME NEW i \in 1 .. n + 1 PROVE h[i] = h[i - 1] + c[i - 1]
    <3>1. CASE i = n + 1
      <4>1. i - 1 = n /\ h[i] = g[n] + c[n] /\ h[n] = g[n] BY <3>1, <2>2
      <4> QED BY <4>1
    <3>2. CASE i # n + 1
      <4>1. i \in 1 .. n /\ i \in 0 .. n /\ i - 1 \in 0 .. n BY <3>2, <2>2
      <4>2. h[i] = g[i] /\ h[i - 1] = g[i - 1] BY <4>1, <2>2
      <4> QED BY <4>1, <4>2, <2>1
    <3> QED BY <3>1, <3>2
  <2> HIDE DEF h
  <2>6. Counts(h, n + 1) BY <2>4, <2>5
  <2> HIDE DEF Counts
  <2> QED BY <2>2, <2>3, <2>6
<1> HIDE DEF S
<1>3. 0 .. N \subseteq S BY <1>1, <1>2, Climb
<1>4. N \in S BY <1>3
<1> USE DEF S
<1>5. PICK g \in [0 .. N -> Int] : Counts(g, N) BY <1>4
<1>6. g = [i \in 0 .. N |-> IF i = 0 THEN start ELSE g[i - 1] + c[i - 1]]
  <2>1. \A i \in 0 .. N : g[i] = IF i = 0 THEN start ELSE g[i - 1] + c[i - 1]
    BY <1>5
  <2> QED BY <2>1
<1> QED BY <1>6 DEF IsSum

LEMMA SumSteps ==
  ASSUME NEW N \in Nat, NEW start \in Int, NEW c \in [0 .. N - 1 -> Int],
         NEW f, IsSum(f, N, start, c)
  PROVE  f \in [0 .. N -> Int] /\ f[0] = start /\ Adds(f, N, c)
<1>1. f[0] = start /\ \A i \in 1 .. N : f[i] = f[i - 1] + c[i - 1] BY DEF IsSum
<1> DEFINE T == {n \in Nat : f[n] \in Int}
<1>2. 0 \in T BY <1>1
<1>3. ASSUME NEW n \in 0 .. N - 1, n \in T PROVE n + 1 \in T
  <2>1. n + 1 \in 1 .. N /\ n + 1 - 1 = n /\ c[n] \in Int OBVIOUS
  <2>2. f[n + 1] = f[n] + c[n] BY <1>1, <2>1
  <2> QED BY <1>3, <2>1, <2>2
<1>4. 0 .. N \subseteq T
  <2> HIDE DEF T
  <2> QED BY <1>2, <1>3, Climb
<1>5. \A n \in 0 .. N : f[n] \in Int BY <1>4
<1>6. f \in [0 .. N -> Int] BY <1>5 DEF IsSum
<1> QED BY <1>1, <1>6 DEF Adds

LEMMA RemainingIs ==
  ASSUME NEW s \in Int, NEW minutes \in Int, NEW cal, IsCalendar(cal)
  PROVE  /\ Remaining(s, minutes, cal) \in [0 .. MaxDays -> Int]
         /\ Remaining(s, minutes, cal)[0] = minutes
         /\ \A i \in 1 .. MaxDays :
              Remaining(s, minutes, cal)[i]
                = Remaining(s, minutes, cal)[i - 1] - Avail(s, i - 1, cal)
<1> DEFINE c == [i \in 0 .. MaxDays - 1 |-> 0 - Avail(s, i, cal)]
<1>1. MaxDays \in Nat BY DayAssumption
<1>2. \A i \in 0 .. MaxDays - 1 : Avail(s, i, cal) \in Nat BY <1>1, AvailType
<1>3. c \in [0 .. MaxDays - 1 -> Int] BY <1>2
<1>4. \A i \in 1 .. MaxDays : i - 1 \in 0 .. MaxDays - 1 /\ c[i - 1] = 0 - Avail(s, i - 1, cal)
  BY <1>1
<1> HIDE DEF c
<1>5. PICK g : IsSum(g, MaxDays, minutes, c) BY <1>1, <1>3, SumExists
<1>6. /\ g \in [0 .. MaxDays -> Int] /\ g[0] = minutes
      /\ \A i \in 1 .. MaxDays : g[i] = g[i - 1] + c[i - 1]
  <2>1. g \in [0 .. MaxDays -> Int] /\ g[0] = minutes BY <1>1, <1>3, <1>5, SumSteps
  <2>2. Adds(g, MaxDays, c) BY <1>1, <1>3, <1>5, SumSteps
  <2> QED BY <2>1, <2>2 DEF Adds
<1>7. \A i \in 1 .. MaxDays : g[i] = g[i - 1] - Avail(s, i - 1, cal)
  <2> TAKE i \in 1 .. MaxDays
  <2>1. g[i - 1] \in Int /\ Avail(s, i - 1, cal) \in Nat BY <1>1, <1>2, <1>4, <1>6
  <2> QED BY <1>4, <1>6, <2>1
<1>8. g = [i \in 0 .. MaxDays |-> IF i = 0 THEN minutes ELSE g[i - 1] - Avail(s, i - 1, cal)]
  <2>1. \A i \in 0 .. MaxDays : g[i] = IF i = 0 THEN minutes ELSE g[i - 1] - Avail(s, i - 1, cal)
    BY <1>1, <1>6, <1>7
  <2> QED BY <1>6, <2>1
<1> DEFINE f == Remaining(s, minutes, cal)
<1>9. f = [i \in 0 .. MaxDays |-> IF i = 0 THEN minutes ELSE f[i - 1] - Avail(s, i - 1, cal)]
  BY <1>8 DEF Remaining
<1> HIDE DEF f
<1>10. \A i \in 1 .. MaxDays : f[i] = f[i - 1] - Avail(s, i - 1, cal) BY <1>1, <1>9
<1>11. f[0] = minutes BY <1>1, <1>9
<1>12. \A n \in 0 .. MaxDays : f[n] \in Int
  <2> DEFINE T == {n \in Nat : f[n] \in Int}
  <2>1. 0 \in T BY <1>11
  <2>2. ASSUME NEW n \in 0 .. MaxDays - 1, n \in T PROVE n + 1 \in T
    <3>1. n \in Nat /\ n + 1 \in 1 .. MaxDays /\ n + 1 - 1 = n BY <1>1
    <3>2. f[n + 1] = f[n] - Avail(s, n, cal) BY <1>10, <3>1
    <3> QED BY <1>2, <2>2, <3>1, <3>2
  <2>3. 0 .. MaxDays \subseteq T
    <3> HIDE DEF T
    <3> QED BY <1>1, <2>1, <2>2, Climb
  <2> QED BY <2>3
<1>13. f \in [0 .. MaxDays -> Int] BY <1>9, <1>12
<1> QED BY <1>10, <1>11, <1>13 DEF f

\* A due time is an instant, also when the loop gives up.
LEMMA AddType ==
  ASSUME NEW s \in Int, NEW minutes \in Int, NEW cal, cal # AllHours => IsCalendar(cal)
  PROVE  AddBusinessMinutes(s, minutes, cal) \in Int
<1>1. CASE minutes <= 0 BY <1>1 DEF AddBusinessMinutes
<1>2. CASE minutes > 0 /\ cal = AllHours BY <1>2 DEF AddBusinessMinutes
<1>3. CASE minutes > 0 /\ cal # AllHours
  <2> DEFINE left == Remaining(s, minutes, cal)
             fits == {i \in 0 .. MaxDays - 1 : left[i] <= Avail(s, i, cal)}
  <2>1. AddBusinessMinutes(s, minutes, cal)
          = IF fits = {} THEN Noon(ZonedDate(s, cal) + MaxDays, cal)
            ELSE SpanStart(s, Min(fits), cal) + left[Min(fits)]
    BY <1>3 DEF AddBusinessMinutes
  <2>2. IsCalendar(cal) /\ MaxDays \in Nat /\ DayLen \in Nat BY <1>3, DayAssumption
  <2>3. CASE fits = {}
    <3>1. ZonedDate(s, cal) + MaxDays \in Int BY <2>2, DateType
    <3>2. (ZonedDate(s, cal) + MaxDays) * DayLen \in Int /\ DayLen \div 2 \in Int
      BY <3>1, <2>2
    <3>3. Noon(ZonedDate(s, cal) + MaxDays, cal) \in Int
      BY <2>2, <3>2 DEF Noon, ZonedWallToUtc, IsCalendar
    <3> QED BY <2>1, <2>3, <3>3
  <2>4. CASE fits # {}
    <3>1. fits \subseteq Nat BY <2>2
    <3>2. Min(fits) \in fits BY <2>4, <3>1, MinIsLeast
    <3>3. Min(fits) \in Nat /\ Min(fits) \in 0 .. MaxDays BY <2>2, <3>2
    <3>4. SpanStart(s, Min(fits), cal) \in Int BY <2>2, <3>3, AvailType
    <3>5. left[Min(fits)] \in Int BY <2>2, <3>3, RemainingIs
    <3> QED BY <2>1, <2>4, <3>4, <3>5
  <2> QED BY <2>3, <2>4
<1> QED BY <1>1, <1>2, <1>3

-----------------------------------------------------------------------------
(* Breaches.  A resolution recorded as BREACHED was late when it was       *)
(* recorded: for the clock, and, since nobody else writes meanwhile, for   *)
(* the time of a run that is alone.                                        *)

LEMMA PolicyFound ==
  ASSUME NEW origin, NEW pri, ResolvePolicy(origin, pri) # None
  PROVE  ResolvePolicy(origin, pri) \in Policies
<1> DEFINE applicable == {p \in Policies : /\ p.priority = pri
                                           /\ p.account \in {None, origin.account}
                                           /\ p.bu \in {None, origin.bu}}
           ranks == {3 - Score(p) : p \in applicable}
<1>1. applicable # {} BY DEF ResolvePolicy
<1>2. \A p : Score(p) \in 0 .. 3 BY DEF Score
<1>3. ranks \subseteq Nat /\ ranks # {} BY <1>1, <1>2
<1>4. PICK m \in ranks : \A n \in ranks : m <= n BY <1>3, NatHasLeast
<1>5. PICK p \in applicable : m = 3 - Score(p) BY <1>4
<1>6. \A q \in applicable : Score(q) <= Score(p)
  <2> TAKE q \in applicable
  <2>1. 3 - Score(p) <= 3 - Score(q) BY <1>4, <1>5
  <2> QED BY <2>1, <1>2
<1>7. ResolvePolicy(origin, pri)
        = CHOOSE q \in applicable : \A u \in applicable : Score(u) <= Score(q)
  BY <1>1 DEF ResolvePolicy
<1> HIDE DEF applicable
<1>8. ResolvePolicy(origin, pri) \in applicable BY <1>6, <1>7
<1> QED BY <1>8 DEF applicable

\* Reading a calendar changes its holidays only.
LEMMA LoadedType ==
  ASSUME NEW p \in Policies, p.calendar # AllHours
  PROVE  IsCalendar(p.calendar) /\ IsCalendar(Loaded(p.calendar))
BY PoliciesTyped DEF IsCalendar, Loaded

Due(t, p) == Reached[t][p.resolution][p.calendar]

LEMMA DueType ==
  ASSUME NEW t \in Tickets, NEW p \in Policies
  PROVE  Due(t, p) \in Int
<1>1. p.resolution \in Spans /\ p.calendar \in {q.calendar : q \in Policies} BY DEF Spans
<1>2. Due(t, p) = AddBusinessMinutes(CreatedAt[t], p.resolution, Loaded(p.calendar))
  BY <1>1 DEF Due, Reached
<1>3. CreatedAt[t] \in Int /\ p.resolution \in Int
  <2>1. p.resolution \in Nat \ {0} BY PoliciesTyped, Zenon
  <2> QED BY <2>1, SlaAssumption
<1>4. Loaded(p.calendar) # AllHours => IsCalendar(Loaded(p.calendar))
  BY LoadedType DEF Loaded
<1> QED BY <1>2, <1>3, <1>4, AddType

\* What a snapshot says of the resolution, by its milestone and its time.
LEMMA SnapshotSays ==
  ASSUME NEW t \in Tickets, NEW x, x.priority \in Priorities, NEW m, NEW time \in Int,
         NEW s, s = Snapshot(t, x, m, time), s.policy # None
  PROVE  /\ s.policy \in Policies /\ s.resolution.due = Due(t, s.policy)
         /\ m["CLOSED"] # None =>
              s.resolution.state = IF m["CLOSED"] <= Due(t, s.policy) THEN "MET" ELSE "BREACHED"
         /\ m["CLOSED"] = None =>
              (s.resolution.state = "BREACHED" <=> time > Due(t, s.policy))
<1> DEFINE p == Resolved[t][x.priority]
<1>1. p = ResolvePolicy(Origin[t], x.priority) BY DEF Resolved
<1>2. p # None /\ s.policy = p
      /\ s.resolution = DimensionState(t, p.resolution, p.atRisk, m["CLOSED"], time, p.calendar)
  BY DEF Snapshot, ComputeSlaSnapshot
<1>3. p \in Policies BY <1>1, <1>2, PolicyFound
<1>4. Due(t, p) \in Int BY <1>3, DueType
<1> HIDE DEF p
<1> DEFINE due == Reached[t][p.resolution][p.calendar]
           atRisk == Reached[t][AtRiskMinutes(p.resolution, p.atRisk)][p.calendar]
<1>5. due = Due(t, p) BY DEF Due
<1>6. s.resolution =
        [due |-> due,
         state |-> CASE m["CLOSED"] # None -> IF m["CLOSED"] <= due THEN "MET" ELSE "BREACHED"
                     [] m["CLOSED"] = None /\ time > due -> "BREACHED"
                     [] m["CLOSED"] = None /\ time <= due /\ time >= atRisk -> "AT_RISK"
                     [] OTHER -> "PENDING"]
  BY <1>2 DEF DimensionState
<1> HIDE DEF due, atRisk
<1> QED BY <1>2, <1>3, <1>4, <1>5, <1>6

Breached(t) == sla[t].resolution.state = "BREACHED"
Late(t, time) == Breached(t) /\ DeriveMilestones(t)["CLOSED"] = None
                   => time > sla[t].resolution.due

BreachInv ==
  /\ \A t \in Tickets : Breached(t) =>
       /\ sla[t].policy \in Policies \ {None}
       /\ sla[t].resolution.due = Due(t, sla[t].policy)
       /\ Late(t, clock)
  /\ \A r \in Runners : Alone(r) => \A t \in Tickets : Late(t, now[r])

\* A run that is alone after a step was alone before and works with the same
\* time, or starts now.
LEMMA AloneSince ==
  ASSUME IInv, [Next]_vars, NEW r \in Runners, Alone(r)'
  PROVE  \/ Alone(r) /\ now'[r] = now[r]
         \/ now'[r] = clock /\ UNCHANGED sla
<1> USE DEF IInv, Shapes, Alone, Engines, Pcs
<1>1. ASSUME UNCHANGED startVars, NEW q \in Runners, pc[q] \notin {"idle", "lock"},
             \A x \in Runners \ {q} : pc'[x] = pc[x]
      PROVE  Alone(r) /\ now'[r] = now[r]
  BY <1>1 DEF startVars
<1>2. ASSUME NEW R \in SUBSET Runners, Forget(R) PROVE Alone(r) /\ now'[r] = now[r]
  BY <1>2 DEF Forget, Reset
<1>3. ASSUME NEW q \in Runners, NEW s, Invoke(q, s) PROVE Alone(r) /\ now'[r] = now[r]
  BY <1>3 DEF Invoke
<1>4. ASSUME NEW q \in Runners, NEW s, Dispatch(q, s)
      PROVE  \/ Alone(r) /\ now'[r] = now[r]
             \/ now'[r] = clock /\ UNCHANGED sla
  <2>1. CASE q = r BY <1>4, <2>1 DEF Dispatch, dbVars
  <2>2. CASE q # r
    <3>1. /\ pc'[r] = pc[r] /\ step'[r] = step[r] /\ now'[r] = now[r]
          /\ mixed'[r] = (mixed[r] \/ (r \in Engines /\ Unlocked(r, q)))
      BY <1>4, <2>2 DEF Dispatch
    <3>2. r \in Engines BY <3>1
    <3>3. mixed[r] \in BOOLEAN /\ ~mixed'[r] OBVIOUS
    <3>4. (mixed[r] \/ (r \in Engines /\ Unlocked(r, q))) = TRUE \/ mixed[r] = FALSE
      BY <3>3
    <3>5. ~mixed[r] BY <3>1, <3>3, <3>4
    <3> QED BY <3>1, <3>2, <3>5
  <2> QED BY <2>1, <2>2
<1>5. ASSUME NEW q \in Runners, RunnerStep(q)
      PROVE  \/ Alone(r) /\ now'[r] = now[r]
             \/ now'[r] = clock /\ UNCHANGED sla
  <2>1. CASE Page(q) BY <1>1, <2>1 DEF Page
  <2>2. CASE Begin(q) BY <1>1, <2>2 DEF Begin
  <2>3. CASE Commit(q) BY <1>1, <2>3 DEF Commit, Done
  <2>4. CASE TicketFails(q) BY <1>1, <2>4 DEF TicketFails, Done
  <2>5. CASE BatchFails(q) BY <1>1, <2>5 DEF BatchFails
  <2>6. CASE Sync(q)
    <3>1. UNCHANGED runVars /\ pc[q] = "page" BY <2>6 DEF Sync
    <3> QED BY <1>1, <3>1 DEF runVars
  <2>7. CASE SyncEnds(q) BY <1>1, <2>7 DEF SyncEnds
  <2>8. CASE SkipLocked(q) \/ Close(q) \/ ProcessDies(q)
    BY <1>2, <2>8 DEF SkipLocked, Close, ProcessDies
  <2> QED BY <1>3, <1>4, <1>5, <2>1, <2>2, <2>3, <2>4, <2>5, <2>6, <2>7, <2>8
          DEF RunnerStep, Work, Fails, StartByHand, TakeLock
<1>6. CASE Crash
  <2>1. Forget(Cron) /\ Cron \in SUBSET Runners BY <1>6, JobsAssumption DEF Crash
  <2> QED BY <2>1, <1>2
<1>7. CASE LoseLock \/ Reap \/ RequestBegins \/ RequestEnds \/ Tick \/ UNCHANGED vars
  BY <1>7 DEF LoseLock, Reap, RequestBegins, RequestEnds, Tick, vars, slaVars, runVars, startVars
<1> QED BY <1>5, <1>6, <1>7 DEF Next

\* Priorities and times, in every step.
TypedRuns ==
  /\ priority \in [Tickets -> Priorities]
  /\ \A r \in Runners : pc[r] \in {"begin", "commit"} =>
       \A t \in DOMAIN batch[r] : batch[r][t].priority \in Priorities
  /\ \A r \in Runners : now[r] \in Nat /\ now[r] <= clock

LEMMA TypedRunsNext ==
  ASSUME IInv, RecordInv, TypedRuns, [Next]_vars
  PROVE  TypedRuns'
<1> USE DEF IInv, Shapes, TypedRuns, RecordInv, Timed
<1>1. ASSUME UNCHANGED <<priority, now, clock>>, NEW q \in Runners,
             \A x \in Runners \ {q} : pc'[x] = pc[x] /\ batch'[x] = batch[x],
             \/ pc'[q] \notin {"begin", "commit"}
             \/ \A t \in DOMAIN batch'[q] : batch'[q][t].priority \in Priorities
      PROVE  TypedRuns'
  BY <1>1
<1>2. ASSUME NEW R \in SUBSET Runners, Forget(R), UNCHANGED <<priority, clock>>
      PROVE  TypedRuns'
  BY <1>2 DEF Forget, Reset
<1>3. ASSUME NEW q \in Runners, NEW s, Dispatch(q, s) PROVE TypedRuns'
  BY <1>3 DEF Dispatch, dbVars, syncVars, loopVars
<1>4. ASSUME NEW q \in Runners, Done(q), pc[q] \in {"begin", "commit"},
             UNCHANGED <<priority, now, clock>>
      PROVE  TypedRuns'
  <2> DEFINE rest == DOMAIN batch[q] \ {At(q)}
  <2>1. batch'[q] = [t \in rest |-> batch[q][t]] BY <1>4 DEF Done
  <2>2. \A t \in DOMAIN batch'[q] : batch'[q][t].priority \in Priorities BY <2>1, <1>4
  <2>3. \A x \in Runners \ {q} : pc'[x] = pc[x] /\ batch'[x] = batch[x] BY <1>4 DEF Done
  <2> QED BY <1>1, <1>4, <2>2, <2>3
<1>5. ASSUME NEW q \in Runners, RunnerStep(q) PROVE TypedRuns'
  <2> USE DEF dbVars, syncVars, startVars
  <2>1. CASE Page(q)
    <3> DEFINE ids == {t \in Tickets : t > last[q]}
               first == {t \in ids : Cardinality({u \in ids : u <= t}) <= Batch}
    <3>1. /\ batch' = [batch EXCEPT ![q] = [t \in first |-> Row(t)]]
          /\ \A x \in Runners \ {q} : pc'[x] = pc[x] /\ batch'[x] = batch[x]
          /\ UNCHANGED <<priority, now, clock>>
      BY <2>1 DEF Page
    <3>2. first \subseteq Tickets OBVIOUS
    <3> HIDE DEF first
    <3>3. \A t \in DOMAIN batch'[q] : batch'[q][t].priority \in Priorities
      BY <3>1, <3>2 DEF Row
    <3> QED BY <1>1, <3>1, <3>3
  <2>2. CASE Begin(q) BY <1>1, <2>2 DEF Begin
  <2>3. CASE Commit(q) BY <1>4, <2>3 DEF Commit
  <2>4. CASE TicketFails(q) BY <1>4, <2>4 DEF TicketFails
  <2>5. CASE BatchFails(q) BY <1>1, <2>5 DEF BatchFails
  <2>6. CASE Sync(q)
    <3>1. UNCHANGED <<clock, runVars>> BY <2>6 DEF Sync
    <3>2. priority' = priority \/ \E t \in Tickets, p \in Priorities :
                                    priority' = [priority EXCEPT ![t] = p]
      BY <2>6, SlaAssumption DEF Sync
    <3>3. priority' \in [Tickets -> Priorities] BY <3>2
    <3> QED BY <3>1, <3>3 DEF runVars, loopVars
  <2>7. CASE SyncEnds(q) BY <1>1, <2>7 DEF SyncEnds, loopVars
  <2>8. CASE SkipLocked(q) \/ Close(q) \/ ProcessDies(q)
    BY <1>2, <2>8 DEF SkipLocked, Close, ProcessDies
  <2>9. ASSUME NEW s, Invoke(q, s) PROVE TypedRuns'
    BY <1>1, <2>9 DEF Invoke, loopVars
  <2> QED BY <1>3, <1>5, <2>1, <2>2, <2>3, <2>4, <2>5, <2>6, <2>7, <2>8, <2>9
          DEF RunnerStep, Work, Fails, StartByHand, TakeLock
<1>6. CASE Crash
  <2>1. Forget(Cron) /\ Cron \in SUBSET Runners /\ UNCHANGED <<priority, clock>>
    BY <1>6, JobsAssumption DEF Crash, dbVars, syncVars
  <2> QED BY <2>1, <1>2
<1>7. CASE LoseLock \/ Reap \/ RequestBegins \/ RequestEnds \/ Tick \/ UNCHANGED vars
  <2>1. UNCHANGED <<priority, now, pc, batch>> /\ clock' \in Nat /\ clock <= clock'
    BY <1>7 DEF LoseLock, Reap, RequestBegins, RequestEnds, Tick, vars, slaVars, runVars, startVars,
                loopVars, dbVars, syncVars
  <2>2. \A r \in Runners : now'[r] \in Nat /\ now'[r] <= clock' BY <2>1
  <2> QED BY <2>1, <2>2
<1> QED BY <1>5, <1>6, <1>7 DEF Next

LEMMA ClosureStays ==
  ASSUME RecordInv, [Next]_vars, NEW t \in Tickets
  PROVE  DeriveMilestones(t)'["CLOSED"] = None => DeriveMilestones(t)["CLOSED"] = None
<1>1. Timed /\ Timed' /\ events[t] \subseteq events'[t] BY EventsGrow DEF RecordInv
<1>2. "CLOSED" \in Milestones BY DEF Milestones
<1>3. Kept(DeriveMilestones(t)["CLOSED"], DeriveMilestones(t)'["CLOSED"])
  BY <1>1, <1>2, DerivedKept
<1>4. None \notin Nat BY SlaAssumption
<1> QED BY <1>3, <1>4 DEF Kept

\* What a run, alone or not, writes of a ticket.
LEMMA Writes ==
  ASSUME IInv, RecordInv, TypedRuns, NEW r \in Runners, Commit(r), NEW t \in Tickets,
         sla'[t] # sla[t]
  PROVE  /\ t = At(r) /\ pc[r] = "commit" /\ r \in Engines
         /\ milestones'[t] = seen[r] /\ batch[r][t].priority \in Priorities
         /\ sla'[t] = Snapshot(t, batch[r][t], seen[r], now[r])
         /\ UNCHANGED <<events, clock, now>>
<1>1. pc[r] = "commit" /\ UNCHANGED <<events, clock, now>>
  BY DEF Commit, syncVars, startVars
<1>2. InBatch(r) BY <1>1 DEF RecordInv
<1>3. At(r) \in DOMAIN batch[r] BY <1>2, InBatchAt
<1>4. /\ milestones' = [milestones EXCEPT ![At(r)] = seen[r]]
      /\ sla' = [sla EXCEPT ![At(r)] = Snapshot(At(r), batch[r][At(r)], seen[r], now[r])]
  BY DEF Commit
<1>5. t = At(r) BY <1>4 DEF IInv, Shapes
<1>6. batch[r][t].priority \in Priorities BY <1>1, <1>3, <1>5 DEF TypedRuns
<1> QED BY <1>1, <1>4, <1>5, <1>6 DEF IInv, Shapes, Engines

LEMMA BreachNext ==
  ASSUME IInv, RecordInv, TypedRuns, BreachInv, [Next]_vars
  PROVE  BreachInv'
<1>1. TypedRuns' BY TypedRunsNext
<1>2. clock \in Nat /\ clock' \in Nat /\ clock <= clock'
  <2>1. clock \in Nat /\ Timed' BY EventsGrow DEF RecordInv, Timed
  <2>2. clock' = clock \/ clock' = clock + 1
    <3> USE DEF dbVars, slaVars
    <3>1. ASSUME NEW q \in Runners, RunnerStep(q) PROVE clock' = clock
      <4>1. CASE \E s \in {"sla", "sync"} : Invoke(q, s) \/ StartByHand(q, s)
        BY <4>1 DEF Invoke, StartByHand, Dispatch
      <4>2. CASE TakeLock(q) \/ SkipLocked(q) BY <4>2 DEF TakeLock, SkipLocked, Dispatch
      <4>3. CASE Work(q) BY <4>3 DEF Work, Page, Begin, SyncEnds, Commit
      <4>4. CASE Fails(q) BY <4>4 DEF Fails, TicketFails, BatchFails
      <4>5. CASE Close(q) \/ ProcessDies(q) \/ Sync(q) BY <4>5 DEF Close, ProcessDies, Sync
      <4> QED BY <3>1, <4>1, <4>2, <4>3, <4>4, <4>5 DEF RunnerStep
    <3>2. CASE LoseLock \/ Crash \/ Reap \/ RequestBegins \/ RequestEnds \/ Tick \/ UNCHANGED vars
      BY <3>2 DEF LoseLock, Crash, Reap, RequestBegins, RequestEnds, Tick, vars
    <3> QED BY <3>1, <3>2 DEF Next
  <2> QED BY <2>1, <2>2 DEF Timed
\* Rows nobody writes.
<1>3. ASSUME NEW t \in Tickets, sla'[t] = sla[t], Breached(t)'
      PROVE  /\ sla'[t].policy \in Policies \ {None}
             /\ sla'[t].resolution.due = Due(t, sla'[t].policy)
             /\ Late(t, clock)'
             /\ \A time : Late(t, time) =>
                  (DeriveMilestones(t)'["CLOSED"] = None => time > sla'[t].resolution.due)
  <2>1. Breached(t) /\ Late(t, clock) BY <1>3 DEF Breached, BreachInv
  <2>2. sla[t].policy \in Policies \ {None} /\ sla[t].resolution.due = Due(t, sla[t].policy)
    BY <2>1 DEF BreachInv
  <2>3. sla[t].resolution.due \in Int BY <2>2, DueType
  <2>4. \A time : Late(t, time) =>
          (DeriveMilestones(t)'["CLOSED"] = None => time > sla'[t].resolution.due)
    BY <1>3, <2>1, ClosureStays DEF Late
  <2>5. DeriveMilestones(t)'["CLOSED"] = None => clock' > sla'[t].resolution.due
    BY <1>2, <1>3, <2>1, <2>3, <2>4
  <2> QED BY <1>3, <2>2, <2>4, <2>5 DEF Late
\* The row a run writes.
<1>4. ASSUME NEW t \in Tickets, sla'[t] # sla[t], Breached(t)', NEW r \in Runners, Commit(r)
      PROVE  /\ sla'[t].policy \in Policies \ {None}
             /\ sla'[t].resolution.due = Due(t, sla'[t].policy)
             /\ Late(t, clock)' /\ Late(t, now[r])'
  <2>1. /\ t = At(r) /\ pc[r] = "commit" /\ UNCHANGED <<events, clock, now>>
        /\ batch[r][t].priority \in Priorities
        /\ sla'[t] = Snapshot(t, batch[r][t], seen[r], now[r])
    BY <1>4, Writes
  <2>2. Stands(seen[r], t) BY <2>1 DEF RecordInv
  <2>3. now[r] \in Nat /\ now[r] <= clock BY DEF TypedRuns
  <2>4. sla'[t].policy # None
    <3>1. sla'[t].resolution.state = "BREACHED" BY <1>4 DEF Breached
    <3> QED BY <2>1, <3>1 DEF Snapshot, ComputeSlaSnapshot, NotApplicable
  <2>5. PICK s : s = sla'[t] OBVIOUS
  <2>6. s = Snapshot(t, batch[r][t], seen[r], now[r]) /\ s.policy # None
        /\ s.resolution.state = "BREACHED"
    BY <2>1, <2>4, <2>5, <1>4 DEF Breached
  <2>7. /\ s.policy \in Policies /\ s.resolution.due = Due(t, s.policy)
        /\ seen[r]["CLOSED"] = None => now[r] > Due(t, s.policy)
    BY <2>1, <2>3, <2>6, SnapshotSays
  <2>8. Due(t, s.policy) \in Int BY <2>7, DueType
  <2>9. DeriveMilestones(t)' = DeriveMilestones(t) BY <2>1, DerivedSame
  <2>10. DeriveMilestones(t)["CLOSED"] = None => seen[r]["CLOSED"] = None
    BY <2>2, SlaAssumption DEF Stands, Kept, Milestones
  <2>11. DeriveMilestones(t)'["CLOSED"] = None
           => now[r] > sla'[t].resolution.due /\ clock > sla'[t].resolution.due
    BY <1>2, <2>3, <2>5, <2>7, <2>8, <2>9, <2>10
  <2> QED BY <2>1, <2>4, <2>5, <2>7, <2>11 DEF Late
<1>5. ASSUME NEW t \in Tickets, Breached(t)'
      PROVE  /\ sla'[t].policy \in Policies \ {None}
             /\ sla'[t].resolution.due = Due(t, sla'[t].policy)
             /\ Late(t, clock)'
  <2>1. CASE sla'[t] = sla[t] BY <2>1, <1>3, <1>5
  <2>2. CASE sla'[t] # sla[t] BY <2>2, <1>4, <1>5, OnlyCommitWrites
  <2> QED BY <2>1, <2>2
<1>6. ASSUME NEW r \in Runners, Alone(r)', NEW t \in Tickets PROVE Late(t, now[r])'
  <2>1. CASE ~Breached(t)' BY <2>1 DEF Late
  <2>2. CASE Breached(t)' /\ sla'[t] = sla[t]
    <3>1. \A time : Late(t, time) =>
            (DeriveMilestones(t)'["CLOSED"] = None => time > sla'[t].resolution.due)
      BY <2>2, <1>3
    <3>2. Breached(t) BY <2>2 DEF Breached
    <3>3. Late(t, now'[r])
      <4>1. CASE Alone(r) /\ now'[r] = now[r] BY <4>1 DEF BreachInv, Late
      <4>2. CASE now'[r] = clock BY <3>2, <4>2 DEF BreachInv, Late
      <4> QED BY <1>6, <4>1, <4>2, AloneSince
    <3> QED BY <3>1, <3>3 DEF Late
  <2>3. CASE Breached(t)' /\ sla'[t] # sla[t]
    <3>1. PICK q \in Runners : Commit(q) BY <2>3, OnlyCommitWrites
    <3>2. Late(t, now[q])' BY <2>3, <3>1, <1>4
    <3>3. q \in Engines BY <3>1 DEF Commit, Engines
    <3>4. Alone(r) BY <1>6, <2>3, AloneSince
    <3>5. q = r BY <3>3, <3>4, SoleEngine DEF IInv
    <3> QED BY <3>2, <3>5
  <2> QED BY <2>1, <2>2, <2>3
<1> QED BY <1>5, <1>6 DEF BreachInv

\* Every state has it.
THEOREM AlwaysLate == Spec => [](TypedRuns /\ BreachInv)
<1>1. Init => TypedRuns /\ BreachInv
  <2> SUFFICES ASSUME Init PROVE TypedRuns /\ BreachInv OBVIOUS
  <2>1. TypedRuns BY SlaAssumption DEF Init, SlaInit, TypedRuns
  <2>2. \A t \in Tickets : ~Breached(t)
    BY DEF Init, SlaInit, Breached, NotApplicable
  <2> QED BY <2>1, <2>2 DEF BreachInv, Late
<1>2. IInv /\ RecordInv /\ TypedRuns /\ BreachInv /\ [Next]_vars => (TypedRuns /\ BreachInv)'
  BY TypedRunsNext, BreachNext
<1> QED BY <1>1, <1>2, Inductive, AlwaysRecorded, PTL DEF Spec

\* A breach stands: a resolution that was late for one run is late for the next,
\* which started later and takes the same due time from the same policy, unless a
\* closure in time has come to light.  Only a run that met one outside the lock
\* can lift a breach.
THEOREM BreachesAlwaysStand == Spec => BreachStands
<1> DEFINE Lifted(t) == sla[t].resolution.state = "BREACHED" /\ sla'[t].resolution.state # "BREACHED"
           Why(t) == \/ sla'[t].policy # sla[t].policy
                     \/ /\ milestones'[t]["CLOSED"] # None
                        /\ milestones'[t]["CLOSED"] <= sla[t].resolution.due
                     \/ \E r \in Engines : mixed[r] /\ pc[r] = "commit"
<1>1. ASSUME IInv, RecordInv, TypedRuns, BreachInv, [Next]_vars, NEW t \in Tickets, Lifted(t)
      PROVE  Why(t)
  <2>1. sla'[t] # sla[t] BY <1>1
  <2>2. PICK r \in Runners : Commit(r) BY <1>1, <2>1, OnlyCommitWrites
  <2>3. /\ t = At(r) /\ pc[r] = "commit" /\ r \in Engines
        /\ milestones'[t] = seen[r] /\ batch[r][t].priority \in Priorities
        /\ sla'[t] = Snapshot(t, batch[r][t], seen[r], now[r])
    BY <1>1, <2>1, <2>2, Writes
  <2>4. CASE mixed[r] BY <2>3, <2>4
  <2>5. CASE ~mixed[r] /\ sla'[t].policy = sla[t].policy
    <3>1. Alone(r) /\ seen[r] = DeriveMilestones(t) BY <1>1, <2>2, <2>3, <2>5, AloneCommits
    <3>2. /\ sla[t].policy \in Policies \ {None} /\ sla[t].resolution.due = Due(t, sla[t].policy)
          /\ Late(t, now[r])
      BY <1>1, <3>1 DEF BreachInv, Breached
    <3>3. PICK s : s = sla'[t] OBVIOUS
    <3>4. Due(t, s.policy) \in Int /\ now[r] \in Int BY <1>1, <2>5, <3>2, <3>3, DueType DEF TypedRuns
    <3>5. s.policy # None BY <2>5, <3>2, <3>3
    <3>6. /\ seen[r]["CLOSED"] # None =>
               s.resolution.state = IF seen[r]["CLOSED"] <= Due(t, s.policy)
                                    THEN "MET" ELSE "BREACHED"
          /\ seen[r]["CLOSED"] = None =>
               (s.resolution.state = "BREACHED" <=> now[r] > Due(t, s.policy))
      BY <2>3, <3>3, <3>4, <3>5, SnapshotSays
    <3>7. s.resolution.state # "BREACHED" /\ s.policy = sla[t].policy BY <1>1, <2>5, <3>3
    <3>8. seen[r]["CLOSED"] # None
      BY <1>1, <3>1, <3>2, <3>6, <3>7 DEF Late, Breached
    <3>9. seen[r]["CLOSED"] <= sla[t].resolution.due BY <3>2, <3>6, <3>7, <3>8
    <3> QED BY <2>3, <3>8, <3>9
  <2> QED BY <2>4, <2>5
<1>2. IInv /\ RecordInv /\ TypedRuns /\ BreachInv /\ [Next]_vars
        => [\A t \in Tickets : Lifted(t) => Why(t)]_vars
  BY <1>1
<1> QED BY <1>2, Inductive, AlwaysRecorded, AlwaysLate, PTL DEF Spec, BreachStands

-----------------------------------------------------------------------------
(* Types, and the pool.                                                    *)

Committing == {r \in Invoked : pc[r] = "commit"}

LEMMA OneMore ==
  ASSUME NEW S, IsFiniteSet(S), NEW T
  PROVE  /\ T \subseteq S =>
              IsFiniteSet(T) /\ Cardinality(T) \in Nat /\ Cardinality(T) <= Cardinality(S)
         /\ \A x : T \subseteq S \cup {x} =>
              IsFiniteSet(T) /\ Cardinality(T) \in Nat /\ Cardinality(T) <= Cardinality(S) + 1
<1>1. Cardinality(S) \in Nat BY FS_CardinalityType
<1>2. ASSUME T \subseteq S
      PROVE  IsFiniteSet(T) /\ Cardinality(T) \in Nat /\ Cardinality(T) <= Cardinality(S)
  BY <1>2, FS_Subset, FS_CardinalityType
<1>3. ASSUME NEW x, T \subseteq S \cup {x}
      PROVE  IsFiniteSet(T) /\ Cardinality(T) \in Nat /\ Cardinality(T) <= Cardinality(S) + 1
  <2>1. IsFiniteSet(S \cup {x}) /\ Cardinality(S \cup {x}) <= Cardinality(S) + 1
        /\ Cardinality(S \cup {x}) \in Nat
    BY <1>1, FS_AddElement
  <2>2. IsFiniteSet(T) /\ Cardinality(T) <= Cardinality(S \cup {x})
    BY <1>3, <2>1, FS_Subset
  <2>3. Cardinality(T) \in Nat BY <2>2, FS_CardinalityType
  <2> QED BY <1>1, <2>1, <2>2, <2>3
<1> QED BY <1>2, <1>3

\* No step adds more than one connection, and none without asking.
LEMMA PoolKept ==
  ASSUME TypeOK, web' \in 0 .. MaxWeb,
         \/ /\ web' <= web
            /\ Invoked' \subseteq Invoked /\ Committing' \subseteq Committing
         \/ /\ InUse < PoolMax
            /\ \/ /\ web' = web + 1
                  /\ Invoked' \subseteq Invoked /\ Committing' \subseteq Committing
               \/ /\ web' = web
                  /\ \E r \in Runners : Invoked' \subseteq Invoked \cup {r}
                  /\ Committing' \subseteq Committing
               \/ /\ web' = web
                  /\ Invoked' \subseteq Invoked
                  /\ \E r \in Runners : Committing' \subseteq Committing \cup {r}
  PROVE  InUse' <= PoolMax
<1>1. IsFiniteSet(Cron) BY JobsAssumption, FS_Subset
<1>2. IsFiniteSet(Invoked) BY <1>1, FS_Subset DEF Invoked
<1>3. IsFiniteSet(Committing) BY <1>2, FS_Subset DEF Committing
<1>4. Cardinality(Invoked) \in Nat /\ Cardinality(Committing) \in Nat
  BY <1>2, <1>3, FS_CardinalityType
<1>5. /\ InUse = web + Cardinality(Invoked) + Cardinality(Committing)
      /\ InUse' = web' + Cardinality(Invoked') + Cardinality(Committing')
  BY DEF InUse, Committing
<1>6. web \in Nat /\ web' \in Nat /\ PoolMax \in Nat /\ InUse <= PoolMax
  BY JobsAssumption DEF TypeOK
<1>7. PICK i, c : i = Invoked' /\ c = Committing' OBVIOUS
<1>8. /\ i \subseteq Invoked =>
            Cardinality(i) \in Nat /\ Cardinality(i) <= Cardinality(Invoked)
      /\ \A r : i \subseteq Invoked \cup {r} =>
            Cardinality(i) \in Nat /\ Cardinality(i) <= Cardinality(Invoked) + 1
  BY <1>2, OneMore
<1>9. /\ c \subseteq Committing =>
            Cardinality(c) \in Nat /\ Cardinality(c) <= Cardinality(Committing)
      /\ \A r : c \subseteq Committing \cup {r} =>
            Cardinality(c) \in Nat /\ Cardinality(c) <= Cardinality(Committing) + 1
  BY <1>3, OneMore
<1>10. Cardinality(i) = Cardinality(Invoked') /\ Cardinality(c) = Cardinality(Committing')
  BY <1>7
<1> HIDE DEF InUse
<1>11. CASE /\ web' <= web
            /\ Invoked' \subseteq Invoked /\ Committing' \subseteq Committing
  <2>1. i \subseteq Invoked /\ c \subseteq Committing BY <1>7, <1>11
  <2> QED BY <1>4, <1>5, <1>6, <1>8, <1>9, <1>10, <1>11, <2>1
<1>12. CASE /\ web' = web + 1 /\ InUse < PoolMax
            /\ Invoked' \subseteq Invoked /\ Committing' \subseteq Committing
  <2>1. i \subseteq Invoked /\ c \subseteq Committing BY <1>7, <1>12
  <2> QED BY <1>4, <1>5, <1>6, <1>8, <1>9, <1>10, <1>12, <2>1
<1>13. CASE /\ web' = web /\ InUse < PoolMax
            /\ \E r \in Runners : Invoked' \subseteq Invoked \cup {r}
            /\ Committing' \subseteq Committing
  <2>1. c \subseteq Committing /\ \E r : i \subseteq Invoked \cup {r} BY <1>7, <1>13
  <2>2. Cardinality(i) \in Nat /\ Cardinality(i) <= Cardinality(Invoked) + 1 BY <1>8, <2>1
  <2>3. Cardinality(c) \in Nat /\ Cardinality(c) <= Cardinality(Committing) BY <1>9, <2>1
  <2> QED BY <1>4, <1>5, <1>6, <1>10, <1>13, <2>2, <2>3
<1>14. CASE /\ web' = web /\ InUse < PoolMax
            /\ Invoked' \subseteq Invoked
            /\ \E r \in Runners : Committing' \subseteq Committing \cup {r}
  <2>1. i \subseteq Invoked /\ \E r : c \subseteq Committing \cup {r} BY <1>7, <1>14
  <2>2. Cardinality(i) \in Nat /\ Cardinality(i) <= Cardinality(Invoked) BY <1>8, <2>1
  <2>3. Cardinality(c) \in Nat /\ Cardinality(c) <= Cardinality(Committing) + 1 BY <1>9, <2>1
  <2> QED BY <1>4, <1>5, <1>6, <1>10, <1>14, <2>2, <2>3
<1> QED BY <1>11, <1>12, <1>13, <1>14

\* The part of TypeOK that is about the runs, and a step in which at most one moves.
RunsType ==
  /\ clock \in FirstTime .. MaxTime
  /\ step \in [Runners -> {None, "sla", "sync"}] /\ now \in [Runners -> Nat]
  /\ last \in [Runners -> Tickets \cup {0}]
  /\ status \in [Runners -> {"SUCCESS", "PARTIAL", "FAILED"}]

OnlyMoves(r) == web' = web /\ \A q \in Runners \ {r} : pc'[q] = pc[q]

LEMMA TypeParts ==
  ASSUME IInv', RunsType', web' \in 0 .. MaxWeb, InUse' <= PoolMax
  PROVE  TypeOK'
BY DEF IInv, Shapes, RunsType, TypeOK, Pcs, Holders

LEMMA MovesType ==
  ASSUME IInv', RunsType', TypeOK, NEW r \in Runners, OnlyMoves(r),
         \/ (pc[r] = "idle" => pc'[r] = "idle") /\ (pc'[r] = "commit" => pc[r] = "commit")
         \/ r \notin Cron
         \/ InUse < PoolMax /\ (pc'[r] = "commit" => pc[r] # "idle")
  PROVE  TypeOK'
<1>0. Cron \subseteq Runners BY JobsAssumption
<1>1. Invoked' \subseteq Invoked \cup {r} /\ Committing' \subseteq Committing \cup {r}
  BY <1>0 DEF Invoked, Committing, OnlyMoves
<1>2. (pc[r] = "idle" => pc'[r] = "idle") \/ r \notin Cron => Invoked' \subseteq Invoked
  BY <1>0 DEF Invoked, OnlyMoves
<1>3. (pc'[r] = "commit" => pc[r] = "commit") \/ r \notin Cron => Committing' \subseteq Committing
  BY <1>0 DEF Invoked, Committing, OnlyMoves
<1>4. web' \in 0 .. MaxWeb /\ web' = web /\ web' <= web
  BY JobsAssumption DEF OnlyMoves, TypeOK
<1>5. InUse' <= PoolMax
  <2>1. CASE \/ (pc[r] = "idle" => pc'[r] = "idle") /\ (pc'[r] = "commit" => pc[r] = "commit")
             \/ r \notin Cron
    BY <1>2, <1>3, <1>4, <2>1, PoolKept
  <2>2. CASE InUse < PoolMax /\ (pc'[r] = "commit" => pc[r] # "idle")
    <3>1. CASE pc'[r] = "commit" BY <1>1, <1>2, <1>4, <2>2, <3>1, PoolKept
    <3>2. CASE pc'[r] # "commit" BY <1>1, <1>3, <1>4, <2>2, <3>2, PoolKept
    <3> QED BY <3>1, <3>2
  <2> QED BY <2>1, <2>2
<1> QED BY <1>4, <1>5, TypeParts

LEMMA RunsTypeNext ==
  ASSUME IInv, RecordInv, TypedRuns, RunsType, [Next]_vars
  PROVE  RunsType'
<1> USE DEF RunsType, IInv, Shapes
<1>1. ASSUME NEW R \in SUBSET Runners, Forget(R), clock' = clock PROVE RunsType'
  BY <1>1 DEF Forget, Reset
<1>2. ASSUME NEW q \in Runners, NEW s \in {None, "sla", "sync"}, Dispatch(q, s) PROVE RunsType'
  <2>1. clock \in Nat BY DEF RecordInv, Timed
  <2> QED BY <1>2, <2>1 DEF Dispatch, loopVars
<1>3. ASSUME NEW q \in Runners, Done(q), pc[q] \in {"begin", "commit"},
             UNCHANGED <<clock, step, now>>,
             status' = status \/ status' = [status EXCEPT ![q] = "PARTIAL"]
      PROVE  RunsType'
  <2>1. At(q) \in Tickets BY <1>3, InBatchAt DEF RecordInv
  <2> QED BY <1>3, <2>1 DEF Done
<1>4. ASSUME NEW q \in Runners, RunnerStep(q) PROVE RunsType'
  <2> USE DEF startVars
  <2>1. CASE Page(q) BY <2>1 DEF Page
  <2>2. CASE Begin(q) BY <2>2 DEF Begin
  <2>3. CASE Commit(q) BY <1>3, <2>3 DEF Commit
  <2>4. CASE TicketFails(q) BY <1>3, <2>4 DEF TicketFails
  <2>5. CASE BatchFails(q) BY <2>5 DEF BatchFails
  <2>6. CASE Sync(q)
    <3>1. UNCHANGED <<clock, runVars>> BY <2>6 DEF Sync
    <3> QED BY <3>1 DEF runVars, loopVars
  <2>7. CASE SyncEnds(q) BY <2>7 DEF SyncEnds, loopVars
  <2>8. CASE SkipLocked(q) \/ Close(q) \/ ProcessDies(q)
    BY <1>1, <2>8 DEF SkipLocked, Close, ProcessDies
  <2>9. ASSUME NEW s \in {"sla", "sync"}, Invoke(q, s) PROVE RunsType'
    BY <2>9 DEF Invoke, loopVars
  <2> QED BY <1>2, <1>4, <2>1, <2>2, <2>3, <2>4, <2>5, <2>6, <2>7, <2>8, <2>9
          DEF RunnerStep, Work, Fails, StartByHand, TakeLock
<1>5. CASE Crash
  <2>1. Forget(Cron) /\ Cron \in SUBSET Runners /\ clock' = clock
    BY <1>5, JobsAssumption DEF Crash
  <2> QED BY <2>1, <1>1
<1>6. CASE LoseLock \/ Reap \/ RequestBegins \/ RequestEnds \/ Tick \/ UNCHANGED vars
  <2>1. UNCHANGED runVars /\ clock' \in FirstTime .. MaxTime
    BY <1>6, SlaAssumption DEF LoseLock, Reap, RequestBegins, RequestEnds, Tick, vars, slaVars
  <2> QED BY <2>1 DEF runVars, loopVars, startVars
<1> QED BY <1>4, <1>5, <1>6 DEF Next

\* Every variable keeps its type, and the pool of PGPOOL_MAX connections is never
\* exceeded by the lock's connections, the engines' and the requests' together.
THEOREM TypeCorrect == Spec => []TypeOK
<1>1. Init => RunsType /\ TypeOK
  <2> SUFFICES ASSUME Init PROVE RunsType /\ TypeOK OBVIOUS
  <2>1. Invoked = {} /\ {r \in Invoked : pc[r] = "commit"} = {}
    BY JobsAssumption DEF Init, SlaInit, Invoked
  <2>2. InUse <= PoolMax BY <2>1, JobsAssumption, FS_EmptySet DEF Init, InUse
  <2>3. RunsType BY SlaAssumption DEF Init, SlaInit, RunsType
  <2> QED BY <2>2, <2>3, JobsAssumption DEF Init, SlaInit, TypeOK, RunsType
<1>2. ASSUME IInv, IInv', RecordInv, TypedRuns, RunsType, RunsType', TypeOK, [Next]_vars
      PROVE  TypeOK'
  <2> USE <1>2
  <2>1. ASSUME NEW q \in Runners, RunnerStep(q) PROVE TypeOK'
    <3> USE DEF OnlyMoves, IInv, Shapes
    <3>1. CASE Spare(q) /\ Begin(q) /\ UNCHANGED poolVars
      BY <3>1, MovesType DEF Begin, Spare, poolVars
    <3>2. CASE Page(q) /\ UNCHANGED poolVars BY <3>2, MovesType DEF Page, poolVars
    <3>3. CASE Commit(q) /\ UNCHANGED poolVars
      <4>1. more[q] \in BOOLEAN OBVIOUS
      <4>2. pc'[q] # "commit" /\ pc[q] = "commit" /\ \A x \in Runners \ {q} : pc'[x] = pc[x]
        BY <3>3, <4>1 DEF Commit, Done
      <4> QED BY <3>3, <4>2, MovesType DEF poolVars
    <3>4. CASE TicketFails(q) /\ UNCHANGED poolVars
      <4>1. more[q] \in BOOLEAN OBVIOUS
      <4>2. pc'[q] # "commit" /\ pc[q] # "idle" /\ \A x \in Runners \ {q} : pc'[x] = pc[x]
        BY <3>4, <4>1 DEF TicketFails, Done
      <4> QED BY <3>4, <4>2, MovesType DEF poolVars
    <3>5. CASE (BatchFails(q) \/ SyncEnds(q)) /\ UNCHANGED poolVars
      BY <3>5, MovesType DEF BatchFails, SyncEnds, poolVars
    <3>6. CASE Sync(q) /\ UNCHANGED poolVars
      <4>1. UNCHANGED <<pc, web>> BY <3>6 DEF Sync, runVars, poolVars
      <4> QED BY <4>1, MovesType
    <3>7. CASE SkipLocked(q) \/ Close(q) \/ ProcessDies(q)
      BY <3>7, MovesType DEF SkipLocked, Close, ProcessDies, Forget, Reset
    <3>8. CASE TakeLock(q) BY <3>8, MovesType DEF TakeLock, Dispatch
    <3>9. ASSUME NEW s, Invoke(q, s) PROVE TypeOK'
      BY <3>9, MovesType DEF Invoke, Spare, poolVars
    <3>10. ASSUME NEW s, StartByHand(q, s) PROVE TypeOK'
      BY <3>10, MovesType DEF StartByHand, Dispatch
    <3> QED BY <2>1, <3>1, <3>2, <3>3, <3>4, <3>5, <3>6, <3>7, <3>8, <3>9, <3>10
            DEF RunnerStep, Work, Fails
  <2>2. ASSUME web' \in 0 .. MaxWeb, UNCHANGED pc \/ Forget(Cron),
               web' <= web \/ (InUse < PoolMax /\ web' = web + 1)
        PROVE  TypeOK'
    <3>1. Invoked' \subseteq Invoked /\ Committing' \subseteq Committing
      BY <2>2, JobsAssumption DEF Invoked, Committing, Forget, Reset
    <3>2. InUse' <= PoolMax BY <2>2, <3>1, PoolKept
    <3> QED BY <2>2, <3>2, TypeParts
  <2>3. web \in Nat /\ MaxWeb \in Nat /\ web <= MaxWeb BY JobsAssumption DEF TypeOK
  <2>4. CASE Crash BY <2>2, <2>3, <2>4 DEF Crash
  <2>5. CASE LoseLock \/ Reap \/ (Tick /\ UNCHANGED poolVars) \/ UNCHANGED vars
    <3>1. UNCHANGED <<pc, web>>
      BY <2>5 DEF LoseLock, Reap, Tick, poolVars, vars, slaVars, runVars
    <3> QED BY <2>2, <2>3, <3>1
  <2>6. CASE RequestBegins
    <3>1. UNCHANGED pc /\ web' = web + 1 /\ InUse < PoolMax /\ web < MaxWeb
      BY <2>6 DEF RequestBegins, slaVars, runVars
    <3> QED BY <2>2, <2>3, <3>1
  <2>7. CASE RequestEnds
    <3>1. UNCHANGED pc /\ web' = web - 1 /\ web > 0
      BY <2>7 DEF RequestEnds, slaVars, runVars
    <3> QED BY <2>2, <2>3, <3>1
  <2> QED BY <2>1, <2>4, <2>5, <2>6, <2>7 DEF Next
<1>3. IInv /\ RecordInv /\ TypedRuns /\ RunsType /\ [Next]_vars => RunsType' BY RunsTypeNext
<1> QED BY <1>1, <1>2, <1>3, Inductive, AlwaysRecorded, AlwaysLate, PTL DEF Spec

-----------------------------------------------------------------------------
(* What the calendar promises: adding minutes and counting them are both   *)
(* the counting of worked instants, one by one.                            *)

\* The windows of a calendar lie within their day.
FitsDay(cal) ==
  /\ cal # AllHours /\ IsCalendar(cal)
  /\ \A i \in DOMAIN cal.windows : 0 <= cal.windows[i].start /\ cal.windows[i].end <= DayLen

Midnight(date, cal) == ZonedWallToUtc(date, 0, cal)

LEMMA Product ==
  ASSUME NEW a \in Int, NEW b \in Int, NEW n \in Nat
  PROVE  /\ a * n \in Int /\ (a + 1) * n = a * n + n
         /\ a < b => a * n + n <= b * n
<1>1. a * n \in Int /\ b * n \in Int /\ (a + 1) * n = a * n + n OBVIOUS
<1>2. ASSUME a < b PROVE a * n + n <= b * n
  <2>1. b - a - 1 \in Nat BY <1>2
  <2>2. (b - a - 1) * n \in Nat BY <2>1
  <2>3. (b - a - 1) * n = b * n - a * n - n BY <2>1
  <2> QED BY <1>1, <2>2, <2>3
<1> QED BY <1>1, <1>2

LEMMA Divided ==
  ASSUME NEW x \in Int, NEW n \in Nat \ {0}
  PROVE  /\ x \div n \in Int
         /\ (x \div n) * n <= x /\ x < (x \div n) * n + n
OBVIOUS

LEMMA Dates ==
  ASSUME NEW cal, IsCalendar(cal), NEW d \in Int, NEW t \in Int
  PROVE  /\ Midnight(d, cal) \in Int /\ Midnight(d + 1, cal) = Midnight(d, cal) + DayLen
         /\ ZonedDate(t, cal) = d <=> Midnight(d, cal) <= t /\ t < Midnight(d + 1, cal)
<1>1. DayLen \in Nat \ {0} /\ cal.offset \in Int BY DayAssumption DEF IsCalendar
<1>2. \A c \in Int : Midnight(c, cal) = c * DayLen - cal.offset
  BY <1>1 DEF Midnight, ZonedWallToUtc
<1>3. d * DayLen \in Int /\ (d + 1) * DayLen = d * DayLen + DayLen /\ d + 1 \in Int BY <1>1, Product
<1>4. PICK q \in Int : q = ZonedDate(t, cal) BY DateType
<1>5. q * DayLen <= t + cal.offset /\ t + cal.offset < q * DayLen + DayLen
  <2>1. PICK x \in Int : x = t + cal.offset BY <1>1
  <2>2. q = x \div DayLen BY <1>4, <2>1 DEF ZonedDate
  <2>3. (x \div DayLen) * DayLen <= x /\ x < (x \div DayLen) * DayLen + DayLen
    BY <1>1, Divided
  <2> QED BY <2>1, <2>2, <2>3
<1>6. q * DayLen \in Int BY <1>1, Product
<1>7. (q < d => q * DayLen + DayLen <= d * DayLen) /\ (d < q => d * DayLen + DayLen <= q * DayLen)
  BY <1>1, Product
<1> QED BY <1>1, <1>2, <1>3, <1>4, <1>5, <1>6, <1>7

\* A date's window is empty or within the date.
LEMMA WindowFits ==
  ASSUME NEW cal, FitsDay(cal), NEW d \in Int
  PROVE  LET w == WindowForDate(d, cal)
         IN /\ w.from \in Int /\ w.to \in Int
            /\ \/ w.from = 0 /\ w.to = 0
               \/ Midnight(d, cal) <= w.from /\ w.to <= Midnight(d + 1, cal)
<1> DEFINE today == {i \in DOMAIN cal.windows : cal.windows[i].day = IsoDow(d)}
           w == WindowForDate(d, cal)
<1>1. w.from \in Int /\ w.to \in Int BY WindowType DEF FitsDay
<1>2. CASE d \in cal.holidays \/ today = {}
  BY <1>2 DEF WindowForDate, Shut
<1>3. CASE ~(d \in cal.holidays \/ today = {})
  <2>1. today \subseteq Nat /\ today # {} BY <1>3 DEF FitsDay, IsCalendar
  <2>2. Min(today) \in today BY <2>1, MinIsLeast
  <2>3. PICK v : v = cal.windows[Min(today)] OBVIOUS
  <2>4. v.start \in Int /\ v.end \in Int /\ 0 <= v.start /\ v.end <= DayLen
    BY <2>2, <2>3 DEF FitsDay, IsCalendar
  <2>5. w.from = d * DayLen + v.start - cal.offset /\ w.to = d * DayLen + v.end - cal.offset
    BY <1>3, <2>3 DEF WindowForDate, ZonedWallToUtc
  <2>6. DayLen \in Nat /\ cal.offset \in Int BY DayAssumption DEF FitsDay, IsCalendar
  <2>7. d * DayLen \in Int BY <2>6, Product
  <2>8. Midnight(d, cal) = d * DayLen - cal.offset
    BY <2>6, <2>7 DEF Midnight, ZonedWallToUtc
  <2>9. Midnight(d + 1, cal) = d * DayLen - cal.offset + DayLen BY <2>8, Dates DEF FitsDay
  <2> QED BY <1>1, <2>4, <2>5, <2>6, <2>7, <2>8, <2>9
<1> QED BY <1>1, <1>2, <1>3

LEMMA WorkedType ==
  ASSUME NEW cal, NEW a \in Int, NEW b \in Int
  PROVE  /\ IsFiniteSet({t \in a .. b - 1 : Working(t, cal)})
         /\ WorkedMinutes(a, b, cal) \in Nat
<1>1. IsFiniteSet(a .. b - 1) BY FS_Interval
<1>2. IsFiniteSet({t \in a .. b - 1 : Working(t, cal)}) BY <1>1, FS_Subset
<1> QED BY <1>2, FS_CardinalityType DEF WorkedMinutes

LEMMA Additive ==
  ASSUME NEW cal, NEW a \in Int, NEW b \in Int, NEW c \in Int, a <= b, b <= c
  PROVE  WorkedMinutes(a, c, cal) = WorkedMinutes(a, b, cal) + WorkedMinutes(b, c, cal)
<1> DEFINE S(x, y) == {t \in x .. y - 1 : Working(t, cal)}
<1>1. S(a, c) = S(a, b) \cup S(b, c) /\ S(a, b) \cap S(b, c) = {} OBVIOUS
<1>2. IsFiniteSet(S(a, b)) /\ IsFiniteSet(S(b, c)) BY WorkedType
<1>3. Cardinality(S(a, b)) \in Nat /\ Cardinality(S(b, c)) \in Nat BY <1>2, FS_CardinalityType
<1> HIDE DEF S
<1>4. Cardinality(S(a, c)) = Cardinality(S(a, b)) + Cardinality(S(b, c))
  <2>1. Cardinality(S(a, b) \cap S(b, c)) = 0 BY <1>1, FS_EmptySet
  <2>2. Cardinality(S(a, b) \cup S(b, c))
          = Cardinality(S(a, b)) + Cardinality(S(b, c)) - Cardinality(S(a, b) \cap S(b, c))
    BY <1>2, FS_Union
  <2> QED BY <1>1, <1>3, <2>1, <2>2
<1> QED BY <1>4 DEF WorkedMinutes, S

\* On one date, what is worked is what the window and the span share.
LEMMA DayWork ==
  ASSUME NEW cal, FitsDay(cal), NEW d \in Int, NEW a \in Int, NEW b \in Int,
         Midnight(d, cal) <= a, b <= Midnight(d + 1, cal)
  PROVE  WorkedMinutes(a, b, cal)
           = Later(0, Earlier(b, WindowForDate(d, cal).to) - Later(a, WindowForDate(d, cal).from))
<1> DEFINE w == WindowForDate(d, cal)
<1>1. PICK from \in Int, to \in Int : from = w.from /\ to = w.to BY WindowFits
<1>2. \A t \in a .. b - 1 : ZonedDate(t, cal) = d
  <2>1. Midnight(d, cal) \in Int /\ Midnight(d + 1, cal) \in Int
    BY Dates, DayAssumption DEF FitsDay
  <2> QED BY <2>1, Dates DEF FitsDay
<1>3. \A t \in a .. b - 1 : Working(t, cal) <=> from <= t /\ t < to
  BY <1>1, <1>2 DEF Working, FitsDay
<1>4. PICK lo \in Int, hi \in Int : lo = Later(a, from) /\ hi = Earlier(b, to)
  BY <1>1 DEF Later, Earlier
<1>5. {t \in a .. b - 1 : Working(t, cal)} = lo .. hi - 1
  BY <1>3, <1>4 DEF Later, Earlier
<1>6. Cardinality(lo .. hi - 1) = IF lo > hi - 1 THEN 0 ELSE (hi - 1) - lo + 1 BY FS_Interval
<1>7. WorkedMinutes(a, b, cal) = Cardinality(lo .. hi - 1) BY <1>5 DEF WorkedMinutes
<1>8. Cardinality(lo .. hi - 1) = Later(0, hi - lo) BY <1>6 DEF Later
<1> QED BY <1>1, <1>4, <1>7, <1>8

\* Where the i-th day of a span from s begins.
DayStart(s, i, cal) == IF i = 0 THEN s ELSE Midnight(ZonedDate(s, cal) + i, cal)

LEMMA DayStarts ==
  ASSUME NEW cal, FitsDay(cal), NEW s \in Int, NEW i \in Nat
  PROVE  /\ DayStart(s, i, cal) \in Int /\ DayStart(s, i + 1, cal) \in Int
         /\ Midnight(ZonedDate(s, cal) + i, cal) <= DayStart(s, i, cal)
         /\ DayStart(s, i, cal) < DayStart(s, i + 1, cal)
         /\ DayStart(s, i + 1, cal) = Midnight(ZonedDate(s, cal) + i + 1, cal)
         /\ i # 0 => DayStart(s, i, cal) = Midnight(ZonedDate(s, cal) + i, cal)
         /\ s <= DayStart(s, i, cal)
<1> DEFINE d0 == ZonedDate(s, cal)
           S == {n \in Nat : s <= DayStart(s, n, cal)}
<1>1. IsCalendar(cal) /\ DayLen \in Nat \ {0} BY DayAssumption DEF FitsDay
<1>2. PICK d \in Int : d = d0 BY <1>1, DateType
<1>3. Midnight(d, cal) <= s /\ s < Midnight(d + 1, cal) BY <1>1, <1>2, Dates
<1>4. \A n \in Nat : /\ Midnight(d + n, cal) \in Int
                     /\ Midnight(d + n + 1, cal) = Midnight(d + n, cal) + DayLen
  <2> TAKE n \in Nat
  <2>1. d + n \in Int OBVIOUS
  <2> QED BY <1>1, <2>1, Dates
<1>5. \A n \in Nat : DayStart(s, n + 1, cal) = Midnight(d + n + 1, cal)
  <2> TAKE n \in Nat
  <2>1. n + 1 # 0 /\ d + (n + 1) = d + n + 1 OBVIOUS
  <2> QED BY <1>2, <2>1 DEF DayStart
<1>6. i # 0 => DayStart(s, i, cal) = Midnight(d + i, cal) BY <1>2 DEF DayStart
<1>7. i = 0 => DayStart(s, i, cal) = s /\ Midnight(d + i, cal) = Midnight(d, cal)
  BY DEF DayStart
<1>8. PICK first \in Int, next \in Int :
        first = Midnight(d + i, cal) /\ next = Midnight(d + i + 1, cal) /\ next = first + DayLen
  BY <1>1, <1>4
<1>9. DayStart(s, i, cal) \in Int /\ Midnight(d + i, cal) <= DayStart(s, i, cal)
  <2>1. CASE i = 0 BY <1>3, <1>7, <2>1
  <2>2. CASE i # 0 BY <1>6, <1>8, <2>2
  <2> QED BY <2>1, <2>2
<1>10. DayStart(s, i, cal) < DayStart(s, i + 1, cal)
  <2>1. CASE i = 0 BY <1>3, <1>5, <1>7, <2>1
  <2>2. CASE i # 0 BY <1>1, <1>5, <1>6, <1>8, <2>2
  <2> QED BY <2>1, <2>2
<1>11. s <= DayStart(s, i, cal)
  <2>1. \A n \in Nat : s <= Midnight(d + n + 1, cal)
    <3> DEFINE T == {n \in Nat : s <= Midnight(d + n + 1, cal)}
    <3>1. 0 \in T
      <4>1. d + 0 + 1 = d + 1 /\ Midnight(d + 1, cal) \in Int /\ Midnight(d, cal) \in Int
        BY <1>1, Dates
      <4> QED BY <1>3, <4>1
    <3>2. ASSUME NEW n \in Nat, n \in T PROVE n + 1 \in T
      <4>1. d + (n + 1) = d + n + 1 /\ n + 1 \in Nat OBVIOUS
      <4>2. Midnight(d + (n + 1) + 1, cal) = Midnight(d + n + 1, cal) + DayLen
            /\ Midnight(d + n + 1, cal) \in Int
        BY <1>4, <4>1
      <4> QED BY <1>1, <3>2, <4>2
    <3> HIDE DEF T
    <3>3. \A n \in Nat : 0 .. n \subseteq T
      <4> TAKE n \in Nat
      <4> QED BY <3>1, <3>2, Climb
    <3>4. \A n \in Nat : n \in T BY <3>3
    <3> QED BY <3>4 DEF T
  <2>2. CASE i = 0 BY <1>7, <2>2
  <2>3. CASE i # 0
    <3>1. i - 1 \in Nat /\ d + (i - 1) + 1 = d + i BY <2>3
    <3>2. s <= Midnight(d + i, cal) BY <2>1, <3>1
    <3> QED BY <1>6, <2>3, <3>2
  <2> QED BY <2>2, <2>3
<1>12. DayStart(s, i + 1, cal) \in Int BY <1>5, <1>8
<1> QED BY <1>2, <1>5, <1>6, <1>8, <1>9, <1>10, <1>11, <1>12

\* A day's work, by the code's way of measuring it and one by one.
LEMMA AvailIsWork ==
  ASSUME NEW cal, FitsDay(cal), NEW s \in Int, NEW i \in Nat
  PROVE  WorkedMinutes(DayStart(s, i, cal), DayStart(s, i + 1, cal), cal) = Avail(s, i, cal)
<1> DEFINE w == WindowForDate(ZonedDate(s, cal) + i, cal)
<1>1. PICK d \in Int : d = ZonedDate(s, cal) + i BY DateType DEF FitsDay
<1>2. PICK from \in Int, to \in Int : from = w.from /\ to = w.to BY <1>1, WindowFits
<1>3. \/ from = 0 /\ to = 0
      \/ Midnight(d, cal) <= from /\ to <= Midnight(d + 1, cal)
  BY <1>1, <1>2, WindowFits
<1>4. PICK a \in Int, b \in Int : a = DayStart(s, i, cal) /\ b = DayStart(s, i + 1, cal)
  BY DayStarts
<1>5. /\ Midnight(d, cal) <= a /\ a < b /\ b = Midnight(d + 1, cal)
      /\ i = 0 => a = s
      /\ i # 0 => a = Midnight(d, cal)
  BY <1>1, <1>4, DayStarts DEF DayStart
<1>6. WorkedMinutes(a, b, cal) = Later(0, Earlier(b, to) - Later(a, from))
  BY <1>1, <1>2, <1>5, DayWork
<1>7. Avail(s, i, cal) = Later(0, to - (IF i = 0 THEN Later(s, from) ELSE from))
  BY <1>2 DEF Avail, SpanStart
<1>8. Later(0, Earlier(b, to) - Later(a, from))
        = Later(0, to - (IF i = 0 THEN Later(s, from) ELSE from))
  BY <1>3, <1>5 DEF Later, Earlier
<1> QED BY <1>4, <1>6, <1>7, <1>8

LEMMA CountedIsWork ==
  ASSUME NEW cal, FitsDay(cal), NEW s \in Int, NEW i \in Nat, NEW e \in Int, s < e
  PROVE  /\ Counted(s, e, i, cal) \in Nat
         /\ WorkedMinutes(Earlier(e, DayStart(s, i, cal)), Earlier(e, DayStart(s, i + 1, cal)), cal)
              = Counted(s, e, i, cal)
<1> DEFINE w == WindowForDate(ZonedDate(s, cal) + i, cal)
<1>1. PICK d \in Int : d = ZonedDate(s, cal) + i BY DateType DEF FitsDay
<1>2. PICK from \in Int, to \in Int : from = w.from /\ to = w.to BY <1>1, WindowFits
<1>3. \/ from = 0 /\ to = 0
      \/ Midnight(d, cal) <= from /\ to <= Midnight(d + 1, cal)
  BY <1>1, <1>2, WindowFits
<1>4. PICK a \in Int, b \in Int : a = DayStart(s, i, cal) /\ b = DayStart(s, i + 1, cal)
  BY DayStarts
<1>5. /\ Midnight(d, cal) <= a /\ a < b /\ b = Midnight(d + 1, cal) /\ s <= a
      /\ i = 0 => a = s
      /\ i # 0 => a = Midnight(d, cal)
  BY <1>1, <1>4, DayStarts DEF DayStart
<1>6. Counted(s, e, i, cal) = Later(0, Earlier(e, to) - Later(s, from))
  BY <1>2 DEF Counted
<1>7. CASE e <= a
  <2>1. WorkedMinutes(e, e, cal) = 0
    <3>1. {t \in e .. e - 1 : Working(t, cal)} = {} OBVIOUS
    <3> QED BY <3>1, FS_EmptySet DEF WorkedMinutes
  <2>2. Earlier(e, a) = e /\ Earlier(e, b) = e BY <1>5, <1>7 DEF Earlier
  <2>3. Later(0, Earlier(e, to) - Later(s, from)) = 0
    BY <1>3, <1>5, <1>7 DEF Later, Earlier
  <2> QED BY <1>4, <1>6, <2>1, <2>2, <2>3
<1>8. CASE a < e
  <2>1. PICK x \in Int : x = Earlier(e, b) BY DEF Earlier
  <2>2. Earlier(e, a) = a /\ x <= b /\ x <= e BY <1>8, <2>1 DEF Earlier
  <2>3. WorkedMinutes(a, x, cal) = Later(0, Earlier(x, to) - Later(a, from))
    BY <1>1, <1>2, <1>5, <2>2, DayWork
  <2>4. Later(0, Earlier(x, to) - Later(a, from)) = Later(0, Earlier(e, to) - Later(s, from))
    BY <1>3, <1>5, <1>8, <2>1 DEF Later, Earlier
  <2>5. Later(0, Earlier(e, to) - Later(s, from)) \in Nat BY DEF Later, Earlier
  <2> QED BY <1>4, <1>6, <2>1, <2>2, <2>3, <2>4, <2>5
<1> QED BY <1>7, <1>8

\* What is left before a day is what was not worked until then.
LEMMA LeftIsWork ==
  ASSUME NEW cal, FitsDay(cal), NEW s \in Int, NEW minutes \in Int, NEW n \in 0 .. MaxDays
  PROVE  Remaining(s, minutes, cal)[n] = minutes - WorkedMinutes(s, DayStart(s, n, cal), cal)
<1> DEFINE left == Remaining(s, minutes, cal)
           work(i) == WorkedMinutes(s, DayStart(s, i, cal), cal)
           T == {i \in Nat : left[i] = minutes - work(i)}
<1>1. MaxDays \in Nat BY DayAssumption
<1>2. /\ left[0] = minutes
      /\ \A i \in 1 .. MaxDays : left[i] = left[i - 1] - Avail(s, i - 1, cal)
  BY RemainingIs DEF FitsDay
<1>3. work(0) = 0
  <2>1. {t \in s .. s - 1 : Working(t, cal)} = {} OBVIOUS
  <2> QED BY <2>1, FS_EmptySet DEF WorkedMinutes, DayStart
<1>4. \A i \in Nat : work(i) \in Nat /\ Avail(s, i, cal) \in Nat
  BY DayStarts, WorkedType, AvailType DEF FitsDay
<1>5. \A i \in Nat : work(i + 1) = work(i) + Avail(s, i, cal)
  <2> TAKE i \in Nat
  <2>1. PICK a \in Int, b \in Int :
          a = DayStart(s, i, cal) /\ b = DayStart(s, i + 1, cal) /\ s <= a /\ a < b
    BY DayStarts
  <2>2. WorkedMinutes(s, b, cal) = WorkedMinutes(s, a, cal) + WorkedMinutes(a, b, cal)
    BY <2>1, Additive
  <2> QED BY <2>1, <2>2, AvailIsWork
<1> HIDE DEF left, work
<1>6. 0 \in T BY <1>2, <1>3
<1>7. ASSUME NEW i \in 0 .. MaxDays - 1, i \in T PROVE i + 1 \in T
  <2>1. i \in Nat /\ i + 1 \in 1 .. MaxDays /\ i + 1 - 1 = i BY <1>1
  <2>2. left[i + 1] = left[i] - Avail(s, i, cal) BY <1>2, <2>1
  <2>3. work(i + 1) = work(i) + Avail(s, i, cal) /\ work(i) \in Nat /\ Avail(s, i, cal) \in Nat
    BY <1>4, <1>5, <2>1
  <2> QED BY <1>7, <2>1, <2>2, <2>3
<1>8. 0 .. MaxDays \subseteq T
  <2> HIDE DEF T
  <2> QED BY <1>1, <1>6, <1>7, Climb
<1> QED BY <1>8 DEF left, work

LEMMA HorizonIs ==
  ASSUME NEW s, NEW cal
  PROVE  Horizon(s, cal) = DayStart(s, MaxDays, cal)
BY DayAssumption DEF Horizon, DayStart, Midnight

\* Adding minutes that the calendar has ends with the last of them.
LEMMA AddIsWorked ==
  ASSUME NEW cal, FitsDay(cal), NEW s \in Int, NEW minutes \in Nat \ {0},
         minutes <= WorkedMinutes(s, Horizon(s, cal), cal)
  PROVE  LET e == AddBusinessMinutes(s, minutes, cal)
         IN /\ e \in Int /\ s < e /\ e <= Horizon(s, cal)
            /\ WorkedMinutes(s, e, cal) = minutes
            /\ Working(e - 1, cal)
<1> DEFINE left == Remaining(s, minutes, cal)
           fits == {i \in 0 .. MaxDays - 1 : left[i] <= Avail(s, i, cal)}
           work(i) == WorkedMinutes(s, DayStart(s, i, cal), cal)
<1>1. MaxDays \in Nat \ {0} BY DayAssumption
<1>2. left \in [0 .. MaxDays -> Int] /\ left[0] = minutes
      /\ \A i \in 1 .. MaxDays : left[i] = left[i - 1] - Avail(s, i - 1, cal)
  BY RemainingIs DEF FitsDay
<1>3. \A i \in 0 .. MaxDays : left[i] = minutes - work(i) BY LeftIsWork
<1>4. \A i \in Nat : Avail(s, i, cal) \in Nat /\ work(i) \in Nat
  BY DayStarts, WorkedType, AvailType DEF FitsDay
<1>5. minutes <= work(MaxDays) BY HorizonIs
<1>6. AddBusinessMinutes(s, minutes, cal)
        = IF fits = {} THEN Noon(ZonedDate(s, cal) + MaxDays, cal)
          ELSE SpanStart(s, Min(fits), cal) + left[Min(fits)]
  BY DEF AddBusinessMinutes, FitsDay
<1> HIDE DEF left, work
<1>7. fits # {}
  <2>1. MaxDays \in 1 .. MaxDays /\ MaxDays - 1 \in 0 .. MaxDays - 1 /\ MaxDays \in 0 .. MaxDays
        /\ MaxDays - 1 \in Nat /\ MaxDays - 1 \in 0 .. MaxDays
    BY <1>1
  <2>2. left[MaxDays] = left[MaxDays - 1] - Avail(s, MaxDays - 1, cal) BY <1>2, <2>1
  <2>3. left[MaxDays] = minutes - work(MaxDays) /\ work(MaxDays) \in Nat BY <1>1, <1>3, <1>4, <2>1
  <2>4. left[MaxDays - 1] \in Int /\ Avail(s, MaxDays - 1, cal) \in Nat BY <1>2, <1>4, <2>1
  <2>5. left[MaxDays - 1] <= Avail(s, MaxDays - 1, cal) BY <1>5, <2>2, <2>3, <2>4
  <2> QED BY <2>1, <2>5
<1>8. PICK k \in 0 .. MaxDays - 1 : /\ k = Min(fits) /\ left[k] <= Avail(s, k, cal)
                                    /\ \A i \in fits : k <= i
  <2>1. fits \subseteq Nat OBVIOUS
  <2>2. Min(fits) \in fits /\ \A i \in fits : Min(fits) <= i BY <1>7, <2>1, MinIsLeast
  <2> QED BY <2>2
<1>9. k \in Nat /\ k \in 0 .. MaxDays /\ left[k] \in Int BY <1>1, <1>2
<1>10. left[k] > 0
  <2>1. CASE k = 0 BY <1>2, <2>1
  <2>2. CASE k # 0
    <3>1. k \in 1 .. MaxDays /\ k - 1 \in 0 .. MaxDays - 1 /\ k - 1 \in 0 .. MaxDays /\ k - 1 \in Nat
      BY <1>1, <1>9, <2>2
    <3>2. k - 1 \notin fits BY <1>8, <1>9
    <3>3. left[k - 1] > Avail(s, k - 1, cal)
      <4>1. left[k - 1] \in Int /\ Avail(s, k - 1, cal) \in Nat BY <1>2, <1>4, <3>1
      <4> QED BY <3>1, <3>2, <4>1
    <3>4. left[k] = left[k - 1] - Avail(s, k - 1, cal) BY <1>2, <3>1
    <3>5. left[k - 1] \in Int /\ Avail(s, k - 1, cal) \in Nat BY <1>2, <1>4, <3>1
    <3> QED BY <3>3, <3>4, <3>5
  <2> QED BY <2>1, <2>2
<1> DEFINE w == WindowForDate(ZonedDate(s, cal) + k, cal)
<1>11. PICK d \in Int : d = ZonedDate(s, cal) + k BY <1>9, DateType DEF FitsDay
<1>12. PICK from \in Int, to \in Int : from = w.from /\ to = w.to BY <1>11, WindowFits
<1>13. \/ from = 0 /\ to = 0
       \/ Midnight(d, cal) <= from /\ to <= Midnight(d + 1, cal)
  BY <1>11, <1>12, WindowFits
<1>14. PICK a \in Int, b \in Int : a = DayStart(s, k, cal) /\ b = DayStart(s, k + 1, cal)
  BY <1>9, DayStarts
<1>15. /\ Midnight(d, cal) <= a /\ a < b /\ b = Midnight(d + 1, cal) /\ s <= a
       /\ k = 0 => a = s
       /\ k # 0 => a = Midnight(d, cal)
  BY <1>9, <1>11, <1>14, DayStarts DEF DayStart
<1>16. PICK begin \in Int : begin = SpanStart(s, k, cal) BY <1>9, AvailType DEF FitsDay
<1>17. begin = (IF k = 0 THEN Later(s, from) ELSE from) BY <1>12, <1>16 DEF SpanStart
<1>18. Avail(s, k, cal) = Later(0, to - begin) BY <1>12, <1>16 DEF Avail
<1>19. PICK e \in Int : e = begin + left[k] BY <1>9
<1>20. e = AddBusinessMinutes(s, minutes, cal) BY <1>6, <1>7, <1>8, <1>16, <1>19
<1>21. begin < e /\ e <= to
  BY <1>8, <1>9, <1>10, <1>18, <1>19 DEF Later
<1>22. /\ from <= begin /\ begin = Later(a, from) /\ a <= begin /\ e <= b
  BY <1>13, <1>15, <1>17, <1>21 DEF Later
<1>23. WorkedMinutes(a, e, cal) = left[k]
  <2>1. WorkedMinutes(a, e, cal) = Later(0, Earlier(e, to) - Later(a, from))
    BY <1>11, <1>12, <1>15, <1>22, DayWork
  <2>2. Earlier(e, to) = e BY <1>21 DEF Earlier
  <2>3. Later(0, e - begin) = left[k] BY <1>9, <1>10, <1>19 DEF Later
  <2> QED BY <1>22, <2>1, <2>2, <2>3
<1>24. WorkedMinutes(s, e, cal) = minutes
  <2>1. WorkedMinutes(s, e, cal) = WorkedMinutes(s, a, cal) + WorkedMinutes(a, e, cal)
    BY <1>15, <1>21, <1>22, Additive
  <2>2. WorkedMinutes(s, a, cal) = work(k) BY <1>14 DEF work
  <2>3. left[k] = minutes - work(k) /\ work(k) \in Nat BY <1>3, <1>4, <1>9
  <2> QED BY <1>23, <2>1, <2>2, <2>3
<1>25. Working(e - 1, cal)
  <2>1. e - 1 \in Int /\ Midnight(d, cal) <= e - 1 /\ e - 1 < Midnight(d + 1, cal)
    <3>1. Midnight(d, cal) \in Int BY Dates DEF FitsDay
    <3> QED BY <3>1, <1>15, <1>21, <1>22
  <2>2. ZonedDate(e - 1, cal) = d BY <2>1, Dates DEF FitsDay
  <2>3. from <= e - 1 /\ e - 1 < to BY <1>21, <1>22
  <2> QED BY <1>11, <1>12, <2>2, <2>3 DEF Working
<1>26. e <= Horizon(s, cal)
  <2>1. \A n \in Nat : DayStart(s, k + 1, cal) <= DayStart(s, k + 1 + n, cal)
    <3> DEFINE T == {n \in Nat : DayStart(s, k + 1, cal) <= DayStart(s, k + 1 + n, cal)}
    <3>1. 0 \in T
      <4>1. k + 1 + 0 = k + 1 /\ DayStart(s, k + 1, cal) \in Int BY <1>9, DayStarts
      <4> QED BY <4>1
    <3>2. ASSUME NEW n \in Nat, n \in T PROVE n + 1 \in T
      <4>1. PICK m \in Nat : m = k + 1 + n BY <1>9
      <4>2. DayStart(s, m, cal) \in Int /\ DayStart(s, m + 1, cal) \in Int
            /\ DayStart(s, m, cal) < DayStart(s, m + 1, cal)
        BY DayStarts
      <4>3. m + 1 = k + 1 + (n + 1) /\ DayStart(s, k + 1, cal) \in Int BY <1>9, <1>14, <4>1
      <4> QED BY <3>2, <4>1, <4>2, <4>3
    <3> HIDE DEF T
    <3>3. \A n \in Nat : 0 .. n \subseteq T
      <4> TAKE n \in Nat
      <4> QED BY <3>1, <3>2, Climb
    <3>4. \A n \in Nat : n \in T BY <3>3
    <3> QED BY <3>4 DEF T
  <2>2. MaxDays - (k + 1) \in Nat /\ k + 1 + (MaxDays - (k + 1)) = MaxDays BY <1>1, <1>9
  <2>3. b <= DayStart(s, MaxDays, cal) BY <1>14, <2>1, <2>2
  <2>4. DayStart(s, MaxDays, cal) \in Int BY <1>1, DayStarts
  <2> QED BY <1>22, <2>3, <2>4, HorizonIs
<1>27. s < e BY <1>15, <1>21, <1>22
<1> QED BY <1>20, <1>24, <1>25, <1>26, <1>27

\* Counting day by day and one by one.
LEMMA TotalIsWork ==
  ASSUME NEW cal, FitsDay(cal), NEW s \in Int, NEW e \in Int, s < e, NEW n \in 0 .. MaxDays
  PROVE  Total(s, e, cal)[n] = WorkedMinutes(s, Earlier(e, DayStart(s, n, cal)), cal)
<1> DEFINE c == [i \in 0 .. MaxDays - 1 |-> Counted(s, e, i, cal)]
           Body(f) == [i \in 0 .. MaxDays |-> IF i = 0 THEN 0 ELSE f[i - 1] + Counted(s, e, i - 1, cal)]
           total == Total(s, e, cal)
           work(i) == WorkedMinutes(s, Earlier(e, DayStart(s, i, cal)), cal)
           T == {i \in Nat : total[i] = work(i)}
<1>1. MaxDays \in Nat BY DayAssumption
<1>2. \A i \in Nat : Counted(s, e, i, cal) \in Nat BY CountedIsWork
<1>3. c \in [0 .. MaxDays - 1 -> Int] BY <1>2
<1>4. \A i \in 1 .. MaxDays : i - 1 \in 0 .. MaxDays - 1 /\ c[i - 1] = Counted(s, e, i - 1, cal)
  BY <1>1
<1> HIDE DEF c
<1>5. PICK g : IsSum(g, MaxDays, 0, c)
  <2>1. 0 \in Int OBVIOUS
  <2> QED BY <1>1, <1>3, <2>1, SumExists
<1>6. g = Body(g)
  <2>1. \A i \in 0 .. MaxDays :
          g[i] = IF i = 0 THEN 0 ELSE g[i - 1] + Counted(s, e, i - 1, cal)
    BY <1>1, <1>4, <1>5 DEF IsSum
  <2>2. g = [i \in 0 .. MaxDays |-> g[i]] BY <1>5 DEF IsSum
  <2> QED BY <2>1, <2>2
<1>7. total = Body(total) BY <1>6 DEF Total
<1> HIDE DEF total
<1>8. /\ total[0] = 0
      /\ \A i \in 1 .. MaxDays : total[i] = total[i - 1] + Counted(s, e, i - 1, cal)
  BY <1>1, <1>7
<1>9. work(0) = 0
  <2>1. {t \in s .. s - 1 : Working(t, cal)} = {} OBVIOUS
  <2>2. Earlier(e, s) = s BY DEF Earlier
  <2> QED BY <2>1, <2>2, FS_EmptySet DEF WorkedMinutes, DayStart
<1>10. \A i \in Nat : work(i + 1) = work(i) + Counted(s, e, i, cal)
  <2> TAKE i \in Nat
  <2>1. PICK a \in Int, b \in Int :
          a = DayStart(s, i, cal) /\ b = DayStart(s, i + 1, cal) /\ s <= a /\ a < b
    BY DayStarts
  <2>2. PICK x \in Int, y \in Int : x = Earlier(e, a) /\ y = Earlier(e, b) /\ s <= x /\ x <= y
    BY <2>1 DEF Earlier
  <2>3. WorkedMinutes(s, y, cal) = WorkedMinutes(s, x, cal) + WorkedMinutes(x, y, cal)
    BY <2>2, Additive
  <2>4. WorkedMinutes(x, y, cal) = Counted(s, e, i, cal) BY <2>1, <2>2, CountedIsWork
  <2> QED BY <2>1, <2>2, <2>3, <2>4
<1> HIDE DEF work
<1>11. 0 \in T BY <1>8, <1>9
<1>12. ASSUME NEW i \in 0 .. MaxDays - 1, i \in T PROVE i + 1 \in T
  <2>1. i \in Nat /\ i + 1 \in 1 .. MaxDays /\ i + 1 - 1 = i BY <1>1
  <2>2. total[i + 1] = total[i] + Counted(s, e, i, cal) BY <1>8, <2>1
  <2> QED BY <1>10, <1>12, <2>1, <2>2
<1>13. 0 .. MaxDays \subseteq T
  <2> HIDE DEF T
  <2> QED BY <1>1, <1>11, <1>12, Climb
<1> QED BY <1>13 DEF total, work

LEMMA MaxIsGreatest ==
  ASSUME NEW N \in Nat, NEW S, S \subseteq 0 .. N, S # {}
  PROVE  Max(S) \in S /\ \A n \in S : n <= Max(S)
<1> DEFINE R == {N - n : n \in S}
<1>1. R \subseteq Nat /\ R # {}
  <2>1. \A n \in S : N - n \in Nat OBVIOUS
  <2> QED BY <2>1
<1>2. PICK m \in R : \A n \in R : m <= n BY <1>1, NatHasLeast
<1>3. PICK x \in S : m = N - x BY <1>2
<1>4. \A n \in S : n <= x
  <2> TAKE n \in S
  <2>1. N - x <= N - n BY <1>2, <1>3
  <2> QED BY <2>1
<1> HIDE DEF R
<1> QED BY <1>3, <1>4 DEF Max

\* The loop of businessMinutesBetween leaves out no day of the span.
LEMMA BetweenIsWorked ==
  ASSUME NEW cal, FitsDay(cal), NEW s \in Int, NEW e \in Int, s < e, e <= Horizon(s, cal)
  PROVE  BusinessMinutesBetween(s, e, cal) = WorkedMinutes(s, e, cal)
<1> DEFINE later == {i \in 1 .. MaxDays - 1 : Noon(ZonedDate(s, cal) + i, cal) <= e + DayLen}
<1>1. MaxDays \in Nat \ {0} /\ DayLen \in Nat \ {0} BY DayAssumption
<1>2. later \cup {0} \subseteq 0 .. MaxDays - 1 /\ later \cup {0} # {} BY <1>1
<1>3. MaxDays - 1 \in Nat BY <1>1
<1>4. PICK k \in 0 .. MaxDays - 1 : k = Max(later \cup {0}) /\ \A i \in later : i <= k
  <2> HIDE DEF later
  <2>1. Max(later \cup {0}) \in later \cup {0} /\ \A i \in later \cup {0} : i <= Max(later \cup {0})
    BY <1>2, <1>3, MaxIsGreatest
  <2> QED BY <1>2, <2>1
<1>5. BusinessMinutesBetween(s, e, cal) = Total(s, e, cal)[k + 1]
  BY <1>4 DEF BusinessMinutesBetween, FitsDay
<1>6. k + 1 \in 0 .. MaxDays /\ k + 1 \in Nat BY <1>1, <1>3
<1>7. Total(s, e, cal)[k + 1] = WorkedMinutes(s, Earlier(e, DayStart(s, k + 1, cal)), cal)
  BY <1>6, TotalIsWork
<1>8. e <= DayStart(s, k + 1, cal)
  <2>1. CASE k + 1 = MaxDays BY <2>1, HorizonIs
  <2>2. CASE k + 1 # MaxDays
    <3>1. k + 1 \in 1 .. MaxDays - 1 BY <1>1, <1>6, <2>2
    <3>2. k + 1 \notin later BY <1>4, <3>1
    <3>3. PICK d \in Int : d = ZonedDate(s, cal) + (k + 1) BY <1>6, DateType DEF FitsDay
    <3>4. PICK half \in Nat : half = DayLen \div 2 /\ half <= DayLen BY <1>1
    <3>5. cal.offset \in Int /\ d * DayLen \in Int BY <1>1, <3>3, Product DEF FitsDay, IsCalendar
    <3>6. Noon(d, cal) = Midnight(d, cal) + half /\ Midnight(d, cal) \in Int
      BY <1>1, <3>4, <3>5 DEF Noon, Midnight, ZonedWallToUtc
    <3>7. Noon(d, cal) > e + DayLen BY <1>1, <3>1, <3>2, <3>3, <3>6, <3>4
    <3>8. DayStart(s, k + 1, cal) = Midnight(d, cal) BY <3>1, <3>3 DEF DayStart
    <3> QED BY <1>1, <3>4, <3>6, <3>7, <3>8
  <2> QED BY <2>1, <2>2
<1>9. Earlier(e, DayStart(s, k + 1, cal)) = e
  <2>1. DayStart(s, k + 1, cal) \in Int BY <1>6, DayStarts
  <2> QED BY <1>8, <2>1 DEF Earlier
<1> QED BY <1>5, <1>7, <1>9

-----------------------------------------------------------------------------
(* Due times on record.                                                    *)

\* What DueIsWorked says of one due time.
IsEnd(t, due, target, cal) ==
  /\ WorkedMinutes(CreatedAt[t], due, cal) = target
  /\ Working(due - 1, cal)
  /\ BusinessMinutesBetween(CreatedAt[t], due, cal) = target

\* At or west of Greenwich, local midnight is on the same day in UTC.
LEMMA LoadedSame ==
  ASSUME UtcOrWest, NEW p \in Policies
  PROVE  Loaded(p.calendar) = p.calendar
<1>1. CASE p.calendar = AllHours BY <1>1 DEF Loaded
<1>2. CASE p.calendar # AllHours
  <2>1. PICK cal : cal = p.calendar OBVIOUS
  <2>2. /\ cal = [offset |-> cal.offset, windows |-> cal.windows, holidays |-> cal.holidays]
        /\ cal.holidays \subseteq Int /\ cal # AllHours
    BY <1>2, <2>1, PoliciesTyped
  <2>3. ASSUME NEW date \in Int PROVE (date * DayLen - Zone) \div DayLen = date
    <3>1. DayLen \in Nat \ {0} /\ Zone \in Int /\ Zone <= 0 /\ -DayLen < Zone
      BY DayAssumption, SlaAssumption DEF UtcOrWest
    <3>2. PICK a \in Int : a = date * DayLen BY <3>1, Product
    <3>3. PICK x \in Int : x = a - Zone BY <3>1
    <3>4. a <= x /\ x < a + DayLen BY <3>1, <3>3
    <3>5. PICK q \in Int : q = x \div DayLen BY <3>1, Divided
    <3>6. q * DayLen \in Int /\ q * DayLen <= x /\ x < q * DayLen + DayLen
      BY <3>1, <3>5, Divided, Product
    <3>7. /\ q < date => q * DayLen + DayLen <= a
          /\ date < q => a + DayLen <= q * DayLen
      BY <3>1, <3>2, Product
    <3>8. q = date BY <3>1, <3>4, <3>6, <3>7
    <3> QED BY <3>2, <3>3, <3>5, <3>8
  <2>4. {(date * DayLen - Zone) \div DayLen : date \in cal.holidays} = cal.holidays
    BY <2>2, <2>3
  <2> QED BY <2>1, <2>2, <2>4 DEF Loaded
<1> QED BY <1>1, <1>2

LEMMA ReachedIsEnd ==
  ASSUME Attainable, UtcOrWest, NEW t \in Tickets, NEW p \in Policies,
         NEW target \in {p.response, p.resolution}
  PROVE  IsEnd(t, Reached[t][target][p.calendar], target, p.calendar)
<1>1. target \in Spans /\ p.calendar \in {q.calendar : q \in Policies} BY DEF Spans
<1>2. Reached[t][target][p.calendar] = AddBusinessMinutes(CreatedAt[t], target, p.calendar)
  BY <1>1, LoadedSame DEF Reached
<1>3. PICK s \in Int : s = CreatedAt[t] BY SlaAssumption
<1>4. PICK e : e = AddBusinessMinutes(s, target, p.calendar) OBVIOUS
<1>5. target \in Nat \ {0} BY PoliciesTyped
<1>6. CASE p.calendar = AllHours
  <2>1. e = s + target BY <1>4, <1>5, <1>6 DEF AddBusinessMinutes
  <2>2. \A u : Working(u, p.calendar) BY <1>6 DEF Working
  <2>3. {u \in s .. e - 1 : Working(u, p.calendar)} = s .. e - 1 BY <2>2
  <2>4. Cardinality(s .. e - 1) = target
    <3>1. e - 1 \in Int BY <1>5, <2>1
    <3>2. Cardinality(s .. e - 1) = IF s > e - 1 THEN 0 ELSE (e - 1) - s + 1 BY <3>1, FS_Interval
    <3> QED BY <1>5, <2>1, <3>2
  <2>5. BusinessMinutesBetween(s, e, p.calendar) = target
    BY <1>5, <1>6, <2>1 DEF BusinessMinutesBetween
  <2> QED BY <1>3, <1>2, <1>4, <2>2, <2>3, <2>4, <2>5 DEF IsEnd, WorkedMinutes
<1>7. CASE p.calendar # AllHours
  <2>1. FitsDay(p.calendar) /\ target <= WorkedMinutes(s, Horizon(s, p.calendar), p.calendar)
    BY <1>3, <1>4, <1>7, PoliciesTyped DEF Attainable, FitsDay, IsCalendar
  <2>2. /\ e \in Int /\ s < e /\ e <= Horizon(s, p.calendar)
        /\ WorkedMinutes(s, e, p.calendar) = target
        /\ Working(e - 1, p.calendar)
    BY <1>4, <1>5, <2>1, AddIsWorked
  <2>3. BusinessMinutesBetween(s, e, p.calendar) = target BY <2>1, <2>2, BetweenIsWorked
  <2> QED BY <1>3, <1>2, <1>4, <2>2, <2>3 DEF IsEnd
<1> QED BY <1>6, <1>7

\* A row has no policy, or one of Policies and the due times that are its targets'.
DueInv ==
  \A t \in Tickets : sla[t].policy # None =>
    /\ sla[t].policy \in Policies
    /\ sla[t].response.due = Reached[t][sla[t].policy.response][sla[t].policy.calendar]
    /\ sla[t].resolution.due = Reached[t][sla[t].policy.resolution][sla[t].policy.calendar]

LEMMA SnapshotDue ==
  ASSUME NEW t \in Tickets, NEW x, x.priority \in Priorities, NEW m, NEW time,
         NEW s, s = Snapshot(t, x, m, time), s.policy # None
  PROVE  /\ s.policy \in Policies
         /\ s.response.due = Reached[t][s.policy.response][s.policy.calendar]
         /\ s.resolution.due = Reached[t][s.policy.resolution][s.policy.calendar]
<1> DEFINE p == Resolved[t][x.priority]
<1>1. p = ResolvePolicy(Origin[t], x.priority) BY DEF Resolved
<1>2. p # None /\ s.policy = p
      /\ s.response = DimensionState(t, p.response, p.atRisk, x.acked, time, p.calendar)
      /\ s.resolution = DimensionState(t, p.resolution, p.atRisk, m["CLOSED"], time, p.calendar)
  BY DEF Snapshot, ComputeSlaSnapshot
<1>3. p \in Policies BY <1>1, <1>2, PolicyFound
<1> HIDE DEF p
<1> QED BY <1>2, <1>3 DEF DimensionState

LEMMA DueNext ==
  ASSUME IInv, RecordInv, TypedRuns, DueInv, [Next]_vars
  PROVE  DueInv'
<1> SUFFICES ASSUME NEW t \in Tickets, sla'[t].policy # None
             PROVE  /\ sla'[t].policy \in Policies
                    /\ sla'[t].response.due
                         = Reached[t][sla'[t].policy.response][sla'[t].policy.calendar]
                    /\ sla'[t].resolution.due
                         = Reached[t][sla'[t].policy.resolution][sla'[t].policy.calendar]
  BY DEF DueInv, Reached
<1>1. CASE sla'[t] = sla[t] BY <1>1 DEF DueInv
<1>2. CASE sla'[t] # sla[t]
  <2>1. PICK r \in Runners : Commit(r) BY <1>2, OnlyCommitWrites
  <2>2. /\ batch[r][t].priority \in Priorities
        /\ sla'[t] = Snapshot(t, batch[r][t], seen[r], now[r])
    BY <1>2, <2>1, Writes
  <2>3. PICK s : s = sla'[t] OBVIOUS
  <2>4. s = Snapshot(t, batch[r][t], seen[r], now[r]) /\ s.policy # None BY <2>2, <2>3
  <2>5. /\ s.policy \in Policies
        /\ s.response.due = Reached[t][s.policy.response][s.policy.calendar]
        /\ s.resolution.due = Reached[t][s.policy.resolution][s.policy.calendar]
    BY <2>2, <2>4, SnapshotDue
  <2> QED BY <2>3, <2>5
<1> QED BY <1>1, <1>2

\* Due times are worked minutes: if the calendars have the minutes their policies
\* promise, and the process runs in UTC or west of it, a due time on record is the
\* end of the last of `target` minutes that are worked since the ticket was created,
\* counted one by one with the holidays as they are in the table, and the code's own
\* businessMinutesBetween agrees, for all calendars, policies and tickets.
THEOREM DueAlwaysWorked == Attainable /\ UtcOrWest => (Spec => []DueIsWorked)
<1> SUFFICES ASSUME Attainable, UtcOrWest PROVE Spec => []DueIsWorked OBVIOUS
<1>1. Init => DueInv BY DEF Init, SlaInit, DueInv
<1>2. IInv /\ RecordInv /\ TypedRuns /\ DueInv /\ [Next]_vars => DueInv' BY DueNext
<1>3. DueInv => DueIsWorked
  <2> SUFFICES ASSUME DueInv, NEW t \in Tickets, sla[t].policy # None
               PROVE  /\ IsEnd(t, sla[t].response.due, sla[t].policy.response,
                               sla[t].policy.calendar)
                      /\ IsEnd(t, sla[t].resolution.due, sla[t].policy.resolution,
                               sla[t].policy.calendar)
    BY DEF DueIsWorked, IsEnd
  <2>1. PICK p \in Policies :
          /\ p = sla[t].policy
          /\ sla[t].response.due = Reached[t][p.response][p.calendar]
          /\ sla[t].resolution.due = Reached[t][p.resolution][p.calendar]
    BY DEF DueInv
  <2> QED BY <2>1, ReachedIsEnd
<1> QED BY <1>1, <1>2, <1>3, Inductive, AlwaysRecorded, AlwaysLate, PTL DEF Spec

==============================================================================
