------------------------- MODULE ClickupSync_proofs -------------------------
(***************************************************************************)
(* Proofs about ClickupSync for every value of its constants.              *)
(***************************************************************************)
EXTENDS ClickupSync, FiniteSetTheorems, TLAPS

-----------------------------------------------------------------------------
(* Type correctness                                                        *)

(* The overlap window starts at a moment and not after the watermark.      *)
LEMMA FetchFromType ==
  ASSUME NEW mark \in Moments
  PROVE  FetchFrom(mark) \in Moments /\ FetchFrom(mark) <= mark
BY BoundAssumption DEF FetchFrom, Moments

(* A row is a value of its own, never SQL NULL.                            *)
LEMMA RowType ==
  ASSUME NEW c \in Contents, Resolvable(c)
  PROVE  /\ Row(c) \in Rows
         /\ Row(c) # None
         /\ Stage(c) \in Stages
         /\ MatchedBUs(c) \in SUBSET BUs
<1>1. Row(c) \in Rows
  BY DEF Rows
<1>2. Row(c) # None
  BY <1>1, NoneAssumption
<1>3. Stage(c) \in Stages
  BY DEF Resolvable, Stage, Stages
<1>4. MatchedBUs(c) \in SUBSET BUs
  BY DEF MatchedBUs, BUs
<1> QED
  BY <1>1, <1>2, <1>3, <1>4

(* Recording a stage appends at most one well-formed event.                *)
LEMMA StageEventsType ==
  ASSUME NEW es \in Seq([stage : Stages, at : Moments]),
         NEW stage \in Stages, NEW at \in Moments
  PROVE  StageEvents(es, stage, at) \in Seq([stage : Stages, at : Moments])
<1> DEFINE e == [stage |-> stage, at |-> at]
<1>1. Append(es, e) \in Seq([stage : Stages, at : Moments])
  OBVIOUS
<1> QED
  BY <1>1 DEF StageEvents

(* The initial values of the counters are in their ranges.                 *)
LEMMA ZeroType == /\ 0 \in Moments /\ 1 \in Moments
                  /\ 0 \in 0 .. Lists /\ 0 \in 0 .. MaxFaults
BY BoundAssumption, ListAssumption DEF Moments

LEMMA TypeInit == Init => TypeOK
<1> SUFFICES ASSUME Init PROVE TypeOK
  OBVIOUS
<1>1. \A t \in Tasks : events[t] \in Seq([stage : Stages, at : Moments])
  BY DEF Init
<1>2. events \in [Tasks -> Seq([stage : Stages, at : Moments])]
  BY <1>1 DEF Init
<1>3. collected \in [Runners -> [Tasks -> Copy \cup {None}]] /\ ticket \in [Tasks -> Rows \cup {None}]
      /\ visible \in [Tasks -> SUBSET BUs]
  BY DEF Init
<1>4. tasks \in [Tasks -> [content : Contents \cup {None}, updated : Moments,
                          archived : BOOLEAN]]
  BY ZeroType DEF Init
<1> QED
  BY <1>2, <1>3, <1>4, ZeroType DEF Init, TypeOK

LEMMA TypeStep == TypeOK /\ [Next]_vars => TypeOK'
<1> SUFFICES ASSUME TypeOK, [Next]_vars PROVE TypeOK'
  OBVIOUS
<1> USE DEF TypeOK
<1>1. ASSUME NEW t \in Tasks, Edit(t) PROVE TypeOK'
  <2>1. PICK c \in ContentsOf[t], a \in BOOLEAN, now \in clock .. clock + 1 :
          /\ now <= MaxTime
          /\ clock' = now
          /\ tasks' = [tasks EXCEPT ![t] =
                         [content |-> c, updated |-> now, archived |-> a]]
    BY <1>1 DEF Edit
  <2>2. now \in Moments /\ c \in Contents
    BY <2>1, BoundAssumption DEF Moments, Contents
  <2>3. tasks' \in [Tasks -> [content : Contents \cup {None}, updated : Moments,
                              archived : BOOLEAN]]
    BY <2>1, <2>2
  <2>4. UNCHANGED <<runVars, cursor, dbVars, historyVars, faults>>
    BY <1>1 DEF Edit
  <2> QED
    BY <2>1, <2>2, <2>3, <2>4 DEF runVars, fetchVars, orderVars, dbVars, historyVars
<1>2. ASSUME NEW r \in Runners, StartRun(r) PROVE TypeOK'
  <2>1. FetchFrom(cursor) \in Moments /\ Active \in SUBSET Runners
    BY FetchFromType DEF Active
  <2>2. /\ fetchSince' \in [Runners -> Moments] /\ started' \in [Runners -> Moments]
        /\ since' \in [Runners -> Moments] /\ watermark' \in [Runners -> Moments]
        /\ before' \in [Runners -> SUBSET Runners]
        /\ phase' \in [Runners -> {"idle", "fetch", "process"}]
    BY <1>2, <2>1 DEF StartRun
  <2>3. UNCHANGED <<sourceVars, stream, page, batch, got, collected, frozen, superseded,
                    cursor, dbVars, historyVars, faults>>
    BY <1>2 DEF StartRun
  <2> QED
    BY <2>2, <2>3 DEF sourceVars, dbVars, historyVars
<1>3. ASSUME NEW r \in Runners, FetchPage(r) PROVE TypeOK'
  <2>1. PICK skipped \in SUBSET Matching(r, stream[r]),
             S \in SUBSET Matching(r, stream[r]) :
          /\ collected' = [collected EXCEPT ![r] = Collect(r, S)]
          /\ batch' = [batch EXCEPT ![r] = @ + 1]
          /\ \/ /\ page' = [page EXCEPT ![r] = @ + 1]
                /\ got' = [got EXCEPT ![r] = skipped \cup S]
                /\ UNCHANGED <<phase, stream>>
             \/ /\ page' = [page EXCEPT ![r] = 0]
                /\ got' = [got EXCEPT ![r] = {}]
                /\ \/ /\ stream[r] < LastStream
                      /\ stream' = [stream EXCEPT ![r] = @ + 1]
                      /\ UNCHANGED phase
                   \/ /\ stream' = [stream EXCEPT ![r] = 0]
                      /\ phase' = [phase EXCEPT ![r] = "process"]
    BY <1>3 DEF FetchPage
  <2>2. \A t \in S : tasks[t].content \in Contents
    BY DEF Matching, Exists
  <2>3. collected' \in [Runners -> [Tasks -> Copy \cup {None}]]
    <3>1. \A t \in Tasks : Collect(r, S)[t] \in Copy \cup {None}
      BY <2>2 DEF Collect, Copy
    <3>2. Collect(r, S) \in [Tasks -> Copy \cup {None}]
      BY <3>1 DEF Collect
    <3> QED
      BY <3>2, <2>1
  <2>4. LastStream \in 0 .. Lists
    BY ListAssumption, FlagAssumption DEF LastStream
  <2>5. skipped \cup S \in SUBSET Tasks
    BY DEF Matching
  <2>6. stream' \in [Runners -> 0 .. Lists]
    <3>1. 0 \in 0 .. Lists
      BY ListAssumption
    <3>2. stream[r] < LastStream => stream[r] + 1 \in 0 .. Lists
      BY <2>4, ListAssumption
    <3> QED
      BY <2>1, <3>1, <3>2
  <2>7. page' \in [Runners -> Nat] /\ batch' \in [Runners -> Nat]
        /\ got' \in [Runners -> SUBSET Tasks]
        /\ phase' \in [Runners -> {"idle", "fetch", "process"}]
    <3>1. batch' \in [Runners -> Nat]
      BY <2>1
    <3>4. page' \in [Runners -> Nat]
      <4>1. page[r] + 1 \in Nat /\ 0 \in Nat
        OBVIOUS
      <4>2. page' = [page EXCEPT ![r] = page[r] + 1] \/ page' = [page EXCEPT ![r] = 0]
        BY <2>1
      <4> QED
        BY <4>1, <4>2
    <3>2. got' \in [Runners -> SUBSET Tasks]
      BY <2>1, <2>5
    <3>3. phase' \in [Runners -> {"idle", "fetch", "process"}]
      BY <2>1
    <3> QED
      BY <3>1, <3>2, <3>3, <3>4
  <2>8. UNCHANGED <<sourceVars, started, since, fetchSince, watermark, frozen, orderVars,
                    cursor, dbVars, historyVars, faults>>
    BY <1>3 DEF FetchPage
  <2> QED
    BY <2>3, <2>6, <2>7, <2>8 DEF sourceVars, orderVars, dbVars, historyVars
<1>4. ASSUME NEW r \in Runners, NEW t \in Tasks, IsNext(r, t)
      PROVE  /\ collected[r][t] \in Copy
             /\ collected[r][t].content \in Contents
             /\ collected[r][t].updated \in Moments
  BY <1>4 DEF IsNext, Pending, Copy
<1>5. ASSUME NEW r \in Runners, NEW t \in Tasks, Done(r, t)
      PROVE  collected' \in [Runners -> [Tasks -> Copy \cup {None}]]
  BY <1>5 DEF Done
<1>6. ASSUME NEW r \in Runners, NEW ms \in Moments, Advance(r, ms)
      PROVE  watermark' \in [Runners -> Moments]
  BY <1>6 DEF Advance
<1>7. ASSUME NEW r \in Runners, NEW t \in Tasks, Ingest(r, t) PROVE TypeOK'
  <2> DEFINE c == collected[r][t].content
             at == collected[r][t].updated
  <2>1. c \in Contents /\ at \in Moments
    BY <1>4, <1>7 DEF Ingest
  <2>2. Resolvable(c) /\ Upsert(t, c, at) /\ Recall(t, c, at) /\ Advance(r, at)
        /\ Done(r, t)
    BY <1>7 DEF Ingest
  <2>3. /\ ticket' \in [Tasks -> Rows \cup {None}]
        /\ visible' \in [Tasks -> SUBSET BUs]
        /\ events' \in [Tasks -> Seq([stage : Stages, at : Moments])]
    <3> HIDE DEF c, at
    <3>1. StageEvents(events[t], Stage(c), at) \in Seq([stage : Stages, at : Moments])
      BY <2>1, <2>2, RowType, StageEventsType
    <3> QED
      BY <2>1, <2>2, <3>1, RowType DEF Upsert, dbVars
  <2>4. newest' \in [Tasks -> Moments] /\ behind' \in SUBSET Tasks
        /\ overtaken' \in SUBSET Tasks
    <3> HIDE DEF c, at
    <3> QED
      BY <2>1, <2>2 DEF Recall
  <2>5. collected' \in [Runners -> [Tasks -> Copy \cup {None}]]
        /\ watermark' \in [Runners -> Moments]
    BY <1>5, <1>6, <2>1, <2>2
  <2>6. UNCHANGED <<sourceVars, phase, fetchVars, frozen, orderVars, cursor, faults>>
    BY <1>7 DEF Ingest
  <2> QED
    BY <2>3, <2>4, <2>5, <2>6 DEF sourceVars, fetchVars, orderVars
<1>8. ASSUME NEW r \in Runners, NEW t \in Tasks, Quarantine(r, t) PROVE TypeOK'
  <2>1. /\ collected' \in [Runners -> [Tasks -> Copy \cup {None}]]
        /\ watermark' \in [Runners -> Moments]
    BY <1>4, <1>5, <1>6, <1>8 DEF Quarantine
  <2> QED
    BY <2>1, <1>8 DEF Quarantine, sourceVars, fetchVars, orderVars, dbVars, historyVars
<1>9. ASSUME NEW r \in Runners, NEW t \in Tasks, Fail(r, t) PROVE TypeOK'
  <2>1. /\ collected' \in [Runners -> [Tasks -> Copy \cup {None}]]
        /\ frozen' \in [Runners -> BOOLEAN]
    BY <1>5, <1>9 DEF Fail
  <2> QED
    BY <2>1, <1>9 DEF Fail, sourceVars, fetchVars, orderVars, dbVars, historyVars
<1>10. ASSUME NEW r \in Runners, EndRun(r)
       PROVE  /\ phase' \in [Runners -> {"idle", "fetch", "process"}]
              /\ started' \in [Runners -> Moments] /\ since' \in [Runners -> Moments]
              /\ fetchSince' \in [Runners -> Moments]
              /\ stream' \in [Runners -> 0 .. Lists]
              /\ page' \in [Runners -> Nat] /\ batch' \in [Runners -> Nat]
              /\ got' \in [Runners -> SUBSET Tasks]
              /\ watermark' \in [Runners -> Moments]
              /\ frozen' \in [Runners -> BOOLEAN]
              /\ before' \in [Runners -> SUBSET Runners]
              /\ collected' \in [Runners -> [Tasks -> Copy \cup {None}]]
  <2>1. [t \in Tasks |-> None] \in [Tasks -> Copy \cup {None}]
    OBVIOUS
  <2>2. collected' \in [Runners -> [Tasks -> Copy \cup {None}]]
    BY <1>10, <2>1 DEF EndRun
  <2>3. /\ stream' \in [Runners -> 0 .. Lists] /\ page' \in [Runners -> Nat]
        /\ batch' \in [Runners -> Nat] /\ got' \in [Runners -> SUBSET Tasks]
        /\ frozen' \in [Runners -> BOOLEAN] /\ before' \in [Runners -> SUBSET Runners]
    BY <1>10, ZeroType DEF EndRun
  <2> QED
    BY <1>10, <2>2, <2>3, ZeroType DEF EndRun
<1>11. ASSUME NEW r \in Runners, CloseRun(r) \/ Abandon(r) PROVE TypeOK'
  <2>1. EndRun(r) /\ cursor' \in Moments /\ faults' \in 0 .. MaxFaults
        /\ superseded' \in [Runners -> BOOLEAN]
    <3>1. ASSUME CloseRun(r)
          PROVE  EndRun(r) /\ cursor' \in Moments /\ faults' = faults
                 /\ superseded' \in [Runners -> BOOLEAN]
      BY <3>1 DEF CloseRun
    <3>2. ASSUME Abandon(r)
          PROVE  EndRun(r) /\ cursor' = cursor /\ faults' \in 0 .. MaxFaults
                 /\ superseded' \in [Runners -> BOOLEAN]
      BY <3>2, BoundAssumption DEF Abandon
    <3> QED
      BY <1>11, <3>1, <3>2
  <2>2. UNCHANGED <<sourceVars, dbVars, historyVars>>
    BY <1>11 DEF CloseRun, Abandon
  <2> QED
    BY <1>10, <2>1, <2>2 DEF sourceVars, dbVars, historyVars
<1>12. CASE UNCHANGED vars
  BY <1>12 DEF vars, sourceVars, runVars, fetchVars, orderVars, dbVars, historyVars
<1> QED
  BY <1>1, <1>2, <1>3, <1>7, <1>8, <1>9, <1>11, <1>12
  DEF Next, FatalError, Crash

(* Every variable keeps its type, in every behaviour of the engine.        *)
THEOREM TypeCorrect == Spec => []TypeOK
<1>1. Init => TypeOK
  BY TypeInit
<1>2. TypeOK /\ [Next]_vars => TypeOK'
  BY TypeStep
<1> QED
  BY <1>1, <1>2, PTL DEF Spec

-----------------------------------------------------------------------------
(* The inductive invariant behind RowsAgree                                *)

\* Edits, the cursor and each run's own watermark are ordered in time.
ClockInv ==
  /\ cursor <= clock
  /\ \A t \in Tasks : /\ tasks[t].updated <= clock
                      /\ Exists(t) => tasks[t].updated > 0
                      /\ tasks[t].archived => IncludeArchived
  /\ \A r \in Runners :
       /\ phase[r] # "idle" =>
            /\ since[r] <= started[r] /\ started[r] <= clock
            /\ fetchSince[r] = FetchFrom(since[r])
            /\ watermark[r] <= clock /\ watermark[r] <= started[r] + FetchSpan
       /\ stream[r] <= LastStream
       /\ phase[r] = "fetch" =>
            watermark[r] = since[r] /\ clock <= started[r] + FetchSpan

\* What a run's copy of a task says of the task: it is the present one
\* unless the task was edited during the run.
CopyOf(r, t, copy) ==
  /\ copy.updated <= tasks[t].updated
  /\ copy.updated <= started[r] + FetchSpan
  /\ copy.updated = tasks[t].updated => copy.content = tasks[t].content
  /\ tasks[t].updated < started[r] => copy.updated = tasks[t].updated

CopyInv ==
  \A r \in Runners, t \in Tasks : collected[r][t] # None =>
    phase[r] # "idle" /\ CopyOf(r, t, collected[r][t])

\* No event is newer than at.
EndsBy(es, at) == \A i \in 1 .. Len(es) : es[i].at <= at

\* A history is ordered, every event a transition, none newer than at.
HistoryUpTo(es, at) ==
  /\ EndsBy(es, at)
  /\ \A i, j \in 1 .. Len(es) : i <= j => es[i].at <= es[j].at
  /\ \A i \in 1 .. Len(es) - 1 : es[i].stage # es[i + 1].stage

\* No event is newer than the newest copy applied, and the history is in
\* order unless an older copy was ever written over a newer one.
HistoryInv ==
  \A t \in Tasks :
    /\ newest[t] <= tasks[t].updated
    /\ EndsBy(events[t], newest[t])
    /\ t \notin overtaken => HistoryUpTo(events[t], newest[t])
    /\ t \in behind => t \in overtaken

\* A stored row and its visibility set come from one content, and so does the
\* latest event unless the row was last written from an older copy.
RowOf(t, c) ==
  /\ Resolvable(c)
  /\ ticket[t] = Row(c)
  /\ visible[t] = MatchedBUs(c)
  /\ events[t] # <<>>
  /\ t \notin behind => LatestEvent(events[t]).stage = Stage(c)

RowInv ==
  \A t \in Tasks : ticket[t] # None => \E c \in Contents : RowOf(t, c)

\* What holds whatever the pages, the failures and the other runs do.
BaseInv ==
  /\ TypeOK
  /\ ClockInv
  /\ CopyInv
  /\ HistoryInv
  /\ RowInv

-----------------------------------------------------------------------------
(* Lemmas about histories and rows                                         *)

LEMMA MomentNat == \A m \in Moments : m \in Nat
BY BoundAssumption DEF Moments

(* The elements of a sequence, and of one that was appended to.            *)
LEMMA SeqElements ==
  ASSUME NEW S, NEW s \in Seq(S), NEW e \in S
  PROVE  /\ Len(s) \in Nat
         /\ DOMAIN s = 1 .. Len(s)
         /\ s # <<>> => Len(s) \in Nat \ {0} /\ Len(s) \in DOMAIN s
         /\ \A i \in 1 .. Len(s) : s[i] \in S
         /\ Len(Append(s, e)) = Len(s) + 1
         /\ Append(s, e)[Len(s) + 1] = e
         /\ \A i \in 1 .. Len(s) : Append(s, e)[i] = s[i]
OBVIOUS

LEMMA SeqElement ==
  ASSUME NEW S, NEW s \in Seq(S)
  PROVE  \A i \in 1 .. Len(s) : s[i] \in S
OBVIOUS

(* The moments of a history are natural numbers.                           *)
LEMMA EventMoments ==
  ASSUME NEW es \in Seq([stage : Stages, at : Moments])
  PROVE  \A i \in 1 .. Len(es) : es[i].at \in Nat
<1> DEFINE Event == [stage : Stages, at : Moments]
<1>1. \A i \in 1 .. Len(es) : es[i] \in Event
  BY SeqElement
<1>2. \A e \in Event : e.at \in Nat
  BY MomentNat
<1> QED
  BY <1>1, <1>2

(* The event ensureStatusEvent reads is the last one of an ordered history.*)
LEMMA LatestIsLast ==
  ASSUME NEW es \in Seq([stage : Stages, at : Moments]), es # <<>>,
         NEW at \in Nat, HistoryUpTo(es, at)
  PROVE  LatestEvent(es) = es[Len(es)]
<1> DEFINE n == Len(es)
           Newest(i) == \A j \in DOMAIN es :
                          es[j].at < es[i].at \/ (es[j].at = es[i].at /\ j <= i)
<1>1. n \in Nat \ {0} /\ DOMAIN es = 1 .. n /\ n \in DOMAIN es
  OBVIOUS
<1>2. \A i \in 1 .. n : es[i].at \in Nat
  BY EventMoments
<1>3. Newest(n)
  BY <1>1, <1>2 DEF HistoryUpTo
<1>4. ASSUME NEW i \in DOMAIN es, Newest(i) PROVE i = n
  BY <1>1, <1>2, <1>4 DEF HistoryUpTo, EndsBy
<1>5. (CHOOSE i \in DOMAIN es : Newest(i)) = n
  <2> HIDE DEF Newest, n
  <2> QED
    BY <1>1, <1>3, <1>4
<1> QED
  BY <1>5 DEF LatestEvent

(* Recording a stage at a later moment keeps the history ordered.          *)
LEMMA StageEventsKeep ==
  ASSUME NEW es \in Seq([stage : Stages, at : Moments]),
         NEW stage \in Stages, NEW at \in Moments, HistoryUpTo(es, at)
  PROVE  LET new == StageEvents(es, stage, at) IN
         /\ HistoryUpTo(new, at)
         /\ new # <<>>
         /\ new[Len(new)].stage = stage
<1> DEFINE e == [stage |-> stage, at |-> at]
           new == StageEvents(es, stage, at)
<1>1. CASE es = <<>>
  <2>1. new = <<e>>
    BY <1>1 DEF StageEvents
  <2>2. at \in Nat
    BY MomentNat
  <2> QED
    BY <2>1, <2>2 DEF HistoryUpTo, EndsBy
<1>2. CASE es # <<>> /\ LatestEvent(es).stage = stage
  BY <1>2, LatestIsLast, MomentNat DEF StageEvents
<1>3. CASE es # <<>> /\ LatestEvent(es).stage # stage
  <2> DEFINE n == Len(es)
  <2>1. new = Append(es, e)
    BY <1>3 DEF StageEvents
  <2>2. /\ n \in Nat \ {0} /\ Len(new) = n + 1 /\ new[n + 1] = e
        /\ \A i \in 1 .. n : new[i] = es[i]
    BY <1>3, <2>1, SeqElements
  <2>3. es[n].stage # stage
    BY <1>3, LatestIsLast, MomentNat
  <2>4. \A i \in 1 .. n : es[i].at \in Nat /\ es[i].at <= at
    BY <2>2, EventMoments DEF HistoryUpTo, EndsBy
  <2>5. at \in Nat
    BY MomentNat
  <2> HIDE DEF new, n
  <2>6. \A i \in 1 .. n + 1 : new[i].at <= at
    BY <2>2, <2>4, <2>5
  <2>7. \A i, j \in 1 .. n + 1 : i <= j => new[i].at <= new[j].at
    <3> SUFFICES ASSUME NEW i \in 1 .. n + 1, NEW j \in 1 .. n + 1, i <= j
                 PROVE  new[i].at <= new[j].at
      OBVIOUS
    <3>1. CASE j = n + 1
      BY <3>1, <2>2, <2>6
    <3>2. CASE j \in 1 .. n
      <4>1. i \in 1 .. n
        BY <3>2, <2>2
      <4>2. es[i].at <= es[j].at
        BY <4>1, <3>2 DEF HistoryUpTo, n
      <4> QED
        BY <4>1, <4>2, <3>2, <2>2
    <3> QED
      BY <3>1, <3>2, <2>2
  <2>8. \A i \in 1 .. n : new[i].stage # new[i + 1].stage
    <3> SUFFICES ASSUME NEW i \in 1 .. n PROVE new[i].stage # new[i + 1].stage
      OBVIOUS
    <3>1. CASE i = n
      BY <3>1, <2>2, <2>3 DEF n
    <3>2. CASE i \in 1 .. n - 1
      <4>1. es[i].stage # es[i + 1].stage /\ i + 1 \in 1 .. n
        BY <3>2, <2>2 DEF HistoryUpTo, n
      <4> QED
        BY <4>1, <2>2
    <3> QED
      BY <3>1, <3>2, <2>2
  <2> QED
    BY <2>2, <2>6, <2>7, <2>8 DEF HistoryUpTo, EndsBy, new
<1> QED
  BY <1>1, <1>2, <1>3

(* Recording a stage, whenever it was, leaves a history no newer than the  *)
(* newest of the two.                                                      *)
LEMMA StageEventsEnd ==
  ASSUME NEW es \in Seq([stage : Stages, at : Moments]),
         NEW stage \in Stages, NEW at \in Moments,
         NEW last \in Nat, EndsBy(es, last), at <= last
  PROVE  LET new == StageEvents(es, stage, at) IN
         new # <<>> /\ EndsBy(new, last)
<1> DEFINE e == [stage |-> stage, at |-> at]
           new == StageEvents(es, stage, at)
           n == Len(es)
<1>1. CASE es # <<>> /\ LatestEvent(es).stage = stage
  BY <1>1 DEF StageEvents
<1>2. CASE ~(es # <<>> /\ LatestEvent(es).stage = stage)
  <2>1. new = Append(es, e)
    BY <1>2 DEF StageEvents
  <2>2. /\ n \in Nat /\ Len(new) = n + 1 /\ new[n + 1] = e
        /\ \A i \in 1 .. n : new[i] = es[i]
    BY <2>1, SeqElements
  <2>3. \A i \in 1 .. n : es[i].at <= last
    BY DEF EndsBy
  <2> HIDE DEF new, n
  <2>4. \A i \in 1 .. n + 1 : new[i].at <= last
    BY <2>2, <2>3
  <2>5. new # <<>>
    BY <2>2
  <2> QED
    BY <2>2, <2>4, <2>5 DEF EndsBy, new
<1> QED
  BY <1>1, <1>2

(* A stage recorded no earlier than any event is what the latest event     *)
(* tells from then on, in whatever order the others are.                   *)
LEMMA StageEventsLatest ==
  ASSUME NEW es \in Seq([stage : Stages, at : Moments]),
         NEW stage \in Stages, NEW at \in Moments, EndsBy(es, at)
  PROVE  LatestEvent(StageEvents(es, stage, at)).stage = stage
<1> DEFINE e == [stage |-> stage, at |-> at]
           new == StageEvents(es, stage, at)
           n == Len(es)
           Newest(i) == \A j \in DOMAIN new :
                          new[j].at < new[i].at \/ (new[j].at = new[i].at /\ j <= i)
<1>1. CASE es # <<>> /\ LatestEvent(es).stage = stage
  BY <1>1 DEF StageEvents
<1>2. CASE ~(es # <<>> /\ LatestEvent(es).stage = stage)
  <2>1. new = Append(es, e)
    BY <1>2 DEF StageEvents
  <2>2. /\ n \in Nat /\ Len(new) = n + 1 /\ new[n + 1] = e
        /\ \A i \in 1 .. n : new[i] = es[i]
    BY <2>1, SeqElements
  <2>3. DOMAIN new = 1 .. n + 1
    BY <2>1, <2>2
  <2>4. \A i \in 1 .. n : es[i].at \in Nat /\ es[i].at <= at
    BY EventMoments DEF EndsBy
  <2>5. at \in Nat /\ e.at = at
    BY MomentNat
  <2>6. new[n + 1].at = at /\ \A i \in 1 .. n : new[i].at <= at /\ new[i].at \in Nat
    BY <2>2, <2>4, <2>5
  <2>7. Newest(n + 1)
    <3> HIDE DEF new, n
    <3> QED
      BY <2>2, <2>3, <2>5, <2>6
  <2>8. ASSUME NEW i \in DOMAIN new, Newest(i) PROVE i = n + 1
    <3>1. new[n + 1].at < new[i].at \/ (new[n + 1].at = new[i].at /\ n + 1 <= i)
      BY <2>3, <2>2, <2>8
    <3> HIDE DEF new, n, Newest
    <3> QED
      BY <2>2, <2>3, <2>5, <2>6, <3>1
  <2>9. (CHOOSE i \in DOMAIN new : Newest(i)) = n + 1
    <3>1. n + 1 \in DOMAIN new
      BY <2>2, <2>3
    <3> HIDE DEF Newest, new, n
    <3> QED
      BY <3>1, <2>7, <2>8
  <2>10. LatestEvent(new) = new[n + 1]
    BY <2>9 DEF LatestEvent
  <2> QED
    BY <2>2, <2>10
<1> QED
  BY <1>1, <1>2

(* A history that ends by one moment ends by every later one.              *)
LEMMA HistoryLater ==
  ASSUME NEW es \in Seq([stage : Stages, at : Moments]),
         NEW a \in Nat, NEW b \in Nat, a <= b
  PROVE  /\ EndsBy(es, a) => EndsBy(es, b)
         /\ HistoryUpTo(es, a) => HistoryUpTo(es, b)
<1>1. \A i \in 1 .. Len(es) : es[i].at \in Nat
  BY EventMoments
<1>2. EndsBy(es, a) => EndsBy(es, b)
  BY <1>1 DEF EndsBy
<1>3. HistoryUpTo(es, a) => EndsBy(es, a)
  BY DEF HistoryUpTo
<1>4. ASSUME HistoryUpTo(es, a), EndsBy(es, b) PROVE HistoryUpTo(es, b)
  BY <1>4 DEF HistoryUpTo
<1> QED
  BY <1>2, <1>3, <1>4

(* The content hash determines the row and the visibility set.             *)
LEMMA HashDeterminesRow ==
  ASSUME NEW c, NEW d, Row(c).hash = ContentHash(d)
  PROVE  Row(c) = Row(d) /\ MatchedBUs(c) = MatchedBUs(d) /\ Stage(c) = Stage(d)
<1>1. ContentHash(c) = ContentHash(d)
  BY DEF Row
<1>2. MatchedBUs(c) = MatchedBUs(d) /\ Stage(c) = Stage(d)
  BY <1>1 DEF ContentHash
<1>3. Origin(c) = Origin(d)
  BY <1>2 DEF Origin
<1> QED
  BY <1>1, <1>2, <1>3 DEF Row

-----------------------------------------------------------------------------
(* Every step preserves BaseInv                                            *)

(* The elements of the variables that the arithmetic below needs.          *)
LEMMA TypeFacts ==
  ASSUME TypeOK
  PROVE  /\ clock \in Nat /\ cursor \in Nat
         /\ \A r \in Runners :
              /\ started[r] \in Nat /\ since[r] \in Nat
              /\ fetchSince[r] \in Nat /\ watermark[r] \in Nat
         /\ \A t \in Tasks :
              /\ tasks[t].updated \in Nat /\ newest[t] \in Nat
              /\ events[t] \in Seq([stage : Stages, at : Moments])
         /\ \A r \in Runners, t \in Tasks : collected[r][t] # None =>
              /\ collected[r][t].content \in Contents
              /\ collected[r][t].updated \in Moments
              /\ collected[r][t].updated \in Nat
<1>1. \A m \in Moments : m \in Nat
  BY MomentNat
<1>2. \A r \in Runners, t \in Tasks : collected[r][t] # None => collected[r][t] \in Copy
  BY DEF TypeOK
<1> QED
  BY <1>1, <1>2 DEF TypeOK, Copy

(* What an edit does, with its choices named.                              *)
LEMMA EditFacts ==
  ASSUME TypeOK, NEW t \in Tasks, Edit(t)
  PROVE  \E c \in Contents, a \in BOOLEAN, now \in Moments :
           /\ clock <= now /\ tasks[t].updated < now
           /\ a => IncludeArchived
           /\ \A r \in Runners : phase[r] = "fetch" =>
                now <= started[r] + FetchSpan /\ (StablePages => t \notin got[r])
           /\ clock' = now
           /\ tasks' = [tasks EXCEPT ![t] =
                          [content |-> c, updated |-> now, archived |-> a]]
           /\ UNCHANGED <<runVars, cursor, dbVars, historyVars, faults>>
<1>1. PICK c \in ContentsOf[t], a \in BOOLEAN, now \in clock .. clock + 1 :
        /\ now <= MaxTime /\ tasks[t].updated < now
        /\ a => IncludeArchived
        /\ \A r \in Runners : phase[r] = "fetch" =>
             now <= started[r] + FetchSpan /\ (StablePages => t \notin got[r])
        /\ clock' = now
        /\ tasks' = [tasks EXCEPT ![t] =
                       [content |-> c, updated |-> now, archived |-> a]]
        /\ UNCHANGED <<runVars, cursor, dbVars, historyVars, faults>>
  BY DEF Edit
<1>2. clock \in Nat
  BY TypeFacts
<1>3. now \in Moments /\ clock <= now
  BY <1>1, <1>2, BoundAssumption DEF Moments
<1>4. c \in Contents
  BY <1>1 DEF Contents
<1> QED
  BY <1>1, <1>3, <1>4

LEMMA BaseInit == Init => BaseInv
<1> SUFFICES ASSUME Init PROVE BaseInv
  OBVIOUS
<1>1. TypeOK
  BY TypeInit
<1>2. ClockInv /\ CopyInv /\ RowInv
  BY ListAssumption, FlagAssumption DEF LastStream, Init, ClockInv, CopyInv, RowInv, Exists
<1>3. HistoryInv
  BY DEF Init, HistoryInv, HistoryUpTo, EndsBy
<1> QED
  BY <1>1, <1>2, <1>3 DEF BaseInv

LEMMA BaseEdit ==
  ASSUME BaseInv, TypeOK', NEW t \in Tasks, Edit(t)
  PROVE  BaseInv'
<1> USE DEF BaseInv
<1>1. PICK c \in Contents, a \in BOOLEAN, now \in Moments :
        /\ clock <= now /\ tasks[t].updated < now
        /\ a => IncludeArchived
        /\ \A r \in Runners : phase[r] = "fetch" => now <= started[r] + FetchSpan
        /\ clock' = now
        /\ tasks' = [tasks EXCEPT ![t] =
                       [content |-> c, updated |-> now, archived |-> a]]
        /\ UNCHANGED <<runVars, cursor, dbVars, historyVars, faults>>
  BY EditFacts
<1>2. /\ tasks'[t] = [content |-> c, updated |-> now, archived |-> a]
      /\ \A u \in Tasks : u # t => tasks'[u] = tasks[u]
  BY <1>1 DEF TypeOK
<1>3. UNCHANGED <<phase, started, since, fetchSince, stream, collected, watermark, cursor,
                  ticket, visible, events, newest, behind, overtaken>>
  BY <1>1 DEF runVars, fetchVars, dbVars, historyVars
<1>4. now \in Nat /\ FetchSpan \in Nat /\ c # None
  BY MomentNat, BoundAssumption, NoneAssumption
<1>5. ClockInv'
  <2>1. cursor' <= clock' /\ \A u \in Tasks : /\ tasks'[u].updated <= clock'
                                              /\ Exists(u)' => tasks'[u].updated > 0
                                              /\ tasks'[u].archived => IncludeArchived
    BY <1>1, <1>2, <1>3, <1>4, TypeFacts DEF ClockInv, Exists
  <2>2. ASSUME NEW r \in Runners
        PROVE  /\ phase[r] # "idle" =>
                    /\ since[r] <= started[r] /\ started[r] <= now
                    /\ fetchSince[r] = FetchFrom(since[r])
                    /\ watermark[r] <= now /\ watermark[r] <= started[r] + FetchSpan
               /\ stream[r] <= LastStream
               /\ phase[r] = "fetch" =>
                    watermark[r] = since[r] /\ now <= started[r] + FetchSpan
    BY <1>1, <1>4, TypeFacts DEF ClockInv
  <2> QED
    BY <1>1, <1>3, <2>1, <2>2 DEF ClockInv
<1>6. CopyInv'
  <2> SUFFICES ASSUME NEW r \in Runners, NEW u \in Tasks, collected[r][u] # None
               PROVE  phase[r] # "idle" /\ CopyOf(r, u, collected[r][u])'
    BY <1>3 DEF CopyInv
  <2>1. phase[r] # "idle" /\ CopyOf(r, u, collected[r][u]) /\ started[r] <= clock
    BY DEF CopyInv, ClockInv
  <2>2. /\ collected[r][u].updated \in Nat /\ started[r] \in Nat /\ clock \in Nat
        /\ tasks[u].updated \in Nat
    BY TypeFacts
  <2>3. CASE u = t
    BY <1>1, <1>2, <1>3, <1>4, <2>1, <2>2, <2>3 DEF CopyOf
  <2>4. CASE u # t
    BY <1>2, <1>3, <2>1, <2>4 DEF CopyOf
  <2> QED
    BY <2>3, <2>4
<1>7. HistoryInv'
  BY <1>1, <1>2, <1>3, <1>4, TypeFacts DEF HistoryInv
<1>8. RowInv'
  BY <1>3 DEF RowInv, RowOf
<1> QED
  BY <1>5, <1>6, <1>7, <1>8

(* Starting a run touches that run only.                                   *)
LEMMA StartRunFacts ==
  ASSUME TypeOK, NEW r \in Runners, StartRun(r)
  PROVE  /\ phase[r] = "idle" /\ phase'[r] = "fetch"
         /\ started'[r] = clock /\ since'[r] = cursor /\ watermark'[r] = cursor
         /\ fetchSince'[r] = FetchFrom(cursor)
         /\ \A q \in Runners : q # r =>
              /\ phase'[q] = phase[q] /\ started'[q] = started[q] /\ since'[q] = since[q]
              /\ fetchSince'[q] = fetchSince[q] /\ watermark'[q] = watermark[q]
         /\ UNCHANGED <<clock, tasks, stream, page, got, collected, frozen, cursor, ticket,
                        visible, events, newest, behind, overtaken>>
BY DEF TypeOK, StartRun, sourceVars, dbVars, historyVars

LEMMA BaseStartRun ==
  ASSUME BaseInv, TypeOK', NEW r \in Runners, StartRun(r)
  PROVE  BaseInv'
<1> USE DEF BaseInv
<1>1. LastStream \in Nat
  BY ListAssumption, FlagAssumption DEF LastStream
<1>2. ClockInv'
  <2>1. ASSUME NEW q \in Runners
        PROVE  /\ phase'[q] # "idle" =>
                    /\ since'[q] <= started'[q] /\ started'[q] <= clock
                    /\ fetchSince'[q] = FetchFrom(since'[q])
                    /\ watermark'[q] <= clock /\ watermark'[q] <= started'[q] + FetchSpan
               /\ stream[q] <= LastStream
               /\ phase'[q] = "fetch" =>
                    watermark'[q] = since'[q] /\ clock <= started'[q] + FetchSpan
    <3>1. CASE q = r
      BY <1>1, <3>1, StartRunFacts, TypeFacts, BoundAssumption DEF ClockInv
    <3>2. CASE q # r
      BY <3>2, StartRunFacts DEF ClockInv
    <3> QED
      BY <3>1, <3>2
  <2> QED
    BY <2>1, StartRunFacts DEF ClockInv, Exists, FetchFrom
<1>3. CopyInv'
  <2>1. \A t \in Tasks : collected[r][t] = None
    BY StartRunFacts DEF CopyInv
  <2> QED
    BY <2>1, StartRunFacts DEF CopyInv, CopyOf
<1>4. HistoryInv' /\ RowInv'
  BY StartRunFacts DEF HistoryInv, RowInv, RowOf
<1> QED
  BY <1>2, <1>3, <1>4

(* What a page request does to the run, without the pages' contents.       *)
LEMMA FetchPageFacts ==
  ASSUME TypeOK, NEW r \in Runners, FetchPage(r)
  PROVE  /\ phase[r] = "fetch" /\ phase'[r] \in {"fetch", "process"}
         /\ \E S \in SUBSET Matching(r, stream[r]) : collected'[r] = Collect(r, S)
         /\ \/ stream'[r] = stream[r] \/ stream'[r] = 0
            \/ stream'[r] = stream[r] + 1 /\ stream[r] < LastStream
         /\ \A q \in Runners : q # r =>
              /\ phase'[q] = phase[q] /\ stream'[q] = stream[q] /\ page'[q] = page[q]
              /\ got'[q] = got[q] /\ collected'[q] = collected[q]
         /\ UNCHANGED <<clock, tasks, started, since, fetchSince, watermark, frozen, cursor,
                        ticket, visible, events, newest, behind, overtaken>>
BY DEF TypeOK, FetchPage, sourceVars, dbVars, historyVars

LEMMA BaseFetchPage ==
  ASSUME BaseInv, TypeOK', NEW r \in Runners, FetchPage(r)
  PROVE  BaseInv'
<1> USE DEF BaseInv
<1>1. PICK S \in SUBSET Matching(r, stream[r]) : collected'[r] = Collect(r, S)
  BY FetchPageFacts
<1>2. UNCHANGED <<clock, tasks, started, since, fetchSince, watermark, cursor, ticket,
                  visible, events, newest, behind, overtaken>>
  BY FetchPageFacts
<1>3. \A u \in Tasks :
        \/ collected'[r][u] = collected[r][u]
        \/ /\ collected'[r][u].updated = tasks[u].updated
           /\ collected'[r][u].content = tasks[u].content
  BY <1>1 DEF Collect
<1>4. phase[r] = "fetch" /\ clock <= started[r] + FetchSpan
  BY FetchPageFacts DEF ClockInv
<1>5. ClockInv'
  <2>1. \A q \in Runners : stream'[q] <= LastStream
    <3>1. stream[r] \in Nat /\ LastStream \in Nat /\ stream[r] <= LastStream
      BY <1>4, ListAssumption, FlagAssumption DEF ClockInv, LastStream, TypeOK
    <3>2. stream'[r] <= LastStream
      BY <3>1, FetchPageFacts
    <3> QED
      BY <3>2, FetchPageFacts DEF ClockInv
  <2>2. \A q \in Runners : /\ phase'[q] # "idle" => phase[q] # "idle"
                           /\ phase'[q] = "fetch" => phase[q] = "fetch"
    BY <1>4, FetchPageFacts
  <2> QED
    BY <1>2, <2>1, <2>2 DEF ClockInv, Exists, FetchFrom
<1>6. CopyInv'
  <2> SUFFICES ASSUME NEW q \in Runners, NEW u \in Tasks, collected'[q][u] # None
               PROVE  phase'[q] # "idle" /\ CopyOf(q, u, collected[q][u])'
    BY DEF CopyInv
  <2>1. CASE q = r
    <3>1. phase'[q] # "idle"
      BY <2>1, FetchPageFacts
    <3>2. CASE collected'[r][u] = collected[r][u]
      BY <1>2, <2>1, <3>1, <3>2 DEF CopyInv, CopyOf
    <3>3. CASE collected'[r][u].updated = tasks[u].updated
               /\ collected'[r][u].content = tasks[u].content
      <4>1. /\ tasks[u].updated \in Nat /\ clock \in Nat /\ started[r] \in Nat
            /\ FetchSpan \in Nat /\ tasks[u].updated <= clock
        BY TypeFacts, BoundAssumption DEF ClockInv
      <4> QED
        BY <1>2, <1>4, <2>1, <3>1, <3>3, <4>1 DEF CopyOf
    <3> QED
      BY <1>3, <3>2, <3>3
  <2>2. CASE q # r
    BY <1>2, <2>2, FetchPageFacts DEF CopyInv, CopyOf
  <2> QED
    BY <2>1, <2>2
<1>7. HistoryInv' /\ RowInv'
  BY <1>2 DEF HistoryInv, RowInv, RowOf
<1> QED
  BY <1>5, <1>6, <1>7

(* What the three ways to take a task off the Map have in common.          *)
LEMMA TakeFacts ==
  ASSUME TypeOK, NEW r \in Runners, NEW t \in Tasks,
         Ingest(r, t) \/ Quarantine(r, t) \/ Fail(r, t)
  PROVE  /\ phase[r] = "process" /\ collected[r][t] # None
         /\ collected'[r][t] = None
         /\ \A u \in Tasks : u # t => collected'[r][u] = collected[r][u]
         /\ \A q \in Runners : q # r => /\ collected'[q] = collected[q]
                                        /\ watermark'[q] = watermark[q]
                                        /\ frozen'[q] = frozen[q]
         /\ UNCHANGED <<clock, tasks, phase, started, since, fetchSince, stream, page, got,
                        cursor>>
<1>1. IsNext(r, t) /\ Done(r, t)
      /\ UNCHANGED <<clock, tasks, phase, started, since, fetchSince, stream, page, got,
                     cursor>>
  BY DEF Ingest, Quarantine, Fail, sourceVars, fetchVars
<1>2. \A q \in Runners : q # r => watermark'[q] = watermark[q] /\ frozen'[q] = frozen[q]
  BY DEF Ingest, Quarantine, Fail, Advance, TypeOK
<1> QED
  BY <1>1, <1>2 DEF IsNext, Pending, Done, TypeOK

(* The clock part of such a step: the watermark moves within the run.      *)
LEMMA TakeClock ==
  ASSUME BaseInv, NEW r \in Runners, NEW t \in Tasks,
         Ingest(r, t) \/ Quarantine(r, t) \/ Fail(r, t)
  PROVE  /\ ClockInv' /\ CopyInv'
         /\ watermark'[r] = watermark[r] \/ watermark'[r] = collected[r][t].updated
<1> USE DEF BaseInv
<1>1. watermark'[r] = watermark[r] \/ watermark'[r] = collected[r][t].updated
  BY DEF Ingest, Quarantine, Fail, Advance, TypeOK
<1>2. collected[r][t].updated <= clock /\ collected[r][t].updated <= started[r] + FetchSpan
  <2>1. CopyOf(r, t, collected[r][t]) /\ tasks[t].updated <= clock
    BY TakeFacts DEF CopyInv, ClockInv
  <2>2. collected[r][t].updated \in Nat /\ tasks[t].updated \in Nat /\ clock \in Nat
    BY TakeFacts, TypeFacts
  <2> QED
    BY <2>1, <2>2 DEF CopyOf
<1>3. ClockInv'
  <2>1. \A q \in Runners : phase[q] # "idle" =>
          watermark'[q] <= clock /\ watermark'[q] <= started[q] + FetchSpan
    BY <1>1, <1>2, TakeFacts DEF ClockInv
  <2>2. \A q \in Runners : phase[q] = "fetch" => watermark'[q] = since[q]
    BY TakeFacts DEF ClockInv
  <2> QED
    BY <2>1, <2>2, TakeFacts DEF ClockInv, Exists, FetchFrom
<1>4. CopyInv'
  <2>1. \A q \in Runners, u \in Tasks :
          collected'[q][u] # None => collected'[q][u] = collected[q][u]
    BY TakeFacts
  <2> QED
    BY <2>1, TakeFacts DEF CopyInv, CopyOf
<1> QED
  BY <1>1, <1>3, <1>4

(* After its transaction, a task's rows come from the collected content,   *)
(* its latest event too unless a newer copy was applied before, and its    *)
(* history is in order if it was; no other task is touched.                *)
LEMMA UpsertFacts ==
  ASSUME BaseInv, NEW r \in Runners, NEW t \in Tasks, Ingest(r, t)
  PROVE  LET copy == collected[r][t] IN
         /\ Resolvable(copy.content) /\ copy.content \in Contents
         /\ ticket'[t] = Row(copy.content)
         /\ visible'[t] = MatchedBUs(copy.content)
         /\ events'[t] # <<>>
         /\ t \notin behind' => LatestEvent(events'[t]).stage = Stage(copy.content)
         /\ newest'[t] = (IF copy.updated < newest[t] THEN newest[t] ELSE copy.updated)
         /\ EndsBy(events'[t], newest'[t])
         /\ t \notin overtaken' => HistoryUpTo(events'[t], newest'[t])
         /\ t \in behind' => t \in overtaken'
         /\ copy.updated >= newest[t] =>
              (t \in behind' => t \in behind) /\ (t \in overtaken' => t \in overtaken)
         /\ copy.updated < newest[t] =>
              \/ t \in behind'
              \/ /\ ticket'[t] = ticket[t] /\ visible'[t] = visible[t]
                 /\ events'[t] = events[t] /\ t \notin behind
         /\ \A u \in Tasks : u # t => /\ ticket'[u] = ticket[u]
                                      /\ visible'[u] = visible[u]
                                      /\ events'[u] = events[u]
                                      /\ newest'[u] = newest[u]
                                      /\ (u \in behind') = (u \in behind)
                                      /\ (u \in overtaken') = (u \in overtaken)
<1> DEFINE c == collected[r][t].content
           at == collected[r][t].updated
<1>1. Resolvable(c) /\ Upsert(t, c, at) /\ Recall(t, c, at) /\ collected[r][t] # None
  BY TakeFacts DEF Ingest, BaseInv
<1>2. /\ c \in Contents /\ at \in Moments /\ at \in Nat /\ newest[t] \in Nat
      /\ events[t] \in Seq([stage : Stages, at : Moments])
  BY <1>1, TypeFacts DEF BaseInv
<1>3. /\ ticket \in [Tasks -> Rows \cup {None}]
      /\ visible \in [Tasks -> SUBSET BUs]
      /\ events \in [Tasks -> Seq([stage : Stages, at : Moments])]
      /\ newest \in [Tasks -> Moments]
  BY DEF BaseInv, TypeOK
<1>4. Stage(c) \in Stages
  BY <1>1, <1>2, RowType
<1>5. /\ EndsBy(events[t], newest[t])
      /\ t \notin overtaken => HistoryUpTo(events[t], newest[t])
      /\ t \in behind => t \in overtaken
  BY DEF BaseInv, HistoryInv
<1> HIDE DEF c, at
<1>6. newest'[t] = (IF at < newest[t] THEN newest[t] ELSE at)
      /\ \A u \in Tasks : u # t => newest'[u] = newest[u]
  BY <1>1, <1>3 DEF Recall
<1>7. PICK last \in Nat : last = newest'[t] /\ at <= last /\ newest[t] <= last
                          /\ (last = at \/ last = newest[t])
  BY <1>2, <1>6
<1>8. EndsBy(events[t], last) /\ (t \notin overtaken => HistoryUpTo(events[t], last))
  BY <1>2, <1>5, <1>7, HistoryLater
<1>9. CASE UpToDate(t, c)
  <2>1. UNCHANGED dbVars /\ UNCHANGED <<behind, overtaken>>
    BY <1>1, <1>9 DEF Upsert, Recall
  <2>2. PICK d \in Contents : RowOf(t, d)
    BY <1>9 DEF BaseInv, RowInv, UpToDate
  <2>3. Row(d) = Row(c) /\ MatchedBUs(d) = MatchedBUs(c) /\ Stage(d) = Stage(c)
    BY <1>9, <2>2, HashDeterminesRow DEF RowOf, UpToDate
  <2> QED
    BY <1>1, <1>2, <1>5, <1>6, <1>7, <1>8, <2>1, <2>2, <2>3 DEF RowOf, dbVars, c, at
<1>10. CASE ~UpToDate(t, c)
  <2> DEFINE new == StageEvents(events[t], Stage(c), at)
  <2>1. /\ ticket' = [ticket EXCEPT ![t] = Row(c)]
        /\ visible' = [visible EXCEPT ![t] = MatchedBUs(c)]
        /\ events' = [events EXCEPT ![t] = new]
        /\ behind' = IF at < newest[t] THEN behind \cup {t} ELSE behind \ {t}
        /\ overtaken' = IF at < newest[t] THEN overtaken \cup {t} ELSE overtaken
    BY <1>1, <1>10 DEF Upsert, Recall
  <2>2. new # <<>> /\ EndsBy(new, last)
    BY <1>2, <1>4, <1>7, <1>8, StageEventsEnd
  <2>3. ASSUME at >= newest[t]
        PROVE  /\ LatestEvent(new).stage = Stage(c)
               /\ t \notin overtaken => HistoryUpTo(new, last)
    <3>1. last = at
      BY <1>2, <1>6, <1>7, <2>3
    <3> QED
      BY <1>2, <1>4, <1>8, <3>1, StageEventsLatest, StageEventsKeep
  <2> HIDE DEF new
  <2>4. ticket'[t] = Row(c) /\ visible'[t] = MatchedBUs(c) /\ events'[t] = new
    BY <2>1, <1>3
  <2>5. \A u \in Tasks : u # t => /\ ticket'[u] = ticket[u]
                                  /\ visible'[u] = visible[u]
                                  /\ events'[u] = events[u]
                                  /\ (u \in behind') = (u \in behind)
                                  /\ (u \in overtaken') = (u \in overtaken)
    BY <2>1, <1>3
  <2>6. /\ at < newest[t] => t \in behind' /\ t \in overtaken'
        /\ at >= newest[t] => t \notin behind' /\ (t \in overtaken' <=> t \in overtaken)
        /\ at < newest[t] \/ at >= newest[t]
    BY <1>2, <2>1
  <2> QED
    BY <1>1, <1>2, <1>6, <1>7, <2>2, <2>3, <2>4, <2>5, <2>6 DEF c, at
<1> QED
  BY <1>9, <1>10

LEMMA BaseIngest ==
  ASSUME BaseInv, TypeOK', NEW r \in Runners, NEW t \in Tasks, Ingest(r, t)
  PROVE  BaseInv'
<1> USE DEF BaseInv
<1>1. collected[r][t] # None /\ tasks' = tasks
  BY TakeFacts
<1>2. ClockInv' /\ CopyInv'
  BY TakeClock
<1>3. HistoryInv'
  <2> SUFFICES ASSUME NEW u \in Tasks
               PROVE  /\ newest'[u] <= tasks[u].updated
                      /\ EndsBy(events'[u], newest'[u])
                      /\ u \notin overtaken' => HistoryUpTo(events'[u], newest'[u])
                      /\ u \in behind' => u \in overtaken'
    BY <1>1 DEF HistoryInv
  <2>1. CASE u = t
    <3>1. collected[r][t].updated <= tasks[t].updated /\ newest[t] <= tasks[t].updated
      BY <1>1 DEF CopyInv, CopyOf, HistoryInv
    <3> QED
      BY <2>1, <3>1, UpsertFacts
  <2>2. CASE u # t
    BY <2>2, UpsertFacts DEF HistoryInv
  <2> QED
    BY <2>1, <2>2
<1>4. RowInv'
  <2> SUFFICES ASSUME NEW u \in Tasks, ticket'[u] # None
               PROVE  \E c \in Contents : RowOf(u, c)'
    BY DEF RowInv
  <2>1. CASE u = t
    BY <2>1, UpsertFacts DEF RowOf
  <2>2. CASE u # t
    <3>1. /\ ticket'[u] = ticket[u] /\ visible'[u] = visible[u] /\ events'[u] = events[u]
          /\ (u \in behind') = (u \in behind)
      BY <2>2, UpsertFacts
    <3> QED
      BY <3>1 DEF RowInv, RowOf
  <2> QED
    BY <2>1, <2>2
<1> QED
  BY <1>2, <1>3, <1>4

LEMMA BaseSkip ==
  ASSUME BaseInv, TypeOK', NEW r \in Runners, NEW t \in Tasks,
         Quarantine(r, t) \/ Fail(r, t)
  PROVE  BaseInv'
<1> USE DEF BaseInv
<1>1. UNCHANGED <<ticket, visible, events, newest, behind, overtaken>>
  BY DEF Quarantine, Fail, dbVars, historyVars
<1>2. ClockInv' /\ CopyInv'
  BY TakeClock
<1>3. HistoryInv'
  BY <1>1, TakeFacts DEF HistoryInv
<1>4. RowInv'
  BY <1>1 DEF RowInv, RowOf
<1> QED
  BY <1>2, <1>3, <1>4

(* However a run ends, it touches that run and at most the cursor.         *)
LEMMA EndRunFacts ==
  ASSUME TypeOK, NEW r \in Runners, CloseRun(r) \/ FatalError(r) \/ Crash(r)
  PROVE  /\ phase'[r] = "idle" /\ stream'[r] = 0 /\ got'[r] = {} /\ page'[r] = 0
         /\ \A u \in Tasks : collected'[r][u] = None
         /\ \A q \in Runners : q # r =>
              /\ phase'[q] = phase[q] /\ started'[q] = started[q] /\ since'[q] = since[q]
              /\ fetchSince'[q] = fetchSince[q] /\ watermark'[q] = watermark[q]
              /\ stream'[q] = stream[q] /\ page'[q] = page[q] /\ got'[q] = got[q]
              /\ collected'[q] = collected[q] /\ frozen'[q] = frozen[q]
         /\ cursor' = cursor \/ (CloseRun(r) /\ cursor' = watermark[r])
         /\ UNCHANGED <<clock, tasks, ticket, visible, events, newest, behind, overtaken>>
<1>1. /\ EndRun(r) /\ UNCHANGED <<sourceVars, dbVars, historyVars>>
      /\ cursor' = cursor \/ (CloseRun(r) /\ cursor' = watermark[r])
  BY DEF CloseRun, FatalError, Crash, Abandon
<1>2. \A q \in Runners : q # r =>
              /\ phase'[q] = phase[q] /\ started'[q] = started[q] /\ since'[q] = since[q]
              /\ fetchSince'[q] = fetchSince[q] /\ watermark'[q] = watermark[q]
              /\ stream'[q] = stream[q] /\ page'[q] = page[q] /\ got'[q] = got[q]
              /\ collected'[q] = collected[q] /\ frozen'[q] = frozen[q]
  BY <1>1 DEF EndRun, TypeOK
<1>3. /\ phase'[r] = "idle" /\ stream'[r] = 0 /\ got'[r] = {} /\ page'[r] = 0
      /\ \A u \in Tasks : collected'[r][u] = None
  BY <1>1 DEF EndRun, TypeOK
<1> QED
  BY <1>1, <1>2, <1>3 DEF sourceVars, dbVars, historyVars

LEMMA BaseEndRun ==
  ASSUME BaseInv, TypeOK', NEW r \in Runners, CloseRun(r) \/ FatalError(r) \/ Crash(r)
  PROVE  BaseInv'
<1> USE DEF BaseInv
<1>1. cursor' <= clock
  BY EndRunFacts DEF ClockInv, CloseRun
<1>2. ClockInv'
  <2>1. \A q \in Runners : q # r =>
              /\ phase'[q] = phase[q] /\ started'[q] = started[q] /\ since'[q] = since[q]
              /\ fetchSince'[q] = fetchSince[q] /\ watermark'[q] = watermark[q]
              /\ stream'[q] = stream[q]
    BY EndRunFacts
  <2>2. phase'[r] = "idle" /\ clock' = clock /\ tasks' = tasks /\ stream'[r] <= LastStream
    BY EndRunFacts, ListAssumption, FlagAssumption DEF LastStream
  <2> QED
    BY <1>1, <2>1, <2>2 DEF ClockInv, Exists, FetchFrom
<1>3. CopyInv'
  BY EndRunFacts DEF CopyInv, CopyOf
<1>4. HistoryInv' /\ RowInv'
  BY EndRunFacts DEF HistoryInv, RowInv, RowOf
<1> QED
  BY <1>2, <1>3, <1>4

LEMMA BaseStep == BaseInv /\ [Next]_vars => BaseInv'
<1> SUFFICES ASSUME BaseInv, [Next]_vars PROVE BaseInv'
  OBVIOUS
<1>1. TypeOK'
  BY TypeStep DEF BaseInv
<1>2. CASE UNCHANGED vars
  <2>1. UNCHANGED <<clock, tasks, phase, started, since, fetchSince, stream, collected,
                    watermark, cursor, ticket, visible, events, newest, behind, overtaken>>
    BY <1>2 DEF vars, sourceVars, runVars, fetchVars, dbVars, historyVars
  <2> QED
    BY <1>1, <2>1 DEF BaseInv, ClockInv, CopyInv, CopyOf, HistoryInv, RowInv, RowOf, Exists
<1> QED
  BY <1>1, <1>2, BaseEdit, BaseStartRun, BaseFetchPage, BaseIngest, BaseSkip, BaseEndRun
  DEF Next

LEMMA BaseImpliesRowsAgree == BaseInv => RowsAgree
<1> SUFFICES ASSUME BaseInv, NEW t \in Tasks, ticket[t] # None
             PROVE  /\ visible[t] # {}
                    /\ ticket[t].origin = IF Cardinality(visible[t]) = 1
                                          THEN CHOOSE b \in visible[t] : TRUE ELSE None
                    /\ events[t] # <<>>
                    /\ t \notin behind => LatestEvent(events[t]).stage = ticket[t].stage
                    /\ t \notin overtaken => InOrder(events[t])
  BY DEF RowsAgree
<1>1. PICK c \in Contents : RowOf(t, c)
  BY DEF BaseInv, RowInv
<1>2. visible[t] # {}
  BY <1>1 DEF RowOf, Resolvable
<1>3. ticket[t].origin = IF Cardinality(visible[t]) = 1
                         THEN CHOOSE b \in visible[t] : TRUE ELSE None
  BY <1>1 DEF RowOf, Row, Origin
<1>4. t \notin behind => LatestEvent(events[t]).stage = ticket[t].stage
  BY <1>1 DEF RowOf, Row
<1>5. ASSUME t \notin overtaken PROVE InOrder(events[t])
  <2> DEFINE n == Len(events[t])
  <2>1. n \in Nat
    BY TypeFacts DEF BaseInv
  <2>2. /\ \A i, j \in 1 .. n : i <= j => events[t][i].at <= events[t][j].at
        /\ \A i \in 1 .. n - 1 : events[t][i].stage # events[t][i + 1].stage
    BY <1>5 DEF BaseInv, HistoryInv, HistoryUpTo
  <2> HIDE DEF n
  <2>3. \A i \in 1 .. n - 1 : i \in 1 .. n /\ i + 1 \in 1 .. n /\ i <= i + 1
    BY <2>1
  <2>4. \A i \in 1 .. n - 1 : events[t][i].at <= events[t][i + 1].at
    BY <2>2, <2>3
  <2> QED
    BY <2>2, <2>4 DEF n, InOrder
<1> QED
  BY <1>1, <1>2, <1>3, <1>4, <1>5 DEF RowOf

(* A ticket's stage, audience, origin and history never disagree, however  *)
(* many runs overlap and however edits, failures and crashes interleave    *)
(* and whatever the pages do, save that an older copy written over what a  *)
(* newer one had left sets the stage and the history at odds.              *)
THEOREM RowsAlwaysAgree == Spec => []RowsAgree
<1>1. Init => BaseInv
  BY BaseInit
<1>2. BaseInv /\ [Next]_vars => BaseInv'
  BY BaseStep
<1>3. BaseInv => RowsAgree
  BY BaseImpliesRowsAgree
<1> QED
  BY <1>1, <1>2, <1>3, PTL DEF Spec

-----------------------------------------------------------------------------
(* One run at a time                                                       *)

OneRunner == \A r, q \in Runners : r = q

\* No copy of the only run is older than one applied before.
FreshInv ==
  /\ behind = {} /\ overtaken = {}
  /\ \A r \in Runners, t \in Tasks :
       collected[r][t] # None => newest[t] <= collected[r][t].updated

LEMMA FreshStep == OneRunner /\ BaseInv /\ FreshInv /\ [Next]_vars => FreshInv'
<1> SUFFICES ASSUME OneRunner, BaseInv, FreshInv, [Next]_vars PROVE FreshInv'
  OBVIOUS
<1>0. TypeOK /\ HistoryInv
  BY DEF BaseInv
<1>1. ASSUME UNCHANGED <<collected, newest, behind, overtaken>> PROVE FreshInv'
  BY <1>1 DEF FreshInv
<1>2. ASSUME NEW t \in Tasks, Edit(t) PROVE FreshInv'
  BY <1>1, <1>2 DEF Edit, runVars, historyVars
<1>3. ASSUME NEW r \in Runners, StartRun(r) PROVE FreshInv'
  BY <1>0, <1>1, <1>3, StartRunFacts
<1>4. ASSUME NEW r \in Runners, FetchPage(r) PROVE FreshInv'
  <2>1. PICK S \in SUBSET Matching(r, stream[r]) : collected'[r] = Collect(r, S)
    BY <1>0, <1>4, FetchPageFacts
  <2>2. \A u \in Tasks : \/ collected'[r][u] = collected[r][u]
                         \/ collected'[r][u].updated = tasks[u].updated
    BY <2>1 DEF Collect
  <2>3. UNCHANGED <<newest, behind, overtaken>>
    BY <1>0, <1>4, FetchPageFacts
  <2> QED
    BY <1>0, <2>2, <2>3 DEF FreshInv, HistoryInv, OneRunner
<1>5. ASSUME NEW r \in Runners, NEW t \in Tasks, Ingest(r, t) PROVE FreshInv'
  <2>1. collected[r][t] # None /\ collected[r][t].updated >= newest[t]
    BY <1>0, <1>5, TakeFacts, TypeFacts DEF FreshInv
  <2>2. behind' = {} /\ overtaken' = {}
    <3>1. behind' \in SUBSET Tasks /\ overtaken' \in SUBSET Tasks
      BY TypeStep, <1>0 DEF TypeOK
    <3>2. \A u \in Tasks : u \notin behind' /\ u \notin overtaken'
      BY <1>5, <2>1, UpsertFacts DEF FreshInv
    <3> QED
      BY <3>1, <3>2
  <2>3. \A u \in Tasks : u # t => newest'[u] = newest[u]
    BY <1>5, UpsertFacts
  <2>4. collected'[r][t] = None /\ \A u \in Tasks : u # t => collected'[r][u] = collected[r][u]
    BY <1>0, <1>5, TakeFacts
  <2> QED
    BY <2>2, <2>3, <2>4 DEF FreshInv, OneRunner
<1>6. ASSUME NEW r \in Runners, NEW t \in Tasks, Quarantine(r, t) \/ Fail(r, t)
      PROVE  FreshInv'
  <2>1. UNCHANGED <<newest, behind, overtaken>>
    BY <1>6 DEF Quarantine, Fail, historyVars
  <2>2. \A u \in Tasks : collected'[r][u] = None \/ collected'[r][u] = collected[r][u]
    BY <1>0, <1>6, TakeFacts
  <2> QED
    BY <2>1, <2>2 DEF FreshInv, OneRunner
<1>7. ASSUME NEW r \in Runners, CloseRun(r) \/ FatalError(r) \/ Crash(r) PROVE FreshInv'
  BY <1>0, <1>7, EndRunFacts DEF FreshInv, OneRunner
<1>8. CASE UNCHANGED vars
  BY <1>1, <1>8 DEF vars, runVars, historyVars
<1> QED
  BY <1>2, <1>3, <1>4, <1>5, <1>6, <1>7, <1>8 DEF Next

(* As long as nobody runs the engine by hand, no task is ever left behind  *)
(* or overtaken, so that RowsAgree and NoLostUpdate hold of every task     *)
(* without exception.                                                      *)
THEOREM AloneNeverBehind == OneRunner => (Spec => [](behind = {} /\ overtaken = {}))
<1> SUFFICES ASSUME OneRunner PROVE Spec => [](behind = {} /\ overtaken = {})
  OBVIOUS
<1>1. Init => BaseInv /\ FreshInv
  BY BaseInit DEF Init, FreshInv
<1>2. BaseInv /\ FreshInv /\ [Next]_vars => (BaseInv /\ FreshInv)'
  BY BaseStep, FreshStep
<1>3. FreshInv => behind = {} /\ overtaken = {}
  BY DEF FreshInv
<1> QED
  BY <1>1, <1>2, <1>3, PTL DEF Spec
=============================================================================
