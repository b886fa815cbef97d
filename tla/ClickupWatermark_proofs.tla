--------------------- MODULE ClickupWatermark_proofs ---------------------
(***************************************************************************)
(* The watermark of ClickupSync never passes an edit that the database     *)
(* lacks, for every value of the constants under which pages are stable,   *)
(* failures come in task order, retrieval is shorter than the overlap and  *)
(* no stream is cut off at MAX_PAGES, however many runs overlap.  Runs     *)
(* ClickupFreeze and ClickupPaging show that the first two are needed.     *)
(***************************************************************************)
EXTENDS ClickupSync_proofs

SafeRegime ==
  /\ StablePages
  /\ ~OutOfOrderFailures
  /\ FetchSpan < Overlap
  /\ Cardinality(Tasks) <= MaxPages * PageSize

-----------------------------------------------------------------------------
(* The inductive invariant                                                 *)

\* The tasks a run owes: in its window and not edited since it started.
Owed(r, t) ==
  Exists(t) /\ fetchSince[r] < tasks[t].updated /\ tasks[t].updated < started[r]

StreamOf(t) == IF tasks[t].archived THEN ListOf[t] ELSE 0

\* The present copy of the task was applied: it is reflected, or an older one
\* was written over it later.
Kept(t) ==
  Resolvable(tasks[t].content) =>
    newest[t] = tasks[t].updated /\ (Reflected(t) \/ t \in behind)

\* While it retrieves, a run has copies of all the owed tasks it has passed,
\* and the offset of the next page counts exactly the tasks it has passed.
Fetching(r) ==
  phase[r] = "fetch" =>
    /\ page[r] < MaxPages
    /\ got[r] \subseteq Matching(r, stream[r])
    /\ Cardinality(got[r]) = page[r] * PageSize
    /\ \A g \in got[r], m \in Matching(r, stream[r]) \ got[r] :
         tasks[m].updated < started[r] => Earlier(g, m)
    /\ \A t \in Tasks :
         Owed(r, t) /\ (StreamOf(t) < stream[r] \/ t \in got[r]) => collected[r][t] # None

\* While it processes, every owed task is still to come, or is kept, or
\* failed and froze the watermark at or before itself.
Processing(r) ==
  phase[r] = "process" =>
    \A t \in Tasks : Owed(r, t) =>
      \/ collected[r][t] # None
      \/ Kept(t)
      \/ frozen[r] /\ (watermark[r] = since[r] \/ watermark[r] <= tasks[t].updated)

\* What a run leaves out of its window was kept before it started.
Windowed(r) ==
  phase[r] # "idle" =>
    \A t \in Tasks : Exists(t) /\ tasks[t].updated <= fetchSince[r] => Kept(t)

\* A run that has not started has fetched nothing.
Idle(r) == phase[r] = "idle" => stream[r] = 0 /\ page[r] = 0 /\ got[r] = {}

IdleInv == \A r \in Runners : Idle(r)
FetchInv == \A r \in Runners : Fetching(r)
ProcessInv == \A r \in Runners : Processing(r)
WindowInv == \A r \in Runners : Windowed(r)
CursorInv ==
  \A t \in Tasks : Exists(t) => tasks[t].updated > FetchFrom(cursor) \/ Kept(t)

IInv ==
  /\ BaseInv
  /\ IdleInv
  /\ FetchInv
  /\ ProcessInv
  /\ WindowInv
  /\ CursorInv

-----------------------------------------------------------------------------
(* Lemmas about pages                                                      *)

LEMMA FiniteSubset ==
  ASSUME NEW S \in SUBSET Tasks
  PROVE  /\ IsFiniteSet(S) /\ Cardinality(S) \in Nat
         /\ \A R \in SUBSET S : /\ Cardinality(R) <= Cardinality(S)
                                /\ Cardinality(R) = Cardinality(S) => R = S
<1>1. IsFiniteSet(S)
  BY TasksAssumption, FS_Subset
<1> QED
  BY <1>1, FS_Subset, FS_CardinalityType

LEMMA DisjointUnion ==
  ASSUME NEW S \in SUBSET Tasks, NEW R \in SUBSET Tasks, S \cap R = {}
  PROVE  Cardinality(S \cup R) = Cardinality(S) + Cardinality(R)
<1>1. IsFiniteSet(S) /\ IsFiniteSet(R) /\ Cardinality(S) \in Nat /\ Cardinality(R) \in Nat
  BY FiniteSubset
<1>2. Cardinality(S \cup R) = Cardinality(S) + Cardinality(R) - Cardinality(S \cap R)
  BY <1>1, FS_Union
<1>3. Cardinality(S \cap R) = 0
  BY FS_EmptySet
<1> QED
  BY <1>1, <1>2, <1>3

(* Offsets add up.                                                         *)
LEMMA OffsetStep ==
  ASSUME NEW n \in Nat
  PROVE  n * PageSize \in Nat /\ (n + 1) * PageSize = n * PageSize + PageSize
<1>1. PageSize \in Nat
  BY BoundAssumption
<1> QED
  BY <1>1

(* date_updated orders tasks strictly.                                     *)
LEMMA EarlierAsymmetric ==
  ASSUME TypeOK, NEW t \in Tasks, NEW u \in Tasks, Earlier(t, u)
  PROVE  ~Earlier(u, t)
<1>1. t \in Nat /\ u \in Nat
  BY TasksAssumption
<1> QED
  BY <1>1, TypeFacts DEF Earlier

(* The tasks an offset skips were all passed by the stream, save those     *)
(* edited since the run started.                                           *)
LEMMA SkippedKnown ==
  ASSUME TypeOK, NEW r \in Runners, Fetching(r), phase[r] = "fetch",
         NEW skipped, IsPrefix(skipped, Matching(r, stream[r]), page[r] * PageSize),
         NEW t \in skipped, tasks[t].updated < started[r]
  PROVE  t \in got[r]
<1> DEFINE M == Matching(r, stream[r])
<1>1. M \subseteq Tasks /\ skipped \subseteq M /\ got[r] \subseteq M
  BY DEF Matching, IsPrefix, Fetching
<1>2. page[r] \in Nat /\ page[r] * PageSize \in Nat /\ Cardinality(got[r]) = page[r] * PageSize
  BY OffsetStep DEF TypeOK, Fetching
<1>3. Cardinality(M) \in Nat
  BY <1>1, FiniteSubset
<1>4. CASE Cardinality(M) <= page[r] * PageSize
  <2>1. Cardinality(got[r]) <= Cardinality(M)
    BY <1>1, FiniteSubset
  <2>2. got[r] = M
    BY <1>1, <1>2, <1>3, <1>4, <2>1, FiniteSubset
  <2> QED
    BY <1>1, <2>2
<1>5. CASE ~(Cardinality(M) <= page[r] * PageSize)
  <2> SUFFICES ASSUME t \notin got[r] PROVE FALSE
    OBVIOUS
  <2>1. Cardinality(skipped) = Cardinality(got[r])
    BY <1>2, <1>5 DEF IsPrefix
  <2>2. ASSUME NEW g \in got[r], g \notin skipped PROVE FALSE
    <3>1. Earlier(g, t)
      BY <1>1 DEF Fetching
    <3>2. Earlier(t, g)
      BY <1>1, <2>2 DEF IsPrefix
    <3> QED
      BY <1>1, <3>1, <3>2, EarlierAsymmetric
  <2>3. got[r] \subseteq skipped
    BY <2>2
  <2>4. skipped \in SUBSET Tasks
    BY <1>1
  <2>5. got[r] = skipped
    BY <2>1, <2>3, <2>4, FiniteSubset
  <2> QED
    BY <2>5
<1> QED
  BY <1>4, <1>5

(* A full page after a full offset passes one page more.                   *)
LEMMA PassedCount ==
  ASSUME NEW n \in Nat, NEW M \in SUBSET Tasks, NEW skipped, NEW S,
         IsPrefix(skipped, M, n * PageSize), IsPrefix(S, M \ skipped, PageSize),
         Cardinality(S) = PageSize
  PROVE  Cardinality(skipped \cup S) = (n + 1) * PageSize
<1>1. /\ skipped \in SUBSET Tasks /\ S \in SUBSET Tasks /\ skipped \cap S = {}
      /\ skipped \subseteq M
  BY DEF IsPrefix
<1>2. PageSize \in Nat \ {0}
  BY BoundAssumption
<1>3. S # {}
  BY <1>2, FS_EmptySet
<1>4. skipped # M
  BY <1>3 DEF IsPrefix
<1>5. Cardinality(skipped) = n * PageSize
  BY <1>4 DEF IsPrefix
<1>6. Cardinality(skipped \cup S) = n * PageSize + PageSize
  BY <1>1, <1>5, DisjointUnion
<1> QED
  BY <1>2, <1>6, OffsetStep

(* When a stream ends, every owed task it matches was passed by then.      *)
LEMMA StreamComplete ==
  ASSUME SafeRegime, TypeOK, NEW r \in Runners, Fetching(r), phase[r] = "fetch",
         NEW skipped, NEW S,
         IsPrefix(skipped, Matching(r, stream[r]), page[r] * PageSize),
         IsPrefix(S, Matching(r, stream[r]) \ skipped, PageSize),
         ~(Cardinality(S) = PageSize /\ skipped \cup S # Matching(r, stream[r])
             /\ page[r] + 1 < MaxPages),
         NEW t \in Matching(r, stream[r]), tasks[t].updated < started[r]
  PROVE  t \in got[r] \cup S
<1> DEFINE M == Matching(r, stream[r])
<1>1. M \in SUBSET Tasks /\ skipped \subseteq M /\ S \subseteq M \ skipped
  BY DEF Matching, IsPrefix
<1>2. CASE t \in skipped
  BY <1>2, SkippedKnown
<1>3. CASE t \in S
  BY <1>3
<1>4. CASE t \notin skipped \cup S
  <2>1. M \ skipped # S /\ skipped \cup S # M
    BY <1>4
  <2>2. Cardinality(S) = PageSize
    BY <2>1 DEF IsPrefix
  <2>3. page[r] \in Nat /\ MaxPages \in Nat /\ page[r] < MaxPages /\ ~(page[r] + 1 < MaxPages)
    BY <2>1, <2>2, BoundAssumption DEF TypeOK, Fetching
  <2>4. page[r] + 1 = MaxPages
    BY <2>3
  <2>5. Cardinality(skipped \cup S) = MaxPages * PageSize
    <3>1. Cardinality(skipped \cup S) = (page[r] + 1) * PageSize
      <4> HIDE DEF M
      <4> QED
        BY <1>1, <2>2, <2>3, PassedCount DEF M
    <3> QED
      BY <2>4, <3>1
  <2>6. skipped \cup S \in SUBSET Tasks
    BY <1>1
  <2>7. Cardinality(skipped \cup S) <= Cardinality(Tasks)
        /\ Cardinality(skipped \cup S) \in Nat /\ Cardinality(Tasks) \in Nat
    BY <2>6, FiniteSubset
  <2>8. Cardinality(skipped \cup S) = Cardinality(Tasks)
    BY <2>5, <2>7 DEF SafeRegime
  <2>9. skipped \cup S = Tasks
    BY <2>6, <2>8, FiniteSubset
  <2> QED
    BY <1>1, <1>4, <2>9
<1> QED
  BY <1>2, <1>3, <1>4

(* An owed task of the current stream is matched by its query.             *)
LEMMA OwedMatches ==
  ASSUME TypeOK, ClockInv, NEW r \in Runners, NEW t \in Tasks, Owed(r, t),
         StreamOf(t) = stream[r]
  PROVE  t \in Matching(r, stream[r])
BY ListAssumption DEF Owed, StreamOf, Matching, TypeOK

LEMMA StreamType ==
  TypeOK => LastStream \in Nat /\ \A r \in Runners : stream[r] \in Nat
BY ListAssumption, FlagAssumption DEF TypeOK, LastStream

LEMMA StreamOfType ==
  ASSUME TypeOK, ClockInv, NEW t \in Tasks
  PROVE  StreamOf(t) \in Nat /\ StreamOf(t) <= LastStream
BY ListAssumption, FlagAssumption DEF StreamOf, LastStream, ClockInv, TypeOK

-----------------------------------------------------------------------------
(* Lemmas about the watermark                                              *)

(* Under SafeRegime the next run's window reaches strictly below a mark,   *)
(* by more than a retrieval lasts.                                         *)
LEMMA WindowReaches ==
  ASSUME SafeRegime, NEW mark \in Nat, NEW from \in Nat, NEW m \in Nat, 0 < m,
         mark <= from + FetchSpan, from <= m
  PROVE  m > FetchFrom(mark)
BY BoundAssumption DEF SafeRegime, FetchFrom

LEMMA WindowBelow ==
  ASSUME SafeRegime, NEW mark \in Nat, NEW m \in Nat, 0 < m, mark <= m
  PROVE  m > FetchFrom(mark)
BY BoundAssumption DEF SafeRegime, FetchFrom

(* Reflected(t) depends on the task's content and its rows only, Kept(t)   *)
(* also on what was applied.                                               *)
LEMMA ReflectedSame ==
  ASSUME NEW t \in Tasks, tasks'[t] = tasks[t],
         ticket'[t] = ticket[t], visible'[t] = visible[t], events'[t] = events[t]
  PROVE  Reflected(t)' = Reflected(t)
BY DEF Reflected

LEMMA KeptSame ==
  ASSUME NEW t \in Tasks, tasks'[t] = tasks[t],
         ticket'[t] = ticket[t], visible'[t] = visible[t], events'[t] = events[t],
         newest'[t] = newest[t], (t \in behind') = (t \in behind)
  PROVE  Kept(t)' = Kept(t)
BY ReflectedSame DEF Kept

(* Whatever run applies whatever copy, what is kept stays kept.            *)
LEMMA IngestKeeps ==
  ASSUME BaseInv, NEW r \in Runners, NEW t \in Tasks, Ingest(r, t), NEW u \in Tasks, Kept(u)
  PROVE  Kept(u)'
<1>0. tasks' = tasks /\ collected[r][t] # None /\ TypeOK
  BY TakeFacts DEF BaseInv
<1>1. CASE u # t
  BY <1>0, <1>1, UpsertFacts, KeptSame
<1>2. CASE u = t /\ Resolvable(tasks[t].content)
  <2> DEFINE copy == collected[r][t]
  <2>1. /\ copy.updated <= tasks[t].updated
        /\ copy.updated = tasks[t].updated => copy.content = tasks[t].content
    BY <1>0 DEF BaseInv, CopyInv, CopyOf
  <2>2. newest[t] = tasks[t].updated /\ (Reflected(t) \/ t \in behind)
    BY <1>2 DEF Kept
  <2>3. copy.updated \in Nat /\ tasks[t].updated \in Nat
    BY <1>0, TypeFacts
  <2>4. newest'[t] = newest[t]
    BY <2>1, <2>2, <2>3, UpsertFacts
  <2>5. CASE copy.updated < newest[t]
    <3>1. CASE t \in behind'
      BY <1>0, <1>2, <2>2, <2>4, <3>1 DEF Kept
    <3>2. CASE /\ ticket'[t] = ticket[t] /\ visible'[t] = visible[t]
               /\ events'[t] = events[t] /\ t \notin behind
      <4>1. Reflected(t)'
        BY <1>0, <2>2, <3>2, ReflectedSame
      <4> QED
        BY <1>0, <1>2, <2>2, <2>4, <4>1 DEF Kept
    <3> QED
      BY <2>5, <3>1, <3>2, UpsertFacts
  <2>6. CASE ~(copy.updated < newest[t])
    <3>1. copy.content = tasks[t].content
      BY <2>1, <2>2, <2>3, <2>6
    <3>2. t \in behind' \/ Reflected(t)'
      BY <1>0, <3>1, UpsertFacts DEF Reflected
    <3> QED
      BY <1>0, <1>2, <2>2, <2>4, <3>2 DEF Kept
  <2> QED
    BY <2>5, <2>6
<1>3. CASE u = t /\ ~Resolvable(tasks[t].content)
  BY <1>0, <1>3 DEF Kept
<1> QED
  BY <1>1, <1>2, <1>3

(* Applying or quarantining the present copy of a task keeps it.           *)
LEMMA PresentKept ==
  ASSUME BaseInv, NEW r \in Runners, NEW t \in Tasks, Ingest(r, t) \/ Quarantine(r, t),
         collected[r][t].content = tasks[t].content,
         collected[r][t].updated = tasks[t].updated
  PROVE  Kept(t)'
<1>0. tasks' = tasks /\ collected[r][t] # None /\ TypeOK
  BY TakeFacts DEF BaseInv
<1>1. CASE Quarantine(r, t)
  BY <1>0, <1>1 DEF Quarantine, Kept
<1>2. CASE Ingest(r, t)
  <2>1. newest[t] <= tasks[t].updated /\ newest[t] \in Nat /\ tasks[t].updated \in Nat
    BY <1>0, TypeFacts DEF BaseInv, HistoryInv
  <2>2. newest'[t] = tasks[t].updated
    BY <1>2, <2>1, UpsertFacts
  <2>3. t \in behind' \/ Reflected(t)'
    BY <1>0, <1>2, UpsertFacts DEF Reflected
  <2> QED
    BY <1>0, <2>2, <2>3 DEF Kept
<1> QED
  BY <1>1, <1>2

-----------------------------------------------------------------------------
(* Every step preserves the invariant                                      *)

LEMMA IInvInit == Init => IInv
<1> SUFFICES ASSUME Init PROVE IInv
  OBVIOUS
<1>1. BaseInv
  BY BaseInit
<1>2. IdleInv /\ FetchInv /\ ProcessInv /\ WindowInv /\ CursorInv
  BY DEF Init, IdleInv, Idle, FetchInv, Fetching, ProcessInv, Processing, WindowInv, Windowed, CursorInv,
    Exists
<1> QED
  BY <1>1, <1>2 DEF IInv

LEMMA IInvEdit ==
  ASSUME SafeRegime, IInv, BaseInv', NEW t \in Tasks, Edit(t)
  PROVE  IInv'
<1>0. TypeOK /\ ClockInv /\ FetchInv /\ ProcessInv /\ WindowInv /\ CursorInv
  BY DEF IInv, BaseInv
<1>1. PICK c \in Contents, a \in BOOLEAN, now \in Moments :
        /\ clock <= now /\ tasks[t].updated < now
        /\ \A r \in Runners : phase[r] = "fetch" => (StablePages => t \notin got[r])
        /\ tasks' = [tasks EXCEPT ![t] =
                       [content |-> c, updated |-> now, archived |-> a]]
        /\ UNCHANGED <<runVars, cursor, dbVars, historyVars, faults>>
  BY <1>0, EditFacts
<1>2. /\ tasks'[t].updated = now
      /\ \A u \in Tasks : u # t => tasks'[u] = tasks[u]
  BY <1>0, <1>1 DEF TypeOK
<1>3. UNCHANGED <<phase, started, since, fetchSince, stream, page, got, collected,
                  watermark, frozen, cursor, ticket, visible, events, newest, behind>>
  BY <1>1 DEF runVars, fetchVars, dbVars, historyVars
<1>4. /\ now \in Nat /\ 0 < now /\ cursor <= now
      /\ \A r \in Runners : phase[r] # "idle" => started[r] <= now /\ fetchSince[r] < now
  <2>1. now \in Nat /\ tasks[t].updated \in Nat /\ clock \in Nat
    BY <1>0, MomentNat, TypeFacts
  <2>2. 0 < now /\ cursor <= now
    BY <1>0, <1>1, <2>1, TypeFacts DEF ClockInv
  <2>3. ASSUME NEW r \in Runners, phase[r] # "idle"
        PROVE  started[r] <= now /\ fetchSince[r] < now
    <3>1. /\ since[r] \in Nat /\ started[r] \in Nat /\ since[r] <= started[r]
          /\ started[r] <= clock /\ fetchSince[r] = FetchFrom(since[r])
      BY <1>0, <2>3, TypeFacts DEF ClockInv
    <3>2. since[r] <= now /\ started[r] <= now
      BY <1>1, <2>1, <3>1
    <3> QED
      BY <2>1, <2>2, <3>1, <3>2, WindowBelow
  <2> QED
    BY <2>1, <2>2, <2>3
<1>5. \A r \in Runners : phase[r] # "idle" => ~Owed(r, t)'
  BY <1>0, <1>2, <1>3, <1>4, TypeFacts DEF Owed
<1>6. \A u \in Tasks : u # t => /\ \A r \in Runners : Owed(r, u)' = Owed(r, u)
                                /\ StreamOf(u)' = StreamOf(u)
                                /\ Kept(u)' = Kept(u)
                                /\ Exists(u)' = Exists(u)
  <2> SUFFICES ASSUME NEW u \in Tasks, u # t
               PROVE  /\ \A r \in Runners : Owed(r, u)' = Owed(r, u)
                      /\ StreamOf(u)' = StreamOf(u)
                      /\ Kept(u)' = Kept(u)
                      /\ Exists(u)' = Exists(u)
    OBVIOUS
  <2>1. Kept(u)' = Kept(u)
    BY <1>2, <1>3, KeptSame
  <2>2. /\ \A r \in Runners : Owed(r, u)' = Owed(r, u)
        /\ StreamOf(u)' = StreamOf(u) /\ Exists(u)' = Exists(u)
    BY <1>2, <1>3 DEF Owed, StreamOf, Exists
  <2> QED
    BY <2>1, <2>2
<1>7. FetchInv'
  <2> SUFFICES ASSUME NEW r \in Runners, phase[r] = "fetch" PROVE Fetching(r)'
    BY <1>3 DEF FetchInv, Fetching
  <2>0. Fetching(r)
    BY <1>0 DEF FetchInv
  <2>1. t \notin got[r]
    BY <1>1 DEF SafeRegime
  <2>2. \A u \in Tasks : u # t =>
          (u \in Matching(r, stream[r]) <=> u \in Matching(r, stream[r])')
    BY <1>2, <1>3 DEF Matching, Exists
  <2>3. got[r] \subseteq Matching(r, stream[r])'
    BY <2>0, <2>1, <2>2 DEF Fetching, Matching
  <2>4. ASSUME NEW g \in got[r], NEW m \in Matching(r, stream[r])' \ got[r],
               tasks'[m].updated < started[r]
        PROVE  Earlier(g, m)'
    <3>1. m \in Tasks /\ m # t
      BY <1>0, <1>2, <1>3, <1>4, <2>4, TypeFacts DEF Matching
    <3>2. g \in Tasks /\ g # t
      BY <2>0, <2>1 DEF Fetching, Matching
    <3>3. m \in Matching(r, stream[r]) \ got[r] /\ tasks[m].updated < started[r]
      BY <1>2, <2>2, <2>4, <3>1
    <3>4. Earlier(g, m)
      BY <2>0, <3>3 DEF Fetching
    <3> QED
      BY <1>2, <3>1, <3>2, <3>4 DEF Earlier
  <2>5. \A u \in Tasks : Owed(r, u)' /\ (StreamOf(u)' < stream[r] \/ u \in got[r]) =>
                           collected[r][u] # None
    BY <1>5, <1>6, <2>0 DEF Fetching
  <2> QED
    BY <1>3, <2>0, <2>3, <2>4, <2>5 DEF Fetching
<1>8. ProcessInv'
  <2> SUFFICES ASSUME NEW r \in Runners, phase[r] = "process", NEW u \in Tasks, Owed(r, u)'
               PROVE  \/ collected[r][u] # None
                      \/ Kept(u)'
                      \/ frozen[r] /\ (watermark[r] = since[r] \/ watermark[r] <= tasks'[u].updated)
    BY <1>3 DEF ProcessInv, Processing
  <2>1. u # t
    BY <1>5
  <2> QED
    BY <1>0, <1>2, <1>6, <2>1 DEF ProcessInv, Processing
<1>9. WindowInv'
  <2> SUFFICES ASSUME NEW r \in Runners, phase[r] # "idle", NEW u \in Tasks, Exists(u)',
                      tasks'[u].updated <= fetchSince[r]
               PROVE  Kept(u)'
    BY <1>3 DEF WindowInv, Windowed
  <2>1. u # t
    BY <1>0, <1>2, <1>4, TypeFacts
  <2> QED
    BY <1>0, <1>2, <1>6, <2>1 DEF WindowInv, Windowed
<1>10. CursorInv'
  <2>1. now > FetchFrom(cursor)
    BY <1>0, <1>4, TypeFacts, WindowBelow
  <2>2. FetchFrom(cursor)' = FetchFrom(cursor)
    BY <1>3
  <2> QED
    BY <1>0, <1>2, <1>6, <2>1, <2>2 DEF CursorInv
<1>11. IdleInv'
  BY <1>3 DEF IInv, IdleInv, Idle
<1> QED
  BY <1>7, <1>8, <1>9, <1>10, <1>11 DEF IInv

LEMMA IInvStartRun ==
  ASSUME IInv, BaseInv', NEW r \in Runners, StartRun(r)
  PROVE  IInv'
<1>0. TypeOK /\ ClockInv /\ FetchInv /\ ProcessInv /\ WindowInv /\ CursorInv
  BY DEF IInv, BaseInv
<1>1. /\ phase'[r] = "fetch" /\ fetchSince'[r] = FetchFrom(cursor)
      /\ \A q \in Runners : q # r =>
           /\ phase'[q] = phase[q] /\ started'[q] = started[q] /\ since'[q] = since[q]
           /\ fetchSince'[q] = fetchSince[q] /\ watermark'[q] = watermark[q]
      /\ UNCHANGED <<clock, tasks, stream, page, got, collected, frozen, cursor, ticket,
                     visible, events, newest, behind>>
  BY <1>0, StartRunFacts
<1>2. \A u \in Tasks : /\ Kept(u)' = Kept(u) /\ Exists(u)' = Exists(u)
                       /\ StreamOf(u)' = StreamOf(u)
  BY <1>1, KeptSame DEF Exists, StreamOf
<1>3. \A q \in Runners, u \in Tasks : q # r => Owed(q, u)' = Owed(q, u)
  BY <1>1 DEF Owed, Exists
<1>4. FetchInv'
  <2>1. Fetching(r)'
    <3>1. stream[r] = 0 /\ page[r] = 0 /\ got[r] = {}
      BY <1>0, StartRunFacts DEF IInv, Idle, IdleInv
    <3>2. \A u \in Tasks : ~(StreamOf(u)' < 0)
      BY <1>0, <1>2, StreamOfType
    <3>3. 0 < MaxPages /\ Cardinality({}) = 0 * PageSize
      BY BoundAssumption, FS_EmptySet
    <3> QED
      BY <1>1, <3>1, <3>2, <3>3 DEF Fetching
  <2>2. ASSUME NEW q \in Runners, q # r PROVE Fetching(q)'
    <3>1. Matching(q, stream[q])' = Matching(q, stream[q])
      BY <1>1, <2>2 DEF Matching, Exists
    <3>2. \A g, m \in Tasks : Earlier(g, m)' = Earlier(g, m)
      BY <1>1 DEF Earlier
    <3>3. Fetching(q)
      BY <1>0 DEF FetchInv
    <3>4. Matching(q, stream[q]) \subseteq Tasks
      BY DEF Matching
    <3>5. ASSUME phase[q] = "fetch",
                 NEW g \in got[q], NEW m \in Matching(q, stream[q]) \ got[q],
                 tasks[m].updated < started[q]
          PROVE  Earlier(g, m)'
      BY <3>2, <3>3, <3>4, <3>5 DEF Fetching
    <3> QED
      BY <1>1, <1>2, <1>3, <2>2, <3>1, <3>3, <3>5 DEF Fetching
  <2> QED
    BY <2>1, <2>2 DEF FetchInv
<1>5. ProcessInv'
  BY <1>0, <1>1, <1>2, <1>3 DEF ProcessInv, Processing
<1>6. CursorInv'
  <2>1. FetchFrom(cursor)' = FetchFrom(cursor)
    BY <1>1
  <2> QED
    BY <1>0, <1>1, <1>2, <2>1 DEF CursorInv
<1>7. WindowInv'
  <2>1. ASSUME NEW u \in Tasks, Exists(u), tasks[u].updated <= FetchFrom(cursor)
        PROVE  Kept(u)
    <3>1. FetchFrom(cursor) \in Nat /\ tasks[u].updated \in Nat
      BY <1>0, TypeFacts, FetchFromType, MomentNat DEF TypeOK
    <3> QED
      BY <1>0, <2>1, <3>1 DEF CursorInv
  <2>2. Windowed(r)'
    BY <1>1, <1>2, <2>1 DEF Windowed
  <2>3. \A q \in Runners : q # r => Windowed(q)'
    BY <1>0, <1>1, <1>2 DEF WindowInv, Windowed
  <2> QED
    BY <2>2, <2>3 DEF WindowInv
<1>8. IdleInv'
  BY <1>1 DEF IdleInv, Idle, IInv
<1> QED
  BY <1>4, <1>5, <1>6, <1>7, <1>8 DEF IInv

LEMMA IInvFetchPage ==
  ASSUME SafeRegime, IInv, BaseInv', NEW r \in Runners, FetchPage(r)
  PROVE  IInv'
<1> DEFINE M == Matching(r, stream[r])
<1>0. /\ TypeOK /\ ClockInv /\ FetchInv /\ ProcessInv /\ WindowInv /\ CursorInv /\ IdleInv
      /\ Fetching(r) /\ phase[r] = "fetch"
  BY DEF IInv, BaseInv, FetchPage, FetchInv
<1>1. PICK skipped \in SUBSET M : \E S \in SUBSET (M \ skipped) :
        /\ IsPrefix(skipped, M, page[r] * PageSize)
        /\ IsPrefix(S, M \ skipped, PageSize)
        /\ collected'[r] = Collect(r, S)
        /\ IF Cardinality(S) = PageSize /\ skipped \cup S # M /\ page[r] + 1 < MaxPages
           THEN /\ page'[r] = page[r] + 1
                /\ got'[r] = skipped \cup S
                /\ phase'[r] = phase[r] /\ stream'[r] = stream[r]
           ELSE /\ page'[r] = 0
                /\ got'[r] = {}
                /\ IF stream[r] < LastStream
                   THEN stream'[r] = stream[r] + 1 /\ phase'[r] = phase[r]
                   ELSE stream'[r] = 0 /\ phase'[r] = "process"
  <2>1. PICK skipped \in SUBSET M : \E S \in SUBSET (M \ skipped) :
          /\ IsPrefix(skipped, M, page[r] * PageSize)
          /\ IsPrefix(S, M \ skipped, PageSize)
          /\ collected' = [collected EXCEPT ![r] = Collect(r, S)]
          /\ IF Cardinality(S) = PageSize /\ skipped \cup S # M /\ page[r] + 1 < MaxPages
             THEN /\ page' = [page EXCEPT ![r] = @ + 1]
                  /\ got' = [got EXCEPT ![r] = skipped \cup S]
                  /\ UNCHANGED <<phase, stream>>
             ELSE /\ page' = [page EXCEPT ![r] = 0]
                  /\ got' = [got EXCEPT ![r] = {}]
                  /\ IF stream[r] < LastStream
                     THEN stream' = [stream EXCEPT ![r] = @ + 1] /\ UNCHANGED phase
                     ELSE /\ stream' = [stream EXCEPT ![r] = 0]
                          /\ phase' = [phase EXCEPT ![r] = "process"]
    BY DEF FetchPage
  <2>2. PICK S \in SUBSET (M \ skipped) :
          /\ IsPrefix(skipped, M, page[r] * PageSize)
          /\ IsPrefix(S, M \ skipped, PageSize)
          /\ collected' = [collected EXCEPT ![r] = Collect(r, S)]
          /\ IF Cardinality(S) = PageSize /\ skipped \cup S # M /\ page[r] + 1 < MaxPages
             THEN /\ page' = [page EXCEPT ![r] = @ + 1]
                  /\ got' = [got EXCEPT ![r] = skipped \cup S]
                  /\ UNCHANGED <<phase, stream>>
             ELSE /\ page' = [page EXCEPT ![r] = 0]
                  /\ got' = [got EXCEPT ![r] = {}]
                  /\ IF stream[r] < LastStream
                     THEN stream' = [stream EXCEPT ![r] = @ + 1] /\ UNCHANGED phase
                     ELSE /\ stream' = [stream EXCEPT ![r] = 0]
                          /\ phase' = [phase EXCEPT ![r] = "process"]
    BY <2>1
  <2> WITNESS skipped \in SUBSET M
  <2> WITNESS S \in SUBSET (M \ skipped)
  <2> HIDE DEF M
  <2> QED
    BY <1>0, <2>2 DEF TypeOK
<1>2. PICK S \in SUBSET M :
        /\ S \subseteq M \ skipped
        /\ IsPrefix(skipped, M, page[r] * PageSize)
        /\ IsPrefix(S, M \ skipped, PageSize)
        /\ collected'[r] = Collect(r, S)
        /\ IF Cardinality(S) = PageSize /\ skipped \cup S # M /\ page[r] + 1 < MaxPages
           THEN /\ page'[r] = page[r] + 1
                /\ got'[r] = skipped \cup S
                /\ phase'[r] = phase[r] /\ stream'[r] = stream[r]
           ELSE /\ page'[r] = 0
                /\ got'[r] = {}
                /\ IF stream[r] < LastStream
                   THEN stream'[r] = stream[r] + 1 /\ phase'[r] = phase[r]
                   ELSE stream'[r] = 0 /\ phase'[r] = "process"
  BY <1>1
<1>3. /\ UNCHANGED <<clock, tasks, started, since, fetchSince, watermark, frozen, cursor,
                     ticket, visible, events, newest, behind>>
      /\ \A q \in Runners : q # r =>
           /\ phase'[q] = phase[q] /\ stream'[q] = stream[q] /\ page'[q] = page[q]
           /\ got'[q] = got[q] /\ collected'[q] = collected[q]
  BY <1>0, FetchPageFacts
<1>4. \A u \in Tasks : /\ \A q \in Runners : Owed(q, u)' = Owed(q, u)
                       /\ StreamOf(u)' = StreamOf(u) /\ Exists(u)' = Exists(u)
                       /\ Kept(u)' = Kept(u)
  <2>1. \A u \in Tasks : Kept(u)' = Kept(u)
    BY <1>3, KeptSame
  <2> QED
    BY <1>3, <2>1 DEF Owed, StreamOf, Exists
<1>5. \A u \in Tasks : collected[r][u] # None \/ u \in S => collected'[r][u] # None
  <2> SUFFICES ASSUME NEW u \in Tasks, collected[r][u] # None \/ u \in S
               PROVE  collected'[r][u] # None
    OBVIOUS
  <2>1. CASE u \notin S
    BY <1>2, <2>1 DEF Collect
  <2>2. CASE u \in S
    <3>1. collected'[r][u] = [content |-> tasks[u].content, updated |-> tasks[u].updated,
                              batch |-> collected'[r][u].batch, rank |-> collected'[r][u].rank]
      BY <1>2, <2>2 DEF Collect
    <3>2. collected'[r][u] \in Copy \cup {None}
      BY DEF BaseInv, TypeOK
    <3> QED
      BY <1>0, <1>2, <2>2, NoneAssumption DEF Collect, Copy, TypeOK, Matching, Exists
  <2> QED
    BY <2>1, <2>2
<1>6. \A u \in Tasks : Owed(r, u) => tasks[u].updated < started[r]
  BY DEF Owed
<1>7. CursorInv' /\ WindowInv'
  <2>1. CursorInv'
    BY <1>0, <1>3, <1>4 DEF CursorInv
  <2>2. \A q \in Runners : phase'[q] # "idle" => phase[q] # "idle"
    BY <1>0, <1>3
  <2> QED
    BY <1>0, <1>3, <1>4, <2>1, <2>2 DEF WindowInv, Windowed
<1>8. ASSUME NEW q \in Runners, q # r PROVE Fetching(q)' /\ Processing(q)' /\ Idle(q)'
  <2>1. Matching(q, stream[q])' = Matching(q, stream[q])
    BY <1>3, <1>8 DEF Matching, Exists
  <2>2. \A g, m \in Tasks : Earlier(g, m)' = Earlier(g, m)
    BY <1>3 DEF Earlier
  <2>3. Fetching(q) /\ Processing(q) /\ Idle(q)
    BY <1>0 DEF FetchInv, ProcessInv, IdleInv
  <2>4. Matching(q, stream[q]) \subseteq Tasks
    BY DEF Matching
  <2>5. ASSUME phase[q] = "fetch",
               NEW g \in got[q], NEW m \in Matching(q, stream[q]) \ got[q],
               tasks[m].updated < started[q]
        PROVE  Earlier(g, m)'
    BY <2>2, <2>3, <2>4, <2>5 DEF Fetching
  <2>6. Fetching(q)'
    BY <1>3, <1>4, <1>8, <2>1, <2>3, <2>5 DEF Fetching
  <2> QED
    BY <1>3, <1>4, <1>8, <2>3, <2>6 DEF Processing, Idle
<1>9. CASE Cardinality(S) = PageSize /\ skipped \cup S # M /\ page[r] + 1 < MaxPages
  <2>1. /\ page'[r] = page[r] + 1 /\ got'[r] = skipped \cup S /\ phase'[r] = "fetch"
        /\ stream'[r] = stream[r]
    BY <1>0, <1>2, <1>9
  <2>2. M' = M
    BY <1>3, <2>1 DEF Matching, Exists
  <2>3. Cardinality(skipped \cup S) = (page[r] + 1) * PageSize
    <3>1. M \in SUBSET Tasks
      BY DEF Matching
    <3>2. page[r] \in Nat
      BY <1>0 DEF TypeOK
    <3> HIDE DEF M
    <3> QED
      BY <1>2, <1>9, <3>1, <3>2, PassedCount
  <2>4. \A g \in skipped \cup S, m \in M \ (skipped \cup S) : Earlier(g, m)
    BY <1>2 DEF IsPrefix
  <2>5. \A g, m \in Tasks : Earlier(g, m)' = Earlier(g, m)
    BY <1>3 DEF Earlier
  <2>6. \A u \in Tasks : Owed(r, u) /\ (StreamOf(u) < stream[r] \/ u \in skipped \cup S) =>
                           collected'[r][u] # None
    BY <1>0, <1>2, <1>5, <1>6, SkippedKnown DEF Fetching
  <2>7. skipped \cup S \subseteq M /\ M \subseteq Tasks
    BY DEF Matching
  <2>8. Fetching(r)'
    <3> HIDE DEF M
    <3>1. \A g \in got'[r], m \in M' \ got'[r] : Earlier(g, m)'
      BY <2>1, <2>2, <2>4, <2>5, <2>7
    <3>2. \A u \in Tasks : Owed(r, u)' /\ (StreamOf(u)' < stream'[r] \/ u \in got'[r]) =>
                             collected'[r][u] # None
      BY <1>4, <2>1, <2>6
    <3> QED
      BY <1>9, <2>1, <2>2, <2>3, <2>7, <3>1, <3>2 DEF Fetching, M
  <2>9. Processing(r)' /\ Idle(r)'
    BY <2>1 DEF Processing, Idle
  <2> QED
    BY <1>7, <1>8, <2>8, <2>9 DEF IInv, FetchInv, ProcessInv, IdleInv
<1>10. CASE ~(Cardinality(S) = PageSize /\ skipped \cup S # M /\ page[r] + 1 < MaxPages)
  <2>1. page'[r] = 0 /\ got'[r] = {}
        /\ \/ stream[r] < LastStream /\ stream'[r] = stream[r] + 1 /\ phase'[r] = "fetch"
           \/ ~(stream[r] < LastStream) /\ stream'[r] = 0 /\ phase'[r] = "process"
    BY <1>0, <1>2, <1>10
  <2>2. ASSUME NEW u \in Tasks, Owed(r, u), StreamOf(u) <= stream[r]
        PROVE  collected'[r][u] # None
    <3>1. CASE StreamOf(u) < stream[r]
      BY <1>0, <1>5, <2>2, <3>1 DEF Fetching
    <3>2. CASE StreamOf(u) = stream[r]
      <4>1. u \in got[r] \cup S
        BY <1>0, <1>2, <1>6, <1>10, <2>2, <3>2, OwedMatches, StreamComplete
      <4> QED
        BY <1>0, <1>5, <2>2, <4>1 DEF Fetching
    <3>3. StreamOf(u) \in Nat /\ stream[r] \in Nat
      BY <1>0, StreamOfType, StreamType
    <3> QED
      BY <2>2, <3>1, <3>2, <3>3
  <2>3. stream[r] \in Nat /\ LastStream \in Nat
        /\ \A u \in Tasks : StreamOf(u) \in Nat /\ StreamOf(u) <= LastStream
    BY <1>0, StreamOfType, StreamType
  <2>4. Fetching(r)'
    <3> SUFFICES ASSUME phase'[r] = "fetch" PROVE Fetching(r)'
      BY DEF Fetching
    <3>1. stream'[r] = stream[r] + 1
      BY <2>1
    <3>2. \A u \in Tasks : Owed(r, u)' /\ (StreamOf(u)' < stream'[r] \/ u \in got'[r]) =>
                             collected'[r][u] # None
      BY <1>4, <2>1, <2>2, <2>3, <3>1
    <3>3. 0 < MaxPages /\ Cardinality({}) = 0 * PageSize
      BY BoundAssumption, FS_EmptySet
    <3> QED
      BY <2>1, <3>2, <3>3 DEF Fetching
  <2>5. Processing(r)'
    <3> SUFFICES ASSUME phase'[r] = "process" PROVE Processing(r)'
      BY DEF Processing
    <3>1. ~(stream[r] < LastStream)
      BY <2>1
    <3>2. \A u \in Tasks : Owed(r, u)' => collected'[r][u] # None
      BY <1>4, <2>2, <2>3, <3>1
    <3> QED
      BY <3>2 DEF Processing
  <2>6. Idle(r)'
    BY <2>1 DEF Idle
  <2> QED
    BY <1>7, <1>8, <2>4, <2>5, <2>6 DEF IInv, FetchInv, ProcessInv, IdleInv
<1> QED
  BY <1>9, <1>10

LEMMA IInvTake ==
  ASSUME SafeRegime, IInv, BaseInv', NEW r \in Runners, NEW t \in Tasks,
         Ingest(r, t) \/ Quarantine(r, t) \/ Fail(r, t)
  PROVE  IInv'
<1>0. /\ BaseInv /\ TypeOK /\ ClockInv
      /\ FetchInv /\ ProcessInv /\ WindowInv /\ CursorInv /\ IdleInv
  BY DEF IInv, BaseInv
<1>1. /\ phase[r] = "process" /\ collected[r][t] # None
      /\ \A u \in Tasks : u # t => collected'[r][u] = collected[r][u]
      /\ \A q \in Runners : q # r => /\ collected'[q] = collected[q]
                                     /\ watermark'[q] = watermark[q]
                                     /\ frozen'[q] = frozen[q]
      /\ UNCHANGED <<clock, tasks, phase, started, since, fetchSince, stream, page, got,
                     cursor>>
  BY <1>0, TakeFacts
<1>2. ASSUME NEW u \in Tasks, Kept(u) PROVE Kept(u)'
  <2>1. CASE Ingest(r, t)
    BY <1>0, <1>2, <2>1, IngestKeeps
  <2>2. CASE Quarantine(r, t) \/ Fail(r, t)
    <3>1. UNCHANGED <<ticket, visible, events, newest, behind>>
      BY <2>2 DEF Quarantine, Fail, dbVars, historyVars
    <3> QED
      BY <1>1, <1>2, <3>1, KeptSame
  <2> QED
    BY <2>1, <2>2
<1>3. \A u \in Tasks : /\ \A q \in Runners : Owed(q, u)' = Owed(q, u)
                       /\ Exists(u)' = Exists(u) /\ StreamOf(u)' = StreamOf(u)
  BY <1>1 DEF Owed, Exists, StreamOf
<1>4. frozen[r] => frozen'[r] /\ watermark'[r] = watermark[r]
  BY <1>0 DEF Ingest, Quarantine, Fail, Advance, TypeOK
<1>5. ASSUME Owed(r, t)
      PROVE  \/ Kept(t)'
             \/ frozen'[r] /\ (watermark'[r] = since[r] \/ watermark'[r] <= tasks[t].updated)
  <2>1. /\ collected[r][t].updated = tasks[t].updated
        /\ collected[r][t].content = tasks[t].content
    BY <1>0, <1>1, <1>5 DEF BaseInv, CopyInv, CopyOf, Owed
  <2>2. CASE Fail(r, t)
    BY <1>0, <2>1, <2>2 DEF Fail, SafeRegime, TypeOK
  <2>3. CASE ~Fail(r, t)
    BY <1>0, <2>1, <2>3, PresentKept
  <2> QED
    BY <2>2, <2>3
<1>6. ProcessInv'
  <2> SUFFICES ASSUME NEW q \in Runners, phase[q] = "process",
                      NEW u \in Tasks, Owed(q, u)
               PROVE  \/ collected'[q][u] # None
                      \/ Kept(u)'
                      \/ /\ frozen'[q]
                         /\ watermark'[q] = since[q] \/ watermark'[q] <= tasks[u].updated
    BY <1>1, <1>3 DEF ProcessInv, Processing
  <2>1. CASE q = r /\ u = t
    BY <1>5, <2>1
  <2>2. CASE q = r /\ u # t
    BY <1>0, <1>1, <1>2, <1>4, <2>2 DEF ProcessInv, Processing
  <2>3. CASE q # r
    BY <1>0, <1>1, <1>2, <2>3 DEF ProcessInv, Processing
  <2> QED
    BY <2>1, <2>2, <2>3
<1>7. CursorInv' /\ WindowInv'
  BY <1>0, <1>1, <1>2, <1>3 DEF CursorInv, WindowInv, Windowed, FetchFrom
<1>8. FetchInv'
  <2> SUFFICES ASSUME NEW q \in Runners, phase[q] = "fetch" PROVE Fetching(q)'
    BY <1>1 DEF FetchInv, Fetching
  <2>1. q # r /\ Fetching(q)
    BY <1>0, <1>1 DEF FetchInv
  <2>2. Matching(q, stream[q])' = Matching(q, stream[q])
    BY <1>1 DEF Matching, Exists
  <2>3. \A g, m \in Tasks : Earlier(g, m)' = Earlier(g, m)
    BY <1>1 DEF Earlier
  <2>4. Matching(q, stream[q]) \subseteq Tasks
    BY DEF Matching
  <2>5. ASSUME NEW g \in got[q], NEW m \in Matching(q, stream[q]) \ got[q],
               tasks[m].updated < started[q]
        PROVE  Earlier(g, m)'
    BY <2>1, <2>3, <2>4, <2>5 DEF Fetching
  <2> QED
    BY <1>1, <1>3, <2>1, <2>2, <2>5 DEF Fetching
<1>9. IdleInv'
  BY <1>0, <1>1 DEF IdleInv, Idle
<1> QED
  BY <1>6, <1>7, <1>8, <1>9 DEF IInv

LEMMA IInvEnd ==
  ASSUME SafeRegime, IInv, BaseInv', NEW r \in Runners,
         CloseRun(r) \/ FatalError(r) \/ Crash(r)
  PROVE  IInv'
<1>0. /\ BaseInv /\ TypeOK /\ ClockInv
      /\ FetchInv /\ ProcessInv /\ WindowInv /\ CursorInv /\ IdleInv
  BY DEF IInv, BaseInv
<1>1. /\ phase'[r] = "idle" /\ stream'[r] = 0 /\ got'[r] = {} /\ page'[r] = 0
      /\ \A q \in Runners : q # r =>
              /\ phase'[q] = phase[q] /\ started'[q] = started[q] /\ since'[q] = since[q]
              /\ fetchSince'[q] = fetchSince[q] /\ watermark'[q] = watermark[q]
              /\ stream'[q] = stream[q] /\ page'[q] = page[q] /\ got'[q] = got[q]
              /\ collected'[q] = collected[q] /\ frozen'[q] = frozen[q]
      /\ cursor' = cursor \/ (CloseRun(r) /\ cursor' = watermark[r])
      /\ UNCHANGED <<clock, tasks, ticket, visible, events, newest, behind>>
  BY <1>0, EndRunFacts
<1>2. \A u \in Tasks : /\ Kept(u)' = Kept(u) /\ Exists(u)' = Exists(u)
                       /\ StreamOf(u)' = StreamOf(u)
                       /\ \A q \in Runners : q # r => Owed(q, u)' = Owed(q, u)
  <2>1. \A u \in Tasks : Kept(u)' = Kept(u)
    BY <1>1, KeptSame
  <2> QED
    BY <1>1, <2>1 DEF Exists, StreamOf, Owed
<1>3. ASSUME NEW q \in Runners, q # r
      PROVE  Fetching(q)' /\ Processing(q)' /\ Windowed(q)' /\ Idle(q)'
  <2>1. Matching(q, stream[q])' = Matching(q, stream[q])
    BY <1>1, <1>3 DEF Matching, Exists
  <2>2. \A g, m \in Tasks : Earlier(g, m)' = Earlier(g, m)
    BY <1>1 DEF Earlier
  <2>3. Fetching(q) /\ Processing(q) /\ Windowed(q) /\ Idle(q)
    BY <1>0 DEF FetchInv, ProcessInv, WindowInv, IdleInv
  <2>4. Matching(q, stream[q]) \subseteq Tasks
    BY DEF Matching
  <2>5. ASSUME phase[q] = "fetch",
               NEW g \in got[q], NEW m \in Matching(q, stream[q]) \ got[q],
               tasks[m].updated < started[q]
        PROVE  Earlier(g, m)'
    BY <2>2, <2>3, <2>4, <2>5 DEF Fetching
  <2>6. Fetching(q)'
    BY <1>1, <1>2, <1>3, <2>1, <2>3, <2>5 DEF Fetching
  <2> QED
    BY <1>1, <1>2, <1>3, <2>3, <2>6 DEF Processing, Windowed, Idle
<1>4. Fetching(r)' /\ Processing(r)' /\ Windowed(r)' /\ Idle(r)'
  BY <1>1 DEF Fetching, Processing, Windowed, Idle
<1>5. ASSUME CloseRun(r), NEW u \in Tasks, Exists(u), ~Kept(u)
      PROVE  tasks[u].updated > FetchFrom(watermark[r])
  <2>0. phase[r] = "process" /\ collected[r][u] = None
    BY <1>5 DEF CloseRun, Pending
  <2>1. /\ tasks[u].updated \in Nat /\ 0 < tasks[u].updated
        /\ watermark[r] \in Nat /\ started[r] \in Nat /\ fetchSince[r] \in Nat
    BY <1>0, <1>5, TypeFacts DEF ClockInv
  <2>2. watermark[r] <= started[r] + FetchSpan /\ fetchSince[r] = FetchFrom(since[r])
    BY <1>0, <2>0 DEF ClockInv
  <2>3. CASE started[r] <= tasks[u].updated
    BY <2>1, <2>2, <2>3, WindowReaches
  <2>4. CASE ~(started[r] <= tasks[u].updated)
    <3>1. fetchSince[r] < tasks[u].updated
      BY <1>0, <1>5, <2>0, <2>1 DEF WindowInv, Windowed
    <3>2. Owed(r, u)
      BY <1>5, <2>1, <2>4, <3>1 DEF Owed
    <3>3. watermark[r] = since[r] \/ watermark[r] <= tasks[u].updated
      BY <1>0, <1>5, <2>0, <3>2 DEF ProcessInv, Processing
    <3>4. CASE watermark[r] = since[r]
      BY <2>1, <2>2, <3>1, <3>4
    <3>5. CASE watermark[r] <= tasks[u].updated
      BY <2>1, <3>5, WindowBelow
    <3> QED
      BY <3>3, <3>4, <3>5
  <2> QED
    BY <2>3, <2>4
<1>6. CursorInv'
  <2> SUFFICES ASSUME NEW u \in Tasks, Exists(u), ~Kept(u)
               PROVE  tasks[u].updated > FetchFrom(cursor)'
    BY <1>1, <1>2 DEF CursorInv
  <2>1. CASE cursor' = cursor
    BY <1>0, <2>1 DEF CursorInv, FetchFrom
  <2>2. CASE CloseRun(r) /\ cursor' = watermark[r]
    BY <1>5, <2>2 DEF FetchFrom
  <2> QED
    BY <1>1, <2>1, <2>2
<1> QED
  BY <1>3, <1>4, <1>6 DEF IInv, FetchInv, ProcessInv, WindowInv, IdleInv

LEMMA IInvStep == SafeRegime /\ IInv /\ [Next]_vars => IInv'
<1> SUFFICES ASSUME SafeRegime, IInv, [Next]_vars PROVE IInv'
  OBVIOUS
<1>1. BaseInv'
  BY BaseStep DEF IInv
<1>2. CASE UNCHANGED vars
  <2>1. UNCHANGED <<tasks, phase, started, since, fetchSince, stream, page, got, collected,
                    watermark, frozen, cursor, ticket, visible, events, newest, behind>>
    BY <1>2 DEF vars, sourceVars, runVars, fetchVars, dbVars, historyVars
  <2>2. \A u \in Tasks : /\ \A q \in Runners : Owed(q, u)' = Owed(q, u)
                         /\ Exists(u)' = Exists(u)
                         /\ StreamOf(u)' = StreamOf(u) /\ Kept(u)' = Kept(u)
    BY <2>1, KeptSame DEF Owed, Exists, StreamOf
  <2>3. FetchInv'
    BY <2>1 DEF IInv, FetchInv, Fetching, Matching, Exists, Earlier, Owed, StreamOf
  <2>4. ProcessInv' /\ WindowInv' /\ CursorInv' /\ IdleInv'
    BY <2>1, <2>2 DEF IInv, ProcessInv, Processing, WindowInv, Windowed, CursorInv,
      IdleInv, Idle, FetchFrom
  <2> QED
    BY <1>1, <2>3, <2>4 DEF IInv
<1> QED
  BY <1>1, <1>2, IInvEdit, IInvStartRun, IInvFetchPage, IInvTake, IInvEnd
  DEF Next

LEMMA IInvImpliesNoLostUpdate == IInv => NoLostUpdate
<1> SUFFICES ASSUME IInv, NEW t \in Tasks, Exists(t), Kept(t)
             PROVE  Reflected(t) \/ t \in behind
  BY DEF IInv, CursorInv, NoLostUpdate
<1> QED
  BY DEF Kept, Reflected

(* No edit is lost: when pages are stable, failures come in task order, a  *)
(* retrieval is shorter than the overlap and no stream is cut off, what    *)
(* the next run will not fetch again is in the database already or was     *)
(* written over by an overlapping run with an older copy, for any number   *)
(* of tasks, lists, pages, overlapping runs, edits, failures and crashes.  *)
THEOREM NothingLost == SafeRegime => (Spec => []NoLostUpdate)
<1> SUFFICES ASSUME SafeRegime PROVE Spec => []NoLostUpdate
  OBVIOUS
<1>1. Init => IInv
  BY IInvInit
<1>2. IInv /\ [Next]_vars => IInv'
  BY IInvStep
<1>3. IInv => NoLostUpdate
  BY IInvImpliesNoLostUpdate
<1> QED
  BY <1>1, <1>2, <1>3, PTL DEF Spec
=============================================================================
