------------------------- MODULE OutlookSync_proofs -------------------------
(***************************************************************************)
(* Proofs about OutlookSync for every value of its constants: any number   *)
(* of messages, tickets and overlapping runs.                              *)
(***************************************************************************)
EXTENDS OutlookSync, FiniteSetTheorems, TLAPS

-----------------------------------------------------------------------------
(* Lemmas about data                                                       *)

(* A message that names one ticket names a ticket of the model.            *)
LEMMA RefIs ==
  ASSUME TypeOK, NEW m \in Mails, Unambiguous(m)
  PROVE  Ref(m) \in Tickets /\ mail[m].refs = {Ref(m)} /\ mail[m].refs # {}
<1> DEFINE S == mail[m].refs
<1>1. S \in SUBSET Tickets /\ IsFiniteSet(S)
  <2>1. S \in SUBSET Tickets
    BY DEF TypeOK
  <2> QED
    BY <2>1, MailAssumption, FS_Subset
<1>2. \E x : S = {x}
  BY <1>1, FS_Singleton DEF Unambiguous
<1> QED
  BY <1>1, <1>2 DEF Ref

LEMMA MailFacts ==
  ASSUME TypeOK
  PROVE  /\ clock \in Nat /\ cursor \in Nat
         /\ \A m \in Mails : /\ m \in Nat
                             /\ mail[m].received \in Moments /\ mail[m].received \in Nat
                             /\ SentTime(m) \in Moments /\ SentTime(m) \in Nat
                             /\ SentTime(m) # None
BY MailAssumption, NoneAssumption DEF TypeOK, Moments, SentTime

(* The rows of internal_tickets.                                           *)
LEMMA RowFacts ==
  ASSUME NEW q \in Rows
  PROVE  /\ q # None
         /\ q.created \in Moments /\ q.acked \in Moments \cup {None}
         /\ q.source \in Mails \cup {None}
BY NoneAssumption DEF Rows

(* A message's place in the mailbox is settled once it is there.           *)
LEMMA SameMail ==
  ASSUME UNCHANGED mail
  PROVE  \A m \in Mails :
           /\ Delivered(m)' <=> Delivered(m)
           /\ Unambiguous(m)' <=> Unambiguous(m)
           /\ Ref(m)' = Ref(m)
           /\ SentTime(m)' = SentTime(m)
           /\ \A n \in Mails : Earlier(m, n)' <=> Earlier(m, n)
BY DEF Delivered, Unambiguous, Ref, SentTime, Earlier

LEMMA EarlierOrder ==
  ASSUME TypeOK, NEW m \in Mails, NEW n \in Mails
  PROVE  /\ Earlier(m, n) => ~Earlier(n, m)
         /\ Earlier(m, n) => mail[m].received <= mail[n].received
BY MailFacts DEF Earlier

-----------------------------------------------------------------------------
(* Type correctness                                                        *)

(* Between its SELECT and its UPDATE a run has a message in hand that may  *)
(* acknowledge its ticket, unless somebody else has done so meanwhile.     *)
WriteInv(r) ==
  phase[r] = "write" =>
    \A m \in Mails :
      InHand(r, m) => /\ Unambiguous(m)
                      /\ ticket[Ref(m)] # None
                      /\ ticket[Ref(m)].created <= SentTime(m)

TypeInv ==
  /\ TypeOK
  /\ \A r \in Runners : (\A m \in page[r] : Delivered(m)) /\ WriteInv(r)

(* What an UPDATE does: nothing, or it acknowledges one ticket.            *)
LEMMA AckFacts ==
  ASSUME TypeOK, NEW m \in Mails, Unambiguous(m), ticket[Ref(m)] # None, Acknowledge(m)
  PROVE  /\ ticket' \in [Tickets -> Rows \cup {None}]
         /\ ticket'[Ref(m)] # None /\ ticket'[Ref(m)].acked # None
         /\ \A t \in Tickets :
              \/ ticket'[t] = ticket[t]
              \/ /\ t = Ref(m) /\ ticket[t] # None /\ ticket[t].acked = None
                 /\ ticket'[t] = Acked(m) /\ ticket'[t] # None
                 /\ ticket'[t].created = ticket[t].created
                 /\ ticket'[t].acked = SentTime(m)
<1>1. Ref(m) \in Tickets /\ ticket[Ref(m)] \in Rows
      /\ ticket \in [Tickets -> Rows \cup {None}]
  BY RefIs DEF TypeOK
<1>2. PICK q \in Rows : q = ticket[Ref(m)]
  BY <1>1
<1>3. /\ Acked(m) = [created |-> q.created, acked |-> SentTime(m), source |-> m]
      /\ q.created \in Moments /\ SentTime(m) \in Moments /\ SentTime(m) # None
  BY <1>2, RowFacts, MailFacts DEF Acked
<1>4. Acked(m) \in Rows /\ Acked(m).created = q.created /\ Acked(m).acked = SentTime(m)
  BY <1>3 DEF Rows
<1>5. Acked(m) # None
  BY <1>4, RowFacts
<1> HIDE DEF Acked
<1>6. CASE ticket[Ref(m)].acked # None
  BY <1>1, <1>6 DEF Acknowledge
<1>7. CASE ticket[Ref(m)].acked = None
  <2>1. ticket' = [ticket EXCEPT ![Ref(m)] = Acked(m)]
    BY <1>7 DEF Acknowledge
  <2>2. /\ ticket' \in [Tickets -> Rows \cup {None}]
        /\ ticket'[Ref(m)] = Acked(m)
        /\ \A t \in Tickets : t # Ref(m) => ticket'[t] = ticket[t]
    BY <2>1, <1>1, <1>4
  <2> QED
    BY <2>2, <1>1, <1>2, <1>3, <1>4, <1>5, <1>7
<1> QED
  BY <1>6, <1>7

(* What the rest of the steps leaves alone of a ticket.                    *)
TicketsKept ==
  \A t \in Tickets :
    ticket[t] # None => /\ ticket'[t] # None
                        /\ ticket'[t].created = ticket[t].created
                        /\ ticket[t].acked # None => ticket'[t] = ticket[t]

(* No step takes a ticket back, moves its creation or its acknowledgement. *)
LEMMA KeptByNext ==
  ASSUME TypeInv, [Next]_vars
  PROVE  TicketsKept
<1>1. ASSUME UNCHANGED ticket PROVE TicketsKept
  BY <1>1 DEF TicketsKept
<1>2. ASSUME NEW t \in Tickets, Ingest(t) PROVE TicketsKept
  <2>1. /\ ticket[t] = None /\ ticket \in [Tickets -> Rows \cup {None}]
        /\ \A u \in Tickets : u # t => ticket'[u] = ticket[u]
    BY <1>2 DEF Ingest, TypeInv, TypeOK
  <2> QED
    BY <2>1 DEF TicketsKept
<1>3. ASSUME NEW r \in Runners, NEW m \in Mails, InHand(r, m), Acknowledge(m)
      PROVE  TicketsKept
  <2>1. Unambiguous(m) /\ ticket[Ref(m)] # None
    BY <1>3 DEF TypeInv, WriteInv, InHand
  <2> QED
    BY <1>3, <2>1, AckFacts DEF TicketsKept, TypeInv
<1>4. ASSUME NEW r \in Runners, NEW m \in Mails, Write(r, m) PROVE TicketsKept
  BY <1>3, <1>4 DEF Write
<1>5. ASSUME NEW r \in Runners, NEW m \in Mails, Fail(r, m) PROVE TicketsKept
  BY <1>1, <1>3, <1>5 DEF Fail
<1> QED
  BY <1>1, <1>2, <1>4, <1>5
     DEF Next, vars, dbVars, Deliver, StartRun, FetchPage, Ignore, SetAside, Match,
         CloseRun, FatalError, Crash, Abandon

(* A run that a step leaves alone stays as it was.                         *)
LEMMA OthersKept ==
  ASSUME TypeInv, NEW r \in Runners, UNCHANGED mail, TicketsKept,
         phase'[r] = phase[r], page'[r] \subseteq page[r],
         phase[r] = "write" => page'[r] = page[r]
  PROVE  (\A m \in page'[r] : Delivered(m)') /\ WriteInv(r)'
<1>1. page[r] \subseteq Mails
  BY DEF TypeInv, TypeOK
<1>2. \A m \in page'[r] : Delivered(m)'
  BY <1>1, SameMail DEF TypeInv
<1>3. ASSUME phase'[r] = "write", NEW m \in Mails, InHand(r, m)'
      PROVE  Unambiguous(m)' /\ ticket'[Ref(m)'] # None
             /\ ticket'[Ref(m)'].created <= SentTime(m)'
  <2>1. InHand(r, m)
    BY <1>1, <1>3, SameMail DEF InHand
  <2>2. /\ Unambiguous(m) /\ ticket[Ref(m)] # None
        /\ ticket[Ref(m)].created <= SentTime(m)
    BY <2>1, <1>3 DEF TypeInv, WriteInv
  <2>3. Ref(m) \in Tickets
    BY <2>2, RefIs DEF TypeInv
  <2>4. ticket'[Ref(m)] # None /\ ticket'[Ref(m)].created = ticket[Ref(m)].created
    BY <2>2, <2>3 DEF TicketsKept
  <2> QED
    BY <2>2, <2>4, SameMail
<1> QED
  BY <1>2, <1>3 DEF WriteInv

LEMMA TypeInit == Init => TypeInv
<1> SUFFICES ASSUME Init PROVE TypeInv
  OBVIOUS
<1>1. TypeOK
  BY BoundAssumption, RunnerAssumption DEF Init, TypeOK, Moments
<1> QED
  BY <1>1 DEF Init, TypeInv, WriteInv

(* Arrival: only a message that was not there changes.                     *)
LEMMA TypeDeliver ==
  ASSUME TypeInv, NEW m \in Mails, Deliver(m)
  PROVE  TypeInv'
<1>1. PICK now \in clock .. MaxTime, received \in 1 .. MaxTime, refs \in RefChoices[m] :
        \E sent \in {None, received - 1} :
          /\ ~Delivered(m)
          /\ clock' = now
          /\ mail' = [mail EXCEPT ![m] = [received |-> received, sent |-> sent, refs |-> refs]]
  BY DEF Deliver
<1>2. PICK sent \in {None, received - 1} :
          /\ ~Delivered(m)
          /\ clock' = now
          /\ mail' = [mail EXCEPT ![m] = [received |-> received, sent |-> sent, refs |-> refs]]
  BY <1>1
<1>3. UNCHANGED <<phase, setupVars, scanVars, page, watermark, frozen, noted,
                  superseded, dbVars, faults>>
  BY DEF Deliver
<1>4. refs \in SUBSET Tickets
  BY MailAssumption
<1>5. received \in Moments /\ sent \in Moments \cup {None} /\ now \in Moments
  BY BoundAssumption DEF Moments, TypeInv, TypeOK
<1>6. TypeOK'
  <2>1. clock' \in Moments
    BY <1>2, <1>5
  <2>2. mail' \in [Mails -> [received : Moments, sent : Moments \cup {None},
                             refs : SUBSET Tickets]]
    BY <1>2, <1>4, <1>5 DEF TypeInv, TypeOK
  <2> QED
    BY <2>1, <2>2, <1>3 DEF TypeInv, TypeOK, setupVars, scanVars, dbVars
<1>7. \A n \in Mails : Delivered(n) => n # m /\ mail'[n] = mail[n]
  BY <1>2 DEF TypeInv, TypeOK, Delivered
<1>8. ASSUME NEW r \in Runners
      PROVE  (\A n \in page'[r] : Delivered(n)') /\ WriteInv(r)'
  <2>1. \A n \in page[r] : n \in Mails /\ Delivered(n)
    BY DEF TypeInv, TypeOK
  <2>2. \A n \in page'[r] : Delivered(n)'
    BY <1>3, <1>7, <2>1 DEF Delivered
  <2>3. ASSUME phase'[r] = "write", NEW n \in Mails, InHand(r, n)'
        PROVE  /\ Unambiguous(n)' /\ ticket'[Ref(n)'] # None
               /\ ticket'[Ref(n)'].created <= SentTime(n)'
    <3>1. mail'[n] = mail[n] /\ InHand(r, n)
      BY <1>3, <1>7, <2>1, <2>3 DEF InHand, Earlier
    <3>2. /\ Unambiguous(n) /\ ticket[Ref(n)] # None
          /\ ticket[Ref(n)].created <= SentTime(n)
      BY <3>1, <1>3, <2>3 DEF TypeInv, WriteInv
    <3>3. Unambiguous(n)' = Unambiguous(n) /\ Ref(n)' = Ref(n) /\ SentTime(n)' = SentTime(n)
      BY <3>1 DEF Unambiguous, Ref, SentTime
    <3> QED
      BY <1>3, <3>2, <3>3 DEF dbVars
  <2> QED
    BY <2>2, <2>3 DEF WriteInv
<1> QED
  BY <1>6, <1>8 DEF TypeInv

(* A step of one run's loop: whatever it does to the rest of its page, the *)
(* run ends with no message in hand.                                       *)
LEMMA LoopStep ==
  ASSUME TypeInv, NEW r \in Runners, NEW m \in Mails,
         UNCHANGED mail, TicketsKept, TypeOK',
         page' = [page EXCEPT ![r] = @ \ {m}],
         phase' = [phase EXCEPT ![r] = "scan"] \/ (UNCHANGED phase /\ phase[r] = "scan")
  PROVE  TypeInv'
<1>1. ASSUME NEW q \in Runners
      PROVE  (\A n \in page'[q] : Delivered(n)') /\ WriteInv(q)'
  <2>1. CASE q # r
    BY <2>1, OthersKept DEF TypeInv, TypeOK
  <2>2. CASE q = r
    <3>1. page'[r] = page[r] \ {m} /\ phase'[r] = "scan" /\ page[r] \subseteq Mails
      BY DEF TypeInv, TypeOK
    <3> QED
      BY <2>2, <3>1, SameMail DEF TypeInv, WriteInv
  <2> QED
    BY <2>1, <2>2
<1> QED
  BY <1>1 DEF TypeInv
(* A step that only lets runs end, or begin, with nothing in hand.         *)
LEMMA EdgeStep ==
  ASSUME TypeInv, NEW r \in Runners, UNCHANGED mail, TicketsKept, TypeOK',
         \A q \in Runners \ {r} : phase'[q] = phase[q] /\ page'[q] = page[q],
         phase'[r] # "write", page'[r] \subseteq {m \in Mails : Delivered(m)}
  PROVE  TypeInv'
<1>1. ASSUME NEW q \in Runners
      PROVE  (\A n \in page'[q] : Delivered(n)') /\ WriteInv(q)'
  <2>1. CASE q # r
    BY <2>1, OthersKept
  <2>2. CASE q = r
    BY <2>2, SameMail DEF WriteInv
  <2> QED
    BY <2>1, <2>2
<1> QED
  BY <1>1 DEF TypeInv

LEMMA FetchFromType ==
  ASSUME NEW mark \in Moments
  PROVE  /\ FetchFrom(mark) \in Moments /\ FetchFrom(mark) \in Nat
         /\ FetchFrom(mark) <= mark
         /\ \A n \in Nat : mark <= n + Overlap => FetchFrom(mark) <= n
         /\ \A n \in Moments : n <= mark => FetchFrom(n) <= FetchFrom(mark)
BY BoundAssumption DEF FetchFrom, Moments

LEMMA TypeNext == TypeInv /\ [Next]_vars => TypeInv'
<1> SUFFICES ASSUME TypeInv, [Next]_vars PROVE TypeInv'
  OBVIOUS
<1> USE DEF setupVars, scanVars, sourceVars, dbVars
<1>t. TypeOK /\ TicketsKept
  BY KeptByNext DEF TypeInv
<1>a. ASSUME NEW r \in Runners, NEW m \in Mails, Advance(r, m)
      PROVE  watermark' \in [Runners -> Moments]
  BY <1>t, <1>a, MailFacts DEF Advance, TypeOK
<1>d. ASSUME NEW r \in Runners, NEW m \in Mails, Done(r, m)
      PROVE  page' \in [Runners -> SUBSET Mails] /\ page' = [page EXCEPT ![r] = @ \ {m}]
  BY <1>t, <1>d DEF Done, TypeOK
<1>e. ASSUME NEW r \in Runners, EndRun(r)
      PROVE  /\ phase' \in [Runners -> {"idle", "scan", "write"}]
             /\ started' \in [Runners -> Moments] /\ fetchSince' \in [Runners -> Moments]
             /\ pages' \in [Runners -> Nat] /\ \A q \in Runners : pages'[q] <= MaxPages[q]
             /\ more' \in [Runners -> BOOLEAN]
             /\ page' \in [Runners -> SUBSET Mails] /\ passed' \in [Runners -> SUBSET Mails]
             /\ watermark' \in [Runners -> Moments] /\ frozen' \in [Runners -> BOOLEAN]
             /\ noted' \in [Runners -> SUBSET Mails]
             /\ before' \in [Runners -> SUBSET Runners]
             /\ phase'[r] = "idle" /\ page'[r] = {}
             /\ \A q \in Runners \ {r} : phase'[q] = phase[q] /\ page'[q] = page[q]
  <2>1. 0 \in Moments /\ \A q \in Runners : 0 <= MaxPages[q]
    BY BoundAssumption, RunnerAssumption DEF Moments
  <2>2. before' \in [Runners -> SUBSET Runners]
    BY <1>t, <1>e DEF EndRun, TypeOK
  <2>3. pages' \in [Runners -> Nat] /\ \A q \in Runners : pages'[q] <= MaxPages[q]
    BY <1>t, <1>e, <2>1 DEF EndRun, TypeOK
  <2>4. started' \in [Runners -> Moments] /\ fetchSince' \in [Runners -> Moments]
        /\ watermark' \in [Runners -> Moments]
    BY <1>t, <1>e, <2>1 DEF EndRun, TypeOK
  <2> QED
    BY <1>t, <1>e, <2>2, <2>3, <2>4 DEF EndRun, TypeOK
<1>1. ASSUME NEW m \in Mails, Deliver(m) PROVE TypeInv'
  BY <1>1, TypeDeliver
<1>2. ASSUME NEW t \in Tickets, Ingest(t) PROVE TypeInv'
  <2>0. CreatedAt[t] \in Nat /\ CreatedAt[t] <= clock /\ clock \in 0 .. MaxTime
    BY <1>t, <1>2, BoundAssumption DEF Ingest, TypeOK, Moments
  <2>m. CreatedAt[t] \in Moments
    BY <2>0, BoundAssumption DEF Moments
  <2>1. [created |-> CreatedAt[t], acked |-> None, source |-> None] \in Rows
    BY <2>m DEF Rows
  <2>2. ticket' \in [Tickets -> Rows \cup {None}]
    BY <1>t, <1>2, <2>1 DEF Ingest, TypeOK
  <2>3. TypeOK'
    BY <1>t, <1>2, <2>2 DEF Ingest, TypeOK
  <2> QED
    BY <1>t, <1>2, <2>3, OthersKept DEF Ingest, TypeInv
<1>3. ASSUME NEW r \in Runners, StartRun(r) PROVE TypeInv'
  <2>1. FetchFrom(cursor) \in Moments
    BY <1>t, FetchFromType DEF TypeOK
  <2>2. TypeOK'
    BY <1>t, <1>3, <2>1 DEF StartRun, TypeOK, Active
  <2>3. /\ \A q \in Runners \ {r} : phase'[q] = phase[q] /\ page'[q] = page[q]
        /\ phase'[r] = "scan" /\ page'[r] = page[r]
    BY <1>t, <1>3 DEF StartRun, TypeOK
  <2>4. page[r] \subseteq {m \in Mails : Delivered(m)}
    BY <1>t DEF TypeInv, TypeOK
  <2> QED
    BY <1>t, <1>3, <2>2, <2>3, <2>4, EdgeStep DEF StartRun
<1>4. ASSUME NEW r \in Runners, FetchPage(r) PROVE TypeInv'
  <2>1. PICK skipped \in SUBSET Matching(r), S \in SUBSET Matching(r) :
          /\ page' = [page EXCEPT ![r] = S]
          /\ passed' = [passed EXCEPT ![r] = skipped \cup S]
          /\ more' = [more EXCEPT ![r] = skipped \cup S # Matching(r)]
    BY <1>4 DEF FetchPage
  <2>2. Matching(r) \subseteq {m \in Mails : Delivered(m)}
    BY DEF Matching
  <2>p. /\ pages \in [Runners -> Nat] /\ \A q \in Runners : pages[q] <= MaxPages[q]
        /\ pages' = [pages EXCEPT ![r] = @ + 1]
        /\ pages[r] < MaxPages[r] /\ MaxPages[r] \in Nat
    BY <1>t, <1>4, RunnerAssumption DEF FetchPage, MorePages, TypeOK
  <2>3. pages' \in [Runners -> Nat] /\ \A q \in Runners : pages'[q] <= MaxPages[q]
    BY <2>p
  <2>4. (skipped \cup S # Matching(r)) \in BOOLEAN
    OBVIOUS
  <2>5. more' \in [Runners -> BOOLEAN]
    BY <1>t, <2>1, <2>4 DEF TypeOK
  <2>6. TypeOK'
    BY <1>t, <1>4, <2>1, <2>2, <2>3, <2>5 DEF FetchPage, TypeOK
  <2>7. /\ \A q \in Runners \ {r} : phase'[q] = phase[q] /\ page'[q] = page[q]
        /\ phase'[r] = "scan" /\ page'[r] = S
    BY <1>t, <1>4, <2>1 DEF FetchPage, TypeOK
  <2> QED
    BY <1>t, <1>4, <2>2, <2>6, <2>7, EdgeStep DEF FetchPage
<1>5. ASSUME NEW r \in Runners, NEW m \in Mails, Ignore(r, m) PROVE TypeInv'
  <2>1. TypeOK'
    BY <1>t, <1>a, <1>d, <1>5 DEF Ignore, TypeOK
  <2> QED
    BY <1>t, <1>d, <1>5, <2>1, LoopStep DEF Ignore, IsNext
<1>6. ASSUME NEW r \in Runners, NEW m \in Mails, SetAside(r, m) PROVE TypeInv'
  <2>1. TypeOK'
    BY <1>t, <1>a, <1>d, <1>6 DEF SetAside, TypeOK
  <2> QED
    BY <1>t, <1>d, <1>6, <2>1, LoopStep DEF SetAside, IsNext
<1>7. ASSUME NEW r \in Runners, NEW m \in Mails, Match(r, m) PROVE TypeInv'
  <2>1. TypeOK'
    BY <1>t, <1>7 DEF Match, TypeOK
  <2>2. ASSUME NEW q \in Runners, q # r
        PROVE  (\A n \in page'[q] : Delivered(n)') /\ WriteInv(q)'
    BY <1>t, <1>7, <2>2, OthersKept DEF Match, TypeOK
  <2>3. \A n \in page'[r] : Delivered(n)'
    BY <1>t, <1>7, SameMail DEF Match, TypeInv, TypeOK
  <2>4. ASSUME NEW n \in Mails, InHand(r, n)'
        PROVE  Unambiguous(n)' /\ ticket'[Ref(n)'] # None
               /\ ticket'[Ref(n)'].created <= SentTime(n)'
    <3>1. n \in page[r] /\ \A k \in page[r] \ {n} : Earlier(n, k)
      BY <1>t, <1>7, <2>4, SameMail DEF InHand, Match, TypeOK
    <3>2. m \in page[r] /\ \A k \in page[r] \ {m} : Earlier(m, k)
      BY <1>7 DEF Match, IsNext
    <3>3. n = m
      BY <1>t, <3>1, <3>2, EarlierOrder
    <3>4. Unambiguous(m) /\ ticket[Ref(m)] # None /\ SentTime(m) >= ticket[Ref(m)].created
      BY <1>7 DEF Match
    <3>5. ticket[Ref(m)] \in Rows
      BY <1>t, <3>4, RefIs DEF TypeOK
    <3>6. ticket[Ref(m)].created <= SentTime(m)
      BY <1>t, <3>4, <3>5, MailFacts, RowFacts DEF Moments
    <3> QED
      BY <1>7, <3>3, <3>4, <3>6, SameMail DEF Match
  <2>5. WriteInv(r)'
    BY <2>4 DEF WriteInv
  <2> QED
    BY <2>1, <2>2, <2>3, <2>5 DEF TypeInv
<1>8. ASSUME NEW r \in Runners, NEW m \in Mails, InHand(r, m), Acknowledge(m)
      PROVE  ticket' \in [Tickets -> Rows \cup {None}]
  <2>1. Unambiguous(m) /\ ticket[Ref(m)] # None
    BY <1>8 DEF TypeInv, WriteInv, InHand
  <2> QED
    BY <1>t, <1>8, <2>1, AckFacts
<1>9. ASSUME NEW r \in Runners, NEW m \in Mails, Write(r, m) PROVE TypeInv'
  <2>1. TypeOK'
    BY <1>t, <1>a, <1>d, <1>8, <1>9 DEF Write, TypeOK
  <2> QED
    BY <1>t, <1>d, <1>9, <2>1, LoopStep DEF Write
<1>10. ASSUME NEW r \in Runners, NEW m \in Mails, Fail(r, m) PROVE TypeInv'
  <2>1. ticket' \in [Tickets -> Rows \cup {None}]
    BY <1>t, <1>8, <1>10 DEF Fail, TypeOK
  <2>2. faults' \in 0 .. MaxFaults
    BY <1>t, <1>10, BoundAssumption DEF Fail, TypeOK
  <2>3. TypeOK'
    BY <1>t, <1>d, <1>10, <2>1, <2>2 DEF Fail, TypeOK
  <2> QED
    BY <1>t, <1>d, <1>10, <2>3, LoopStep DEF Fail
<1>11. ASSUME NEW r \in Runners, CloseRun(r) PROVE TypeInv'
  <2>1. /\ cursor' \in Moments
        /\ onRecord' \in SUBSET Mails
    BY <1>t, <1>11 DEF CloseRun, TypeOK
  <2>2. \A q \in Runners :
          (q # r /\ (superseded[q] \/ (watermark[r] > 0 /\ q \in before[r]))) \in BOOLEAN
    OBVIOUS
  <2>3. superseded' \in [Runners -> BOOLEAN]
    BY <1>11, <2>2 DEF CloseRun
  <2>4. TypeOK'
    BY <1>t, <1>e, <1>11, <2>1, <2>3 DEF CloseRun, TypeOK
  <2>5. phase'[r] # "write" /\ page'[r] \subseteq {m \in Mails : Delivered(m)}
        /\ \A q \in Runners \ {r} : phase'[q] = phase[q] /\ page'[q] = page[q]
    BY <1>e, <1>11 DEF CloseRun
  <2> QED
    BY <1>t, <1>11, <2>4, <2>5, EdgeStep DEF CloseRun
<1>12. ASSUME NEW r \in Runners, Abandon(r), onRecord' \in SUBSET Mails PROVE TypeInv'
  <2>1. faults' \in 0 .. MaxFaults
    BY <1>t, <1>12, BoundAssumption DEF Abandon, TypeOK
  <2>2. TypeOK'
    BY <1>t, <1>e, <1>12, <2>1 DEF Abandon, TypeOK
  <2>3. phase'[r] # "write" /\ page'[r] \subseteq {m \in Mails : Delivered(m)}
        /\ \A q \in Runners \ {r} : phase'[q] = phase[q] /\ page'[q] = page[q]
    BY <1>e, <1>12 DEF Abandon
  <2> QED
    BY <1>t, <1>12, <2>2, <2>3, EdgeStep DEF Abandon
<1>13. ASSUME NEW r \in Runners, FatalError(r) \/ Crash(r) PROVE TypeInv'
  BY <1>t, <1>12, <1>13 DEF FatalError, Crash, TypeOK
<1>14. ASSUME UNCHANGED vars PROVE TypeInv'
  <2>1. TypeOK'
    BY <1>t, <1>14 DEF TypeOK, vars
  <2> QED
    BY <1>t, <1>14, <2>1, OthersKept DEF TypeInv, vars
<1> QED
  BY <1>1, <1>2, <1>3, <1>4, <1>5, <1>6, <1>7, <1>9, <1>10, <1>11, <1>13, <1>14 DEF Next

(* Every variable of the Outlook engine keeps its type, over any number of *)
(* overlapping runs; no run exceeds its page bound.                        *)
THEOREM TypeCorrect == Spec => []TypeOK
<1>1. TypeInv => TypeOK
  BY DEF TypeInv
<1> QED
  BY <1>1, TypeInit, TypeNext, PTL DEF Spec

(* FIRST-WRITE-WINS, whatever runs overlap between SELECT and UPDATE.      *)
THEOREM FirstWriteAlwaysWins == Spec => FirstWriteWins
<1>1. TypeInv /\ [Next]_vars =>
        [\A t \in Tickets :
           ticket[t] # None => /\ ticket'[t] # None
                               /\ ticket[t].acked # None => ticket'[t] = ticket[t]]_vars
  BY KeptByNext DEF TicketsKept
<1> QED
  BY <1>1, TypeInit, TypeNext, PTL DEF Spec, FirstWriteWins
-----------------------------------------------------------------------------
(* Acknowledgements are genuine                                            *)

\* The message behind an acknowledgement.
Behind(t, m) ==
  /\ Delivered(m) /\ mail[m].refs = {t}
  /\ ticket[t] = Acked(m) /\ ticket[t].acked >= ticket[t].created

(* A message that is there stays as it is.                                 *)
LEMMA MailStays ==
  ASSUME TypeInv, [Next]_vars, NEW m \in Mails, Delivered(m)
  PROVE  mail'[m] = mail[m]
<1>1. ASSUME NEW n \in Mails, Deliver(n) PROVE mail'[m] = mail[m]
  <2>1. ~Delivered(n) /\ \E x : mail' = [mail EXCEPT ![n] = x]
    BY <1>1 DEF Deliver
  <2> QED
    BY <2>1 DEF TypeInv, TypeOK
<1>2. ASSUME UNCHANGED mail PROVE mail'[m] = mail[m]
  BY <1>2
<1> QED
  BY <1>1, <1>2
     DEF Next, vars, sourceVars, Ingest, StartRun, FetchPage, Ignore, SetAside, Match,
         Write, Fail, CloseRun, FatalError, Crash, Abandon

(* An acknowledgement keeps its message.                                   *)
LEMMA BehindStays ==
  ASSUME TypeInv, [Next]_vars, NEW t \in Tickets, NEW m \in Mails, Behind(t, m),
         ticket'[t] = ticket[t]
  PROVE  Behind(t, m)'
<1>1. mail'[m] = mail[m]
  BY MailStays DEF Behind
<1>2. Unambiguous(m) /\ Ref(m) = t
  BY FS_Singleton DEF Behind, Unambiguous, Ref
<1>3. Ref(m)' = Ref(m) /\ SentTime(m)' = SentTime(m) /\ Delivered(m)' = Delivered(m)
  BY <1>1 DEF Ref, SentTime, Delivered
<1>4. Acked(m)' = Acked(m)
  BY <1>2, <1>3 DEF Acked
<1> QED
  BY <1>1, <1>3, <1>4 DEF Behind

(* An UPDATE writes what the message in hand says.                         *)
LEMMA WrittenIsGenuine ==
  ASSUME TypeInv, UNCHANGED mail, NEW r \in Runners, NEW m \in Mails, InHand(r, m),
         Acknowledge(m), NEW t \in Tickets, ticket'[t] # ticket[t]
  PROVE  Behind(t, m)'
<1>1. /\ Unambiguous(m) /\ ticket[Ref(m)] # None /\ Delivered(m)
      /\ ticket[Ref(m)].created <= SentTime(m)
  BY DEF TypeInv, WriteInv, InHand
<1>2. /\ t = Ref(m) /\ ticket'[t] = Acked(m)
      /\ ticket'[t].created = ticket[t].created /\ ticket'[t].acked = SentTime(m)
  BY <1>1, AckFacts DEF TypeInv
<1>3. mail[m].refs = {t}
  BY <1>1, <1>2, RefIs DEF TypeInv
<1>4. Acked(m)' = Acked(m)
  <2>1. Ref(m)' = t /\ SentTime(m)' = SentTime(m)
    BY <1>2, SameMail
  <2> QED
    BY <1>2, <2>1 DEF Acked
<1>5. ticket'[t].acked >= ticket'[t].created
  <2>1. SentTime(m) \in Nat /\ ticket[t] \in Rows
    BY <1>1, <1>2, MailFacts DEF TypeInv, TypeOK
  <2>2. ticket[t].created \in Nat
    BY <2>1, RowFacts DEF Moments
  <2> QED
    BY <1>1, <1>2, <2>1, <2>2
<1> QED
  BY <1>1, <1>2, <1>3, <1>4, <1>5, SameMail DEF Behind

LEMMA GenuineNext == TypeInv /\ AckGenuine /\ [Next]_vars => AckGenuine'
<1> SUFFICES ASSUME TypeInv, AckGenuine, [Next]_vars, NEW t \in Tickets,
                    ticket'[t] # None, ticket'[t].acked # None
             PROVE  \E m \in Mails : Behind(t, m)'
  BY DEF AckGenuine, Behind
<1>1. CASE ticket'[t] = ticket[t]
  <2>1. PICK m \in Mails : Behind(t, m)
    BY <1>1 DEF AckGenuine, Behind
  <2> QED
    BY <1>1, <2>1, BehindStays
<1>2. ASSUME NEW u \in Tickets, Ingest(u), ticket'[t] # ticket[t] PROVE FALSE
  <2>1. ticket'[t] = [created |-> CreatedAt[u], acked |-> None, source |-> None]
    BY <1>2 DEF Ingest, TypeInv, TypeOK
  <2> QED
    BY <2>1
<1>3. ASSUME NEW r \in Runners, NEW m \in Mails, Write(r, m) \/ Fail(r, m),
             ticket'[t] # ticket[t]
      PROVE  \E n \in Mails : Behind(t, n)'
  <2>1. InHand(r, m) /\ Acknowledge(m) /\ UNCHANGED mail
    BY <1>3 DEF Write, Fail, sourceVars
  <2> QED
    BY <1>3, <2>1, WrittenIsGenuine
<1> QED
  BY <1>1, <1>2, <1>3
     DEF Next, vars, dbVars, Deliver, StartRun, FetchPage, Ignore, SetAside, Match,
         CloseRun, FatalError, Crash, Abandon

(* Every acknowledgement is the send time of a message that names its      *)
(* ticket and no other and is not older: the engine guesses nothing,       *)
(* whatever fails, is committed unseen, or overlaps between SELECT and     *)
(* UPDATE.                                                                 *)
THEOREM AcksAreGenuine == Spec => []AckGenuine
<1>1. Init => AckGenuine
  BY DEF Init, AckGenuine
<1> QED
  BY <1>1, TypeInit, TypeNext, GenuineNext, PTL DEF Spec
-----------------------------------------------------------------------------
(* Nothing is dropped                                                      *)

(* A late message and a run together never exceed the overlap.             *)
LateRegime == Lag + FetchSpan <= Overlap

\* Not older than the run's start by more than the lag of the mailbox.
Fresh(r, m) == started[r] <= mail[m].received + Lag

(* What a run under way is sure of, for each message there is: it is       *)
(* accounted for, or noted, or too young for any watermark of this run to  *)
(* drop, or still to be handled, or failed, with the watermark behind it.  *)
Debt(r, m) ==
  \/ Accounted(m)
  \/ m \in noted[r]
  \/ Fresh(r, m)
  \/ /\ FetchFrom(watermark[r]) <= mail[m].received
     /\ \/ frozen[r]
        \/ m \in page[r]
        \/ m \notin passed[r] /\ m \in Matching(r)

(* The next offset counts the messages passed, which precede all others    *)
(* that were there when the run started.                                   *)
RunInv(r) ==
  phase[r] # "idle" =>
    /\ started[r] <= clock /\ clock <= started[r] + FetchSpan
    /\ watermark[r] <= clock
    /\ page[r] \subseteq passed[r] /\ passed[r] \subseteq Matching(r)
    /\ more[r] => Cardinality(passed[r]) = pages[r] * PageTop
    /\ \A p \in passed[r], m \in Matching(r) \ passed[r] : Fresh(r, m) \/ Earlier(p, m)
    /\ \A m \in Mails : Delivered(m) => Debt(r, m)

ScanInv ==
  /\ TypeInv
  /\ cursor <= clock
  /\ \A m \in Mails : mail[m].received <= clock
  /\ NothingDropped
  /\ \A r \in Runners : RunInv(r)
  \* an idle run has nothing left over
  /\ \A r \in Runners :
       phase[r] = "idle" => page[r] = {} /\ passed[r] = {} /\ pages[r] = 0

LEMMA AccountedStays ==
  ASSUME TypeInv, NEW m \in Mails, mail'[m] = mail[m], TicketsKept,
         onRecord \subseteq onRecord', Accounted(m)
  PROVE  Accounted(m)'
<1>1. Unambiguous(m)' = Unambiguous(m) /\ Ref(m)' = Ref(m)
  BY DEF Unambiguous, Ref
<1>2. ASSUME Settled(m) PROVE Settled(m)'
  <2>1. Ref(m) \in Tickets
    BY <1>2, RefIs DEF Settled, TypeInv
  <2>2. ticket'[Ref(m)] = ticket[Ref(m)]
    BY <1>2, <2>1 DEF Settled, TicketsKept
  <2> QED
    BY <1>1, <1>2, <2>2 DEF Settled
<1> QED
  BY <1>2 DEF Accounted

\* A step that leaves the variables of run r alone.
RunFrame(r) ==
  /\ phase'[r] = phase[r] /\ started'[r] = started[r] /\ fetchSince'[r] = fetchSince[r]
  /\ pages'[r] = pages[r] /\ more'[r] = more[r]
  /\ page'[r] = page[r] /\ passed'[r] = passed[r]
  /\ watermark'[r] = watermark[r] /\ frozen'[r] = frozen[r] /\ noted'[r] = noted[r]

LEMMA RunKept ==
  ASSUME TypeInv, NEW r \in Runners, RunInv(r), UNCHANGED sourceVars, TicketsKept,
         onRecord \subseteq onRecord', RunFrame(r)
  PROVE  RunInv(r)'
<1>1. /\ clock' = clock /\ mail' = mail /\ Matching(r)' = Matching(r)
      /\ \A m \in Mails : (Fresh(r, m)' <=> Fresh(r, m)) /\ (Delivered(m)' <=> Delivered(m))
      /\ \A m, n \in Mails : Earlier(m, n)' <=> Earlier(m, n)
      /\ FetchFrom(watermark[r])' = FetchFrom(watermark[r])
  BY DEF sourceVars, RunFrame, Matching, Fresh, Earlier, Delivered, FetchFrom
<1>2. ASSUME NEW m \in Mails, Debt(r, m) PROVE Debt(r, m)'
  BY <1>1, <1>2, AccountedStays DEF Debt, RunFrame
<1>3. passed[r] \subseteq Mails /\ Matching(r) \subseteq Mails
  BY DEF TypeInv, TypeOK, Matching
<1> QED
  BY <1>1, <1>2, <1>3 DEF RunInv, RunFrame

(* One turn of the loop over a page's messages.                            *)
LEMMA LoopRun ==
  ASSUME ScanInv, NEW r \in Runners, NEW m \in page[r], phase[r] # "idle",
         \A n \in page[r] \ {m} : Earlier(m, n),
         UNCHANGED sourceVars, TicketsKept, onRecord \subseteq onRecord',
         started'[r] = started[r], fetchSince'[r] = fetchSince[r],
         pages'[r] = pages[r], more'[r] = more[r], passed'[r] = passed[r],
         page'[r] = page[r] \ {m}, noted[r] \subseteq noted'[r],
         \/ frozen'[r] /\ watermark'[r] = watermark[r]
         \/ /\ frozen'[r] = frozen[r]
            /\ watermark'[r] = IF ~frozen[r] /\ mail[m].received > watermark[r]
                               THEN mail[m].received ELSE watermark[r]
            /\ Accounted(m)' \/ m \in noted'[r]
  PROVE  RunInv(r)'
<1>1. /\ clock' = clock /\ mail' = mail /\ Matching(r)' = Matching(r)
      /\ \A n \in Mails : (Fresh(r, n)' <=> Fresh(r, n)) /\ (Delivered(n)' <=> Delivered(n))
      /\ \A n, k \in Mails : Earlier(n, k)' <=> Earlier(n, k)
      /\ FetchFrom(watermark[r])' = FetchFrom(watermark'[r])
  BY DEF sourceVars, Matching, Fresh, Earlier, Delivered, FetchFrom
<1>2. /\ passed[r] \subseteq Mails /\ Matching(r) \subseteq Mails /\ page[r] \subseteq Mails
      /\ m \in Mails /\ TypeOK /\ clock \in Nat
      /\ watermark[r] \in Moments /\ watermark[r] \in Nat /\ frozen[r] \in BOOLEAN
  BY MailFacts DEF ScanInv, TypeInv, TypeOK, Matching, Moments
<1>3. /\ started[r] <= clock /\ clock <= started[r] + FetchSpan
      /\ watermark[r] <= clock /\ mail[m].received <= clock
      /\ page[r] \subseteq passed[r] /\ passed[r] \subseteq Matching(r)
      /\ more[r] => Cardinality(passed[r]) = pages[r] * PageTop
      /\ \A p \in passed[r], n \in Matching(r) \ passed[r] : Fresh(r, n) \/ Earlier(p, n)
      /\ \A n \in Mails : Delivered(n) => Debt(r, n)
  BY <1>2 DEF ScanInv, RunInv
<1>4. mail[m].received \in Moments /\ \A n \in Mails : mail[n].received \in Nat
  BY <1>2, MailFacts
<1>5. watermark'[r] \in {watermark[r], mail[m].received} /\ watermark'[r] <= clock'
  BY <1>1, <1>2, <1>3
<1>6. ASSUME NEW n \in Mails, mail[m].received <= mail[n].received,
             FetchFrom(watermark[r]) <= mail[n].received
      PROVE  FetchFrom(watermark'[r]) <= mail[n].received
  <2>1. FetchFrom(mail[m].received) <= mail[m].received /\ FetchFrom(mail[m].received) \in Nat
    BY <1>4, FetchFromType
  <2>2. CASE watermark'[r] = watermark[r]
    BY <1>6, <2>2
  <2>3. CASE watermark'[r] = mail[m].received
    <3>1. mail[m].received \in Nat /\ mail[n].received \in Nat
      BY <1>2, <1>4
    <3>2. FetchFrom(mail[m].received) <= mail[n].received
      BY <1>6, <2>1, <3>1
    <3> QED
      BY <2>3, <3>2
  <2> QED
    BY <1>5, <2>2, <2>3
<1>7. ASSUME NEW n \in Mails, Delivered(n) PROVE Debt(r, n)'
  <2>1. CASE Accounted(n)
    BY <1>1, <2>1, AccountedStays DEF Debt, ScanInv
  <2>2. CASE n \in noted[r] \/ Fresh(r, n)
    BY <1>1, <2>2 DEF Debt
  <2>3. CASE ~Accounted(n) /\ n \notin noted[r] /\ ~Fresh(r, n)
    <3>1. /\ FetchFrom(watermark[r]) <= mail[n].received
          /\ frozen[r] \/ n \in page[r] \/ (n \notin passed[r] /\ n \in Matching(r))
      BY <1>3, <1>7, <2>3 DEF Debt
    <3>2. CASE frozen'[r]
      <4>1. watermark'[r] = watermark[r]
        BY <3>2, <1>2
      <4> QED
        BY <1>1, <3>1, <3>2, <4>1 DEF Debt
    <3>3. CASE ~frozen'[r]
      <4>1. ~frozen[r] /\ (Accounted(m)' \/ m \in noted'[r])
        BY <3>3
      <4>2. CASE n = m
        BY <4>1, <4>2 DEF Debt
      <4>3. CASE n # m
        <5>1. Earlier(m, n)
          BY <1>3, <2>3, <3>1, <4>1, <4>3
        <5>2. mail[m].received <= mail[n].received
          BY <1>2, <5>1, EarlierOrder
        <5>3. FetchFrom(watermark'[r]) <= mail[n].received
          BY <1>6, <3>1, <5>2
        <5>4. n \in page'[r] \/ (n \notin passed'[r] /\ n \in Matching(r)')
          BY <1>1, <3>1, <4>1, <4>3
        <5> QED
          BY <1>1, <5>3, <5>4 DEF Debt
      <4> QED
        BY <4>2, <4>3
    <3> QED
      BY <3>2, <3>3
  <2> QED
    BY <2>1, <2>2, <2>3
<1>8. page'[r] \subseteq passed'[r] /\ passed'[r] \subseteq Matching(r)'
  BY <1>1, <1>3
<1>9. \A p \in passed'[r], n \in Matching(r)' \ passed'[r] : Fresh(r, n)' \/ Earlier(p, n)'
  BY <1>1, <1>2, <1>3
<1> QED
  BY <1>1, <1>3, <1>5, <1>7, <1>8, <1>9 DEF RunInv
LEMMA MessageSets ==
  ASSUME NEW S \in SUBSET Mails
  PROVE  /\ IsFiniteSet(S) /\ Cardinality(S) \in Nat
         /\ \A R \in SUBSET S : /\ Cardinality(R) <= Cardinality(S)
                                /\ Cardinality(R) = Cardinality(S) => R = S
<1>1. IsFiniteSet(S)
  BY MailAssumption, FS_Subset
<1> QED
  BY <1>1, FS_CardinalityType, FS_Subset

(* Offsets add up.                                                         *)
LEMMA OffsetStep ==
  ASSUME NEW n \in Nat
  PROVE  n * PageTop \in Nat /\ (n + 1) * PageTop = n * PageTop + PageTop /\ 0 * PageTop = 0
<1>1. PageTop \in Nat
  BY BoundAssumption
<1> QED
  BY <1>1

(* A page that has a nextLink is full, and so is the prefix before it.     *)
LEMMA FullPages ==
  ASSUME NEW M \in SUBSET Mails, NEW skipped \in SUBSET M, NEW S \in SUBSET (M \ skipped),
         NEW n \in Nat, IsPrefix(skipped, M, n), IsPrefix(S, M \ skipped, PageTop),
         skipped \cup S # M
  PROVE  Cardinality(skipped \cup S) = n + PageTop
<1>1. Cardinality(skipped) = n /\ Cardinality(S) = PageTop
  BY DEF IsPrefix
<1>2. IsFiniteSet(skipped) /\ IsFiniteSet(S) /\ skipped \cap S = {}
  BY MessageSets
<1>3. Cardinality(skipped \cup S)
        = Cardinality(skipped) + Cardinality(S) - Cardinality(skipped \cap S)
  BY <1>2, FS_Union
<1>4. Cardinality(skipped \cap S) = 0
  BY <1>2, FS_EmptySet
<1>5. n \in Nat /\ PageTop \in Nat
  BY BoundAssumption
<1> QED
  BY <1>1, <1>3, <1>4, <1>5

(* The next page, by offset, of a result that only grew at its young end.  *)
LEMMA FetchRun ==
  ASSUME ScanInv, NEW r \in Runners, FetchPage(r)
  PROVE  RunInv(r)'
<1> DEFINE M == Matching(r)
<1>1. PICK skipped \in SUBSET M, S \in SUBSET M :
        /\ S \in SUBSET (M \ skipped)
        /\ IsPrefix(skipped, M, pages[r] * PageTop)
        /\ IsPrefix(S, M \ skipped, PageTop)
        /\ page' = [page EXCEPT ![r] = S]
        /\ passed' = [passed EXCEPT ![r] = skipped \cup S]
        /\ more' = [more EXCEPT ![r] = skipped \cup S # M]
  BY DEF FetchPage
<1>2. /\ phase[r] = "scan" /\ page[r] = {} /\ more[r]
      /\ pages' = [pages EXCEPT ![r] = @ + 1]
      /\ UNCHANGED <<sourceVars, phase, setupVars, watermark, frozen, noted, dbVars>>
  BY DEF FetchPage, MorePages
<1>3. TypeOK /\ M \in SUBSET Mails
  BY DEF ScanInv, TypeInv, Matching
<1>4. /\ page'[r] = S /\ passed'[r] = skipped \cup S /\ pages'[r] = pages[r] + 1
      /\ more'[r] = (skipped \cup S # M)
      /\ pages[r] \in Nat /\ PageTop \in Nat
  BY <1>1, <1>2, <1>3, BoundAssumption DEF TypeOK
<1>5. /\ mail' = mail /\ clock' = clock /\ Matching(r)' = M
      /\ \A m \in Mails : (Fresh(r, m)' <=> Fresh(r, m)) /\ (Delivered(m)' <=> Delivered(m))
                          /\ (Accounted(m)' <=> Accounted(m))
      /\ \A m, n \in Mails : Earlier(m, n)' <=> Earlier(m, n)
      /\ FetchFrom(watermark[r])' = FetchFrom(watermark[r])
  BY <1>2 DEF sourceVars, setupVars, dbVars, Matching, Fresh, Earlier, Delivered, FetchFrom,
              Accounted, Settled, Unambiguous, Ref
<1>6. /\ started[r] <= clock /\ clock <= started[r] + FetchSpan
      /\ watermark[r] <= clock
      /\ passed[r] \subseteq M
      /\ Cardinality(passed[r]) = pages[r] * PageTop
      /\ \A p \in passed[r], m \in M \ passed[r] : Fresh(r, m) \/ Earlier(p, m)
      /\ \A m \in Mails : Delivered(m) => Debt(r, m)
  BY <1>2 DEF ScanInv, RunInv
<1> HIDE DEF M
<1>7. pages[r] * PageTop \in Nat /\ (pages[r] + 1) * PageTop = pages[r] * PageTop + PageTop
  BY <1>4, OffsetStep
<1>8. skipped \cup S # M => Cardinality(skipped \cup S) = (pages[r] + 1) * PageTop
  BY <1>1, <1>3, <1>7, FullPages
<1>9. \A p \in skipped \cup S, m \in M \ (skipped \cup S) : Earlier(p, m)
  BY <1>1 DEF IsPrefix
<1>10. ASSUME NEW m \in M \ passed[r], ~Fresh(r, m) PROVE m \notin skipped
  <2> SUFFICES ASSUME m \in skipped PROVE FALSE
    OBVIOUS
  <2>1. passed[r] \in SUBSET Mails /\ skipped \in SUBSET Mails /\ m \in Mails
    BY <1>1, <1>3, <1>6
  <2>2. Cardinality(skipped) <= pages[r] * PageTop
    BY <1>1, <1>3, <1>7, MessageSets DEF IsPrefix
  <2>3. ~(passed[r] \subseteq skipped)
    <3>1. passed[r] \subseteq skipped => passed[r] # skipped
      BY <1>10
    <3> QED
      BY <3>1, <2>1, <2>2, <1>6, <1>7, MessageSets
  <2>4. PICK p \in passed[r] : p \notin skipped
    BY <2>3
  <2>5. Earlier(p, m) /\ Earlier(m, p)
    BY <1>1, <1>6, <1>10, <2>4 DEF IsPrefix
  <2> QED
    BY <2>1, <2>4, <2>5, <1>3, EarlierOrder
<1>11. ASSUME NEW m \in Mails, Delivered(m) PROVE Debt(r, m)'
  <2>1. Debt(r, m)
    BY <1>6, <1>11
  <2>2. CASE Accounted(m) \/ m \in noted[r] \/ Fresh(r, m)
    BY <1>2, <1>5, <2>2 DEF Debt
  <2>3. CASE ~Accounted(m) /\ m \notin noted[r] /\ ~Fresh(r, m)
    <3>1. /\ FetchFrom(watermark[r]) <= mail[m].received
          /\ frozen[r] \/ (m \notin passed[r] /\ m \in M)
      BY <1>2, <2>1, <2>3 DEF Debt, M
    <3>2. frozen[r] \/ m \in page'[r] \/ (m \notin passed'[r] /\ m \in M)
      BY <1>4, <1>10, <2>3, <3>1
    <3> QED
      BY <1>2, <1>5, <3>1, <3>2 DEF Debt
  <2> QED
    BY <2>2, <2>3
<1>12. page'[r] \subseteq passed'[r] /\ passed'[r] \subseteq Matching(r)'
  BY <1>1, <1>4, <1>5
<1>13. \A p \in passed'[r], m \in Matching(r)' \ passed'[r] : Fresh(r, m)' \/ Earlier(p, m)'
  <2>1. \A p \in passed'[r], m \in Matching(r)' \ passed'[r] :
          p \in Mails /\ m \in Mails /\ Earlier(p, m)
    BY <1>1, <1>3, <1>4, <1>5, <1>9
  <2> QED
    BY <1>5, <2>1
<1>14. started'[r] <= clock' /\ clock' <= started'[r] + FetchSpan /\ watermark'[r] <= clock'
  BY <1>2, <1>5, <1>6 DEF setupVars
<1>15. more'[r] => Cardinality(passed'[r]) = pages'[r] * PageTop
  BY <1>4, <1>8
<1>16. \A m \in Mails : Delivered(m)' => Debt(r, m)'
  BY <1>5, <1>11
<1> QED
  BY <1>12, <1>13, <1>14, <1>15, <1>16 DEF RunInv
LEMMA ScanInit == Init => ScanInv
<1> SUFFICES ASSUME Init PROVE ScanInv
  OBVIOUS
<1>1. \A m \in Mails : ~Delivered(m) /\ mail[m].received = 0
  BY DEF Init, Delivered
<1> QED
  BY <1>1, TypeInit DEF Init, ScanInv, NothingDropped, RunInv

(* An arrival is fresh for every run under way, and young enough for the   *)
(* overlap of the next one.                                                *)
LEMMA ScanDeliver ==
  ASSUME LateRegime, ScanInv, NEW m \in Mails, Deliver(m)
  PROVE  ScanInv'
<1>1. PICK now \in clock .. MaxTime, received \in 1 .. MaxTime, refs \in RefChoices[m] :
        \E sent \in {None, received - 1} :
          /\ ~Delivered(m)
          /\ received <= now /\ clock <= received + Lag
          /\ \A r \in Active : now <= started[r] + FetchSpan
          /\ clock' = now
          /\ mail' = [mail EXCEPT ![m] = [received |-> received, sent |-> sent, refs |-> refs]]
  BY DEF Deliver
<1>2. UNCHANGED <<phase, setupVars, scanVars, page, watermark, frozen, noted,
                  superseded, dbVars, faults>>
  BY DEF Deliver
<1>t. TypeOK /\ TypeInv /\ TypeInv'
  BY TypeDeliver DEF ScanInv, TypeInv
<1>3. /\ clock \in Nat /\ clock' \in Nat /\ clock <= clock' /\ received \in Nat
      /\ Lag \in Nat /\ Overlap \in Nat /\ FetchSpan \in Nat /\ Lag <= Overlap
  BY <1>1, <1>t, MailFacts, BoundAssumption DEF LateRegime
<1>4. /\ mail'[m].received = received
      /\ \A n \in Mails : Delivered(n) => n # m
      /\ \A n \in Mails : n # m => mail'[n] = mail[n]
  BY <1>1, <1>t DEF TypeOK, Delivered
<1>5. TicketsKept
  BY <1>2 DEF TicketsKept, dbVars
<1>6. cursor' <= clock' /\ \A n \in Mails : mail'[n].received <= clock'
  <2>1. cursor <= clock /\ \A n \in Mails : mail[n].received <= clock
    BY DEF ScanInv
  <2>2. cursor' = cursor /\ cursor \in Nat
    BY <1>2, <1>t, MailFacts DEF dbVars
  <2>3. \A n \in Mails : mail[n].received \in Nat
    BY <1>t, MailFacts
  <2> QED
    BY <2>1, <2>2, <2>3, <1>1, <1>3, <1>4
<1>7. NothingDropped'
  <2>1. ASSUME NEW n \in Mails, Delivered(n)'
        PROVE  mail'[n].received >= FetchFrom(cursor)' \/ Accounted(n)'
    <3>1. FetchFrom(cursor)' = FetchFrom(cursor)
      BY <1>2 DEF dbVars, FetchFrom
    <3>2. CASE n = m
      <4>1. cursor \in Moments /\ cursor <= received + Overlap
        BY <1>1, <1>3, <1>t DEF ScanInv, TypeOK, Moments
      <4>2. FetchFrom(cursor) <= received
        BY <1>3, <4>1, FetchFromType
      <4>3. FetchFrom(cursor) \in Nat
        BY <4>1, FetchFromType
      <4> QED
        BY <1>3, <1>4, <3>1, <3>2, <4>2, <4>3
    <3>3. CASE n # m
      <4>1. Delivered(n) /\ mail'[n] = mail[n]
        BY <1>4, <2>1, <3>3 DEF Delivered
      <4>2. mail[n].received >= FetchFrom(cursor) \/ Accounted(n)
        BY <4>1 DEF ScanInv, NothingDropped
      <4>3. Accounted(n) => Accounted(n)'
        BY <1>2, <1>5, <1>t, <4>1, AccountedStays DEF dbVars
      <4> QED
        BY <3>1, <4>1, <4>2, <4>3
    <3> QED
      BY <3>2, <3>3
  <2> QED
    BY <2>1 DEF NothingDropped
<1>8. ASSUME NEW r \in Runners PROVE RunInv(r)'
  <2> SUFFICES ASSUME phase'[r] # "idle" PROVE RunInv(r)'
    BY DEF RunInv
  <2>1. phase[r] # "idle" /\ RunFrame(r) /\ r \in Active
    BY <1>2 DEF RunFrame, setupVars, scanVars, Active
  <2>2. /\ started[r] <= clock
        /\ watermark[r] <= clock
        /\ page[r] \subseteq passed[r] /\ passed[r] \subseteq Matching(r)
        /\ more[r] => Cardinality(passed[r]) = pages[r] * PageTop
        /\ \A p \in passed[r], n \in Matching(r) \ passed[r] : Fresh(r, n) \/ Earlier(p, n)
        /\ \A n \in Mails : Delivered(n) => Debt(r, n)
    BY <2>1 DEF ScanInv, RunInv
  <2>3. started[r] \in Nat /\ watermark[r] \in Nat
    BY <1>t DEF TypeOK, Moments
  <2>4. /\ started'[r] <= clock' /\ clock' <= started'[r] + FetchSpan
        /\ watermark'[r] <= clock'
    BY <1>1, <1>3, <2>1, <2>2, <2>3 DEF RunFrame
  <2>5. Fresh(r, m)'
    <3>1. started[r] <= received + Lag
      BY <1>1, <1>3, <2>2, <2>3
    <3> QED
      BY <3>1, <1>4, <2>1 DEF Fresh, RunFrame
  <2>6. \A n \in Matching(r) : n # m /\ n \in Matching(r)' /\ n \in Mails
    BY <1>4, <2>1 DEF Matching, Delivered, RunFrame
  <2>7. \A n \in Matching(r)' : n = m \/ n \in Matching(r)
    BY <1>4, <2>1 DEF Matching, Delivered, RunFrame
  <2>8. \A n \in Mails : n # m => (Fresh(r, n)' <=> Fresh(r, n))
    BY <1>4, <2>1 DEF Fresh, RunFrame
  <2>9. \A p, n \in Mails : p # m /\ n # m => (Earlier(p, n)' <=> Earlier(p, n))
    BY <1>4 DEF Earlier
  <2>10. page'[r] \subseteq passed'[r] /\ passed'[r] \subseteq Matching(r)'
    BY <2>1, <2>2, <2>6 DEF RunFrame
  <2>11. \A p \in passed'[r], n \in Matching(r)' \ passed'[r] : Fresh(r, n)' \/ Earlier(p, n)'
    <3> TAKE p \in passed'[r], n \in Matching(r)' \ passed'[r]
    <3>1. p \in passed[r] /\ p \in Matching(r) /\ n \notin passed[r]
      BY <2>1, <2>2 DEF RunFrame
    <3>2. CASE n = m
      BY <2>5, <3>2
    <3>3. CASE n # m
      BY <2>2, <2>6, <2>7, <2>8, <2>9, <3>1, <3>3
    <3> QED
      BY <3>2, <3>3
  <2>12. ASSUME NEW n \in Mails, Delivered(n)' PROVE Debt(r, n)'
    <3>1. CASE n = m
      BY <2>5, <3>1 DEF Debt
    <3>2. CASE n # m
      <4>1. Delivered(n) /\ mail'[n] = mail[n] /\ Debt(r, n)
        BY <1>4, <2>2, <2>12, <3>2 DEF Delivered
      <4>2. Accounted(n) => Accounted(n)'
        BY <1>2, <1>5, <1>t, <4>1, AccountedStays DEF dbVars
      <4>3. FetchFrom(watermark[r])' = FetchFrom(watermark[r])
        BY <2>1 DEF RunFrame, FetchFrom
      <4> QED
        BY <2>1, <2>6, <2>8, <3>2, <4>1, <4>2, <4>3 DEF Debt, RunFrame
    <3> QED
      BY <3>1, <3>2
  <2> QED
    BY <2>1, <2>2, <2>4, <2>10, <2>11, <2>12 DEF RunInv, RunFrame
<1>9. \A r \in Runners :
        phase'[r] = "idle" => page'[r] = {} /\ passed'[r] = {} /\ pages'[r] = 0
  BY <1>2 DEF ScanInv, scanVars
<1> QED
  BY <1>t, <1>6, <1>7, <1>8, <1>9 DEF ScanInv
LEMMA DroppedKept ==
  ASSUME ScanInv, TicketsKept, UNCHANGED <<sourceVars, cursor>>, onRecord \subseteq onRecord'
  PROVE  NothingDropped' /\ cursor' <= clock'
<1>1. \A m \in Mails : (Delivered(m)' <=> Delivered(m)) /\ mail'[m] = mail[m]
      /\ FetchFrom(cursor)' = FetchFrom(cursor)
  BY DEF sourceVars, Delivered, FetchFrom
<1> QED
  BY <1>1, AccountedStays DEF ScanInv, NothingDropped, sourceVars

(* A step of run r that leaves the mailbox and the other runs alone.       *)
LEMMA ScanStep ==
  ASSUME ScanInv, TypeInv', TicketsKept, UNCHANGED sourceVars, NEW r \in Runners,
         \A q \in Runners \ {r} : RunFrame(q), onRecord \subseteq onRecord',
         RunInv(r)', NothingDropped', cursor' <= clock',
         phase'[r] = "idle" => page'[r] = {} /\ passed'[r] = {} /\ pages'[r] = 0
  PROVE  ScanInv'
<1>1. \A q \in Runners : RunInv(q)'
  BY RunKept DEF ScanInv
<1>2. \A q \in Runners :
        phase'[q] = "idle" => page'[q] = {} /\ passed'[q] = {} /\ pages'[q] = 0
  BY DEF ScanInv, RunFrame
<1>3. \A m \in Mails : mail'[m].received <= clock'
  BY DEF ScanInv, sourceVars
<1> QED
  BY <1>1, <1>2, <1>3 DEF ScanInv

(* The end of a run: its messages are accounted for, or on record now, or  *)
(* the next run scans them again.                                          *)
LEMMA ScanClose ==
  ASSUME LateRegime, ScanInv, TicketsKept, NEW r \in Runners, CloseRun(r)
  PROVE  NothingDropped' /\ cursor' <= clock'
<1>1. /\ phase[r] = "scan" /\ page[r] = {} /\ UNCHANGED <<sourceVars, ticket>>
      /\ onRecord' = onRecord \cup noted[r] /\ ~MorePages(r)
      /\ cursor' \in {cursor, watermark[r]}
  BY DEF CloseRun
<1>2. CASE cursor' = cursor
  BY <1>1, <1>2, DroppedKept
<1>3. CASE cursor' = watermark[r]
  <2>1. /\ started[r] <= clock /\ clock <= started[r] + FetchSpan
        /\ watermark[r] <= clock
        /\ \A m \in Mails : Delivered(m) => Debt(r, m)
    BY <1>1 DEF ScanInv, RunInv
  <2>2. watermark[r] \in Moments /\ watermark[r] \in Nat /\ started[r] \in Nat /\ clock \in Nat
    BY DEF ScanInv, TypeInv, TypeOK, Moments
  <2>3. \A m \in Mails : (Delivered(m)' <=> Delivered(m)) /\ mail'[m] = mail[m]
        /\ FetchFrom(cursor)' = FetchFrom(watermark[r])
    BY <1>1, <1>3 DEF sourceVars, Delivered, FetchFrom
  <2>4. ASSUME NEW m \in Mails, Delivered(m)
        PROVE  FetchFrom(watermark[r]) <= mail[m].received \/ Accounted(m)'
    <3>1. mail[m].received \in Nat
      BY MailFacts DEF ScanInv, TypeInv
    <3>2. CASE Accounted(m)
      BY <1>1, <2>3, <3>2, AccountedStays DEF ScanInv
    <3>3. CASE m \in noted[r]
      BY <1>1, <3>3 DEF Accounted
    <3>4. CASE Fresh(r, m)
      <4>1. Lag \in Nat /\ Overlap \in Nat /\ FetchSpan \in Nat /\ Lag + FetchSpan <= Overlap
        BY BoundAssumption DEF LateRegime
      <4>2. watermark[r] <= mail[m].received + Overlap
        BY <2>1, <2>2, <3>1, <3>4, <4>1 DEF Fresh
      <4> QED
        BY <2>2, <3>1, <4>2, FetchFromType
    <3> QED
      BY <2>1, <2>4, <3>2, <3>3, <3>4 DEF Debt
  <2>5. FetchFrom(watermark[r]) \in Nat /\ \A m \in Mails : mail[m].received \in Nat
    BY <2>2, FetchFromType, MailFacts DEF ScanInv, TypeInv
  <2> QED
    BY <1>1, <1>3, <2>1, <2>3, <2>4, <2>5 DEF NothingDropped, sourceVars
<1> QED
  BY <1>1, <1>2, <1>3

LEMMA ScanNext == LateRegime /\ ScanInv /\ [Next]_vars => ScanInv'
<1> SUFFICES ASSUME LateRegime, ScanInv, [Next]_vars PROVE ScanInv'
  OBVIOUS
<1> USE DEF setupVars, scanVars, dbVars
<1>t. TypeOK /\ TypeInv /\ TypeInv' /\ TicketsKept
  BY TypeNext, KeptByNext DEF ScanInv, TypeInv
<1>1. ASSUME NEW m \in Mails, Deliver(m) PROVE ScanInv'
  BY <1>1, ScanDeliver
<1>2. ASSUME UNCHANGED <<sourceVars, cursor, onRecord>>,
             UNCHANGED <<phase, setupVars, scanVars, page, watermark, frozen, noted>>
      PROVE  ScanInv'
  <2>1. \A q \in Runners : RunFrame(q)
    BY <1>2 DEF RunFrame
  <2>2. \A q \in Runners : RunInv(q)'
    BY <1>t, <1>2, <2>1, RunKept DEF ScanInv
  <2>3. NothingDropped' /\ cursor' <= clock'
    BY <1>t, <1>2, DroppedKept
  <2>4. \A m \in Mails : mail'[m].received <= clock'
    BY <1>2 DEF ScanInv, sourceVars
  <2>5. \A q \in Runners :
          phase'[q] = "idle" => page'[q] = {} /\ passed'[q] = {} /\ pages'[q] = 0
    BY <1>2 DEF ScanInv
  <2> QED
    BY <1>t, <2>2, <2>3, <2>4, <2>5 DEF ScanInv
<1>3. ASSUME NEW t \in Tickets, Ingest(t) PROVE ScanInv'
  BY <1>2, <1>3 DEF Ingest
<1>4. ASSUME NEW r \in Runners, StartRun(r) PROVE ScanInv'
  <2>1. /\ phase[r] = "idle" /\ UNCHANGED <<sourceVars, dbVars>>
        /\ phase'[r] = "scan" /\ started'[r] = clock /\ watermark'[r] = cursor
        /\ fetchSince'[r] = FetchFrom(cursor) /\ more'[r] = TRUE
        /\ pages'[r] = 0 /\ passed'[r] = {} /\ page'[r] = {}
    BY <1>t, <1>4 DEF StartRun, TypeOK, ScanInv
  <2>2. \A q \in Runners \ {r} : RunFrame(q)
    BY <1>t, <1>4 DEF StartRun, RunFrame, TypeOK
  <2>3. clock' = clock /\ clock \in Nat /\ cursor <= clock /\ FetchSpan \in Nat
    BY <1>t, <2>1, MailFacts, BoundAssumption DEF sourceVars, ScanInv
  <2>4. ASSUME NEW m \in Mails, Delivered(m)' PROVE Debt(r, m)'
    <3>1. mail' = mail /\ Delivered(m) /\ FetchFrom(watermark[r])' = FetchFrom(cursor)
      BY <2>1, <2>4 DEF sourceVars, Delivered, FetchFrom
    <3>2. mail[m].received >= FetchFrom(cursor) \/ Accounted(m)
      BY <3>1 DEF ScanInv, NothingDropped
    <3>3. CASE Accounted(m)
      BY <1>t, <2>1, <3>1, <3>3, AccountedStays DEF Debt
    <3>4. CASE mail[m].received >= FetchFrom(cursor)
      <4>1. FetchFrom(cursor) <= mail[m].received
        BY <1>t, <3>4, MailFacts, FetchFromType DEF TypeOK
      <4>2. m \notin passed'[r] /\ m \in Matching(r)'
        BY <2>1, <2>4, <3>1, <3>4 DEF Matching
      <4> QED
        BY <3>1, <4>1, <4>2 DEF Debt
    <3> QED
      BY <3>2, <3>3, <3>4
  <2>5. Cardinality(passed'[r]) = pages'[r] * PageTop
    BY <2>1, FS_EmptySet, OffsetStep
  <2>6. RunInv(r)'
    BY <2>1, <2>3, <2>4, <2>5 DEF RunInv
  <2> QED
    BY <1>t, <2>1, <2>2, <2>6, ScanStep, DroppedKept
<1>5. ASSUME NEW r \in Runners, FetchPage(r) PROVE ScanInv'
  <2>1. /\ UNCHANGED <<sourceVars, dbVars>> /\ phase'[r] = "scan"
        /\ \A q \in Runners \ {r} : RunFrame(q)
    BY <1>t, <1>5 DEF FetchPage, RunFrame, TypeOK
  <2> QED
    BY <1>t, <1>5, <2>1, FetchRun, ScanStep, DroppedKept
<1>6. ASSUME NEW r \in Runners, NEW m \in Mails,
             m \in page[r], phase[r] # "idle", phase'[r] = "scan",
             \A n \in page[r] \ {m} : Earlier(m, n),
             UNCHANGED <<sourceVars, cursor, onRecord, setupVars, scanVars>>,
             page' = [page EXCEPT ![r] = @ \ {m}],
             \A q \in Runners \ {r} : /\ phase'[q] = phase[q] /\ watermark'[q] = watermark[q]
                                      /\ frozen'[q] = frozen[q] /\ noted'[q] = noted[q],
             noted[r] \subseteq noted'[r],
             \/ frozen'[r] /\ watermark'[r] = watermark[r]
             \/ /\ frozen'[r] = frozen[r]
                /\ watermark'[r] = IF ~frozen[r] /\ mail[m].received > watermark[r]
                                   THEN mail[m].received ELSE watermark[r]
                /\ Accounted(m)' \/ m \in noted'[r]
      PROVE  ScanInv'
  <2>1. page'[r] = page[r] \ {m} /\ \A q \in Runners \ {r} : page'[q] = page[q]
    BY <1>t, <1>6 DEF TypeOK
  <2>2. \A q \in Runners \ {r} : RunFrame(q)
    BY <1>6, <2>1 DEF RunFrame
  <2>3. RunInv(r)'
    BY <1>t, <1>6, <2>1, LoopRun
  <2> QED
    BY <1>t, <1>6, <2>2, <2>3, ScanStep, DroppedKept
<1>a. ASSUME NEW r \in Runners, NEW m \in Mails, Advance(r, m)
      PROVE  /\ watermark'[r] = IF ~frozen[r] /\ mail[m].received > watermark[r]
                                THEN mail[m].received ELSE watermark[r]
             /\ \A q \in Runners \ {r} : watermark'[q] = watermark[q]
  BY <1>t, <1>a DEF Advance, TypeOK
<1>7. ASSUME NEW r \in Runners, NEW m \in Mails, Ignore(r, m) PROVE ScanInv'
  <2>1. Accounted(m)
    BY <1>7 DEF Ignore, Accounted, Settled
  <2>2. Accounted(m)'
    BY <1>t, <1>7, <2>1, AccountedStays DEF Ignore, sourceVars
  <2> QED
    BY <1>t, <1>a, <1>6, <1>7, <2>2 DEF Ignore, IsNext, Done
<1>8. ASSUME NEW r \in Runners, NEW m \in Mails, SetAside(r, m) PROVE ScanInv'
  <2>1. m \in noted'[r] /\ noted[r] \subseteq noted'[r]
        /\ \A q \in Runners \ {r} : noted'[q] = noted[q]
    BY <1>t, <1>8 DEF SetAside, TypeOK
  <2> QED
    BY <1>t, <1>a, <1>6, <1>8, <2>1 DEF SetAside, IsNext, Done
<1>9. ASSUME NEW r \in Runners, NEW m \in Mails, Match(r, m) PROVE ScanInv'
  <2>1. phase[r] = "scan" /\ phase'[r] = "write" /\ \A q \in Runners \ {r} : phase'[q] = phase[q]
    BY <1>t, <1>9 DEF Match, IsNext, TypeOK
  <2>2. \A q \in Runners \ {r} : RunFrame(q)
    BY <1>9, <2>1 DEF Match, RunFrame
  <2>3. UNCHANGED <<sourceVars, dbVars>> /\ Matching(r)' = Matching(r)
        /\ FetchFrom(watermark[r])' = FetchFrom(watermark[r])
    BY <1>9 DEF Match, Matching, Delivered, sourceVars, FetchFrom
  <2>4. /\ \A n \in Mails : (Debt(r, n)' <=> Debt(r, n)) /\ (Delivered(n)' <=> Delivered(n))
        /\ \A p, n \in Mails : (Fresh(r, n)' <=> Fresh(r, n)) /\ (Earlier(p, n)' <=> Earlier(p, n))
    BY <1>9, <2>3 DEF Match, Debt, Fresh, Earlier, Delivered, Accounted, Settled, Unambiguous, Ref,
                      sourceVars
  <2>5. passed[r] \subseteq Mails /\ Matching(r) \subseteq Mails
    BY <1>t DEF TypeOK, Matching
  <2>6. RunInv(r)
    BY DEF ScanInv
  <2>7. RunInv(r)'
    BY <1>9, <2>1, <2>3, <2>4, <2>5, <2>6 DEF RunInv, Match, sourceVars
  <2> QED
    BY <1>t, <2>1, <2>2, <2>3, <2>7, ScanStep, DroppedKept
<1>10. ASSUME NEW r \in Runners, NEW m \in Mails, Write(r, m) PROVE ScanInv'
  <2>1. InHand(r, m) /\ Acknowledge(m) /\ UNCHANGED sourceVars
    BY <1>10 DEF Write
  <2>2. Unambiguous(m) /\ ticket[Ref(m)] # None
    BY <2>1 DEF ScanInv, TypeInv, WriteInv, InHand
  <2>3. ticket'[Ref(m)] # None /\ ticket'[Ref(m)].acked # None
    BY <1>t, <2>1, <2>2, AckFacts
  <2>4. Accounted(m)'
    BY <2>1, <2>2, <2>3, SameMail DEF Accounted, Settled, sourceVars
  <2>5. phase'[r] = "scan" /\ \A q \in Runners \ {r} : phase'[q] = phase[q]
    BY <1>t, <1>10 DEF Write, TypeOK
  <2> QED
    BY <1>t, <1>a, <1>6, <1>10, <2>1, <2>4, <2>5 DEF Write, InHand, Done
<1>11. ASSUME NEW r \in Runners, NEW m \in Mails, Fail(r, m) PROVE ScanInv'
  <2>1. m \in page[r] /\ phase[r] # "idle" /\ \A n \in page[r] \ {m} : Earlier(m, n)
    BY <1>11 DEF Fail, IsNext, InHand
  <2>2. /\ phase'[r] = "scan" /\ \A q \in Runners \ {r} : phase'[q] = phase[q]
        /\ frozen'[r] /\ \A q \in Runners \ {r} : frozen'[q] = frozen[q]
    BY <1>t, <1>11 DEF Fail, TypeOK
  <2> QED
    BY <1>t, <1>6, <1>11, <2>1, <2>2 DEF Fail, Done
<1>e. ASSUME NEW r \in Runners, EndRun(r)
      PROVE  /\ phase'[r] = "idle" /\ page'[r] = {} /\ passed'[r] = {} /\ pages'[r] = 0
             /\ RunInv(r)' /\ \A q \in Runners \ {r} : RunFrame(q)
  <2>1. phase'[r] = "idle" /\ page'[r] = {} /\ passed'[r] = {} /\ pages'[r] = 0
    BY <1>t, <1>e DEF EndRun, TypeOK
  <2>2. \A q \in Runners \ {r} : RunFrame(q)
    BY <1>t, <1>e DEF EndRun, RunFrame, TypeOK
  <2> QED
    BY <2>1, <2>2 DEF RunInv
<1>12. ASSUME NEW r \in Runners, CloseRun(r) PROVE ScanInv'
  <2>1. EndRun(r) /\ UNCHANGED sourceVars /\ onRecord \subseteq onRecord'
    BY <1>12 DEF CloseRun
  <2> QED
    BY <1>t, <1>e, <1>12, <2>1, ScanClose, ScanStep
<1>13. ASSUME NEW r \in Runners, FatalError(r) \/ Crash(r) PROVE ScanInv'
  <2>1. EndRun(r) /\ UNCHANGED <<sourceVars, cursor>> /\ onRecord \subseteq onRecord'
    BY <1>13 DEF FatalError, Crash, Abandon
  <2> QED
    BY <1>t, <1>e, <2>1, DroppedKept, ScanStep
<1>14. ASSUME UNCHANGED vars PROVE ScanInv'
  BY <1>2, <1>14 DEF vars
<1> QED
  BY <1>1, <1>3, <1>4, <1>5, <1>7, <1>8, <1>9, <1>10, <1>11, <1>12, <1>13, <1>14 DEF Next

(* No acknowledgement is dropped in silence, over any number of runs that  *)
(* overlap, fail and crash, when the lag of the mailbox and the duration   *)
(* of a run together stay within the overlap.                              *)
THEOREM NothingEverDropped == LateRegime => (Spec => []NothingDropped)
<1> SUFFICES ASSUME LateRegime PROVE Spec => []NothingDropped
  OBVIOUS
<1>1. ScanInv /\ [Next]_vars => ScanInv'
  BY ScanNext
<1>2. ScanInv => NothingDropped
  BY DEF ScanInv
<1> QED
  BY <1>1, <1>2, ScanInit, PTL DEF Spec
==============================================================================
