----------------------------- MODULE Console_proofs -----------------------------
(***************************************************************************)
(* Whatever the filters, links, page sizes and numbers of questions, and   *)
(* whatever the order of the answers: a page that has loaded shows the     *)
(* answer to what its user has chosen, and says it is loading while it     *)
(* waits for that.  Pages partition their list, the audit list is          *)
(* complete, cards and lists agree, and so do lists and details.           *)
(*                                                                         *)
(* The argument.  Effects are numbered, so that one fetch at most carries  *)
(* the number of the last effect, and it asks what the user has chosen     *)
(* (AsksTheChoice), because what the codec writes to the URL it reads back *)
(* (RoundTrip).  Only that fetch, and what loadMore asked under the same   *)
(* effect, reach a list that nothing late was appended to; the rows of any *)
(* other are those of the questions counted as late.  A strict order gives *)
(* every row of a finite list a rank of its own, below the list's size,    *)
(* and pages are intervals of ranks.  What an audit page Covers it goes on *)
(* covering, because events are only added and ids only commit; two that   *)
(* join cover what both do.                                                *)
(***************************************************************************)
EXTENDS Console, FiniteSetTheorems, TLAPS

IsFunction(f) == f = [k \in DOMAIN f |-> f[k]]

IsRequest(r) ==
  r = [page |-> r.page, kind |-> r.kind, query |-> r.query, beforeId |-> r.beforeId,
       effect |-> r.effect, mount |-> r.mount, step |-> r.step, total |-> r.total,
       answer |-> r.answer]

IsList(a) == a = [query |-> a.query, list |-> a.list, base |-> a.base]

\* Fetches: none is of a later effect or page instance than there has been, and
\* an answer tells its question.
Fetches ==
  /\ effect \in Nat /\ mount \in 0 .. effect
  /\ \A r \in requests :
       /\ IsRequest(r)
       /\ r.effect \in 0 .. effect /\ r.mount \in 0 .. effect
       /\ r.step = "counted" => r.page # "audit"
       /\ r.step = "answered" => /\ r.answer.query = r.query
                                 /\ r.page = "audit" => IsList(r.answer)

\* What the user has chosen is what the page keeps.
Choice ==
  page \in Pages =>
    /\ Current(page, filters) = chosen
    /\ DOMAIN chosen = DOMAIN Default(page) /\ IsFunction(chosen)

\* A fetch of the last effect asks for the choice, and is of the page that is open.
AsksTheChoice ==
  \A r \in requests : r.effect = effect => /\ page \in Pages /\ r.page = page
                                           /\ r.query = ToQuery(page, chosen)

MoreIsAudit == \A r \in requests : r.kind = "more" /\ r.mount = mount => page = "audit" /\ r.page = "audit"

\* Only the audit viewer shows a list that answers are appended to.
Lists ==
  /\ page = "audit" => IsList(shown)
  /\ late # {} => page = "audit"

\* What a loaded page shows is the answer to a question, the one it asks.
Labelled ==
  page \in Pages /\ ~loading /\ ~error => shown.query = ToQuery(page, chosen)

IInv == Fetches /\ Choice /\ AsksTheChoice /\ MoreIsAudit /\ Lists /\ Labelled
-----------------------------------------------------------------------------
(* The codec.                                                              *)

\* What is written to the URL is read back.
LEMMA RoundTrip ==
  ASSUME NEW p, NEW f, DOMAIN f = DOMAIN Default(p), IsFunction(f)
  PROVE  Current(p, Kept(p, f)) = f
<1>1. CASE p = "dashboard" BY <1>1 DEF Current, Kept
<1>2. CASE p # "dashboard"
  <2> DEFINE url == ToParams(p, f)
  <2>1. DOMAIN url = {k \in DOMAIN f : f[k] # Default(p)[k]} BY DEF ToParams
  <2>2. \A k \in DOMAIN url : url[k] = f[k] BY DEF ToParams
  <2> HIDE DEF url
  <2>3. FromParams(p, url) = [k \in DOMAIN f |-> f[k]]
    <3>1. \A k \in DOMAIN f : (IF k \in DOMAIN url THEN url[k] ELSE Default(p)[k]) = f[k]
      BY <2>1, <2>2
    <3> QED BY <3>1 DEF FromParams
  <2> QED BY <1>2, <2>3 DEF Current, Kept, url, IsFunction
<1> QED BY <1>1, <1>2

LEMMA DefaultIsFunction ==
  ASSUME NEW p \in Pages
  PROVE  IsFunction(Default(p))
BY DEF Pages, Default, IsFunction

\* What a page keeps always reads back as a question of its kind.
LEMMA CurrentOfLink ==
  ASSUME NEW p \in Pages, NEW url, p = "dashboard" => url = Default(p)
  PROVE  DOMAIN Current(p, url) = DOMAIN Default(p) /\ IsFunction(Current(p, url))
BY DefaultIsFunction DEF Current, FromParams, IsFunction
-----------------------------------------------------------------------------
(* Asking.                                                                 *)

\* The user's next question, on the page that is open.
LEMMA ChangeKeeps ==
  ASSUME IInv, NEW f, Change(f), DOMAIN f = DOMAIN Default(page), IsFunction(f)
  PROVE  IInv'
<1> DEFINE kept == Kept(page, f)
           new == Request(page, "load", ToQuery(page, Current(page, kept)), None, effect + 1, mount)
<1>1. /\ page \in Pages /\ page' = page /\ requests' = requests \cup {new}
      /\ filters' = kept /\ chosen' = f /\ effect' = effect + 1 /\ mount' = mount /\ late' = {}
      /\ loading' = TRUE
      /\ page = "audit" => shown' = [query |-> ToQuery(page, Current(page, kept)), list |-> <<>>, base |-> {}]
  BY DEF Change, Ask
<1>2. Current(page, kept) = f BY RoundTrip
<1>3. /\ IsRequest(new) /\ new.effect = effect + 1 /\ new.mount = mount /\ new.step = "sent"
      /\ new.page = page /\ new.query = ToQuery(page, f) /\ new.kind = "load"
  BY <1>2 DEF Request, IsRequest
<1> HIDE DEF new, kept
<1>4. Fetches'
  <2>1. mount \in 0 .. effect
    BY DEF IInv, Fetches
  <2> QED BY <1>1, <1>3, <2>1 DEF IInv, Fetches
<1>5. Choice' BY <1>1, <1>2 DEF Choice, kept
<1>6. AsksTheChoice' BY <1>1, <1>3 DEF IInv, Fetches, AsksTheChoice
<1>7. MoreIsAudit' BY <1>1, <1>3 DEF IInv, MoreIsAudit
<1>8. Lists' /\ Labelled' BY <1>1 DEF IInv, Lists, Labelled, IsList
<1> QED BY <1>4, <1>5, <1>6, <1>7, <1>8 DEF IInv
LEMMA ChooseKeeps ==
  ASSUME IInv, Choose
  PROVE  IInv'
<1>1. page \in Pages /\ Current(page, filters) = chosen BY DEF Choose, IInv, Choice
<1>2. DOMAIN chosen = DOMAIN Default(page) BY <1>1 DEF IInv, Choice
<1>3. PICK choice \in Choices[page] :
        Change([k \in DOMAIN chosen |->
                  IF k = "page" /\ choice.key # "sort" THEN 1
                  ELSE IF k = "bu" /\ choice.key = "customer" THEN None
                  ELSE [chosen EXCEPT ![choice.key] = choice.value][k]])
  BY <1>1 DEF Choose
<1> DEFINE f == [k \in DOMAIN chosen |->
                  IF k = "page" /\ choice.key # "sort" THEN 1
                  ELSE IF k = "bu" /\ choice.key = "customer" THEN None
                  ELSE [chosen EXCEPT ![choice.key] = choice.value][k]]
<1>4. DOMAIN f = DOMAIN Default(page) /\ IsFunction(f) BY <1>2 DEF IsFunction
<1>5. Change(f) BY <1>3
<1> HIDE DEF f
<1> QED BY <1>4, <1>5, ChangeKeeps

LEMMA ClearKeeps ==
  ASSUME IInv, Clear
  PROVE  IInv'
<1>1. page \in Pages /\ Change(Default(page)) BY DEF Clear, Pages
<1> QED BY <1>1, DefaultIsFunction, ChangeKeeps

LEMMA TurnKeeps ==
  ASSUME IInv, Turn
  PROVE  IInv'
<1>1. page \in Pages /\ Current(page, filters) = chosen /\ IsFunction(chosen)
      /\ DOMAIN chosen = DOMAIN Default(page)
  BY DEF Turn, Pages, IInv, Choice
<1>2. PICK n \in {chosen.page + 1, chosen.page - 1} : Change([chosen EXCEPT !.page = n])
  BY <1>1 DEF Turn
<1> DEFINE f == [chosen EXCEPT !.page = n]
<1>3. DOMAIN f = DOMAIN Default(page) /\ IsFunction(f) BY <1>1 DEF IsFunction
<1>4. Change(f) BY <1>2
<1> HIDE DEF f
<1> QED BY <1>3, <1>4, ChangeKeeps

LEMMA OpenKeeps ==
  ASSUME IInv, NEW p \in Pages, Open(p)
  PROVE  IInv'
<1>1. PICK url \in IF p = "tickets" THEN Links \cup {Kept(p, Default(p))} ELSE {Kept(p, Default(p))} :
        /\ Ask(p, url, Current(p, url), None, effect + 1, effect + 1)
        /\ requests' = {r \in requests : Realm(r.page) = Realm(p) /\ page # "login"} \cup
             {Request(p, "load", ToQuery(p, Current(p, url)), None, effect + 1, effect + 1)}
  BY DEF Open
<1> DEFINE new == Request(p, "load", ToQuery(p, Current(p, url)), None, effect + 1, effect + 1)
<1>2. /\ page' = p /\ filters' = url /\ chosen' = Current(p, url)
      /\ p = "audit" => shown' = [query |-> ToQuery(p, Current(p, url)), list |-> <<>>, base |-> {}]
      /\ effect' = effect + 1 /\ mount' = effect + 1 /\ loading' = TRUE /\ late' = {}
      /\ \A r \in requests' : r \in requests \/ r = new
  BY <1>1 DEF Open, Ask
<1>3. /\ IsRequest(new) /\ new.effect = effect + 1 /\ new.mount = effect + 1 /\ new.step = "sent"
      /\ new.page = p /\ new.query = ToQuery(p, Current(p, url)) /\ new.kind = "load"
  BY DEF Request, IsRequest
<1>4. DOMAIN Current(p, url) = DOMAIN Default(p) /\ IsFunction(Current(p, url))
  <2>1. p = "dashboard" => url = Default(p) BY <1>1 DEF Kept
  <2> QED BY <2>1, CurrentOfLink
<1> HIDE DEF new
<1>5. Fetches' BY <1>2, <1>3 DEF IInv, Fetches
<1>6. Choice' BY <1>2, <1>4 DEF Choice
<1>7. AsksTheChoice' BY <1>2, <1>3 DEF IInv, Fetches, AsksTheChoice
<1>8. MoreIsAudit' BY <1>2, <1>3 DEF IInv, Fetches, MoreIsAudit
<1>9. Lists' /\ Labelled' BY <1>2 DEF Lists, Labelled, IsList
<1> QED BY <1>5, <1>6, <1>7, <1>8, <1>9 DEF IInv

LEMMA RetryKeeps ==
  ASSUME IInv, Retry
  PROVE  IInv'
<1> DEFINE new == Request(page, "load", ToQuery(page, Current(page, filters)), None, effect + 1, mount)
<1>1. /\ page \in Pages /\ page' = page /\ requests' = requests \cup {new}
      /\ filters' = filters /\ chosen' = chosen /\ effect' = effect + 1 /\ mount' = mount
      /\ late' = {} /\ loading' = TRUE
      /\ page = "audit" => shown' = [query |-> ToQuery(page, Current(page, filters)), list |-> <<>>, base |-> {}]
  BY DEF Retry, Ask, Pages
<1>2. /\ IsRequest(new) /\ new.effect = effect + 1 /\ new.mount = mount /\ new.step = "sent"
      /\ new.page = page /\ new.query = ToQuery(page, chosen) /\ new.kind = "load"
  BY <1>1 DEF IInv, Choice, Request, IsRequest
<1> HIDE DEF new
<1>3. Fetches' BY <1>1, <1>2 DEF IInv, Fetches
<1>4. Choice' BY <1>1 DEF IInv, Choice
<1>5. AsksTheChoice' BY <1>1, <1>2 DEF IInv, Fetches, AsksTheChoice
<1>6. MoreIsAudit' BY <1>1, <1>2 DEF IInv, MoreIsAudit
<1>7. Lists' /\ Labelled' BY <1>1 DEF IInv, Lists, Labelled, IsList
<1> QED BY <1>3, <1>4, <1>5, <1>6, <1>7 DEF IInv

LEMMA LoadMoreKeeps ==
  ASSUME IInv, LoadMore
  PROVE  IInv'
<1> DEFINE new == Request("audit", "more", ToQuery("audit", Current("audit", filters)),
                          shown.list[Len(shown.list)], effect, mount)
<1>1. /\ page = "audit" /\ requests' = requests \cup {new}
      /\ UNCHANGED <<page, filters, chosen, mount, effect, shown, loading, error, late>>
  BY DEF LoadMore
<1>2. /\ IsRequest(new) /\ new.effect = effect /\ new.mount = mount /\ new.step = "sent"
      /\ new.page = page /\ new.query = ToQuery(page, chosen)
  BY <1>1 DEF IInv, Choice, Request, IsRequest, Pages
<1> HIDE DEF new
<1>3. Fetches' BY <1>1, <1>2 DEF IInv, Fetches
<1>4. Choice' BY <1>1 DEF IInv, Choice
<1>5. AsksTheChoice' BY <1>1, <1>2 DEF IInv, AsksTheChoice, Pages
<1>6. MoreIsAudit' BY <1>1, <1>2 DEF IInv, MoreIsAudit
<1>7. Lists' /\ Labelled' BY <1>1 DEF IInv, Lists, Labelled
<1> QED BY <1>3, <1>4, <1>5, <1>6, <1>7 DEF IInv
-----------------------------------------------------------------------------
(* Answering.                                                              *)

\* A step of the server on one fetch.
LEMMA AdvanceKeeps ==
  ASSUME IInv, UNCHANGED uiVars, NEW r \in requests, NEW next, Advance(r, next),
         IsRequest(next), next.page = r.page, next.kind = r.kind, next.query = r.query,
         next.effect = r.effect, next.mount = r.mount,
         next.step = "counted" => r.page # "audit",
         next.step = "answered" => /\ next.answer.query = r.query
                                   /\ r.page = "audit" => IsList(next.answer)
  PROVE  IInv'
<1>1. \A s \in requests' : s \in requests \/ s = next BY DEF Advance
<1> USE <1>1 DEF IInv, uiVars
<1>2. Fetches' BY DEF Fetches
<1>3. Choice' BY DEF Choice
<1>4. AsksTheChoice' BY DEF AsksTheChoice
<1>5. MoreIsAudit' BY DEF MoreIsAudit
<1>6. Lists' /\ Labelled' BY DEF Lists, Labelled
<1> QED BY <1>2, <1>3, <1>4, <1>5, <1>6

Fields == {"page", "kind", "query", "beforeId", "effect", "mount", "step", "total", "answer"}

LEMMA RequestFields ==
  ASSUME NEW r
  PROVE  IsRequest(r) <=> DOMAIN r = Fields /\ IsFunction(r)
BY DEF IsRequest, Fields, IsFunction

LEMMA ServerKeeps ==
  ASSUME IInv, NEW r \in requests, CountRows(r) \/ Read(r) \/ Fail(r)
  PROVE  IInv'
<1>0. IsRequest(r) BY DEF IInv, Fetches
<1>1. IsRequest(r) /\ UNCHANGED uiVars
  <2>1. CASE CountRows(r) BY <1>0, <2>1 DEF CountRows
  <2>2. CASE Read(r) BY <1>0, <2>2 DEF Read
  <2>3. CASE Fail(r) BY <1>0, <2>3 DEF Fail
  <2> QED BY <2>1, <2>2, <2>3
<1>2. CASE CountRows(r)
  <2>1. PICK n : Advance(r, [r EXCEPT !.step = "counted", !.total = n]) BY <1>2 DEF CountRows
  <2> DEFINE next == [r EXCEPT !.step = "counted", !.total = n]
  <2>2. /\ IsRequest(next) /\ next.page = r.page /\ next.kind = r.kind /\ next.query = r.query
        /\ next.effect = r.effect /\ next.mount = r.mount /\ next.step = "counted"
    <3>1. DOMAIN r = Fields BY <1>1, RequestFields
    <3>2. DOMAIN next = Fields /\ IsFunction(next) BY <3>1 DEF IsFunction
    <3> QED BY <3>1, <3>2, RequestFields DEF Fields
  <2>3. Advance(r, next) /\ r.page # "audit" BY <2>1, <1>2 DEF CountRows
  <2> HIDE DEF next
  <2> QED BY <1>1, <2>2, <2>3, AdvanceKeeps
<1>3. CASE Fail(r)
  <2> DEFINE next == [r EXCEPT !.step = "failed"]
  <2>1. /\ IsRequest(next) /\ next.page = r.page /\ next.kind = r.kind /\ next.query = r.query
        /\ next.effect = r.effect /\ next.mount = r.mount /\ next.step = "failed"
    BY <1>1 DEF IsRequest
  <2>2. Advance(r, next) BY <1>3 DEF Fail
  <2> HIDE DEF next
  <2> QED BY <1>1, <2>1, <2>2, AdvanceKeeps
<1>4. CASE Read(r)
  <2>1. PICK a : /\ Advance(r, [r EXCEPT !.step = "answered", !.answer = a])
                 /\ a.query = r.query
                 /\ r.page = "audit" => IsList(a)
    <3>1. CASE r.step = "counted"
      <4>1. r.page # "audit" BY <3>1 DEF IInv, Fetches
      <4> DEFINE a == [query |-> r.query, total |-> r.total,
                       rows |-> IF r.page = "dashboard" THEN CustomerPage(Scope, r.query, DashboardSize)
                                ELSE AdminPage(r.query, TicketsSize)]
      <4>2. Advance(r, [r EXCEPT !.step = "answered", !.answer = a]) BY <1>4, <3>1 DEF Read
      <4>3. a.query = r.query OBVIOUS
      <4> HIDE DEF a
      <4> QED BY <4>1, <4>2, <4>3
    <3>2. CASE r.step # "counted"
      <4> DEFINE a == [query |-> r.query, list |-> ListAudit(r.query, r.beforeId, AuditSize),
                       base |-> committed]
      <4>1. Advance(r, [r EXCEPT !.step = "answered", !.answer = a]) BY <1>4, <3>2 DEF Read
      <4>2. a.query = r.query /\ IsList(a) BY DEF IsList
      <4> HIDE DEF a
      <4> QED BY <4>1, <4>2
    <3> QED BY <3>1, <3>2
  <2> DEFINE next == [r EXCEPT !.step = "answered", !.answer = a]
  <2>2. /\ IsRequest(next) /\ next.page = r.page /\ next.kind = r.kind /\ next.query = r.query
        /\ next.effect = r.effect /\ next.mount = r.mount /\ next.step = "answered"
        /\ next.answer = a
    <3>1. DOMAIN r = Fields BY <1>1, RequestFields
    <3>2. DOMAIN next = Fields /\ IsFunction(next) BY <3>1 DEF IsFunction
    <3> QED BY <3>1, <3>2, RequestFields DEF Fields
  <2>3. Advance(r, next) BY <2>1
  <2> HIDE DEF next
  <2> QED BY <1>1, <2>1, <2>2, <2>3, AdvanceKeeps
<1> QED BY <1>2, <1>3, <1>4

LEMMA SettleKeeps ==
  ASSUME IInv, NEW r \in requests, Settle(r)
  PROVE  IInv'
<1>1. requests' \subseteq requests
      /\ UNCHANGED <<page, filters, chosen, mount, effect>>
  BY DEF Settle
<1>2. Fetches' /\ Choice' /\ AsksTheChoice' /\ MoreIsAudit'
  BY <1>1 DEF IInv, Fetches, Choice, AsksTheChoice, MoreIsAudit
<1>3. Lists' /\ Labelled'
  <2>1. CASE r.effect # effect
    BY <1>1, <2>1 DEF Settle, IInv, Lists, Labelled
  <2>2. CASE r.effect = effect /\ r.step = "answered"
    <3>1. r.page = page /\ r.query = ToQuery(page, chosen) BY <2>2 DEF IInv, AsksTheChoice
    <3>2. r.answer.query = r.query /\ (r.page = "audit" => IsList(r.answer))
      BY <2>2 DEF IInv, Fetches
    <3>3. shown' = r.answer /\ late' = {} BY <2>2 DEF Settle
    <3> QED BY <1>1, <3>1, <3>2, <3>3 DEF Lists, Labelled, IsList
  <2>3. CASE r.effect = effect /\ r.step # "answered"
    <3>1. error' = TRUE /\ shown' = shown /\ late' = late BY <2>3 DEF Settle
    <3> QED BY <1>1, <3>1 DEF IInv, Lists, Labelled
  <2> QED BY <2>1, <2>2, <2>3
<1> QED BY <1>2, <1>3 DEF IInv

LEMMA LoadedMoreKeeps ==
  ASSUME IInv, NEW r \in requests, LoadedMore(r)
  PROVE  IInv'
<1>1. requests' \subseteq requests
      /\ UNCHANGED <<page, filters, chosen, mount, effect, loading>>
  BY DEF LoadedMore
<1>2. Fetches' /\ Choice' /\ AsksTheChoice' /\ MoreIsAudit'
  BY <1>1 DEF IInv, Fetches, Choice, AsksTheChoice, MoreIsAudit
<1>3. Lists' /\ Labelled'
  <2>1. CASE r.mount # mount
    BY <1>1, <2>1 DEF LoadedMore, IInv, Lists, Labelled
  <2>2. CASE r.mount = mount /\ r.step = "failed"
    <3>1. error' = TRUE /\ shown' = shown /\ late' = late BY <2>2 DEF LoadedMore
    <3> QED BY <1>1, <3>1 DEF IInv, Lists, Labelled
  <2>3. CASE r.mount = mount /\ r.step # "failed"
    <3>1. page = "audit" /\ r.page = "audit" BY <2>3 DEF LoadedMore, IInv, MoreIsAudit
    <3>2. shown' = [shown EXCEPT !.list = @ \o r.answer.list] /\ error' = error
      BY <2>3 DEF LoadedMore
    <3>3. shown'.query = shown.query /\ IsList(shown') BY <3>1, <3>2 DEF IInv, Lists, IsList
    <3> QED BY <1>1, <3>1, <3>2, <3>3 DEF IInv, Lists, Labelled
  <2> QED BY <2>1, <2>2, <2>3
<1> QED BY <1>2, <1>3 DEF IInv

LEMMA SignedOutKeeps ==
  ASSUME IInv, NEW r \in requests, SignedOut(r)
  PROVE  IInv'
<1>1. requests' = {} /\ page' = "login" /\ mount' = effect /\ effect' = effect /\ late' = {} BY DEF SignedOut
<1>2. Fetches' BY <1>1 DEF IInv, Fetches
<1> QED BY <1>1, <1>2 DEF IInv, Choice, AsksTheChoice, MoreIsAudit, Lists, Labelled, Pages

\* Steps that no page and no fetch sees.
LEMMA UnseenKeeps ==
  ASSUME IInv, UNCHANGED <<uiVars, requests>>
  PROVE  IInv'
BY DEF IInv, uiVars, Fetches, Choice, AsksTheChoice, MoreIsAudit, Lists, Labelled
-----------------------------------------------------------------------------
(* The invariant.                                                          *)

LEMMA InitInv == Init => IInv
BY DEF Init, IInv, Fetches, Choice, AsksTheChoice, MoreIsAudit, Lists, Labelled, Pages

LEMMA NextInv ==
  ASSUME IInv, [Next]_vars
  PROVE  IInv'
<1>1. CASE \E p \in Pages : Open(p) BY <1>1, OpenKeeps
<1>2. CASE Choose BY <1>2, ChooseKeeps
<1>3. CASE Clear BY <1>3, ClearKeeps
<1>4. CASE Turn BY <1>4, TurnKeeps
<1>5. CASE Retry BY <1>5, RetryKeeps
<1>6. CASE LoadMore BY <1>6, LoadMoreKeeps
<1>7. CASE Served BY <1>7, ServerKeeps, SettleKeeps, LoadedMoreKeeps DEF Served
<1>8. CASE \E r \in requests : SignedOut(r) BY <1>8, SignedOutKeeps
<1>9. CASE Write \/ Draw \/ Commit \/ UNCHANGED vars
  <2>1. UNCHANGED <<uiVars, requests>> BY <1>9 DEF Write, Draw, Commit, vars
  <2> QED BY <2>1, UnseenKeeps
<1> QED BY <1>1, <1>2, <1>3, <1>4, <1>5, <1>6, <1>7, <1>8, <1>9 DEF Next

\* The invariant the argument above needs holds in every state.
THEOREM Inductive == Spec => []IInv
<1>1. IInv /\ [Next]_vars => IInv' BY NextInv
<1> QED BY InitInv, <1>1, PTL DEF Spec
-----------------------------------------------------------------------------
(* Orders and ranks, which lists, pages and the audit trail are made of.   *)

StrictOrder(S, order) ==
  /\ \A x \in S : <<x, x>> \notin order
  /\ \A x, y, z \in S : <<x, y>> \in order /\ <<y, z>> \in order => <<x, z>> \in order
  /\ \A x, y \in S : x = y \/ <<x, y>> \in order \/ <<y, x>> \in order

\* How many rows come before x.
Rank(S, order, x) == Cardinality({y \in S : <<y, x>> \in order})

\* The ranks of a finite set are 0, 1, 2, ..., one row to each.
LEMMA Ranks ==
  ASSUME NEW S, IsFiniteSet(S), NEW order, StrictOrder(S, order)
  PROVE  /\ Cardinality(S) \in Nat
         /\ \A x \in S : Rank(S, order, x) \in 0 .. Cardinality(S) - 1
         /\ \A x, y \in S : <<x, y>> \in order => Rank(S, order, x) < Rank(S, order, y)
         /\ \A x, y \in S : Rank(S, order, x) = Rank(S, order, y) => x = y
         /\ \A k \in 0 .. Cardinality(S) - 1 : \E x \in S : Rank(S, order, x) = k
<1> DEFINE Before(x) == {y \in S : <<y, x>> \in order}
           n == Cardinality(S)
<1>1. n \in Nat BY FS_CardinalityType
<1>2. ASSUME NEW x \in S
      PROVE  IsFiniteSet(Before(x)) /\ Cardinality(Before(x)) \in 0 .. n - 1
  <2>1. Before(x) \in SUBSET S OBVIOUS
  <2>2. x \notin Before(x) BY DEF StrictOrder
  <2>3. Before(x) # S BY <2>2
  <2>4. IsFiniteSet(Before(x)) BY <2>1, FS_Subset
  <2>5. Cardinality(Before(x)) \in Nat BY <2>4, FS_CardinalityType
  <2>6. Cardinality(Before(x)) <= n /\ Cardinality(Before(x)) # n BY <2>1, <2>3, FS_Subset
  <2> QED BY <1>1, <2>4, <2>5, <2>6
<1>3. ASSUME NEW x \in S, NEW y \in S, <<x, y>> \in order
      PROVE  Cardinality(Before(x)) < Cardinality(Before(y))
  <2>1. Before(x) \in SUBSET Before(y) BY <1>3 DEF StrictOrder
  <2>2. x \in Before(y) /\ x \notin Before(x) BY <1>3 DEF StrictOrder
  <2>3. IsFiniteSet(Before(x)) /\ IsFiniteSet(Before(y)) BY <1>2
  <2>4. /\ Cardinality(Before(x)) <= Cardinality(Before(y))
        /\ Cardinality(Before(y)) # Cardinality(Before(x))
    BY <2>1, <2>2, <2>3, FS_Subset
  <2>5. Cardinality(Before(x)) \in Nat /\ Cardinality(Before(y)) \in Nat
    BY <2>3, FS_CardinalityType
  <2> QED BY <2>4, <2>5
<1>4. \A x \in S : Rank(S, order, x) = Cardinality(Before(x)) BY DEF Rank
<1> HIDE DEF Before
<1>5. ASSUME NEW x \in S, NEW y \in S, Rank(S, order, x) = Rank(S, order, y), x # y PROVE FALSE
  <2>1. <<x, y>> \in order \/ <<y, x>> \in order BY <1>5 DEF StrictOrder
  <2>2. Rank(S, order, x) \in Nat /\ Rank(S, order, y) \in Nat BY <1>1, <1>2, <1>4
  <2> QED BY <1>3, <1>4, <1>5, <2>1, <2>2
<1>6. \A k \in 0 .. n - 1 : \E x \in S : Rank(S, order, x) = k
  <2> DEFINE rank == [x \in S |-> Rank(S, order, x)]
  <2>1. rank \in Injection(S, 0 .. n - 1) BY <1>2, <1>4, <1>5 DEF Injection, IsInjective
  <2>2. IsFiniteSet(0 .. n - 1) /\ Cardinality(0 .. n - 1) = n
    BY <1>1, FS_Interval
  <2>3. rank \in Surjection(S, 0 .. n - 1)
    <3> HIDE DEF rank
    <3> QED BY <2>1, <2>2, FS_Injection
  <2> QED BY <2>3 DEF Surjection
<1> QED BY <1>1, <1>2, <1>3, <1>4, <1>5, <1>6

\* Division with a remainder.
LEMMA Quotient ==
  ASSUME NEW k \in Nat, NEW size \in Nat \ {0}
  PROVE  /\ k \div size \in Nat
         /\ size * (k \div size) <= k /\ k < size * (k \div size) + size
OBVIOUS

LEMMA LessQuotient ==
  ASSUME NEW a \in Nat, NEW b \in Nat, NEW size \in Nat \ {0}, size * a < size * b
  PROVE  a < b
OBVIOUS

\* A page has the rows whose ranks are those of its offset and limit.
LEMMA PageIsShort ==
  ASSUME NEW S, IsFiniteSet(S), NEW order, StrictOrder(S, order), NEW size \in Nat \ {0},
         NEW pg \in Nat \ {0}
  PROVE  Cardinality(PageOf(S, order, pg, size)) <= size
<1> DEFINE P == PageOf(S, order, pg, size)
           from == size * (pg - 1)
           rank == [x \in P |-> Rank(S, order, x)]
<1>1. P \subseteq S /\ \A x \in P : Rank(S, order, x) \div size = pg - 1 BY DEF PageOf, Rank
<1>2. from \in Nat OBVIOUS
<1>3. ASSUME NEW x \in P PROVE Rank(S, order, x) \in from .. from + size - 1
  <2>1. Rank(S, order, x) \in Nat BY <1>1, Ranks
  <2>2. /\ size * (pg - 1) <= Rank(S, order, x)
        /\ Rank(S, order, x) < size * (pg - 1) + size
    BY <1>1, <2>1, Quotient
  <2> QED BY <1>2, <2>1, <2>2
<1>4. \A x, y \in P : Rank(S, order, x) = Rank(S, order, y) => x = y BY <1>1, Ranks
<1>5. IsFiniteSet(from .. from + size - 1) /\ Cardinality(from .. from + size - 1) = size
  BY <1>2, FS_Interval
<1>6. rank \in Injection(P, from .. from + size - 1) BY <1>3, <1>4 DEF Injection, IsInjective
<1> HIDE DEF rank, P, from
<1>7. Cardinality(P) <= size BY <1>5, <1>6, FS_Injection
<1> QED BY <1>7 DEF P

\* LIMIT and OFFSET cut a finite result into pages.
LEMMA OrderIsPaged ==
  ASSUME NEW S, IsFiniteSet(S), NEW order, StrictOrder(S, order), NEW size \in Nat \ {0}
  PROVE  Paged(S, order, size)
<1> DEFINE n == Cardinality(S)
           cut == [pg \in 1 .. TotalPages(n, size) |-> PageOf(S, order, pg, size)]
<1>1. n \in Nat /\ TotalPages(n, size) \in Nat
  <2>1. n \in Nat BY Ranks
  <2>2. n + size - 1 \in Nat BY <2>1
  <2> QED BY <2>1, <2>2, Quotient DEF TotalPages
<1>2. ASSUME NEW x \in S
      PROVE  Cardinality({pg \in DOMAIN cut : x \in cut[pg]}) = 1
  <2> DEFINE r == Rank(S, order, x)
             at == r \div size
  <2>1. r \in Nat /\ r <= n - 1 BY <1>1, Ranks
  <2>2. at \in Nat /\ size * at <= r BY <2>1, Quotient
  <2>3. at + 1 \in 1 .. TotalPages(n, size)
    <3>1. n # 0 /\ n + size - 1 \in Nat BY <1>1, <2>1
    <3>2. TotalPages(n, size) = (n + size - 1) \div size BY <3>1 DEF TotalPages
    <3>3. n + size - 1 < size * TotalPages(n, size) + size BY <3>1, <3>2, Quotient
    <3> HIDE DEF r, at
    <3>4. size * at < size * TotalPages(n, size)
      <4>1. size * TotalPages(n, size) \in Nat /\ size * at \in Nat BY <1>1, <2>2
      <4> QED BY <1>1, <2>1, <2>2, <3>3, <4>1
    <3>5. at < TotalPages(n, size) BY <1>1, <2>2, <3>4, LessQuotient
    <3> QED BY <1>1, <2>2, <3>5
  <2>4. {pg \in DOMAIN cut : x \in cut[pg]} = {at + 1}
    <3>1. ASSUME NEW pg \in 1 .. TotalPages(n, size) PROVE x \in cut[pg] <=> pg = at + 1
      <4>1. x \in cut[pg] <=> at = pg - 1 BY DEF PageOf, Rank
      <4> HIDE DEF at
      <4> QED BY <1>1, <2>2, <4>1
    <3> QED BY <2>3, <3>1
  <2> QED BY <2>4, FS_Singleton
<1>3. ASSUME NEW pg \in DOMAIN cut PROVE Cardinality(cut[pg]) <= size
  <2>1. pg \in Nat \ {0} BY <1>1, <1>3
  <2> QED BY <1>3, <2>1, PageIsShort
<1> QED BY <1>2, <1>3 DEF Paged
-----------------------------------------------------------------------------
(* What is stored, and what is true of it at every moment.                 *)

Stored ==
  /\ it \in [Tickets -> TicketRow] /\ ct \in [Rows -> CopyRow \cup {None}]
  /\ events \in Seq(EventRow) /\ committed \subseteq DOMAIN events
  /\ writes \in 0 .. MaxWrites

LEMMA StoredStep ==
  ASSUME Stored, [Next]_vars
  PROVE  Stored'
<1> USE ConsoleAssumption DEF Stored
<1>1. CASE Write
  <2>1. writes' \in 0 .. MaxWrites /\ UNCHANGED <<events, committed>> BY <1>1 DEF Write
  <2>2. it' \in [Tickets -> TicketRow] BY <1>1 DEF Write
  <2>3. ct' \in [Rows -> CopyRow \cup {None}] BY <1>1 DEF Write
  <2> QED BY <2>1, <2>2, <2>3
<1>2. CASE Draw
  <2>1. PICK entry \in Entries : events' = Append(events, entry) BY <1>2 DEF Draw
  <2>2. events' \in Seq(EventRow) /\ DOMAIN events \subseteq DOMAIN events'
    BY <2>1
  <2>3. writes' \in 0 .. MaxWrites /\ UNCHANGED <<it, ct, committed>> BY <1>2 DEF Draw
  <2> QED BY <2>2, <2>3
<1>3. CASE Commit BY <1>3 DEF Commit
<1>4. CASE UNCHANGED <<db, writes>> BY <1>4 DEF db
<1> QED BY <1>1, <1>2, <1>3, <1>4
        DEF Next, vars, Open, Choose, Clear, Turn, Change, Retry, LoadMore, Served, CountRows,
            Read, Fail, Settle, LoadedMore, SignedOut

\* What the tables hold has its columns' types, and no id has committed that was
\* never drawn.
THEOREM StoredAlways == Spec => []Stored
<1>1. Init => Stored BY ConsoleAssumption DEF Init, Stored
<1>2. Stored /\ [Next]_vars => Stored' BY StoredStep
<1> QED BY <1>1, <1>2, PTL DEF Spec

\* NULLS LAST, in either direction.
LEMMA NullsLastOrder ==
  ASSUME NEW dir, NEW a \in Nat \cup {None}, NEW b \in Nat \cup {None}, NEW c \in Nat \cup {None}
  PROVE  /\ ~NullsLast(dir, a, a)
         /\ NullsLast(dir, a, b) /\ NullsLast(dir, b, c) => NullsLast(dir, a, c)
         /\ a = b \/ NullsLast(dir, a, b) \/ NullsLast(dir, b, a)
BY ReadsAssumption DEF NullsLast

LEMMA IdOrder ==
  ASSUME NEW x \in Rows, NEW y \in Rows, NEW z \in Rows
  PROVE  /\ ~IdBefore(x, x)
         /\ IdBefore(x, y) /\ IdBefore(y, z) => IdBefore(x, z)
         /\ x = y \/ IdBefore(x, y) \/ IdBefore(y, x)
<1>1. /\ x = <<x[1], x[2]>> /\ x[1] \in Tickets /\ x[2] \in Units
      /\ y = <<y[1], y[2]>> /\ y[1] \in Tickets /\ y[2] \in Units
      /\ z[1] \in Tickets /\ z[2] \in Units
  BY DEF Rows
<1>2. Tickets \subseteq Nat /\ Units \subseteq Nat BY ReadsAssumption
<1> QED BY <1>1, <1>2 DEF IdBefore

LEMMA CustomerStrict ==
  ASSUME Stored, NEW sort \in CustomerSorts, NEW S, S \subseteq Rows, \A x \in S : ct[x] # None
  PROVE  StrictOrder(S, {p \in S \X S : CustomerOrder(sort, p[1], p[2])})
<1> DEFINE v(x) == ct[x][sort.field]
           before(x, y) == NullsLast(sort.dir, v(x), v(y)) \/ (v(x) = v(y) /\ IdBefore(x, y))
<1>1. \A x \in S : v(x) \in Nat \cup {None}
  <2>1. \A x \in S : ct[x] \in CopyRow BY DEF Stored
  <2>2. \A row \in CopyRow : /\ row.created \in Nat /\ row.priority \in Nat
                             /\ row.due \in Nat \cup {None}
    BY DEF CopyRow
  <2>3. sort.field \in {"created", "priority", "due"} BY DEF CustomerSorts
  <2> QED BY <2>1, <2>2, <2>3
<1>2. \A x, y \in S : CustomerOrder(sort, x, y) <=> before(x, y) BY DEF CustomerOrder
<1> HIDE DEF v
<1>3. \A x \in S : ~before(x, x) BY <1>1, NullsLastOrder, IdOrder
<1>4. ASSUME NEW x \in S, NEW y \in S, NEW z \in S, before(x, y), before(y, z)
      PROVE  before(x, z)
  <2>1. NullsLast(sort.dir, v(x), v(y)) /\ NullsLast(sort.dir, v(y), v(z))
          => NullsLast(sort.dir, v(x), v(z))
    BY <1>1, NullsLastOrder
  <2>2. IdBefore(x, y) /\ IdBefore(y, z) => IdBefore(x, z) BY IdOrder
  <2> QED BY <1>4, <2>1, <2>2
<1>5. ASSUME NEW x \in S, NEW y \in S PROVE x = y \/ before(x, y) \/ before(y, x)
  <2>1. v(x) = v(y) \/ NullsLast(sort.dir, v(x), v(y)) \/ NullsLast(sort.dir, v(y), v(x))
    BY <1>1, NullsLastOrder
  <2>2. x = y \/ IdBefore(x, y) \/ IdBefore(y, x) BY IdOrder
  <2> QED BY <2>1, <2>2
<1> HIDE DEF before
<1>6. \A x, y \in S : <<x, y>> \in {p \in S \X S : CustomerOrder(sort, p[1], p[2])}
                        <=> before(x, y)
  BY <1>2
<1> QED BY <1>3, <1>4, <1>5, <1>6 DEF StrictOrder

LEMMA AdminStrict ==
  ASSUME Stored, NEW sort \in AdminSorts, NEW S, S \subseteq Tickets
  PROVE  StrictOrder(S, {p \in S \X S : AdminOrder(sort, p[1], p[2])})
<1> DEFINE v(t) == it[t][sort.field]
           before(t, u) == NullsLast(sort.dir, v(t), v(u)) \/ (v(t) = v(u) /\ t < u)
<1>1. \A t \in S : v(t) \in Nat \cup {None}
  <2>1. \A t \in S : it[t] \in TicketRow BY DEF Stored
  <2>2. \A row \in TicketRow : row.created \in Nat /\ row.updated \in Nat BY DEF TicketRow
  <2>3. sort.field \in {"created", "updated"} BY DEF AdminSorts
  <2> QED BY <2>1, <2>2, <2>3
<1>2. \A t, u \in S : AdminOrder(sort, t, u) <=> before(t, u) BY DEF AdminOrder
<1> HIDE DEF v
<1>3. S \subseteq Nat BY ReadsAssumption
<1>4. ASSUME NEW t \in S PROVE ~before(t, t)
  <2>1. ~NullsLast(sort.dir, v(t), v(t)) BY <1>1, NullsLastOrder
  <2>2. ~(t < t) BY <1>3
  <2> QED BY <2>1, <2>2
<1>5. ASSUME NEW x \in S, NEW y \in S, NEW z \in S, before(x, y), before(y, z)
      PROVE  before(x, z)
  <2>1. NullsLast(sort.dir, v(x), v(y)) /\ NullsLast(sort.dir, v(y), v(z))
          => NullsLast(sort.dir, v(x), v(z))
    BY <1>1, NullsLastOrder
  <2>2. x < y /\ y < z => x < z BY <1>3
  <2> QED BY <1>5, <2>1, <2>2
<1>6. ASSUME NEW x \in S, NEW y \in S PROVE x = y \/ before(x, y) \/ before(y, x)
  <2>1. v(x) = v(y) \/ NullsLast(sort.dir, v(x), v(y)) \/ NullsLast(sort.dir, v(y), v(x))
    BY <1>1, NullsLastOrder
  <2>2. x = y \/ x < y \/ y < x BY <1>3
  <2> QED BY <2>1, <2>2
<1> HIDE DEF before
<1>7. \A x, y \in S : <<x, y>> \in {p \in S \X S : AdminOrder(sort, p[1], p[2])} <=> before(x, y)
  BY <1>2
<1> QED BY <1>4, <1>5, <1>6, <1>7 DEF StrictOrder

\* In every order, the pages of the customer's list and of the console's hold
\* each of its rows exactly once, and none is longer than its size.
THEOREM PagesArePartition == Spec => []PagesPartition
<1>1. ASSUME Stored PROVE PagesPartition
  <2> DEFINE seen == CustomerMatches(Scope, ToQuery("dashboard", Default("dashboard")))
             managed == AdminMatches(ToQuery("tickets", Default("tickets")))
  <2>1. seen \subseteq Rows /\ \A x \in seen : ct[x] # None BY DEF CustomerMatches, Visible
  <2>2. managed \subseteq Tickets BY DEF AdminMatches
  <2> HIDE DEF seen, managed
  <2>3. IsFiniteSet(Rows) BY ReadsAssumption, FS_Product DEF Rows
  <2>4. IsFiniteSet(seen) /\ IsFiniteSet(managed)
    BY <2>1, <2>2, <2>3, ReadsAssumption, FS_Subset
  <2>5. DashboardSize \in Nat \ {0} /\ TicketsSize \in Nat \ {0} BY ConsoleAssumption
  <2>6. ASSUME NEW sort \in CustomerSorts
        PROVE  Paged(seen, {p \in seen \X seen : CustomerOrder(sort, p[1], p[2])}, DashboardSize)
    <3>1. StrictOrder(seen, {p \in seen \X seen : CustomerOrder(sort, p[1], p[2])})
      BY <1>1, <2>1, CustomerStrict
    <3> QED BY <2>4, <2>5, <3>1, OrderIsPaged
  <2>7. ASSUME NEW sort \in AdminSorts
        PROVE  Paged(managed, {p \in managed \X managed : AdminOrder(sort, p[1], p[2])}, TicketsSize)
    <3>1. StrictOrder(managed, {p \in managed \X managed : AdminOrder(sort, p[1], p[2])})
      BY <1>1, <2>2, AdminStrict
    <3> QED BY <2>4, <2>5, <3>1, OrderIsPaged
  <2> QED BY <2>6, <2>7 DEF PagesPartition, seen, managed
<1> QED BY <1>1, StoredAlways, PTL

\* The console's list without a filter, or with one of the links' filters.
Linked(shared, published) ==
  [search |-> None, account |-> None, unit |-> None, stage |-> None, priority |-> None,
   visibility |-> None, published |-> published, shared |-> shared,
   receivedFrom |-> None, receivedTo |-> None, updatedFrom |-> None, updatedTo |-> None,
   sort |-> [field |-> "created", dir |-> "desc"], page |-> 1]

LEMMA Everything ==
  LET everything == ToQuery("tickets", Default("tickets"))
  IN /\ everything = Linked(None, None)
     /\ [everything EXCEPT !.shared = TRUE] = Linked(TRUE, None)
     /\ \A v : [everything EXCEPT !.published = v] = Linked(None, v)
<1>1. ToQuery("tickets", Default("tickets")) = Linked(None, None)
  <2> DEFINE f == Default("tickets")
  <2>1. /\ f.q = None /\ f.customer = None /\ f.bu = None /\ f.stage = None /\ f.priority = None
        /\ f.visibility = None /\ f.published = None /\ f.shared = None /\ f.from = None
        /\ f.to = None /\ f.updatedFrom = None /\ f.updatedTo = None
        /\ f.sort = [field |-> "created", dir |-> "desc"] /\ f.page = 1
    BY DEF Default
  <2> HIDE DEF f
  <2>2. ToQuery("tickets", f) = Linked(None, None)
    BY <2>1 DEF ToQuery, SlugId, StartOf, EndOf, Linked
  <2> QED BY <2>2 DEF f
<1>2. \A v : /\ [Linked(None, None) EXCEPT !.shared = v] = Linked(v, None)
             /\ [Linked(None, None) EXCEPT !.published = v] = Linked(None, v)
  BY DEF Linked
<1> QED BY <1>1, <1>2

LEMMA AdminUnfiltered ==
  ASSUME NEW shared, NEW published
  PROVE  AdminMatches(Linked(shared, published)) =
           {t \in Live : /\ shared # None => /\ Cardinality(it[t].units) # 0
                                             /\ shared = (Cardinality(it[t].units) > 1)
                         /\ published # None => published = PublishedSomewhere(t)}
BY DEF AdminMatches, Linked, Within, Allows, Live

\* Together, the customers are shown all rows that are published; by the state of
\* their resolution, some of these.
LEMMA ShownIsExposed ==
  LET unfiltered == ToQuery("dashboard", Default("dashboard"))
  IN /\ ShownToCustomers(unfiltered) = Exposed
     /\ \A state : state # None =>
          ShownToCustomers([unfiltered EXCEPT !.slaState = state]) = {x \in Exposed : ct[x].slaState = state}
<1> DEFINE everyone(state) ==
             [search |-> None, unit |-> None, stage |-> None, priority |-> None, slaState |-> state,
              sort |-> [field |-> "created", dir |-> "desc"], page |-> 1]
<1>1. ToQuery("dashboard", Default("dashboard")) = everyone(None) BY DEF ToQuery, Default
<1>2. \A state : [everyone(None) EXCEPT !.slaState = state] = everyone(state) OBVIOUS
<1>3. ASSUME NEW state
      PROVE  ShownToCustomers(everyone(state)) = {x \in Exposed : Allows(state, ct[x].slaState)}
  <2> DEFINE of(a) == [account |-> a, units |-> None]
  <2>1. ASSUME NEW a
        PROVE  CustomerMatches(of(a), everyone(state)) =
                 {x \in Exposed : AccountOf[x[2]] = a /\ Allows(state, ct[x].slaState)}
    BY DEF CustomerMatches, Visible, Exposed, Allows
  <2>2. ASSUME NEW x \in Exposed PROVE x[2] \in Units BY DEF Exposed, Rows
  <2> HIDE DEF everyone
  <2>3. ShownToCustomers(everyone(state)) =
          UNION {CustomerMatches(of(a), everyone(state)) : a \in {AccountOf[b] : b \in Units}}
    BY DEF ShownToCustomers
  <2> HIDE DEF of
  <2>4. ASSUME NEW x \in Exposed
        PROVE  \E a \in {AccountOf[b] : b \in Units} : AccountOf[x[2]] = a
    BY <2>2
  <2> QED BY <2>1, <2>3, <2>4
<1>4. \A x : Allows(None, ct[x].slaState) BY DEF Allows
<1>5. \A state, x : state # None => (Allows(state, ct[x].slaState) <=> ct[x].slaState = state)
  BY DEF Allows
<1>6. ShownToCustomers(everyone(None)) = Exposed BY <1>3, <1>4
<1>7. ASSUME NEW state, state # None
      PROVE  ShownToCustomers(everyone(state)) = {x \in Exposed : ct[x].slaState = state}
  <2>1. \A x : Allows(state, ct[x].slaState) <=> ct[x].slaState = state BY <1>5, <1>7
  <2> HIDE DEF everyone
  <2> QED BY <1>3, <2>1
<1> HIDE DEF everyone
<1> QED BY <1>1, <1>2, <1>6, <1>7

\* The overview's counts are those of the lists its cards link to; "Published
\* Exposure" counts what customers see, the tickets of which, unless deleted, are the
\* list that its card links to.
THEOREM CardsAreRight == Spec => []CardsMatchLists
<1>1. ASSUME Stored PROVE CardsMatchLists
  <2>1. AdminMatches(Linked(None, None)) = Live BY AdminUnfiltered
  <2>2. AdminMatches(Linked(TRUE, None)) = {t \in Live : Cardinality(it[t].units) > 1}
    <3>1. \A t \in Live : Cardinality(it[t].units) \in Nat
      <4>1. \A t \in Live : it[t].units \in SUBSET Units
        BY <1>1 DEF Live, Stored, TicketRow
      <4> QED BY <4>1, ReadsAssumption, FS_Subset, FS_CardinalityType
    <3>2. TRUE # None BY ReadsAssumption
    <3>3. AdminMatches(Linked(TRUE, None)) =
            {t \in Live : Cardinality(it[t].units) # 0 /\ TRUE = (Cardinality(it[t].units) > 1)}
      BY <3>2, AdminUnfiltered
    <3>4. ASSUME NEW n \in Nat PROVE (n # 0 /\ TRUE = (n > 1)) <=> n > 1
      OBVIOUS
    <3> QED BY <3>1, <3>3, <3>4
  <2>3. AdminMatches(Linked(None, FALSE)) = {t \in Live : ~PublishedSomewhere(t)}
    <3>1. FALSE # None BY ReadsAssumption
    <3>2. AdminMatches(Linked(None, FALSE)) =
            {t \in Live : /\ None # None => /\ Cardinality(it[t].units) # 0
                                            /\ None = (Cardinality(it[t].units) > 1)
                          /\ FALSE # None => FALSE = PublishedSomewhere(t)}
      BY AdminUnfiltered
    <3>3. ASSUME NEW t PROVE FALSE = PublishedSomewhere(t) <=> ~PublishedSomewhere(t)
      BY DEF PublishedSomewhere
    <3> QED BY <3>1, <3>2, <3>3
  <2>4. Stats.total = Stats.open + Stats.closed
    <3> DEFINE open == {t \in Live : it[t].stage \in OpenStages}
               closed == {t \in Live : it[t].stage \in {"RESOLVED", "CLOSED"}}
    <3>1. IsFiniteSet(Live) /\ open \in SUBSET Live /\ closed \in SUBSET Live
      BY ReadsAssumption, FS_Subset DEF Live
    <3>2. \A t \in Live : it[t].stage \in OpenStages \cup {"RESOLVED", "CLOSED"}
      BY <1>1 DEF Live, Stored, TicketRow, Stages, OpenStages
    <3>3. open \cup closed = Live /\ open \cap closed = {} BY <3>2 DEF OpenStages
    <3> HIDE DEF open, closed
    <3>4. IsFiniteSet(open) /\ IsFiniteSet(closed) BY <3>1, FS_Subset
    <3>5. Cardinality(open) \in Nat /\ Cardinality(closed) \in Nat BY <3>4, FS_CardinalityType
    <3>6. Cardinality(Live) = Cardinality(open) + Cardinality(closed)
      BY <3>3, <3>4, <3>5, FS_Union, FS_EmptySet
    <3> QED BY <3>6 DEF Stats, open, closed
  <2>5. IsFiniteSet(Exposed)
    <3>1. IsFiniteSet(Rows) BY ReadsAssumption, FS_Product DEF Rows
    <3> QED BY <3>1, FS_Subset DEF Exposed
  <2>6. AdminMatches(Linked(None, TRUE)) = Live \cap {x[1] : x \in Exposed}
    <3>1. TRUE # None BY ReadsAssumption
    <3>2. AdminMatches(Linked(None, TRUE)) =
            {t \in Live : /\ None # None => /\ Cardinality(it[t].units) # 0
                                            /\ None = (Cardinality(it[t].units) > 1)
                          /\ TRUE # None => TRUE = PublishedSomewhere(t)}
      BY AdminUnfiltered
    <3>3. ASSUME NEW t PROVE TRUE = PublishedSomewhere(t) <=> PublishedSomewhere(t)
      BY DEF PublishedSomewhere
    <3>4. ASSUME NEW t \in Live PROVE PublishedSomewhere(t) <=> \E x \in Exposed : t = x[1]
      <4>1. t \in Tickets BY DEF Live
      <4>2. \A b \in Units : <<t, b>> \in Rows /\ <<t, b>>[1] = t BY <4>1 DEF Rows
      <4>3. \A x \in Rows : x[2] \in Units /\ x = <<x[1], x[2]>> BY DEF Rows
      <4> QED BY <4>2, <4>3 DEF PublishedSomewhere, Exposed
    <3> QED BY <3>1, <3>2, <3>3, <3>4
  <2>7. Cardinality(Exposed) >= Cardinality(Live \cap {x[1] : x \in Exposed})
    <3> DEFINE of == {x[1] : x \in Exposed}
               f == [x \in Exposed |-> x[1]]
    <3>1. f \in Surjection(Exposed, of) BY DEF Surjection
    <3> HIDE DEF f
    <3>2. IsFiniteSet(of) /\ Cardinality(of) <= Cardinality(Exposed) BY <2>5, <3>1, FS_Surjection
    <3>3. Live \cap of \subseteq of OBVIOUS
    <3> HIDE DEF of
    <3>4. Cardinality(Live \cap of) <= Cardinality(of) BY <3>2, <3>3, FS_Subset
    <3>5. /\ Cardinality(of) \in Nat /\ Cardinality(Exposed) \in Nat
          /\ Cardinality(Live \cap of) \in Nat
      BY <2>5, <3>2, <3>3, FS_Subset, FS_CardinalityType
    <3>6. Cardinality(Live \cap of) <= Cardinality(Exposed) BY <3>2, <3>4, <3>5
    <3> QED BY <3>5, <3>6 DEF of
  <2>8. Stats.breaches >= Cardinality({x \in Exposed : ct[x].slaState = "BREACHED"})
    <3> DEFINE counted == {x \in Exposed : "BREACHED" \in {ct[x].responseSla, ct[x].slaState}}
               found == {x \in Exposed : ct[x].slaState = "BREACHED"}
    <3>1. found \subseteq counted /\ counted \subseteq Exposed OBVIOUS
    <3> HIDE DEF counted, found
    <3>2. /\ IsFiniteSet(counted) /\ Cardinality(found) <= Cardinality(counted)
          /\ Cardinality(counted) \in Nat /\ Cardinality(found) \in Nat
      BY <2>5, <3>1, FS_Subset, FS_CardinalityType
    <3>3. Stats.breaches = Cardinality(counted) BY DEF Stats, counted
    <3> QED BY <3>2, <3>3 DEF found
  <2>9. "BREACHED" # None BY ReadsAssumption DEF SlaStates
  <2>10. /\ Stats.published = Cardinality(ShownToCustomers(ToQuery("dashboard", Default("dashboard"))))
         /\ Stats.breaches >= Cardinality(ShownToCustomers(
              [ToQuery("dashboard", Default("dashboard")) EXCEPT !.slaState = "BREACHED"]))
    BY <2>8, <2>9, ShownIsExposed DEF Stats
  <2>11. Stats.published = Cardinality(Exposed) BY DEF Stats
  <2> QED BY <2>1, <2>2, <2>3, <2>4, <2>6, <2>7, <2>10, <2>11, Everything
          DEF CardsMatchLists, CardAgrees, Stats
<1> QED BY <1>1, StoredAlways, PTL

\* A customer can open exactly the tickets the unfiltered list has.
THEOREM DetailIsListed == Spec => []DetailIffListed
<1>1. DetailIffListed
  BY DEF DetailIffListed, CustomerDetail, CustomerMatches, Visible, ToQuery, Default, Allows
<1> QED BY <1>1, PTL
-----------------------------------------------------------------------------
(* What a page waits for.                                                  *)

Loads(r) == r.kind = "load" /\ r.effect = effect
Extends(r) == r.kind = "more" /\ r.mount = mount

Booleans == /\ loading \in BOOLEAN /\ error \in BOOLEAN /\ loadingMore \in BOOLEAN
            /\ exhausted \in BOOLEAN

\* One load at most is waited for, and one answer to loadMore.
Waiting ==
  /\ page \in Pages \cup {"login"} /\ effect \in 0 .. MaxAsks
  /\ page \in Pages => effect # 0
  /\ \A r \in requests : /\ r.page \in Pages /\ r.effect \in 1 .. effect
                         /\ r.effect = effect => r.mount = mount
  /\ loading <=> \E r \in requests : Loads(r)
  /\ loadingMore <=> \E r \in requests : Extends(r)
  /\ \A r, s \in requests : /\ Loads(r) /\ Loads(s) => r = s
                            /\ Extends(r) /\ Extends(s) => r = s

\* A new effect, whatever page it is of.
LEMMA AskWaits ==
  ASSUME IInv, Waiting, effect < MaxAsks, page' \in Pages, effect' = effect + 1, loading' = TRUE,
         NEW R, R \subseteq requests, NEW new, requests' = R \cup {new},
         new.kind = "load", new.effect = effect + 1, new.page = page', new.mount = mount',
         \/ mount' = mount /\ R = requests /\ loadingMore' = loadingMore
         \/ mount' = effect + 1 /\ loadingMore' = FALSE
  PROVE  Waiting'
<1>1. effect \in Nat /\ MaxAsks \in Nat BY ConsoleAssumption DEF IInv, Fetches
<1>2. \A r \in requests : r.page \in Pages /\ r.effect \in 1 .. effect /\ r.mount \in 0 .. effect
  BY DEF IInv, Fetches, Waiting
<1>3. \A r \in requests' : /\ r.page \in Pages /\ r.effect \in 1 .. effect'
                           /\ r.effect = effect' <=> r = new
  BY <1>1, <1>2
<1>4. \A r \in requests' : Loads(r)' <=> r = new BY <1>3 DEF Loads
<1>5. \A r \in requests' : r \in R \/ ~Extends(r)' BY DEF Extends
<1>6. /\ loadingMore' <=> \E r \in requests' : Extends(r)'
      /\ \A r, s \in requests' : Extends(r)' /\ Extends(s)' => r = s
  <2>1. CASE mount' = mount /\ R = requests /\ loadingMore' = loadingMore
    BY <1>5, <2>1 DEF Waiting, Extends
  <2>2. CASE mount' = effect + 1 /\ loadingMore' = FALSE
    <3>1. \A r \in R : r.mount # mount' BY <1>1, <1>2, <2>2
    <3> QED BY <1>5, <2>2, <3>1 DEF Extends
  <2> QED BY <2>1, <2>2
<1>7. effect' \in 0 .. MaxAsks /\ effect' # 0 BY <1>1
<1>8. \A r \in requests' : r.effect = effect' => r.mount = mount' BY <1>3
<1>9. loading' <=> \E r \in requests' : Loads(r)' BY <1>4
<1> QED BY <1>3, <1>4, <1>6, <1>7, <1>8, <1>9 DEF Waiting

LEMMA ChangeWaits ==
  ASSUME IInv, Waiting, NEW f, Change(f)
  PROVE  Waiting'
<1> DEFINE kept == Kept(page, f)
           new == Request(page, "load", ToQuery(page, Current(page, kept)), None, effect + 1, mount)
<1>1. /\ effect < MaxAsks /\ page' \in Pages /\ effect' = effect + 1 /\ loading' = TRUE
      /\ requests' = requests \cup {new} /\ page' = page /\ mount' = mount
      /\ loadingMore' = loadingMore
  BY DEF Change, Ask
<1>2. new.kind = "load" /\ new.effect = effect + 1 /\ new.page = page /\ new.mount = mount
  BY DEF Request
<1> HIDE DEF new
<1> QED BY <1>1, <1>2, AskWaits

LEMMA RetryWaits ==
  ASSUME IInv, Waiting, Retry
  PROVE  Waiting'
<1> DEFINE new == Request(page, "load", ToQuery(page, Current(page, filters)), None, effect + 1, mount)
<1>1. /\ effect < MaxAsks /\ page' \in Pages /\ effect' = effect + 1 /\ loading' = TRUE
      /\ requests' = requests \cup {new} /\ page' = page /\ mount' = mount
      /\ loadingMore' = loadingMore
  BY DEF Retry, Ask, Pages
<1>2. new.kind = "load" /\ new.effect = effect + 1 /\ new.page = page /\ new.mount = mount
  BY DEF Request
<1> HIDE DEF new
<1> QED BY <1>1, <1>2, AskWaits

LEMMA OpenWaits ==
  ASSUME IInv, Waiting, NEW p \in Pages, Open(p)
  PROVE  Waiting'
<1>1. PICK url : /\ Ask(p, url, Current(p, url), None, effect + 1, effect + 1)
                 /\ requests' = {r \in requests : Realm(r.page) = Realm(p) /\ page # "login"} \cup
                      {Request(p, "load", ToQuery(p, Current(p, url)), None, effect + 1, effect + 1)}
  BY DEF Open
<1> DEFINE new == Request(p, "load", ToQuery(p, Current(p, url)), None, effect + 1, effect + 1)
           R == {r \in requests : Realm(r.page) = Realm(p) /\ page # "login"}
<1>2. /\ effect < MaxAsks /\ page' = p /\ effect' = effect + 1 /\ loading' = TRUE
      /\ requests' = R \cup {new} /\ mount' = effect + 1 /\ loadingMore' = FALSE
  BY <1>1 DEF Open, Ask
<1>3. new.kind = "load" /\ new.effect = effect + 1 /\ new.page = p /\ new.mount = effect + 1
  BY DEF Request
<1>4. R \subseteq requests OBVIOUS
<1> HIDE DEF new, R
<1> QED BY <1>2, <1>3, <1>4, AskWaits

LEMMA LoadMoreWaits ==
  ASSUME IInv, Waiting, LoadMore
  PROVE  Waiting'
<1> DEFINE new == Request("audit", "more", ToQuery("audit", Current("audit", filters)),
                          shown.list[Len(shown.list)], effect, mount)
<1>1. /\ page = "audit" /\ requests' = requests \cup {new} /\ ~loadingMore /\ loadingMore' = TRUE
      /\ UNCHANGED <<page, mount, effect, loading>>
  BY DEF LoadMore
<1>2. new.kind = "more" /\ new.effect = effect /\ new.page = "audit" /\ new.mount = mount
  BY DEF Request
<1> HIDE DEF new
<1>3. \A r \in requests : ~Extends(r) BY <1>1 DEF Waiting
<1>4. \A r \in requests' : Extends(r)' <=> r = new BY <1>1, <1>2, <1>3 DEF Extends
<1>5. \A r \in requests' : Loads(r)' <=> r \in requests /\ Loads(r) BY <1>1, <1>2 DEF Loads
<1>6. effect \in 1 .. effect BY <1>1 DEF IInv, Fetches, Waiting, Pages
<1>7. \A r \in requests' : /\ r.page \in Pages /\ r.effect \in 1 .. effect
                           /\ r.effect = effect => r.mount = mount
  BY <1>1, <1>2, <1>6 DEF Waiting, Pages
<1>8. loading' <=> \E r \in requests' : Loads(r)' BY <1>1, <1>5 DEF Waiting
<1>9. loadingMore' <=> \E r \in requests' : Extends(r)' BY <1>1, <1>4
<1>10. \A r, s \in requests' : /\ Loads(r)' /\ Loads(s)' => r = s
                               /\ Extends(r)' /\ Extends(s)' => r = s
  BY <1>4, <1>5 DEF Waiting
<1> QED BY <1>1, <1>7, <1>8, <1>9, <1>10 DEF Waiting

\* The server's steps keep what identifies a fetch.
LEMMA AdvanceWaits ==
  ASSUME IInv, Waiting, UNCHANGED uiVars, NEW r \in requests, NEW next, Advance(r, next),
         next.page = r.page, next.kind = r.kind, next.effect = r.effect, next.mount = r.mount
  PROVE  Waiting'
<1>1. requests' = (requests \ {r}) \cup {next} BY DEF Advance
<1> DEFINE of(s) == IF s = next THEN r ELSE s
<1>2. \A s \in requests' : /\ of(s) \in requests
                           /\ Loads(s)' <=> Loads(of(s))
                           /\ Extends(s)' <=> Extends(of(s))
                           /\ s.page = of(s).page /\ s.effect = of(s).effect
                           /\ s.mount = of(s).mount
  BY <1>1 DEF uiVars, Loads, Extends
<1>3. \A s \in requests : s = r \/ s \in requests' BY <1>1
<1>4. next \in requests' /\ of(next) = r BY <1>1
<1>5. (\E s \in requests' : Loads(s)') <=> \E s \in requests : Loads(s)
  <2>1. \A s \in requests : s # r => (Loads(s)' <=> Loads(s)) BY DEF uiVars, Loads
  <2> QED BY <1>2, <1>3, <1>4, <2>1
<1>6. (\E s \in requests' : Extends(s)') <=> \E s \in requests : Extends(s)
  <2>1. \A s \in requests : s # r => (Extends(s)' <=> Extends(s)) BY DEF uiVars, Extends
  <2> QED BY <1>2, <1>3, <1>4, <2>1
<1>7. \A s, t \in requests' : of(s) = of(t) => s = t BY <1>1
<1>8. \A s, t \in requests' : /\ Loads(s)' /\ Loads(t)' => s = t
                              /\ Extends(s)' /\ Extends(t)' => s = t
  BY <1>2, <1>7 DEF Waiting
<1>9. \A s \in requests' : /\ s.page \in Pages /\ s.effect \in 1 .. effect'
                           /\ s.effect = effect' => s.mount = mount'
  BY <1>2 DEF Waiting, uiVars
<1> QED BY <1>5, <1>6, <1>8, <1>9 DEF Waiting, uiVars

LEMMA ServerWaits ==
  ASSUME IInv, Waiting, NEW r \in requests, CountRows(r) \/ Read(r) \/ Fail(r)
  PROVE  Waiting'
<1>0. IsRequest(r) BY DEF IInv, Fetches
<1>1. DOMAIN r = Fields BY <1>0, RequestFields
<1>2. UNCHANGED uiVars
  <2>1. CASE CountRows(r) BY <2>1 DEF CountRows
  <2>2. CASE Read(r) BY <2>2 DEF Read
  <2>3. CASE Fail(r) BY <2>3 DEF Fail
  <2> QED BY <2>1, <2>2, <2>3
<1>3. PICK next : /\ Advance(r, next)
                  /\ next.page = r.page /\ next.kind = r.kind
                  /\ next.effect = r.effect /\ next.mount = r.mount
  <2>1. CASE CountRows(r)
    <3>1. PICK n : Advance(r, [r EXCEPT !.step = "counted", !.total = n]) BY <2>1 DEF CountRows
    <3> DEFINE next == [r EXCEPT !.step = "counted", !.total = n]
    <3>2. /\ next.page = r.page /\ next.kind = r.kind /\ next.effect = r.effect
          /\ next.mount = r.mount
      BY <1>1 DEF Fields
    <3>3. Advance(r, next) BY <3>1
    <3> HIDE DEF next
    <3> QED BY <3>2, <3>3
  <2>2. CASE Read(r)
    <3>1. PICK a : Advance(r, [r EXCEPT !.step = "answered", !.answer = a]) BY <2>2 DEF Read
    <3> DEFINE next == [r EXCEPT !.step = "answered", !.answer = a]
    <3>2. /\ next.page = r.page /\ next.kind = r.kind /\ next.effect = r.effect
          /\ next.mount = r.mount
      BY <1>1 DEF Fields
    <3>3. Advance(r, next) BY <3>1
    <3> HIDE DEF next
    <3> QED BY <3>2, <3>3
  <2>3. CASE Fail(r)
    <3>1. Advance(r, [r EXCEPT !.step = "failed"]) BY <2>3 DEF Fail
    <3> QED BY <1>1, <3>1 DEF Fields
  <2> QED BY <2>1, <2>2, <2>3
<1> QED BY <1>2, <1>3, AdvanceWaits

LEMMA SettleWaits ==
  ASSUME IInv, Waiting, NEW r \in requests, Settle(r)
  PROVE  Waiting'
<1>1. /\ requests' = requests \ {r} /\ r.kind = "load"
      /\ UNCHANGED <<page, mount, effect, loadingMore>>
      /\ loading' = IF r.effect = effect THEN FALSE ELSE loading
  BY DEF Settle
<1>2. \A s \in requests : (Loads(s)' <=> Loads(s)) /\ (Extends(s)' <=> Extends(s))
  BY <1>1 DEF Loads, Extends
<1>3. ~Extends(r) BY <1>1 DEF Extends
<1>4. loading' <=> \E s \in requests' : Loads(s)'
  <2>1. CASE Loads(r)
    <3>1. \A s \in requests' : ~Loads(s)' BY <1>1, <1>2, <2>1 DEF Waiting
    <3> QED BY <1>1, <2>1, <3>1 DEF Loads
  <2>2. CASE ~Loads(r)
    <3>1. loading' = loading BY <1>1, <2>2 DEF Loads
    <3>2. (\E s \in requests' : Loads(s)') <=> \E s \in requests : Loads(s)
      BY <1>1, <1>2, <2>2
    <3>3. loading <=> \E s \in requests : Loads(s) BY DEF Waiting
    <3> QED BY <3>1, <3>2, <3>3
  <2> QED BY <2>1, <2>2
<1>5. loadingMore' <=> \E s \in requests' : Extends(s)' BY <1>1, <1>2, <1>3 DEF Waiting
<1> QED BY <1>1, <1>2, <1>4, <1>5 DEF Waiting

LEMMA LoadedMoreWaits ==
  ASSUME IInv, Waiting, NEW r \in requests, LoadedMore(r)
  PROVE  Waiting'
<1>1. /\ requests' = requests \ {r} /\ r.kind = "more"
      /\ UNCHANGED <<page, mount, effect, loading>>
      /\ loadingMore' = IF r.mount = mount THEN FALSE ELSE loadingMore
  BY DEF LoadedMore
<1>2. \A s \in requests : (Loads(s)' <=> Loads(s)) /\ (Extends(s)' <=> Extends(s))
  BY <1>1 DEF Loads, Extends
<1>3. ~Loads(r) BY <1>1 DEF Loads
<1>4. loadingMore' <=> \E s \in requests' : Extends(s)'
  <2>1. CASE Extends(r)
    <3>1. \A s \in requests' : ~Extends(s)' BY <1>1, <1>2, <2>1 DEF Waiting
    <3> QED BY <1>1, <2>1, <3>1 DEF Extends
  <2>2. CASE ~Extends(r)
    <3>1. loadingMore' = loadingMore BY <1>1, <2>2 DEF Extends
    <3>2. (\E s \in requests' : Extends(s)') <=> \E s \in requests : Extends(s)
      BY <1>1, <1>2, <2>2
    <3>3. loadingMore <=> \E s \in requests : Extends(s) BY DEF Waiting
    <3> QED BY <3>1, <3>2, <3>3
  <2> QED BY <2>1, <2>2
<1>5. loading' <=> \E s \in requests' : Loads(s)' BY <1>1, <1>2, <1>3 DEF Waiting
<1> QED BY <1>1, <1>2, <1>4, <1>5 DEF Waiting

LEMMA WaitingStep ==
  ASSUME IInv, Waiting, [Next]_vars
  PROVE  Waiting'
<1>1. CASE \E p \in Pages : Open(p) BY <1>1, OpenWaits
<1>2. CASE Choose BY <1>2, ChangeWaits DEF Choose
<1>3. CASE Clear BY <1>3, ChangeWaits DEF Clear
<1>4. CASE Turn BY <1>4, ChangeWaits DEF Turn
<1>5. CASE Retry BY <1>5, RetryWaits
<1>6. CASE LoadMore BY <1>6, LoadMoreWaits
<1>7. CASE Served BY <1>7, ServerWaits, SettleWaits, LoadedMoreWaits DEF Served
<1>8. CASE \E r \in requests : SignedOut(r)
  <2>1. /\ requests' = {} /\ page' = "login" /\ effect' = effect
        /\ loading' = FALSE /\ loadingMore' = FALSE
    BY <1>8 DEF SignedOut
  <2> QED BY <2>1 DEF Waiting, Pages
<1>9. CASE Write \/ Draw \/ Commit \/ UNCHANGED vars
  <2>1. UNCHANGED <<uiVars, requests>> BY <1>9 DEF Write, Draw, Commit, vars
  <2> QED BY <2>1 DEF Waiting, uiVars, Loads, Extends
<1> QED BY <1>1, <1>2, <1>3, <1>4, <1>5, <1>6, <1>7, <1>8, <1>9 DEF Next

LEMMA BooleansStep ==
  ASSUME Booleans, [Next]_vars
  PROVE  Booleans'
<1> USE DEF Booleans
<1>1. ASSUME NEW f, Change(f) PROVE Booleans' BY <1>1 DEF Change, Ask
<1>2. ASSUME NEW p, Open(p) PROVE Booleans' BY <1>2 DEF Open, Ask
<1>3. CASE Retry BY <1>3 DEF Retry, Ask
<1>4. CASE LoadMore BY <1>4 DEF LoadMore
<1>5. ASSUME NEW r, CountRows(r) \/ Read(r) \/ Fail(r) PROVE Booleans'
  BY <1>5 DEF CountRows, Read, Fail, uiVars
<1>6. ASSUME NEW r, Settle(r) PROVE Booleans' BY <1>6 DEF Settle
<1>7. ASSUME NEW r, LoadedMore(r) PROVE Booleans' BY <1>7 DEF LoadedMore
<1>8. ASSUME NEW r, SignedOut(r) PROVE Booleans' BY <1>8 DEF SignedOut
<1>9. CASE Write \/ Draw \/ Commit \/ UNCHANGED vars
  BY <1>9 DEF Write, Draw, Commit, vars, uiVars
<1>10. Choose \/ Clear \/ Turn => \E f : Change(f) BY DEF Choose, Clear, Turn
<1> QED BY <1>1, <1>2, <1>3, <1>4, <1>5, <1>6, <1>7, <1>8, <1>9, <1>10 DEF Next, Served

\* A page waits for at most one load, that of its last effect, and one loadMore of
\* this instance of it, and says so exactly while there is one.
THEOREM WaitingAlways == Spec => [](Waiting /\ Booleans)
<1>1. Init => Waiting /\ Booleans
  <2> SUFFICES ASSUME Init PROVE Waiting /\ Booleans OBVIOUS
  <2>1. Booleans BY DEF Init, Booleans
  <2>2. /\ requests = {} /\ page = "login" /\ effect = 0 /\ 0 \in 0 .. MaxAsks
        /\ loading = FALSE /\ loadingMore = FALSE
    BY ConsoleAssumption DEF Init
  <2>3. "login" \notin Pages BY DEF Pages
  <2> QED BY <2>1, <2>2, <2>3 DEF Waiting
<1>2. IInv /\ Waiting /\ [Next]_vars => Waiting' BY WaitingStep
<1>3. Booleans /\ [Next]_vars => Booleans' BY BooleansStep
<1> QED BY <1>1, <1>2, <1>3, Inductive, PTL DEF Spec

\* Types, and that a page says it is loading, or loading more, exactly while the
\* fetch it waits for is under way, whatever answers come late.
THEOREM TypeCorrect == Spec => []TypeOK
<1>1. IInv /\ Stored /\ Waiting /\ Booleans => TypeOK
  BY DEF IInv, Fetches, Stored, Waiting, Booleans, Loads, Extends, Lists, TypeOK
<1> QED BY <1>1, Inductive, StoredAlways, WaitingAlways, PTL
-----------------------------------------------------------------------------
(* The audit trail.                                                        *)

Descending(list) ==
  /\ list \in Seq(Nat)
  /\ \A i, j \in DOMAIN list : i < j => list[i] > list[j]
Listed(list) == {list[i] : i \in DOMAIN list}

\* The limit newest of a finite set of ids: in order, and either all of them or
\* limit of them, below which the rest lie.
LEMMA NewestLists ==
  ASSUME NEW S, S \subseteq Nat, IsFiniteSet(S), NEW limit \in Nat \ {0}
  PROVE  LET list == Newest(S, limit)
         IN /\ Descending(list) /\ Listed(list) \subseteq S
            /\ \A e \in S \ Listed(list) :
                 ~(Len(list) < limit) /\ list # <<>> /\ e < list[Len(list)]
<1> DEFINE order == {p \in S \X S : p[1] > p[2]}
           n == IF Cardinality(S) < limit THEN Cardinality(S) ELSE limit
           At(i) == CHOOSE e \in S : Cardinality({d \in S : d > e}) = i - 1
           list == [i \in 1 .. n |-> At(i)]
<1>1. StrictOrder(S, order)
  <2>1. \A x, y \in S : <<x, y>> \in order <=> x > y OBVIOUS
  <2> HIDE DEF order
  <2> QED BY <2>1 DEF StrictOrder
<1>2. \A e \in S : Cardinality({d \in S : d > e}) = Rank(S, order, e)
  <2>1. \A e \in S : {d \in S : d > e} = {d \in S : <<d, e>> \in order} OBVIOUS
  <2> QED BY <2>1 DEF Rank
<1>3. Newest(S, limit) = list BY DEF Newest
<1>4. \A x, y \in S : <<x, y>> \in order <=> x > y OBVIOUS
<1> HIDE DEF order, n
<1>5. /\ Cardinality(S) \in Nat
      /\ \A x \in S : Rank(S, order, x) \in 0 .. Cardinality(S) - 1
      /\ \A x, y \in S : x > y => Rank(S, order, x) < Rank(S, order, y)
      /\ \A x, y \in S : Rank(S, order, x) = Rank(S, order, y) => x = y
      /\ \A k \in 0 .. Cardinality(S) - 1 : \E x \in S : Rank(S, order, x) = k
  <2>1. \A x, y \in S : <<x, y>> \in order => Rank(S, order, x) < Rank(S, order, y)
    BY <1>1, Ranks
  <2>2. \A x, y \in S : x > y => Rank(S, order, x) < Rank(S, order, y) BY <1>4, <2>1
  <2>3. /\ Cardinality(S) \in Nat
        /\ \A x \in S : Rank(S, order, x) \in 0 .. Cardinality(S) - 1
        /\ \A x, y \in S : Rank(S, order, x) = Rank(S, order, y) => x = y
    BY <1>1, Ranks
  <2>4. \A k \in 0 .. Cardinality(S) - 1 : \E x \in S : Rank(S, order, x) = k BY <1>1, Ranks
  <2> QED BY <2>2, <2>3, <2>4
<1>6. n \in Nat /\ n <= Cardinality(S) /\ n <= limit BY <1>5 DEF n
<1>7. ASSUME NEW i \in 1 .. n PROVE At(i) \in S /\ At(i) \in Nat /\ Rank(S, order, At(i)) = i - 1
  <2>1. i - 1 \in 0 .. Cardinality(S) - 1 BY <1>5, <1>6
  <2>2. \E e \in S : Rank(S, order, e) = i - 1 BY <1>5, <2>1
  <2>3. \E e \in S : Cardinality({d \in S : d > e}) = i - 1 BY <1>2, <2>2
  <2>4. At(i) \in S /\ Cardinality({d \in S : d > At(i)}) = i - 1 BY <2>3
  <2> HIDE DEF At
  <2> QED BY <1>2, <2>4
<1>8. list \in Seq(S) /\ list \in Seq(Nat) /\ Len(list) = n /\ DOMAIN list = 1 .. n
      /\ \A i \in 1 .. n : list[i] = At(i)
  <2> HIDE DEF At
  <2> QED BY <1>6, <1>7
<1> HIDE DEF At, list
<1>9. Descending(list)
  <2>1. ASSUME NEW i \in 1 .. n, NEW j \in 1 .. n, i < j PROVE At(i) > At(j)
    <3>1. /\ At(i) \in S /\ At(j) \in S /\ At(i) \in Nat /\ At(j) \in Nat
          /\ Rank(S, order, At(i)) = i - 1 /\ Rank(S, order, At(j)) = j - 1
      BY <1>7
    <3>2. ~(j - 1 < i - 1) /\ i - 1 # j - 1 BY <1>6, <2>1
    <3>3. ~(At(j) > At(i)) /\ At(i) # At(j) BY <1>5, <3>1, <3>2
    <3> QED BY <3>1, <3>3
  <2> QED BY <1>8, <2>1 DEF Descending
<1>10. Listed(list) \subseteq S BY <1>7, <1>8 DEF Listed
<1>11. ASSUME NEW e \in S \ Listed(list)
       PROVE  ~(Len(list) < limit) /\ list # <<>> /\ e < list[Len(list)]
  <2>1. Rank(S, order, e) \in 0 .. Cardinality(S) - 1 /\ e \in Nat BY <1>5
  <2>2. ~(Rank(S, order, e) < n)
    <3> SUFFICES ASSUME Rank(S, order, e) < n PROVE FALSE OBVIOUS
    <3> DEFINE i == Rank(S, order, e) + 1
    <3>1. i \in 1 .. n /\ i - 1 = Rank(S, order, e) BY <1>5, <1>6, <2>1
    <3> HIDE DEF i
    <3>2. At(i) = e BY <1>5, <1>7, <3>1
    <3> QED BY <1>8, <1>11, <3>1, <3>2 DEF Listed
  <2>3. n = limit /\ n \in 1 .. n BY <1>5, <1>6, <2>1, <2>2 DEF n
  <2>4. At(n) \in S /\ At(n) \in Nat /\ Rank(S, order, At(n)) = n - 1 BY <1>7, <2>3
  <2>5. Rank(S, order, e) # n - 1 /\ ~(Rank(S, order, e) < n - 1) BY <1>5, <1>6, <2>1, <2>2
  <2>6. e # At(n) /\ ~(e > At(n)) BY <1>5, <2>4, <2>5
  <2>7. e < At(n) BY <2>1, <2>4, <2>6
  <2> QED BY <1>8, <2>3, <2>7
<1> QED BY <1>3, <1>9, <1>10, <1>11

\* The list has nothing but events that match, all below `from`, and of those of
\* base all, or, if there may be more, all down to its last.
Covers(list, query, base, from, more) ==
  /\ Descending(list) /\ Listed(list) \subseteq AuditMatches(query)
  /\ \A e \in Listed(list) : from # None => e < from
  /\ base \subseteq committed
  /\ \A e \in base \cap AuditMatches(query) :
       (from # None => e < from) =>
         e \in Listed(list) \/ (more /\ list # <<>> /\ e < list[Len(list)])

LEMMA ReadCovers ==
  ASSUME Stored, NEW query, NEW from
  PROVE  LET list == ListAudit(query, from, AuditSize)
         IN Covers(list, query, committed, from, ~(Len(list) < AuditSize))
<1> DEFINE S == {e \in AuditMatches(query) : from # None => e < from}
           list == ListAudit(query, from, AuditSize)
<1>1. S \subseteq committed /\ AuditMatches(query) \subseteq committed BY DEF AuditMatches
<1>2. committed \subseteq Nat /\ IsFiniteSet(committed)
  <2>1. Len(events) \in Nat /\ DOMAIN events = 1 .. Len(events) BY DEF Stored
  <2>2. IsFiniteSet(1 .. Len(events)) BY <2>1, FS_Interval
  <2>3. committed \in SUBSET (1 .. Len(events)) BY <2>1 DEF Stored
  <2>4. IsFiniteSet(committed) BY <2>2, <2>3, FS_Subset
  <2>5. committed \subseteq Nat BY <2>1, <2>3
  <2> QED BY <2>4, <2>5
<1>3. IsFiniteSet(S) /\ S \subseteq Nat BY <1>1, <1>2, FS_Subset
<1>4. list = Newest(S, AuditSize) BY DEF ListAudit
<1>5. AuditSize \in Nat \ {0} BY ConsoleAssumption
<1> HIDE DEF list
<1>6. \A e \in AuditMatches(query) : e \in S <=> (from # None => e < from) OBVIOUS
<1>7. S \subseteq AuditMatches(query) OBVIOUS
<1> HIDE DEF S
<1>8. /\ Descending(list) /\ Listed(list) \subseteq S
      /\ \A e \in S \ Listed(list) :
           ~(Len(list) < AuditSize) /\ list # <<>> /\ e < list[Len(list)]
  BY <1>3, <1>4, <1>5, NewestLists
<1>9. Covers(list, query, committed, from, ~(Len(list) < AuditSize))
  BY <1>6, <1>7, <1>8 DEF Covers
<1> QED BY <1>9 DEF list

\* What is added to the trail later makes no list wrong.
LEMMA CoversStays ==
  ASSUME NEW list, NEW query, NEW base, NEW from, NEW more,
         Covers(list, query, base, from, more),
         committed \subseteq committed', \A e \in committed : events'[e] = events[e]
  PROVE  Covers(list, query, base, from, more)'
<1>1. \A e \in committed : e \in AuditMatches(query)' <=> e \in AuditMatches(query)
  BY DEF AuditMatches
<1>2. AuditMatches(query) \subseteq committed BY DEF AuditMatches
<1> QED BY <1>1, <1>2 DEF Covers

\* A list and what follows it.
LEMMA ListedBoth ==
  ASSUME NEW list \in Seq(Nat), NEW next \in Seq(Nat)
  PROVE  /\ list \o next \in Seq(Nat)
         /\ Listed(list \o next) \subseteq Listed(list) \cup Listed(next)
<1> DEFINE both == list \o next
           m == Len(list)
           n == Len(next)
<1>1. /\ m \in Nat /\ n \in Nat /\ DOMAIN list = 1 .. m /\ DOMAIN next = 1 .. n
      /\ both \in Seq(Nat) /\ DOMAIN both = 1 .. m + n
      /\ \A i \in 1 .. m + n : both[i] = IF i <= m THEN list[i] ELSE next[i - m]
  OBVIOUS
<1> HIDE DEF both, m, n
<1>2. ASSUME NEW i \in 1 .. m + n PROVE both[i] \in Listed(list) \cup Listed(next)
  <2>1. CASE i <= m
    <3>1. i \in 1 .. m BY <1>1, <2>1
    <3> QED BY <1>1, <2>1, <3>1 DEF Listed
  <2>2. CASE i > m
    <3>1. i - m \in 1 .. n BY <1>1, <2>2
    <3>2. both[i] = next[i - m] BY <1>1, <2>2
    <3> QED BY <1>1, <3>1, <3>2 DEF Listed
  <2> QED BY <1>1, <2>1, <2>2
<1>3. Listed(both) \subseteq Listed(list) \cup Listed(next) BY <1>1, <1>2 DEF Listed
<1> QED BY <1>1, <1>3 DEF both

LEMMA CoversBoth ==
  ASSUME NEW list, NEW next, NEW query, NEW base, NEW later, NEW more, list # <<>>,
         Covers(list, query, base, None, TRUE), base \subseteq later,
         Covers(next, query, later, list[Len(list)], more)
  PROVE  Covers(list \o next, query, base, None, more)
<1> DEFINE both == list \o next
           m == Len(list)
           n == Len(next)
<1>1. /\ list \in Seq(Nat) /\ next \in Seq(Nat) /\ m \in Nat /\ n \in Nat /\ m # 0
      /\ DOMAIN list = 1 .. m /\ DOMAIN next = 1 .. n
  BY DEF Covers, Descending
<1>2. /\ both \in Seq(Nat) /\ Len(both) = m + n /\ DOMAIN both = 1 .. m + n
      /\ \A i \in 1 .. m : i \in 1 .. m + n /\ both[i] = list[i]
      /\ \A i \in 1 .. n : i + m \in 1 .. m + n /\ both[i + m] = next[i]
      /\ \A i \in 1 .. m + n : i > m => i - m \in 1 .. n /\ both[i] = next[i - m]
  BY <1>1
<1>3. list[m] \in Nat /\ list[m] # None BY <1>1, ReadsAssumption
<1>4. \A e \in Listed(next) : e < list[m] BY <1>3 DEF Covers
<1>5. \A i \in 1 .. m : list[m] <= list[i] /\ list[i] \in Nat
  <2>1. \A i \in 1 .. m : i < m => list[i] > list[m] BY <1>1 DEF Covers, Descending
  <2> QED BY <1>1, <2>1
<1> HIDE DEF both, m, n
<1>6. ASSUME NEW i \in 1 .. m + n, NEW j \in 1 .. m + n, i < j PROVE both[i] > both[j]
  <2>1. CASE j <= m
    <3>1. i \in 1 .. m /\ j \in 1 .. m BY <1>1, <1>6, <2>1
    <3>2. list[i] > list[j] BY <1>1, <1>6, <3>1 DEF Covers, Descending
    <3> QED BY <1>2, <3>1, <3>2
  <2>2. CASE i <= m /\ j > m
    <3>1. i \in 1 .. m /\ j - m \in 1 .. n BY <1>1, <2>2
    <3>2. next[j - m] \in Listed(next) /\ next[j - m] \in Nat BY <1>1, <3>1 DEF Listed
    <3>3. both[i] = list[i] /\ both[j] = next[j - m] BY <1>1, <1>2, <2>2
    <3> QED BY <1>3, <1>4, <1>5, <3>1, <3>2, <3>3
  <2>3. CASE i > m
    <3>1. i - m \in 1 .. n /\ j - m \in 1 .. n /\ i - m < j - m BY <1>1, <1>6, <2>3
    <3>2. both[i] = next[i - m] /\ both[j] = next[j - m] BY <1>1, <1>2, <1>6, <2>3
    <3> QED BY <1>1, <3>1, <3>2 DEF Covers, Descending
  <2> QED BY <1>1, <2>1, <2>2, <2>3
<1>7. Descending(both) BY <1>2, <1>6 DEF Descending
<1>8. Listed(both) = Listed(list) \cup Listed(next)
  <2>1. Listed(both) \subseteq Listed(list) \cup Listed(next) BY <1>1, ListedBoth DEF both
  <2>2. Listed(list) \subseteq Listed(both)
    <3>1. ASSUME NEW i \in 1 .. m PROVE i \in 1 .. m + n /\ both[i] = list[i] BY <1>1, <1>2
    <3> QED BY <1>1, <1>2, <3>1 DEF Listed
  <2>3. Listed(next) \subseteq Listed(both)
    <3>1. ASSUME NEW i \in 1 .. n PROVE next[i] \in Listed(both)
      <4>1. i + m \in DOMAIN both /\ both[i + m] = next[i] BY <1>2
      <4> QED BY <4>1 DEF Listed
    <3> QED BY <1>1, <3>1 DEF Listed
  <2> QED BY <2>1, <2>2, <2>3
<1>9. next # <<>> => both # <<>> /\ both[Len(both)] = next[Len(next)]
  <2> SUFFICES ASSUME next # <<>> PROVE both # <<>> /\ both[Len(both)] = next[Len(next)] OBVIOUS
  <2>1. n # 0 BY <1>1 DEF n
  <2>2. n \in 1 .. n /\ n + m = m + n /\ m + n # 0 BY <1>1, <2>1
  <2>3. both[n + m] = next[n] BY <1>2, <2>2
  <2>4. both # <<>> BY <1>2, <2>2
  <2> QED BY <1>2, <2>2, <2>3, <2>4 DEF n
<1>10. ASSUME NEW e \in base \cap AuditMatches(query), e \notin Listed(both)
       PROVE  more /\ both # <<>> /\ e < both[Len(both)]
  <2>1. e < list[m] BY <1>8, <1>10 DEF Covers, m
  <2>2. more /\ next # <<>> /\ e < next[Len(next)] BY <1>8, <1>10, <2>1 DEF Covers, m
  <2> QED BY <1>9, <2>2
<1> QED BY <1>7, <1>8, <1>10 DEF Covers, both

\* What the audit viewer shows, and what is on its way to it.
AuditList == page = "audit" /\ late = {}

Answered(r) == r.page = "audit" /\ r.step = "answered"

\* r will go on where the list that is shown ends.
GoesOn(r) ==
  /\ page = "audit" /\ r.page = "audit" /\ ~loading /\ ~exhausted
  /\ late = {} =>
       /\ shown.list # <<>> /\ r.beforeId = shown.list[Len(shown.list)]
       /\ r.query = shown.query
       /\ Answered(r) => shown.base \subseteq r.answer.base

AuditInv ==
  /\ AuditList => Covers(shown.list, shown.query, shown.base, None, ~exhausted)
  /\ \A r \in requests :
       /\ r.kind = "load" => r.beforeId = None
       /\ Answered(r) => Covers(r.answer.list, r.query, r.answer.base, r.beforeId,
                                ~(Len(r.answer.list) < AuditSize))
       /\ r.kind = "more" /\ r.effect = effect => GoesOn(r)

\* What has committed stays as it is.
LEMMA TrailGrows ==
  ASSUME Stored, UNCHANGED <<events, committed>> \/ Draw \/ Commit
  PROVE  committed \subseteq committed' /\ \A e \in committed : events'[e] = events[e]
<1>1. CASE UNCHANGED <<events, committed>> BY <1>1
<1>2. CASE Draw
  <2>1. PICK entry \in Entries : events' = Append(events, entry) BY <1>2 DEF Draw
  <2>2. \A e \in 1 .. Len(events) : events'[e] = events[e] BY <2>1 DEF Stored
  <2> QED BY <1>2, <2>2 DEF Draw, Stored
<1>3. CASE Commit BY <1>3 DEF Commit
<1> QED BY <1>1, <1>2, <1>3

\* The database moves on, and the browser does nothing.
LEMMA WriteAudit ==
  ASSUME Stored, AuditInv, UNCHANGED <<uiVars, requests>>,
         \/ UNCHANGED <<events, committed>>
         \/ Draw \/ Commit
  PROVE  AuditInv'
<1>1. committed \subseteq committed' /\ \A e \in committed : events'[e] = events[e]
  BY TrailGrows
<1>2. ASSUME NEW list, NEW query, NEW base, NEW from, NEW more,
             Covers(list, query, base, from, more)
      PROVE  Covers(list, query, base, from, more)'
  BY <1>1, <1>2, CoversStays
<1> USE DEF uiVars
<1>3. AuditList' => Covers(shown.list, shown.query, shown.base, None, ~exhausted)'
  <2> SUFFICES ASSUME AuditList'
               PROVE  Covers(shown.list, shown.query, shown.base, None, ~exhausted)' OBVIOUS
  <2>1. Covers(shown.list, shown.query, shown.base, None, ~exhausted) BY DEF AuditInv, AuditList
  <2>2. ASSUME NEW list, NEW query, NEW base, NEW more,
               list = shown.list, query = shown.query, base = shown.base, more = ~exhausted
        PROVE  Covers(list, query, base, None, more)'
    BY <1>2, <2>1, <2>2
  <2> QED BY <2>2
<1>4. ASSUME NEW r \in requests
      PROVE  /\ r.kind = "load" => r.beforeId = None
             /\ Answered(r) => Covers(r.answer.list, r.query, r.answer.base, r.beforeId,
                                      ~(Len(r.answer.list) < AuditSize))'
             /\ r.kind = "more" /\ r.effect = effect => GoesOn(r)'
  <2>1. Answered(r) => Covers(r.answer.list, r.query, r.answer.base, r.beforeId,
                              ~(Len(r.answer.list) < AuditSize))'
    BY <1>2 DEF AuditInv
  <2>2. GoesOn(r) => GoesOn(r)' BY DEF GoesOn, Answered
  <2> QED BY <2>1, <2>2 DEF AuditInv
<1> QED BY <1>3, <1>4 DEF AuditInv, Answered

\* A new question: the list is empty, and what is under way is of no matter.
LEMMA AskAudit ==
  ASSUME IInv, AuditInv, UNCHANGED db, effect' = effect + 1,
         page' = "audit" => shown'.list = <<>> /\ shown'.base = {}, exhausted' = FALSE,
         NEW new, new.kind = "load", new.beforeId = None, new.step = "sent",
         requests' \subseteq requests \cup {new}
  PROVE  AuditInv'
<1>1. AuditList' => Covers(shown.list, shown.query, shown.base, None, ~exhausted)'
  <2> SUFFICES ASSUME AuditList'
               PROVE  Covers(shown.list, shown.query, shown.base, None, ~exhausted)' OBVIOUS
  <2>1. shown'.list = <<>> /\ shown'.base = {} BY DEF AuditList
  <2>2. <<>> \in Seq(Nat) /\ DOMAIN <<>> = {} OBVIOUS
  <2>3. Descending(<<>>) /\ Listed(<<>>) = {} BY <2>2 DEF Descending, Listed
  <2> QED BY <2>1, <2>3 DEF Covers
<1>2. ASSUME NEW r \in requests'
      PROVE  /\ r.kind = "load" => r.beforeId = None
             /\ Answered(r) => Covers(r.answer.list, r.query, r.answer.base, r.beforeId,
                                      ~(Len(r.answer.list) < AuditSize))'
             /\ ~(r.kind = "more" /\ r.effect = effect')
  <2>1. CASE r = new BY <2>1 DEF Answered
  <2>2. CASE r \in requests
    <3>1. r.effect # effect' BY <2>2 DEF IInv, Fetches
    <3>2. Answered(r) => Covers(r.answer.list, r.query, r.answer.base, r.beforeId,
                                ~(Len(r.answer.list) < AuditSize))'
      BY <2>2 DEF AuditInv, Covers, AuditMatches, db
    <3> QED BY <2>2, <3>1, <3>2 DEF AuditInv
  <2> QED BY <2>1, <2>2
<1> QED BY <1>1, <1>2 DEF AuditInv, Answered

LEMMA ChangeAudit ==
  ASSUME IInv, AuditInv, NEW f, Change(f)
  PROVE  AuditInv'
<1> DEFINE kept == Kept(page, f)
           new == Request(page, "load", ToQuery(page, Current(page, kept)), None, effect + 1, mount)
<1>1. /\ UNCHANGED db /\ effect' = effect + 1 /\ page' = page
      /\ page' = "audit" => shown'.list = <<>> /\ shown'.base = {}
      /\ exhausted' = FALSE /\ requests' = requests \cup {new}
  BY DEF Change, Ask
<1>2. new.kind = "load" /\ new.beforeId = None /\ new.step = "sent" BY DEF Request
<1> HIDE DEF new
<1> QED BY <1>1, <1>2, AskAudit

LEMMA RetryAudit ==
  ASSUME IInv, AuditInv, Retry
  PROVE  AuditInv'
<1> DEFINE new == Request(page, "load", ToQuery(page, Current(page, filters)), None, effect + 1, mount)
<1>1. /\ UNCHANGED db /\ effect' = effect + 1 /\ page' = page
      /\ page' = "audit" => shown'.list = <<>> /\ shown'.base = {}
      /\ exhausted' = FALSE /\ requests' = requests \cup {new}
  BY DEF Retry, Ask
<1>2. new.kind = "load" /\ new.beforeId = None /\ new.step = "sent" BY DEF Request
<1> HIDE DEF new
<1> QED BY <1>1, <1>2, AskAudit

LEMMA OpenAudit ==
  ASSUME IInv, AuditInv, NEW p \in Pages, Open(p)
  PROVE  AuditInv'
<1>1. PICK url : /\ Ask(p, url, Current(p, url), None, effect + 1, effect + 1)
                 /\ requests' = {r \in requests : Realm(r.page) = Realm(p) /\ page # "login"} \cup
                      {Request(p, "load", ToQuery(p, Current(p, url)), None, effect + 1, effect + 1)}
  BY DEF Open
<1> DEFINE new == Request(p, "load", ToQuery(p, Current(p, url)), None, effect + 1, effect + 1)
<1>2. /\ UNCHANGED db /\ effect' = effect + 1 /\ exhausted' = FALSE
      /\ page' = "audit" => shown'.list = <<>> /\ shown'.base = {}
      /\ requests' \subseteq requests \cup {new}
  BY <1>1 DEF Open, Ask
<1>3. new.kind = "load" /\ new.beforeId = None /\ new.step = "sent" BY DEF Request
<1> HIDE DEF new
<1> QED BY <1>2, <1>3, AskAudit

LEMMA LoadMoreAudit ==
  ASSUME IInv, AuditInv, LoadMore
  PROVE  AuditInv'
<1>0. PICK query : query = ToQuery("audit", Current("audit", filters)) OBVIOUS
<1>1. PICK new :
      /\ new = Request("audit", "more", query, shown.list[Len(shown.list)], effect, mount)
      /\ page = "audit" /\ ~loading /\ ~error /\ ~exhausted /\ shown.list # <<>>
      /\ requests' = requests \cup {new}
      /\ UNCHANGED <<db, page, mount, effect, shown, loading, exhausted, late>>
  BY <1>0 DEF LoadMore
<1>2. shown.query = query
  BY <1>0, <1>1 DEF IInv, Choice, Labelled, Pages
<1>3. /\ new.kind = "more" /\ new.effect = effect /\ new.page = "audit" /\ new.step = "sent"
      /\ new.beforeId = shown.list[Len(shown.list)] /\ new.query = query
  BY <1>1 DEF Request
<1>4. GoesOn(new)' BY <1>1, <1>2, <1>3 DEF GoesOn, Answered
<1>5. ASSUME NEW r \in requests
      PROVE  /\ r.kind = "load" => r.beforeId = None
             /\ Answered(r) => Covers(r.answer.list, r.query, r.answer.base, r.beforeId,
                                      ~(Len(r.answer.list) < AuditSize))'
             /\ r.kind = "more" /\ r.effect = effect' => GoesOn(r)'
  <2>1. Answered(r) => Covers(r.answer.list, r.query, r.answer.base, r.beforeId,
                              ~(Len(r.answer.list) < AuditSize))'
    BY <1>1 DEF AuditInv, Covers, AuditMatches, db
  <2>2. GoesOn(r) => GoesOn(r)' BY <1>1 DEF GoesOn, Answered
  <2> QED BY <1>1, <2>1, <2>2 DEF AuditInv
<1>6. AuditList' => Covers(shown.list, shown.query, shown.base, None, ~exhausted)'
  BY <1>1 DEF AuditInv, AuditList, Covers, AuditMatches, db
<1> QED BY <1>1, <1>3, <1>4, <1>5, <1>6 DEF AuditInv, Answered

\* The server answers, or gets nearer to it.
LEMMA AdvanceAudit ==
  ASSUME IInv, AuditInv, UNCHANGED <<db, uiVars>>, NEW r \in requests, NEW next, Advance(r, next),
         next.page = r.page, next.kind = r.kind, next.query = r.query, next.effect = r.effect,
         next.beforeId = r.beforeId,
         Answered(next) =>
           /\ next.answer.base = committed
           /\ Covers(next.answer.list, r.query, committed, r.beforeId,
                     ~(Len(next.answer.list) < AuditSize))
  PROVE  AuditInv'
<1>1. \A s \in requests' : s \in requests \/ s = next BY DEF Advance
<1>2. AuditList => shown.base \subseteq committed BY DEF AuditInv, Covers
<1>3. AuditList' => Covers(shown.list, shown.query, shown.base, None, ~exhausted)'
  BY DEF AuditInv, AuditList, Covers, AuditMatches, db, uiVars
<1>4. ASSUME NEW s \in requests
      PROVE  /\ s.kind = "load" => s.beforeId = None
             /\ Answered(s) => Covers(s.answer.list, s.query, s.answer.base, s.beforeId,
                                      ~(Len(s.answer.list) < AuditSize))'
             /\ s.kind = "more" /\ s.effect = effect' => GoesOn(s)'
  <2>1. Answered(s) => Covers(s.answer.list, s.query, s.answer.base, s.beforeId,
                              ~(Len(s.answer.list) < AuditSize))'
    BY DEF AuditInv, Covers, AuditMatches, db
  <2>2. GoesOn(s) => GoesOn(s)' BY DEF GoesOn, Answered, uiVars
  <2> QED BY <2>1, <2>2 DEF AuditInv, uiVars
<1>5. next.kind = "load" => next.beforeId = None BY DEF AuditInv
<1>6. Answered(next) => Covers(next.answer.list, next.query, next.answer.base, next.beforeId,
                               ~(Len(next.answer.list) < AuditSize))'
  BY DEF Covers, AuditMatches, db
<1>7. next.kind = "more" /\ next.effect = effect' => GoesOn(next)'
  <2> SUFFICES ASSUME next.kind = "more", next.effect = effect' PROVE GoesOn(next)' OBVIOUS
  <2>1. GoesOn(r) BY DEF AuditInv, uiVars
  <2> QED BY <1>2, <2>1 DEF GoesOn, AuditList, uiVars
<1> QED BY <1>1, <1>3, <1>4, <1>5, <1>6, <1>7 DEF AuditInv, Answered

LEMMA ServerAudit ==
  ASSUME IInv, Stored, AuditInv, NEW r \in requests, CountRows(r) \/ Read(r) \/ Fail(r)
  PROVE  AuditInv'
<1>0. IsRequest(r) BY DEF IInv, Fetches
<1>1. DOMAIN r = Fields BY <1>0, RequestFields
<1>2. CASE CountRows(r)
  <2>1. PICK n : Advance(r, [r EXCEPT !.step = "counted", !.total = n]) BY <1>2 DEF CountRows
  <2> DEFINE next == [r EXCEPT !.step = "counted", !.total = n]
  <2>2. /\ next.page = r.page /\ next.kind = r.kind /\ next.query = r.query
        /\ next.effect = r.effect /\ next.beforeId = r.beforeId /\ next.step = "counted"
    BY <1>1 DEF Fields
  <2>3. Advance(r, next) /\ UNCHANGED <<db, uiVars>> BY <1>2, <2>1 DEF CountRows
  <2> HIDE DEF next
  <2> QED BY <2>2, <2>3, AdvanceAudit DEF Answered
<1>3. CASE Fail(r)
  <2> DEFINE next == [r EXCEPT !.step = "failed"]
  <2>1. /\ next.page = r.page /\ next.kind = r.kind /\ next.query = r.query
        /\ next.effect = r.effect /\ next.beforeId = r.beforeId /\ next.step = "failed"
    BY <1>1 DEF Fields
  <2>2. Advance(r, next) /\ UNCHANGED <<db, uiVars>> BY <1>3 DEF Fail
  <2> HIDE DEF next
  <2> QED BY <2>1, <2>2, AdvanceAudit DEF Answered
<1>4. CASE Read(r)
  <2>1. PICK a : /\ Advance(r, [r EXCEPT !.step = "answered", !.answer = a])
                 /\ r.page = "audit" => /\ a.list = ListAudit(r.query, r.beforeId, AuditSize)
                                        /\ a.base = committed
    <3>1. CASE r.step = "counted"
      <4>1. r.page # "audit" BY <3>1 DEF IInv, Fetches
      <4>2. PICK a : Advance(r, [r EXCEPT !.step = "answered", !.answer = a])
        BY <1>4, <3>1 DEF Read
      <4> QED BY <4>1, <4>2
    <3>2. CASE r.step # "counted"
      <4> DEFINE a == [query |-> r.query, list |-> ListAudit(r.query, r.beforeId, AuditSize),
                       base |-> committed]
      <4>1. Advance(r, [r EXCEPT !.step = "answered", !.answer = a]) BY <1>4, <3>2 DEF Read
      <4>2. a.list = ListAudit(r.query, r.beforeId, AuditSize) /\ a.base = committed OBVIOUS
      <4> HIDE DEF a
      <4> QED BY <4>1, <4>2
    <3> QED BY <3>1, <3>2
  <2> DEFINE next == [r EXCEPT !.step = "answered", !.answer = a]
  <2>2. /\ next.page = r.page /\ next.kind = r.kind /\ next.query = r.query
        /\ next.effect = r.effect /\ next.beforeId = r.beforeId /\ next.answer = a
    BY <1>1 DEF Fields
  <2>3. Advance(r, next) /\ UNCHANGED <<db, uiVars>> BY <1>4, <2>1 DEF Read
  <2>4. Covers(ListAudit(r.query, r.beforeId, AuditSize), r.query, committed, r.beforeId,
               ~(Len(ListAudit(r.query, r.beforeId, AuditSize)) < AuditSize))
    BY ReadCovers
  <2> HIDE DEF next
  <2>5. Answered(next) => /\ next.answer.base = committed
                          /\ Covers(next.answer.list, r.query, committed, r.beforeId,
                                    ~(Len(next.answer.list) < AuditSize))
    BY <2>1, <2>2, <2>4 DEF Answered
  <2> QED BY <2>2, <2>3, <2>5, AdvanceAudit
<1> QED BY <1>2, <1>3, <1>4

\* The answers that are still under way when one has arrived.
OthersCover ==
  \A r \in requests' :
    /\ r.kind = "load" => r.beforeId = None
    /\ Answered(r) => Covers(r.answer.list, r.query, r.answer.base, r.beforeId,
                             ~(Len(r.answer.list) < AuditSize))'

LEMMA Others ==
  ASSUME AuditInv, UNCHANGED db, requests' \subseteq requests
  PROVE  OthersCover
BY DEF OthersCover, AuditInv, Covers, AuditMatches, db

LEMMA SettleAudit ==
  ASSUME IInv, Waiting, AuditInv, NEW r \in requests, Settle(r)
  PROVE  AuditInv'
<1>1. /\ r.kind = "load" /\ Done(r) /\ requests' = requests \ {r}
      /\ UNCHANGED <<db, page, effect>>
  BY DEF Settle
<1>2. OthersCover BY <1>1, Others
<1>3. CASE r.effect # effect
  <2>1. UNCHANGED <<shown, exhausted, late, loading>> BY <1>3 DEF Settle
  <2>2. AuditList' => Covers(shown.list, shown.query, shown.base, None, ~exhausted)'
    BY <1>1, <2>1 DEF AuditInv, AuditList, Covers, AuditMatches, db
  <2>3. \A s \in requests : GoesOn(s) => GoesOn(s)' BY <1>1, <2>1 DEF GoesOn, Answered
  <2>4. \A s \in requests' : s.kind = "more" /\ s.effect = effect' => GoesOn(s)'
    BY <1>1, <2>3 DEF AuditInv
  <2> QED BY <1>2, <2>2, <2>4 DEF AuditInv, OthersCover, Answered
<1>4. CASE r.effect = effect
  <2>1. loading BY <1>1, <1>4 DEF Waiting, Loads
  <2>2. \A s \in requests' : ~(s.kind = "more" /\ s.effect = effect')
    BY <1>1, <2>1 DEF AuditInv, GoesOn
  <2>3. AuditList' => Covers(shown.list, shown.query, shown.base, None, ~exhausted)'
    <3>1. CASE r.step = "answered"
      <4> SUFFICES ASSUME AuditList'
                   PROVE  Covers(shown.list, shown.query, shown.base, None, ~exhausted)'
        OBVIOUS
      <4>1. page = "audit" BY <1>1 DEF AuditList
      <4>2. r.page = "audit" BY <1>4, <4>1 DEF IInv, AsksTheChoice
      <4>3. /\ shown' = r.answer /\ r.answer.query = r.query
            /\ exhausted' = (page = "audit" /\ Len(r.answer.list) < AuditSize)
        BY <1>4, <3>1 DEF Settle, IInv, Fetches
      <4>4. Covers(r.answer.list, r.query, r.answer.base, None, ~(Len(r.answer.list) < AuditSize))
        BY <1>1, <3>1, <4>2 DEF AuditInv, Answered
      <4>5. ~exhausted' <=> ~(Len(r.answer.list) < AuditSize) BY <4>1, <4>3
      <4>6. AuditMatches(r.query)' = AuditMatches(r.query) /\ committed' = committed
        BY <1>1 DEF AuditMatches, db
      <4> QED BY <4>3, <4>4, <4>5, <4>6 DEF Covers
    <3>2. CASE r.step # "answered"
      <4>1. UNCHANGED <<shown, exhausted, late>> BY <1>4, <3>2 DEF Settle
      <4> QED BY <1>1, <4>1 DEF AuditInv, AuditList, Covers, AuditMatches, db
    <3> QED BY <3>1, <3>2
  <2> QED BY <1>2, <2>2, <2>3 DEF AuditInv, OthersCover, Answered
<1> QED BY <1>3, <1>4

LEMMA LoadedMoreAudit ==
  ASSUME IInv, Waiting, AuditInv, NEW r \in requests, LoadedMore(r)
  PROVE  AuditInv'
<1>1. /\ r.kind = "more" /\ Done(r) /\ requests' = requests \ {r}
      /\ UNCHANGED <<db, page, effect, loading>>
  BY DEF LoadedMore
<1>2. OthersCover BY <1>1, Others
<1>3. CASE r.mount # mount
  <2>1. UNCHANGED <<shown, exhausted, late>> BY <1>3 DEF LoadedMore
  <2>2. AuditList' => Covers(shown.list, shown.query, shown.base, None, ~exhausted)'
    BY <1>1, <2>1 DEF AuditInv, AuditList, Covers, AuditMatches, db
  <2>3. \A s \in requests : GoesOn(s) => GoesOn(s)' BY <1>1, <2>1 DEF GoesOn, Answered
  <2>4. \A s \in requests' : s.kind = "more" /\ s.effect = effect' => GoesOn(s)'
    BY <1>1, <2>3 DEF AuditInv
  <2> QED BY <1>2, <2>2, <2>4 DEF AuditInv, OthersCover, Answered
<1>4. CASE r.mount = mount
  <2>1. \A s \in requests' : ~(s.kind = "more" /\ s.effect = effect')
    BY <1>1, <1>4 DEF Waiting, Extends
  <2>2. AuditList' => Covers(shown.list, shown.query, shown.base, None, ~exhausted)'
    <3> SUFFICES ASSUME AuditList'
                 PROVE  Covers(shown.list, shown.query, shown.base, None, ~exhausted)'
      OBVIOUS
    <3>1. late = {} /\ page = "audit" /\ (r.step # "failed" => r.effect = effect)
      BY <1>4 DEF LoadedMore, AuditList
    <3>2. r.effect = effect => GoesOn(r) BY <1>1 DEF AuditInv
    <3>3. AuditList BY <3>1 DEF AuditList
    <3>4. r.effect = effect => Covers(shown.list, shown.query, shown.base, None, TRUE)
      BY <3>2, <3>3 DEF AuditInv, GoesOn, Covers
    <3>5. \A query : AuditMatches(query)' = AuditMatches(query)
      BY <1>1 DEF AuditMatches, db
    <3>6. committed' = committed BY <1>1 DEF db
    <3>7. CASE r.step = "failed"
      <4>1. UNCHANGED <<shown, exhausted>> BY <1>4, <3>7 DEF LoadedMore
      <4> QED BY <3>3, <3>5, <3>6, <4>1 DEF AuditInv, Covers
    <3>8. CASE r.step # "failed"
      <4> DEFINE more == ~(Len(r.answer.list) < AuditSize)
      <4>0. r.effect = effect /\ GoesOn(r) BY <3>1, <3>2, <3>8
      <4>1. Answered(r) BY <1>1, <4>0, <3>8 DEF Done, Answered, GoesOn
      <4>2. Covers(r.answer.list, shown.query, r.answer.base, shown.list[Len(shown.list)], more)
        BY <3>1, <4>0, <4>1 DEF AuditInv, GoesOn
      <4>3. shown.list # <<>> /\ shown.base \subseteq r.answer.base
        BY <3>1, <4>0, <4>1 DEF GoesOn
      <4>4. Covers(shown.list \o r.answer.list, shown.query, shown.base, None, more)
        BY <3>4, <4>0, <4>2, <4>3, CoversBoth
      <4>5. /\ shown' = [shown EXCEPT !.list = @ \o r.answer.list]
            /\ exhausted' = (exhausted \/ Len(r.answer.list) < AuditSize)
        BY <1>4, <3>2, <3>8 DEF LoadedMore, GoesOn
      <4>6. ~exhausted' <=> more BY <4>0, <4>5 DEF GoesOn
      <4>7. /\ shown'.list = shown.list \o r.answer.list /\ shown'.query = shown.query
            /\ shown'.base = shown.base
        BY <3>3, <4>5 DEF IInv, Lists, IsList, AuditList
      <4> HIDE DEF more
      <4> QED BY <3>5, <3>6, <4>4, <4>6, <4>7 DEF Covers
    <3> QED BY <3>7, <3>8
  <2> QED BY <1>2, <2>1, <2>2 DEF AuditInv, OthersCover, Answered
<1> QED BY <1>3, <1>4

LEMMA AuditStep ==
  ASSUME IInv, Stored, Waiting, AuditInv, [Next]_vars
  PROVE  AuditInv'
<1>1. CASE \E p \in Pages : Open(p) BY <1>1, OpenAudit
<1>2. CASE Choose BY <1>2, ChangeAudit DEF Choose
<1>3. CASE Clear BY <1>3, ChangeAudit DEF Clear
<1>4. CASE Turn BY <1>4, ChangeAudit DEF Turn
<1>5. CASE Retry BY <1>5, RetryAudit
<1>6. CASE LoadMore BY <1>6, LoadMoreAudit
<1>7. CASE Served BY <1>7, ServerAudit, SettleAudit, LoadedMoreAudit DEF Served
<1>8. CASE \E r \in requests : SignedOut(r)
  <2>1. requests' = {} /\ page' = "login" BY <1>8 DEF SignedOut
  <2> QED BY <2>1 DEF AuditInv, AuditList
<1>9. CASE Write \/ Draw \/ Commit \/ UNCHANGED vars
  <2>1. UNCHANGED <<uiVars, requests>> BY <1>9 DEF Write, Draw, Commit, vars
  <2>2. UNCHANGED <<events, committed>> \/ Draw \/ Commit BY <1>9 DEF Write, vars, db
  <2> QED BY <2>1, <2>2, WriteAudit
<1> QED BY <1>1, <1>2, <1>3, <1>4, <1>5, <1>6, <1>7, <1>8, <1>9 DEF Next

\* What the audit viewer shows, and all that is on its way to it, covers the trail.
THEOREM AuditAlways == Spec => []AuditInv
<1>1. Init => AuditInv BY DEF Init, AuditInv, AuditList
<1>2. IInv /\ Stored /\ Waiting /\ AuditInv /\ [Next]_vars => AuditInv' BY AuditStep
<1> QED BY <1>1, <1>2, Inductive, StoredAlways, WaitingAlways, PTL DEF Spec

\* The audit viewer, unless an answer for other filters was appended to it, shows
\* events once, in order, and all that were there when it began down to its last:
\* for any trail, page size and filters, while events are added and ids commit out
\* of order.
THEOREM AuditIsComplete == Spec => []AuditComplete
<1>1. AuditInv => AuditComplete
  BY DEF AuditInv, AuditList, Covers, Descending, Listed, AuditComplete
<1> QED BY <1>1, AuditAlways, PTL

\* The events the audit viewer lists are of its question, or of those counted late.
RowsAsked ==
  page = "audit" =>
    /\ shown.list \in Seq(Nat)
    /\ \A e \in Listed(shown.list) :
         \E q \in {ToQuery(page, chosen)} \cup late : e \in AuditMatches(q)

\* Steps that only add to the trail.
LEMMA RowsStay ==
  ASSUME RowsAsked, UNCHANGED <<page, chosen, shown, late>>,
         committed \subseteq committed', \A e \in committed : events'[e] = events[e]
  PROVE  RowsAsked'
<1>1. \A q : AuditMatches(q) \subseteq AuditMatches(q)' BY DEF AuditMatches
<1> QED BY <1>1 DEF RowsAsked

LEMMA SettleRows ==
  ASSUME IInv, AuditInv, RowsAsked, NEW r \in requests, Settle(r)
  PROVE  RowsAsked'
<1>1. UNCHANGED <<db, page, chosen>> BY DEF Settle
<1>2. CASE UNCHANGED <<shown, late>> BY <1>1, <1>2, RowsStay DEF db
<1>3. CASE r.effect = effect /\ r.step = "answered"
  <2> SUFFICES ASSUME page = "audit" PROVE RowsAsked' BY <1>1 DEF RowsAsked
  <2>1. r.page = "audit" /\ r.query = ToQuery(page, chosen) BY <1>3 DEF IInv, AsksTheChoice
  <2>2. Descending(r.answer.list) /\ Listed(r.answer.list) \subseteq AuditMatches(r.query)
    BY <1>3, <2>1 DEF AuditInv, Answered, Covers
  <2>3. shown' = r.answer BY <1>3 DEF Settle
  <2>4. AuditMatches(ToQuery(page, chosen))' = AuditMatches(ToQuery(page, chosen))
    BY <1>1 DEF AuditMatches, db
  <2> QED BY <1>1, <2>1, <2>2, <2>3, <2>4 DEF RowsAsked, Descending
<1> QED BY <1>2, <1>3 DEF Settle

LEMMA LoadedMoreRows ==
  ASSUME IInv, AuditInv, RowsAsked, NEW r \in requests, LoadedMore(r)
  PROVE  RowsAsked'
<1>1. UNCHANGED <<db, page, chosen>> BY DEF LoadedMore
<1>2. CASE UNCHANGED <<shown, late>> BY <1>1, <1>2, RowsStay DEF db
<1>3. CASE r.mount = mount /\ r.step # "failed"
  <2>1. page = "audit" /\ r.page = "audit" BY <1>3 DEF LoadedMore, IInv, MoreIsAudit
  <2>2. Descending(r.answer.list) /\ Listed(r.answer.list) \subseteq AuditMatches(r.query)
    BY <1>3, <2>1 DEF LoadedMore, Done, AuditInv, Answered, Covers
  <2>3. shown' = [shown EXCEPT !.list = @ \o r.answer.list] BY <1>3 DEF LoadedMore
  <2>4. shown'.list = shown.list \o r.answer.list BY <2>1, <2>3 DEF IInv, Lists, IsList
  <2>5. shown.list \in Seq(Nat) /\ r.answer.list \in Seq(Nat) BY <2>1, <2>2 DEF RowsAsked, Descending
  <2>6. /\ shown'.list \in Seq(Nat)
        /\ Listed(shown'.list) \subseteq Listed(shown.list) \cup Listed(r.answer.list)
    BY <2>4, <2>5, ListedBoth
  <2>7. late \subseteq late' /\ r.query \in {ToQuery(page, chosen)} \cup late'
    BY <1>3 DEF LoadedMore, IInv, AsksTheChoice
  <2>8. \A q : AuditMatches(q)' = AuditMatches(q) BY <1>1 DEF AuditMatches, db
  <2> QED BY <1>1, <2>1, <2>2, <2>6, <2>7, <2>8 DEF RowsAsked
<1> QED BY <1>2, <1>3 DEF LoadedMore

LEMMA RowsStep ==
  ASSUME IInv, Stored, AuditInv, RowsAsked, [Next]_vars
  PROVE  RowsAsked'
<1>1. ASSUME page' = "audit" => shown'.list = <<>> PROVE RowsAsked'
  <2>1. <<>> \in Seq(Nat) /\ Listed(<<>>) = {} BY DEF Listed
  <2> QED BY <1>1, <2>1 DEF RowsAsked
<1>2. CASE \E p \in Pages : Open(p) BY <1>1, <1>2 DEF Open, Ask
<1>3. ASSUME NEW f, Change(f) PROVE RowsAsked' BY <1>1, <1>3 DEF Change, Ask
<1>4. CASE Choose \/ Clear \/ Turn BY <1>3, <1>4 DEF Choose, Clear, Turn
<1>5. CASE Retry BY <1>1, <1>5 DEF Retry, Ask
<1>6. CASE LoadMore BY <1>6, RowsStay DEF LoadMore, db
<1>7. CASE Served
  <2>1. ASSUME NEW r \in requests, CountRows(r) \/ Read(r) \/ Fail(r) PROVE RowsAsked'
    <3>1. UNCHANGED <<db, uiVars>> BY <2>1 DEF CountRows, Read, Fail
    <3> QED BY <3>1, RowsStay DEF db, uiVars
  <2> QED BY <1>7, <2>1, SettleRows, LoadedMoreRows DEF Served
<1>8. CASE \E r \in requests : SignedOut(r) BY <1>1, <1>8 DEF SignedOut
<1>9. CASE Write \/ Draw \/ Commit \/ UNCHANGED vars
  <2>1. UNCHANGED uiVars BY <1>9 DEF Write, Draw, Commit, vars
  <2>2. UNCHANGED <<events, committed>> \/ Draw \/ Commit BY <1>9 DEF Write, vars, db
  <2> QED BY <2>1, <2>2, TrailGrows, RowsStay DEF uiVars
<1> QED BY <1>2, <1>4, <1>5, <1>6, <1>7, <1>8, <1>9 DEF Next

\* The dashboard (DashboardPage.tsx), the ticket list and the audit viewer, once
\* loaded, show the answer to what the user has chosen; the audit viewer lists
\* events of other filters as well only once an answer to "Load more" came after
\* its filters were given up (AuditPage.tsx:84), and those of that answer only.
THEOREM ChoiceIsShown == Spec => []ShownIsAsked
<1>1. Init => RowsAsked BY DEF Init, RowsAsked
<1>2. IInv /\ Stored /\ AuditInv /\ RowsAsked /\ [Next]_vars => RowsAsked' BY RowsStep
<1>3. IInv /\ RowsAsked => ShownIsAsked BY DEF IInv, Labelled, RowsAsked, Listed, ShownIsAsked
<1>4. Spec => []AuditInv BY AuditAlways
<1> QED BY <1>1, <1>2, <1>3, <1>4, Inductive, StoredAlways, PTL DEF Spec
=============================================================================
