-------------------------------- MODULE Console --------------------------------
(***************************************************************************)
(* What a browser shows: the customer's dashboard                          *)
(* (components/dashboard/DashboardPage.tsx), the ticket list and the audit *)
(* viewer of the admin console (components/admin/), the client that asks   *)
(* (lib/api.ts, lib/admin/api.ts) and the routes that answer.  A question  *)
(* is the state of the page, on the console the URL; every change of it    *)
(* runs an effect that asks the server, and answers come in any order,     *)
(* late, or not at all.  A render and the effects it causes are one step.  *)
(***************************************************************************)
EXTENDS Reads, Sequences

CONSTANTS
  Scope,             \* account and units of the customer's session
  KnownAccounts, KnownUnits,   \* what /api/admin/reference lists
  RoutePriorities,   \* the priorities GET /api/tickets accepts
  DayLength,         \* length of a day
  DashboardSize, TicketsSize, AuditSize,   \* page sizes
  Choices,           \* page |-> the [key, value] pairs its controls offer
  Links,             \* URLs of the ticket list the overview links to
  TicketVersions, CopyVersions, Entries,   \* what the pipeline writes
  FirstTickets, FirstCopies, FirstEvents,  \* what is stored at first
  MaxWrites,         \* bound of what the pipeline writes
  MaxAsks            \* bound of the effects

ASSUME ConsoleAssumption ==
  /\ MaxAsks \in Nat /\ MaxWrites \in Nat
  /\ {DashboardSize, TicketsSize, AuditSize} \subseteq Nat \ {0}
  /\ FirstTickets \in [Tickets -> TicketRow] /\ \A t \in Tickets : TicketVersions[t] \subseteq TicketRow
  /\ FirstCopies \in [Rows -> CopyRow \cup {None}] /\ \A x \in Rows : CopyVersions[x] \subseteq CopyRow
  /\ FirstEvents \in Seq(EventRow) /\ Entries \subseteq EventRow

VARIABLES
  page,              \* the page that is mounted
  filters,           \* its question: React state on the dashboard, else the URL
  chosen,            \* what the user has chosen since the page was opened
  mount, effect,     \* the effect that mounted the page, and its last one
  shown,             \* the answer it shows; before the first None, on audit an empty list
  loading, error,    \* what it says of its last question
  loadingMore, exhausted,   \* audit: loadMore is under way; there is no more
  late,              \* audit: questions given up since, whose loadMore was appended
  requests,          \* fetches under way, with what the server has done of them
  writes             \* what the pipeline has written

uiVars == <<page, filters, chosen, mount, effect, shown, loading, error, loadingMore, exhausted, late>>
vars == <<db, uiVars, requests, writes>>

Pages == {"dashboard", "tickets", "audit"}
Realm(p) == IF p = "dashboard" THEN "customer" ELSE "admin"
Size(p) == IF p = "dashboard" THEN DashboardSize ELSE TicketsSize

(* ----------------------------- state of a page ---------------------------- *)

Default(p) ==
  IF p = "dashboard"
  THEN [search |-> None, unit |-> None, stage |-> None, priority |-> None, page |-> 1]
  ELSE IF p = "tickets"
  THEN [q |-> None, customer |-> None, bu |-> None, stage |-> None, priority |-> None,
        visibility |-> None, published |-> None, shared |-> None, from |-> None, to |-> None,
        updatedFrom |-> None, updatedTo |-> None,
        sort |-> [field |-> "created", dir |-> "desc"], page |-> 1]
  ELSE [entityType |-> None, source |-> None, q |-> None]

\* ticketFiltersToParams and the audit viewer's apply: defaults are left out.
ToParams(p, f) == [k \in {k \in DOMAIN f : f[k] # Default(p)[k]} |-> f[k]]
\* ticketFiltersFromParams
FromParams(p, url) == [k \in DOMAIN Default(p) |-> IF k \in DOMAIN url THEN url[k] ELSE Default(p)[k]]

\* The question of a page, as its owner keeps it.
Kept(p, f) == IF p = "dashboard" THEN f ELSE ToParams(p, f)
Current(p, kept) == IF p = "dashboard" THEN kept ELSE FromParams(p, kept)

\* An unknown slug becomes an id that no row has.
SlugId(known, slug) == IF slug \in known \cup {None} THEN slug ELSE "NO_MATCH"
StartOf(day) == IF day = None THEN None ELSE day * DayLength
EndOf(day) == IF day = None THEN None ELSE (day + 1) * DayLength - 1

\* ticketFiltersToQuery, and what the other two pages ask.
ToQuery(p, f) ==
  IF p = "dashboard"
  THEN [search |-> f.search, unit |-> f.unit, stage |-> f.stage, priority |-> f.priority,
        slaState |-> None, sort |-> [field |-> "created", dir |-> "desc"], page |-> f.page]
  ELSE IF p = "tickets"
  THEN [search |-> f.q, account |-> SlugId(KnownAccounts, f.customer), unit |-> SlugId(KnownUnits, f.bu),
        stage |-> f.stage, priority |-> f.priority, visibility |-> f.visibility,
        published |-> f.published, shared |-> f.shared,
        receivedFrom |-> StartOf(f.from), receivedTo |-> EndOf(f.to),
        updatedFrom |-> StartOf(f.updatedFrom), updatedTo |-> EndOf(f.updatedTo),
        sort |-> f.sort, page |-> f.page]
  ELSE f

(* ------------------------------ asking ----------------------------------- *)

Request(p, kind, query, beforeId, number, instance) ==
  [page |-> p, kind |-> kind, query |-> query, beforeId |-> beforeId, effect |-> number,
   mount |-> instance, step |-> "sent", total |-> 0, answer |-> None]

\* The effect: the last question is void; the audit viewer forgets its events,
\* another page goes on showing what it did.
Ask(p, kept, f, before, number, instance) ==
  /\ filters' = kept /\ chosen' = f
  /\ shown' = IF p = "audit" THEN [query |-> ToQuery(p, Current(p, kept)), list |-> <<>>, base |-> {}]
              ELSE before
  /\ effect' = number /\ mount' = instance
  /\ loading' = TRUE /\ error' = FALSE
  /\ exhausted' = FALSE /\ late' = {}

\* A page is opened; of the fetches under way those of the same document stay.
Open(p) ==
  /\ effect < MaxAsks /\ p # page
  /\ page' = p
  /\ \E url \in IF p = "tickets" THEN Links \cup {Kept(p, Default(p))} ELSE {Kept(p, Default(p))} :
       /\ Ask(p, url, Current(p, url), None, effect + 1, effect + 1)
       /\ requests' = {r \in requests : Realm(r.page) = Realm(p) /\ page # "login"} \cup
            {Request(p, "load", ToQuery(p, Current(p, url)), None, effect + 1, effect + 1)}
  /\ loadingMore' = FALSE
  /\ UNCHANGED <<db, writes>>

\* The question of the page that is open changes to f.
Change(f) ==
  LET kept == Kept(page, f)
  IN /\ effect < MaxAsks /\ page \in Pages /\ kept # filters
     /\ Ask(page, kept, f, shown, effect + 1, mount)
     /\ requests' = requests \cup
          {Request(page, "load", ToQuery(page, Current(page, kept)), None, effect + 1, mount)}
     /\ UNCHANGED <<db, page, loadingMore, writes>>

\* apply and onFiltersChange: a filter leads back to the first page, a sort does
\* not; another customer drops the business unit.
Choose ==
  /\ page \in Pages
  /\ \E choice \in Choices[page] :
       LET now == Current(page, filters)
           set == [now EXCEPT ![choice.key] = choice.value]
       IN Change([k \in DOMAIN now |->
                    IF k = "page" /\ choice.key # "sort" THEN 1
                    ELSE IF k = "bu" /\ choice.key = "customer" THEN None
                    ELSE set[k]])

\* The audit viewer's "Clear" and the ticket list's.
Clear ==
  /\ page \in {"tickets", "audit"}
  /\ Change(Default(page))

\* The pager of the dashboard goes by the answer that is shown, that of the
\* console by the URL.
Turn ==
  /\ page \in {"dashboard", "tickets"} /\ ~loading /\ shown # None
  /\ LET now == Current(page, filters)
         last == TotalPages(shown.total, Size(page))
         at == IF page = "dashboard" THEN shown.query.page ELSE now.page
         offered == IF page = "dashboard" THEN shown.total > 0 ELSE ~error /\ shown.rows # {}
     IN /\ offered
        /\ \/ at < last /\ Change([now EXCEPT !.page = now.page + 1])
           \/ at > 1 /\ now.page > 1 /\ Change([now EXCEPT !.page = now.page - 1])

\* onRetry, on the console.
Retry ==
  /\ effect < MaxAsks /\ page \in {"tickets", "audit"} /\ error /\ (page = "audit" => ~loading)
  /\ Ask(page, filters, chosen, shown, effect + 1, mount)
  /\ requests' = requests \cup
       {Request(page, "load", ToQuery(page, Current(page, filters)), None, effect + 1, mount)}
  /\ UNCHANGED <<db, page, loadingMore, writes>>

\* loadMore of the audit viewer, from the last event it shows.
LoadMore ==
  /\ page = "audit" /\ ~loading /\ ~error /\ ~exhausted /\ ~loadingMore
  /\ shown.list # <<>>
  /\ loadingMore' = TRUE
  /\ requests' = requests \cup
       {Request("audit", "more", ToQuery("audit", Current("audit", filters)),
                shown.list[Len(shown.list)], effect, mount)}
  /\ UNCHANGED <<db, page, filters, chosen, mount, effect, shown, loading, error, exhausted, late, writes>>

(* ------------------------------ answering -------------------------------- *)

Advance(r, next) == requests' = (requests \ {r}) \cup {next}

\* GET /api/tickets has a list of priorities of its own.
Refused(r) == r.page = "dashboard" /\ r.query.priority \notin RoutePriorities \cup {None}

\* The lists count first and read in a second statement.
CountRows(r) ==
  /\ r.step = "sent" /\ r.page # "audit" /\ ~Refused(r)
  /\ Advance(r, [r EXCEPT !.step = "counted",
                          !.total = Cardinality(IF r.page = "dashboard" THEN CustomerMatches(Scope, r.query)
                                                ELSE AdminMatches(r.query))])
  /\ UNCHANGED <<db, uiVars, writes>>

Read(r) ==
  /\ \/ /\ r.step = "counted"
        /\ Advance(r, [r EXCEPT !.step = "answered",
             !.answer = [query |-> r.query, total |-> r.total,
                         rows |-> IF r.page = "dashboard" THEN CustomerPage(Scope, r.query, DashboardSize)
                                  ELSE AdminPage(r.query, TicketsSize)]])
     \/ /\ r.step = "sent" /\ r.page = "audit"
        /\ Advance(r, [r EXCEPT !.step = "answered",
             !.answer = [query |-> r.query, list |-> ListAudit(r.query, r.beforeId, AuditSize),
                         base |-> committed]])
  /\ UNCHANGED <<db, uiVars, writes>>

\* A statement or the network fails, or the route refuses the query.
Fail(r) ==
  /\ r.step \in {"sent", "counted"}
  /\ Advance(r, [r EXCEPT !.step = "failed"])
  /\ UNCHANGED <<db, uiVars, writes>>

\* 401: the document is left, whichever question it answers.
SignedOut(r) ==
  /\ r.step = "sent" /\ page # "login"
  /\ page' = "login" /\ requests' = {}
  /\ filters' = None /\ chosen' = None /\ mount' = effect
  /\ shown' = None /\ loading' = FALSE /\ error' = FALSE
  /\ loadingMore' = FALSE /\ exhausted' = FALSE /\ late' = {}
  /\ UNCHANGED <<db, effect, writes>>

Done(r) == r.step \in {"answered", "failed"}

\* A plausible mistake: nobody asks whether the effect is still the last one.
BadSettle(r) ==
  /\ Done(r) /\ r.kind = "load" /\ requests' = requests \ {r}
  /\ IF r.step = "answered"
     THEN /\ shown' = r.answer /\ UNCHANGED error
          /\ exhausted' = (page = "audit" /\ Len(r.answer.list) < AuditSize)
     ELSE error' = TRUE /\ UNCHANGED <<shown, exhausted>>
  /\ loading' = FALSE
  /\ UNCHANGED <<db, page, filters, chosen, mount, effect, loadingMore, late, writes>>

\* A plausible mistake: an error does not end the loading.
BadFinally(r) ==
  /\ Done(r) /\ r.kind = "load" /\ requests' = requests \ {r}
  /\ IF r.effect # effect THEN UNCHANGED <<shown, exhausted, error, loading>>
     ELSE IF r.step = "answered"
     THEN /\ shown' = r.answer /\ UNCHANGED error /\ loading' = FALSE
          /\ exhausted' = (page = "audit" /\ Len(r.answer.list) < AuditSize)
     ELSE error' = TRUE /\ UNCHANGED <<shown, exhausted, loading>>
  /\ UNCHANGED <<db, page, filters, chosen, mount, effect, loadingMore, late, writes>>

\* The answer to an effect arrives: only that of the last effect counts.
Settle(r) ==
  /\ Done(r) /\ r.kind = "load" /\ requests' = requests \ {r}
  /\ IF r.effect # effect THEN UNCHANGED <<shown, exhausted, late, error, loading>>
     ELSE /\ loading' = FALSE
          /\ IF r.step = "answered"
             THEN /\ shown' = r.answer /\ late' = {} /\ UNCHANGED error
                  /\ exhausted' = (page = "audit" /\ Len(r.answer.list) < AuditSize)
             ELSE error' = TRUE /\ UNCHANGED <<shown, exhausted, late>>
  /\ UNCHANGED <<db, page, filters, chosen, mount, effect, loadingMore, writes>>

\* What loadMore asked for arrives: it is appended to whatever is shown by then.
LoadedMore(r) ==
  /\ Done(r) /\ r.kind = "more" /\ requests' = requests \ {r}
  /\ IF r.mount # mount THEN UNCHANGED <<shown, exhausted, error, loadingMore, late>>
     ELSE /\ loadingMore' = FALSE
          /\ IF r.step = "failed" THEN error' = TRUE /\ UNCHANGED <<shown, exhausted, late>>
             ELSE /\ UNCHANGED error
                  /\ late' = late \cup (IF r.effect # effect THEN {r.query} ELSE {})
                  /\ exhausted' = (exhausted \/ Len(r.answer.list) < AuditSize)
                  /\ shown' = [shown EXCEPT !.list = @ \o r.answer.list]
  /\ UNCHANGED <<db, page, filters, chosen, mount, effect, loading, writes>>

(* ------------------------------ the pipeline ----------------------------- *)

\* A sync, an SLA run or the projection commits a row of either table.
Write ==
  /\ writes < MaxWrites /\ writes' = writes + 1
  /\ \/ /\ \E t \in Tickets : \E row \in TicketVersions[t] : it' = [it EXCEPT ![t] = row]
        /\ UNCHANGED ct
     \/ /\ \E x \in Rows : \E row \in CopyVersions[x] : ct' = [ct EXCEPT ![x] = row]
        /\ UNCHANGED it
  /\ UNCHANGED <<events, committed, uiVars, requests>>

\* An audit row draws its id; its transaction commits later, or never.
Draw ==
  /\ writes < MaxWrites /\ writes' = writes + 1
  /\ \E entry \in Entries : events' = Append(events, entry)
  /\ UNCHANGED <<it, ct, committed, uiVars, requests>>
Commit ==
  /\ \E e \in DOMAIN events \ committed : committed' = committed \cup {e}
  /\ UNCHANGED <<it, ct, events, uiVars, requests, writes>>

Init ==
  /\ it = FirstTickets /\ ct = FirstCopies
  /\ events = FirstEvents /\ committed = DOMAIN FirstEvents
  /\ page = "login" /\ filters = None /\ chosen = None
  /\ mount = 0 /\ effect = 0
  /\ shown = None /\ loading = FALSE /\ error = FALSE
  /\ loadingMore = FALSE /\ exhausted = FALSE /\ late = {}
  /\ requests = {} /\ writes = 0

\* The network and the server see to every fetch, one way or another.
Served == \E r \in requests : CountRows(r) \/ Read(r) \/ Fail(r) \/ Settle(r) \/ LoadedMore(r)

Next ==
  \/ \E p \in Pages : Open(p)
  \/ Choose \/ Clear \/ Turn \/ Retry \/ LoadMore
  \/ Served \/ \E r \in requests : SignedOut(r)
  \/ Write \/ Draw \/ Commit

Spec == Init /\ [][Next]_vars
FairSpec == Spec /\ WF_vars(Served)

(***************************************************************************)
(* Properties.                                                             *)
(***************************************************************************)
\* Types; a page says that it is loading, or loading more, exactly while the
\* fetch it waits for is under way.
TypeOK ==
  /\ page \in Pages \cup {"login"} /\ effect \in 0 .. MaxAsks /\ mount \in 0 .. effect
  /\ {loading, error, loadingMore, exhausted} \subseteq BOOLEAN /\ (late # {} => page = "audit")
  /\ committed \subseteq DOMAIN events /\ writes \in 0 .. MaxWrites
  /\ \A r \in requests : r.page \in Pages /\ r.effect \in 1 .. effect
  /\ loading <=> \E r \in requests : r.kind = "load" /\ r.effect = effect
  /\ loadingMore <=> \E r \in requests : r.kind = "more" /\ r.mount = mount

\* What a page shows once it has loaded answers what its user has chosen, through
\* URL, codec and client, however late the answers to earlier choices come.  On the
\* audit viewer, the list holds events of other filters as well once the user has
\* gone on while "Load more" was under way: its answer is appended all the same
\* (AuditPage.tsx:84).  Those of that answer are the only ones.
ShownIsAsked ==
  /\ page \in Pages /\ ~loading /\ ~error => shown.query = ToQuery(page, chosen)
  /\ page = "audit" =>
       \A i \in DOMAIN shown.list :
         \E q \in {ToQuery(page, chosen)} \cup late : shown.list[i] \in AuditMatches(q)

\* The audit viewer repeats nothing, and between its first event and its last it
\* leaves out nothing that was there when it began, though events are added while
\* it pages and ids may commit out of order; without "Load more", it shows all of
\* them.  All this as long as no answer for other filters was appended (late).
AuditComplete ==
  page = "audit" /\ late = {} /\ ~loading =>
    LET list == shown.list
        listed == {list[i] : i \in DOMAIN list}
    IN /\ \A i, j \in DOMAIN list : i < j => list[i] > list[j]
       /\ listed \subseteq AuditMatches(shown.query)
       /\ \A e \in shown.base \cap AuditMatches(shown.query) :
            e \in listed \/ (~exhausted /\ list # <<>> /\ e < list[Len(list)])

\* In every order the pages of a list hold each of its rows exactly once.
CustomerSorts == [field : {"created", "priority", "due"}, dir : {"asc", "desc"}]
AdminSorts == [field : {"created", "updated"}, dir : {"asc", "desc"}]
PagesPartition ==
  LET seen == CustomerMatches(Scope, ToQuery("dashboard", Default("dashboard")))
      managed == AdminMatches(ToQuery("tickets", Default("tickets")))
  IN /\ \A sort \in CustomerSorts :
          Paged(seen, {p \in seen \X seen : CustomerOrder(sort, p[1], p[2])}, DashboardSize)
     /\ \A sort \in AdminSorts :
          Paged(managed, {p \in managed \X managed : AdminOrder(sort, p[1], p[2])}, TicketsSize)

\* The overview's counts of internal, internal-only and shared tickets are those
\* of the lists its cards link to, whatever was deleted, shared or retired; what it
\* counts as published is what customers see, and the list it links to for that
\* leaves out none of it but what belongs to deleted tickets.
CardsMatchLists ==
  CardAgrees(ToQuery("tickets", Default("tickets")), ToQuery("dashboard", Default("dashboard")))

\* A customer can open exactly the tickets the unfiltered list has.
DetailIffListed ==
  LET listed == CustomerMatches(Scope, ToQuery("dashboard", Default("dashboard")))
  IN \A x \in Rows : CustomerDetail(Scope, x) <=> x \in listed

\* A page that is loading ends up showing something, an answer or an error.
Settles == (loading \/ loadingMore) ~> ~(loading \/ loadingMore)
=============================================================================
