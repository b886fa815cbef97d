--------------------------------- MODULE Reads ---------------------------------
(***************************************************************************)
(* The read side: the customer's queries (server/customer/queries.ts) over *)
(* the projected rows and the admin console's (server/admin/queries.ts)    *)
(* over the internal layer.  Each is a filter, an order made total by the  *)
(* id, and a page cut out by LIMIT and OFFSET, or, for the audit trail, a  *)
(* page below the last id seen.  A page is the set of the rows on it.      *)
(***************************************************************************)
EXTENDS Integers, FiniteSets

CONSTANTS
  Tickets,      \* ids of internal_tickets, in their order
  Units,        \* ids of business_units, in their order
  AccountOf,    \* unit |-> its account
  Words,        \* ticket |-> the search terms its number and title match
  None          \* SQL NULL, and a filter that is not set

\* portal_stage, sla_state, audit_source
Stages == {"NEW", "ACKNOWLEDGED", "IN_PROGRESS", "ON_HOLD", "BUSINESS_REVIEW", "RESOLVED",
           "CLOSED", "REOPENED"}
SlaStates == {"NOT_APPLICABLE", "PENDING", "AT_RISK", "MET", "BREACHED"}
AuditSources == {"SYNC", "TRANSFORM", "ADMIN", "SYSTEM", "PORTAL"}

\* The columns that queries read; a priority is the number of its level.
TicketRow == [deleted : BOOLEAN, stage : Stages, priority : 1 .. 4, created : Nat, updated : Nat,
              units : SUBSET Units]
CopyRow == [visibility : {"published", "hidden_from_customer"}, stage : Stages, priority : 1 .. 4,
            created : Nat, due : Nat \cup {None}, slaState : SlaStates, responseSla : SlaStates]
EventRow == [entityType : STRING, source : AuditSources, q : STRING]

\* A table is finite, and its ids are ordered.
ASSUME ReadsAssumption ==
  /\ Tickets \subseteq Nat /\ IsFiniteSet(Tickets)
  /\ Units \subseteq Nat /\ IsFiniteSet(Units)
  /\ None \notin Nat \cup BOOLEAN \cup SlaStates

VARIABLES
  it,           \* ticket |-> columns of its row in internal_tickets, and its units
  ct,           \* <<ticket, unit>> |-> its row in customer_tickets, or None
  events,       \* audit_events by id, in the order the ids were drawn
  committed     \* the ids whose transaction has committed

db == <<it, ct, events, committed>>

Rows == Tickets \X Units
IdBefore(x, y) == x[1] < y[1] \/ (x[1] = y[1] /\ x[2] < y[2])
Allows(filter, value) == filter = None \/ filter = value

\* The rows of S that LIMIT size OFFSET (page - 1) * size cuts out; `order` has
\* the pairs whose first comes before their second.
PageOf(S, order, page, size) ==
  {x \in S : Cardinality({y \in S : <<y, x>> \in order}) \div size = page - 1}

(* ---------------------------- customer portal ---------------------------- *)

\* What the WHERE of a list and of a detail have in common.
Visible(scope) ==
  {x \in Rows : /\ ct[x] # None /\ ct[x].visibility = "published"
                /\ AccountOf[x[2]] = scope.account
                /\ scope.units # None => x[2] \in scope.units}

CustomerMatches(scope, q) ==
  {x \in Visible(scope) : /\ Allows(q.stage, ct[x].stage) /\ Allows(q.priority, ct[x].priority)
                          /\ Allows(q.slaState, ct[x].slaState) /\ Allows(q.unit, x[2])
                          /\ q.search # None => q.search \in Words[x[1]]}

\* buildSort: NULLS LAST in both directions, then the id.
NullsLast(dir, a, b) ==
  /\ a # None
  /\ b = None \/ (dir = "asc" /\ a < b) \/ (dir # "asc" /\ a > b)

\* A plausible mistake: no tiebreaker.
BadOrder(sort, x, y) == NullsLast(sort.dir, ct[x][sort.field], ct[y][sort.field])

CustomerOrder(sort, x, y) ==
  LET a == ct[x][sort.field]
      b == ct[y][sort.field]
  IN NullsLast(sort.dir, a, b) \/ (a = b /\ IdBefore(x, y))

CustomerPage(scope, q, size) ==
  LET S == CustomerMatches(scope, q)
  IN PageOf(S, {p \in S \X S : CustomerOrder(q.sort, p[1], p[2])}, q.page, size)

\* Math.max(1, Math.ceil(totalItems / pageSize))
TotalPages(total, size) == IF total = 0 THEN 1 ELSE (total + size - 1) \div size

\* A plausible mistake: whoever knows the id may see the row of another unit.
BadDetail(scope, x) ==
  ct[x] # None /\ ct[x].visibility = "published" /\ AccountOf[x[2]] = scope.account

\* getTicketDetail finds the row.
CustomerDetail(scope, x) ==
  /\ ct[x] # None /\ AccountOf[x[2]] = scope.account /\ ct[x].visibility = "published"
  /\ scope.units # None => x[2] \in scope.units

(* ----------------------------- admin console ----------------------------- *)

PublishedSomewhere(t) == \E b \in Units : ct[<<t, b>>] # None /\ ct[<<t, b>>].visibility = "published"
Projected(t, visibility) ==
  IF visibility = "none" THEN \A b \in Units : ct[<<t, b>>] = None
  ELSE \E b \in Units : ct[<<t, b>>] # None /\ ct[<<t, b>>].visibility = visibility

Within(from, to, time) == (from # None => time >= from) /\ (to # None => time <= to)

AdminMatches(q) ==
  {t \in Tickets :
     /\ ~it[t].deleted
     /\ Allows(q.stage, it[t].stage) /\ Allows(q.priority, it[t].priority)
     /\ q.unit # None => q.unit \in it[t].units
     /\ q.account # None => \E b \in it[t].units : AccountOf[b] = q.account
     /\ q.shared # None => Cardinality(it[t].units) # 0 /\ q.shared = (Cardinality(it[t].units) > 1)
     /\ q.published # None => q.published = PublishedSomewhere(t)
     /\ q.visibility # None => Projected(t, q.visibility)
     /\ Within(q.receivedFrom, q.receivedTo, it[t].created)
     /\ Within(q.updatedFrom, q.updatedTo, it[t].updated)
     /\ q.search # None => q.search \in Words[t]}

AdminOrder(sort, t, u) ==
  LET a == it[t][sort.field]
      b == it[u][sort.field]
  IN NullsLast(sort.dir, a, b) \/ (a = b /\ t < u)

AdminPage(q, size) ==
  LET S == AdminMatches(q)
  IN PageOf(S, {p \in S \X S : AdminOrder(q.sort, p[1], p[2])}, q.page, size)

OpenStages == {"NEW", "ACKNOWLEDGED", "IN_PROGRESS", "ON_HOLD", "BUSINESS_REVIEW", "REOPENED"}

\* A plausible mistake: deleted tickets are counted.
BadLive == Tickets

Live == {t \in Tickets : ~it[t].deleted}

\* The rows of customer_tickets that getStats counts, whatever became of the ticket.
Exposed == {x \in Rows : ct[x] # None /\ ct[x].visibility = "published"}

\* getStats, the counts of tickets and of what is published of them.
Stats ==
  [total |-> Cardinality(Live),
   open |-> Cardinality({t \in Live : it[t].stage \in OpenStages}),
   closed |-> Cardinality({t \in Live : it[t].stage \in {"RESOLVED", "CLOSED"}}),
   shared |-> Cardinality({t \in Live : Cardinality(it[t].units) > 1}),
   internalOnly |-> Cardinality({t \in Live : ~PublishedSomewhere(t)}),
   published |-> Cardinality(Exposed),
   breaches |-> Cardinality({x \in Exposed : "BREACHED" \in {ct[x].responseSla, ct[x].slaState}})]

AuditMatches(q) ==
  {e \in committed : /\ Allows(q.entityType, events[e].entityType)
                     /\ Allows(q.source, events[e].source)
                     /\ Allows(q.q, events[e].q)}

\* The limit greatest of a set of ids, the greatest first.
Newest(S, limit) ==
  [i \in 1 .. (IF Cardinality(S) < limit THEN Cardinality(S) ELSE limit) |->
     CHOOSE e \in S : Cardinality({d \in S : d > e}) = i - 1]

\* A plausible mistake: the last event seen comes again.
BadListAudit(q, beforeId, limit) ==
  Newest({e \in AuditMatches(q) : beforeId # None => e <= beforeId}, limit)

\* listAudit: newest first, below beforeId.
ListAudit(q, beforeId, limit) ==
  Newest({e \in AuditMatches(q) : beforeId # None => e < beforeId}, limit)

(***************************************************************************)
(* Properties of what is stored at one moment.                             *)
(***************************************************************************)
\* What the customers of all accounts are shown together.
ShownToCustomers(q) ==
  UNION {CustomerMatches([account |-> a, units |-> None], q) : a \in {AccountOf[b] : b \in Units}}

\* A card of the overview and the list it links to, two queries that know nothing
\* of each other, count the same tickets.  "Published Exposure" counts projections,
\* those the customers are shown: the list it links to holds the tickets of these
\* that are not deleted, each once.  "SLA Breaches" has what customers find as
\* breached, and what only missed its response.
CardAgrees(everything, unfiltered) ==
  LET stats == Stats
      count(q) == Cardinality(AdminMatches(q))
      published == [everything EXCEPT !.published = TRUE]
  IN /\ stats.total = count(everything)
     /\ stats.total = stats.open + stats.closed
     /\ stats.shared = count([everything EXCEPT !.shared = TRUE])
     /\ stats.internalOnly = count([everything EXCEPT !.published = FALSE])
     /\ stats.published = Cardinality(ShownToCustomers(unfiltered))
     /\ AdminMatches(published) = Live \cap {x[1] : x \in Exposed}
     /\ stats.published >= count(published)
     /\ stats.breaches >= Cardinality(ShownToCustomers([unfiltered EXCEPT !.slaState = "BREACHED"]))

\* Each row of a result is on exactly one of its pages, and no page is too long.
Paged(S, order, size) ==
  LET cut == [page \in 1 .. TotalPages(Cardinality(S), size) |-> PageOf(S, order, page, size)]
  IN /\ \A x \in S : Cardinality({page \in DOMAIN cut : x \in cut[page]}) = 1
     /\ \A page \in DOMAIN cut : Cardinality(cut[page]) <= size
=============================================================================
