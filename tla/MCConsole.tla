------------------------------- MODULE MCConsole -------------------------------
(***************************************************************************)
(* An instance of Console: two tickets and three units of two accounts,    *)
(* one ticket shared by all of them; three audit events of two kinds, and  *)
(* pages of one row each.                                                  *)
(***************************************************************************)
EXTENDS Console, TLC

CONSTANTS acme, zenith

MCAccountOf == [b \in Units |-> IF b = 3 THEN zenith ELSE acme]
MCWords == [t \in Tickets |-> {}]
MCScope == [account |-> acme, units |-> {1, 3}]

Ticket(deleted, stage, units) ==
  [deleted |-> deleted, stage |-> stage, priority |-> 1, created |-> 5, updated |-> 5, units |-> units]
Copy(visibility, priority) ==
  [visibility |-> visibility, stage |-> "NEW", priority |-> priority, created |-> 5, due |-> None,
   slaState |-> "PENDING", responseSla |-> IF priority = 4 THEN "BREACHED" ELSE "PENDING"]
MCTickets == 1 :> Ticket(FALSE, "NEW", {1, 2, 3}) @@ 2 :> Ticket(FALSE, "CLOSED", {1})
MCTicketVersions ==
  1 :> {Ticket(TRUE, "NEW", {1, 2, 3})} @@ 2 :> {Ticket(FALSE, "RESOLVED", {})}
MCCopies ==
  [x \in Rows |-> IF x = <<2, 1>> THEN Copy("published", 2)
                  ELSE IF x[1] = 1 THEN Copy("published", 1) ELSE None]
MCCopyVersions ==
  [x \in Rows |-> IF x = <<1, 1>> THEN {Copy("hidden_from_customer", 1)}
                  ELSE IF x = <<2, 1>> THEN {Copy("published", 4)} ELSE {}]

Entry(source) == [entityType |-> "internal_ticket", source |-> source, q |-> "sync"]
MCEvents == <<Entry("SYNC"), Entry("ADMIN"), Entry("SYNC")>>
MCEntries == {Entry("SYNC")}

MCChoices ==
  [dashboard |-> {[key |-> "priority", value |-> 2], [key |-> "priority", value |-> 4]},
   tickets |-> {[key |-> "shared", value |-> FALSE], [key |-> "customer", value |-> zenith],
                [key |-> "sort", value |-> [field |-> "updated", dir |-> "asc"]]},
   audit |-> {[key |-> "source", value |-> "SYNC"], [key |-> "source", value |-> None]}]
MCLinks == {"published" :> FALSE, "shared" :> TRUE}
=============================================================================
