----------------------------- MODULE MCProjection -----------------------------
(* Small instances of Projection for TLC.                                  *)
EXTENDS Projection

MCTickets == 1 .. 3
MCBUs == {"b1", "b2"}

\* Ticket 1 is shared, narrowed and cancelled; the others are plain.
MCVersions == <<
  {[text |-> "x", concealed |-> FALSE, members |-> {"b1", "b2"}],
   [text |-> "y", concealed |-> FALSE, members |-> {"b1"}],
   [text |-> "y", concealed |-> TRUE, members |-> {"b2"}]},
  {[text |-> "x", concealed |-> FALSE, members |-> {"b2"}]},
  {[text |-> "x", concealed |-> FALSE, members |-> {"b2"}]}>>

TwoTickets == 1 .. 2
TwoVersions == <<MCVersions[1], MCVersions[2]>>

MCAdminStates == {"hidden_from_customer", "published"}
=============================================================================
