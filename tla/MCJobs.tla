--------------------------------- MODULE MCJobs ---------------------------------
(* A small instance of Jobs for TLC.                                       *)
EXTENDS Jobs

MCTickets == 1 .. 2
MCRunners == {"c1", "c2", "hand"}
MCCron == {"c1", "c2"}
MCSteps == [c1 |-> {"sla"}, c2 |-> {"sync"}, hand |-> {"sla"}]

\* Days of three units, of which the second and third are worked, and a weekend;
\* the second Monday is a holiday.  Ticket 1 arrives on Saturday, so that its due
\* time lies beyond the weekend and the holiday; ticket 2 is shared.
Office == [offset |-> 1, holidays |-> {7},
           windows |-> [d \in 1 .. 5 |-> [day |-> d, start |-> 1, end |-> 3]]]
MCCreatedAt == <<14, 23>>
MCOrigin == <<[account |-> "a1", bu |-> "b1"], [account |-> None, bu |-> None]>>

MCFirstPriority == <<"P2", "P2">>
MCPriorities == {"P2", "P4"}
Policy(account, pri, cal, response, resolution) ==
  [account |-> account, bu |-> None, priority |-> pri, calendar |-> cal,
   response |-> response, resolution |-> resolution, atRisk |-> 50]
MCPolicies == {Policy(None, "P2", AllHours, 1, 4), Policy("a1", "P2", Office, 1, 2)}
MCDelays == {1}
MCZone == -1

\* The theorem about due times is about this instance.
ASSUME MCAttainable == Attainable /\ UtcOrWest

\* Both directions of the calendar arithmetic against the instants counted one by
\* one, from every unit of a fortnight: before, in and after a window, on weekends
\* and on the holiday.
ASSUME MCArithmetic ==
  \A s \in 0 .. 14 * DayLen, n \in 1 .. 12 :
    LET e == AddBusinessMinutes(s, n, Office) IN
    /\ WorkedMinutes(s, e, Office) = n
    /\ Working(e - 1, Office)
    /\ \A m \in s .. e + DayLen :
         BusinessMinutesBetween(s, m, Office) = WorkedMinutes(s, m, Office)
=============================================================================
