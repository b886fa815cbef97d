--------------------------- MODULE MCOutlookSync ---------------------------
(* Constants of the Outlook runs: three messages and two tickets, scanned  *)
(* by the scheduler and by a run started by hand.                          *)
EXTENDS OutlookSync

MCMails == 1 .. 2
ThreeMails == 1 .. 3
MCRefChoices ==
  [m \in MCMails |-> CASE m = 1 -> {{"a"}}
                       [] m = 2 -> {{"a"}, {"a", "b"}}]
ThreeRefChoices ==
  [m \in ThreeMails |-> CASE m = 1 -> {{"a"}}
                          [] m = 2 -> {{"a"}, {"a", "b"}}
                          [] m = 3 -> {{}}]
MCTickets == {"a", "b"}
MCCreatedAt == [t \in MCTickets |-> IF t = "a" THEN 1 ELSE 2]
MCRunners == {"cron", "cli"}
MCMaxPages == [r \in MCRunners |-> IF r = "cron" THEN 2 ELSE 1]
CronOnly == {"cron"}
CronMaxPages == [r \in CronOnly |-> 2]
ThreePages == [r \in CronOnly |-> 3]
=============================================================================
