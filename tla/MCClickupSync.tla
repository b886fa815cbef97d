--------------------------- MODULE MCClickupSync ---------------------------
(* Constants of the ClickUp ingestion runs: two or three tasks in one list *)
(* and two business units, one run at a time or a second one by hand.      *)
EXTENDS ClickupSync, TLC

CronOnly == {"cron"}

MCTasks == {1, 2}
ThreeTasks == {1, 2, 3}
MCListOf == [t \in MCTasks |-> 1]
ThreeListOf == [t \in ThreeTasks |-> 1]

MCBuBySlug == [acmeA |-> "A", acmeB |-> "B"]
MCPriorities == {"P1", "P2", "P3", "P4"}
MCStatusMap == [open |-> "OPEN", done |-> "CLOSED"]

Content(customers, status, priorities) ==
  [customId |-> TRUE, created |-> TRUE, customers |-> customers,
   priorities |-> priorities, status |-> status, text |-> "x"]

Single == Content({"acmeA"}, "open", {"P1"})
Shared == Content({"acmeA", "acmeB", "nobody"}, "done", {"P1", "other"})
Ambiguous == Content({"acmeA"}, "open", {"P1", "P2"})

\* Task 1 goes between one business unit and open, and shared and closed;
\* task 2 between resolvable and quarantined (two SLA priorities).
MCContentsOf == (1 :> {Single, Shared}) @@ (2 :> {Single, Ambiguous})

\* Of two overlapping runs' tasks, the second is only ever created.
OverlapContentsOf == (1 :> {Single, Shared}) @@ (2 :> {Single})

\* Which of the runs is the scheduler's matters to fairness only.
RunnerSymmetry == Permutations(Runners)

ThreeContentsOf == [t \in ThreeTasks |-> {Single, Shared}]
=============================================================================
