------------------------------- MODULE UpkeepMC -------------------------------
(***************************************************************************)
(* What runs on the scheduler without the user: the schedules of tasks     *)
(* and the repair queue's workers.  The parts share no variable: a         *)
(* behaviour is one of one part.                                           *)
(***************************************************************************)
EXTENDS ScheduledTasks, RepairQueue

VARIABLE part

upkeepVars == <<vars, queueVars, part>>

UpkeepInit ==
  /\ part \in {"tasks", "queue"}
  /\ Init /\ QueueInit

\* Only part p moves.
Only(p) ==
  /\ part = p /\ UNCHANGED part
  /\ p # "tasks" => UNCHANGED vars
  /\ p # "queue" => UNCHANGED queueVars

UpkeepNext ==
  \/ Only("tasks") /\ Next
  \/ Only("queue") /\ QueueNext

UpkeepSpec == UpkeepInit /\ [][UpkeepNext]_upkeepVars

\* The fairness of ScheduledTasks and of RepairQueue, each while its part moves.
FairUpkeepSpec ==
  /\ UpkeepSpec
  /\ WF_vars(part = "tasks" /\ SyncStep)
  /\ \A a \in Actors : WF_vars(part = "tasks" /\ OpStep(a))
  /\ WF_vars(part = "tasks" /\ Restart)
  /\ \A w \in Workers : WF_queueVars(part = "queue" /\ Tick(w))

-----------------------------------------------------------------------------
(* Values of the constants                                                 *)

\* Ids of tasks, by where they come from, and processes.
CONSTANTS brief, once, test, c1, c2, d1, w1, w2
===============================================================================
