------------------------------ MODULE SchedulerMC ------------------------------
(***************************************************************************)
(* What APScheduler runs and records: the ticks of background jobs, and    *)
(* the health records its events are counted in.  The halves share no      *)
(* variable: a behaviour is one of one half.                               *)
(***************************************************************************)
EXTENDS BackgroundJobs, SchedulerHealth

VARIABLE half

schedulerVars == <<vars, healthVars, half>>

SchedulerInit ==
  /\ half \in {"jobs", "health"}
  /\ Init /\ HealthInit

\* Only half p moves.
OnlyHalf(p) ==
  /\ half = p /\ UNCHANGED half
  /\ p # "jobs" => UNCHANGED vars
  /\ p # "health" => UNCHANGED healthVars

SchedulerNext ==
  \/ OnlyHalf("jobs") /\ Next
  \/ OnlyHalf("health") /\ HealthNext

\* The fairness of BackgroundJobs, while its half moves.
FairSchedulerSpec ==
  /\ SchedulerInit /\ [][SchedulerNext]_schedulerVars
  /\ \A j \in Jobs : WF_vars(half = "jobs" /\ CreateStep(j))
  /\ \A t \in Ticks :
       /\ WF_vars(half = "jobs" /\ Fire(t))
       /\ WF_vars(half = "jobs" /\ TickStep(t))
  /\ WF_vars(half = "jobs" /\ Restart)

\* Type invariant of both halves.
SchedulerTypeOK == TypeOK /\ HealthTypeOK
===============================================================================
