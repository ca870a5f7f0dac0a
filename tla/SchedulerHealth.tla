--------------------------- MODULE SchedulerHealth ---------------------------
(***************************************************************************)
(* What the scheduler records of its own jobs: the listener and snapshot   *)
(* of scheduler/observability.py, the job bodies whose outcome it sees     *)
(* (scheduler/jobs.py, scheduler/backup.py, scheduler/maintenance.py) and  *)
(* the dashboard's two health views (orchestration/api.py).                *)
(*                                                                         *)
(* One schedule is followed.  Reading the record, changing it and writing  *)
(* it back are two awaits of Redis, and the listener runs once for each    *)
(* release and subscription, so listeners overlap.                         *)
(***************************************************************************)
EXTENDS Naturals, FiniteSets

CONSTANTS
  Bodies,         \* the job functions a schedule may call
  Propagating,    \* those that let an exception out to the scheduler
  AlertAt,        \* consecutive failures that make the snapshot degraded (3)
  ReleaseLimit,   \* bound: runs of the schedule
  Users,          \* users with a google_email key
  HealthFaults    \* bound: failed Redis calls, expiries, restarts

ASSUME PropagatingAreBodies == Propagating \subseteq Bodies
ASSUME HealthBounds == AlertAt \in Nat /\ ReleaseLimit \in Nat /\ HealthFaults \in Nat

VARIABLES
  health,        \* the record scheduler_health:{id}
  listening,     \* listener calls under way, by number of the release
  subscriptions, \* listeners subscribed to the scheduler of this process
  released,      \* history: runs so far
  wentWrong,     \* history: runs whose body met a failure or that were missed
  streak,        \* history: failures in a row, as released to the scheduler
  longest,       \* history: the most there ever were
  blurred,       \* history: a success met another call, or was not written,
                 \* and no success has been written on its own since
  nudged,        \* users asked to connect their account again
  healthFaults

outcomes == <<released, wentWrong, streak, longest>>
healthVars == <<health, listening, subscriptions, outcomes, blurred, nudged, healthFaults>>

NoRecord == [runs |-> 0, failures |-> 0, consecutive |-> 0]
Counts == 0..ReleaseLimit
Records == [runs : Counts, failures : Counts, consecutive : Counts]

HealthTypeOK ==
  /\ health \in Records
  /\ listening \subseteq [run : 1..ReleaseLimit, ok : BOOLEAN,
                          at : {"called", "read"}, record : Records]
  /\ subscriptions \in {0, 1}
  /\ released \in Counts /\ wentWrong \in Counts
  /\ streak \in Counts /\ longest \in Counts /\ blurred \in BOOLEAN
  /\ nudged \subseteq Users
  /\ healthFaults \in 0..HealthFaults

HealthInit ==
  /\ health = NoRecord /\ listening = {} /\ subscriptions = 0
  /\ released = 0 /\ wentWrong = 0 /\ nudged = {} /\ healthFaults = 0
  /\ streak = 0 /\ longest = 0 /\ blurred = FALSE

HealthFault == healthFaults < HealthFaults /\ healthFaults' = healthFaults + 1

\* start_scheduler subscribes once for the scheduler it has just made.
StartListening ==
  /\ subscriptions = 0
  /\ subscriptions' = 1
  /\ UNCHANGED <<health, listening, outcomes, blurred, nudged, healthFaults>>

\* The scheduler sees a failure only when the body lets it out.
Succeeds(body, failed) == ~(failed /\ body \in Propagating)

Called(ok) ==
  {[run |-> released + s, ok |-> ok, at |-> "called", record |-> NoRecord] :
     s \in 1..subscriptions}

Succeeding == {l \in listening : l.ok}

\* A run has ended: its outcome is told to the listener, whose call meets
\* those under way.
Told(ok) ==
  /\ released < ReleaseLimit /\ subscriptions > 0
  /\ released' = released + 1
  /\ listening' = listening \union Called(ok)
  /\ streak' = IF ok THEN 0 ELSE streak + 1
  /\ longest' = IF streak' > longest THEN streak' ELSE longest
  /\ blurred' = (blurred \/ Succeeding # {} \/ (ok /\ listening # {}))
  /\ UNCHANGED <<health, subscriptions, nudged, healthFaults>>

JobReleased(body, failed) ==
  /\ Told(Succeeds(body, failed))
  /\ wentWrong' = IF failed THEN wentWrong + 1 ELSE wentWrong

\* The deadline to start passed: no body ran.
JobMissed == Told(FALSE) /\ wentWrong' = wentWrong + 1

\* _read_record: a failed read falls through to a fresh record.
ReadRecord(l) ==
  /\ l \in listening /\ l.at = "called"
  /\ \/ /\ listening' = (listening \ {l}) \union {[l EXCEPT !.at = "read", !.record = health]}
        /\ UNCHANGED healthFaults
     \/ /\ HealthFault
        /\ listening' = (listening \ {l}) \union {[l EXCEPT !.at = "read"]}
  /\ UNCHANGED <<health, subscriptions, outcomes, blurred, nudged>>

\* An update that forgets to start the count anew after a success.
AppliedWithoutReset(record, ok) ==
  [runs        |-> record.runs + 1,
   failures    |-> IF ok THEN record.failures ELSE record.failures + 1,
   consecutive |-> IF ok THEN record.consecutive ELSE record.consecutive + 1]

\* _apply_event.
Applied(record, ok) ==
  [runs        |-> record.runs + 1,
   failures    |-> IF ok THEN record.failures ELSE record.failures + 1,
   consecutive |-> IF ok THEN 0 ELSE record.consecutive + 1]

PersistRecord(l) ==
  /\ l \in listening /\ l.at = "read"
  /\ listening' = listening \ {l}
  /\ \/ /\ health' = Applied(l.record, l.ok) /\ UNCHANGED healthFaults
        /\ blurred' = (blurred /\ ~(l.ok /\ listening = {l}))
     \/ /\ HealthFault /\ UNCHANGED health
        /\ blurred' = (blurred \/ l.ok)
  /\ UNCHANGED <<subscriptions, outcomes, nudged>>

\* Thirty days without a run.
RecordExpires ==
  /\ health # NoRecord /\ HealthFault
  /\ health' = NoRecord
  /\ UNCHANGED <<listening, subscriptions, outcomes, blurred, nudged>>

SchedulerEnds ==
  /\ subscriptions = 1 /\ HealthFault
  /\ listening' = {} /\ subscriptions' = 0
  /\ blurred' = (blurred \/ Succeeding # {})
  /\ UNCHANGED <<health, outcomes, nudged>>

\* weekly_oauth_heartbeat: the call names no account, so what it answers is
\* not an answer about this user.
Heartbeat(user, answer) ==
  /\ nudged' = IF answer = "auth_failed" THEN nudged \union {user} ELSE nudged
  /\ UNCHANGED <<health, listening, subscriptions, outcomes, blurred, healthFaults>>

HealthNext ==
  \/ StartListening \/ JobMissed \/ RecordExpires \/ SchedulerEnds
  \/ \E body \in Bodies, failed \in BOOLEAN : JobReleased(body, failed)
  \/ \E l \in listening : ReadRecord(l) \/ PersistRecord(l)
  \/ \E user \in Users, answer \in {"ok", "auth_failed", "transient"} :
       Heartbeat(user, answer)

HealthSpec == HealthInit /\ [][HealthNext]_healthVars

\* get_health_snapshot.
Snapshot ==
  IF health.runs = 0 THEN "unknown"
  ELSE IF health.consecutive >= AlertAt THEN "degraded" ELSE "healthy"

(***************************************************************************)
(* Properties.                                                             *)
(***************************************************************************)

\* Whatever listeners overlap, writes fail or records expire, every run and
\* every failure the record counts is a different real one; and the snapshot is
\* degraded only when AlertAt runs have failed in a row ("any job has
\* consecutive_failures >= 3").  The exception is a count whose reset raced or
\* was lost: a success whose listener call overlapped another one, or whose
\* record was not written, until a later success is written on its own.
NoFalseAlarm ==
  /\ health.runs <= released
  /\ health.consecutive <= health.failures /\ health.failures <= wentWrong
  /\ Snapshot = "degraded" => longest >= AlertAt \/ blurred
=============================================================================
