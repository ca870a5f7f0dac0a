--------------------------- MODULE ScheduledTasks ---------------------------
(***************************************************************************)
(* Reminders and scheduled tasks: the rows of scheduled_tasks and the      *)
(* schedules of APScheduler, two tables nothing keeps together in one      *)
(* transaction.  The bot's chat tools and its /cancel command write both,  *)
(* the dashboard's endpoints in the API process write both, and            *)
(* sync_tasks_from_db (scheduler/engine.py) makes the second follow the    *)
(* first every 30 seconds, from copies it has read.                        *)
(*                                                                         *)
(* An operation of two sessions or calls is two steps here.  What a        *)
(* recurring schedule does when it fires changes neither table.            *)
(***************************************************************************)
EXTENDS Naturals

CONSTANTS
  Tasks,       \* the apscheduler_ids that can ever be used
  ChatTasks,   \* those of the scheduler agent's tools; the dashboard makes the others
  Briefs,      \* those of create_morning_brief: one id per user, used again
  OneShots,    \* trigger_type "once"
  Chats,       \* coroutines of the bot that run a tool or /cancel
  Dashboards,  \* requests of the API process
  SyncJob,     \* _internal_sync_tasks_from_db
  MaxRequests, \* bound: operations begun
  MaxFaults    \* bound: crashes and failed calls

ASSUME BriefsAreChatTasks == Briefs \subseteq ChatTasks /\ ChatTasks \subseteq Tasks
ASSUME OneShotsAreTasks == OneShots \subseteq Tasks \ Briefs
ASSUME SyncJobIsNoTask == SyncJob \notin Tasks
ASSUME ProcessesAreApart == Chats \intersect Dashboards = {}
ASSUME BoundsAreNatural == MaxRequests \in Nat /\ MaxFaults \in Nat

Actors == Chats \union Dashboards
Schedules == Tasks \union {SyncJob}

VARIABLES
  row,       \* scheduled_tasks: "none", "active" or "paused" (is_active FALSE)
  schedules, \* ids in APScheduler's table
  issued,    \* ids given out so far: a uuid is not given out again
  due,       \* one-shot tasks whose time has passed
  op,        \* what each actor is in the middle of
  sync,      \* the pass of sync_tasks_from_db
  up,        \* whether the bot runs
  requests,  \* operations begun
  faults,    \* crashes and failed calls
  fired,     \* history: how often each one-shot task has fired, up to 2
  exposed    \* history: tasks whose deletion crossed a sync pass or a fault

tables == <<row, schedules, issued>>
vars == <<row, schedules, issued, due, op, sync, up, requests, faults, fired, exposed>>

RowStates == {"none", "active", "paused"}

\* creating: the schedule is added, the row is not; writing: the schedule is
\* removed, the row is not yet inactive; removing: the rows are done, the
\* schedules of ids are to go; auditing, committing: the dashboard's Sync button.
Phases == {"idle", "creating", "writing", "removing", "auditing", "committing"}
Ops == [pc : Phases, ids : SUBSET Schedules, dead : SUBSET Tasks]
Idle == [pc |-> "idle", ids |-> {}, dead |-> {}]

Become(a, pc, ids) == op' = [op EXCEPT ![a] = [pc |-> pc, ids |-> ids, dead |-> {}]]

\* A sync pass holds the rows it read, then what it still has to do to each id.
NoSync == [pc |-> "idle", seen |-> [t \in Tasks |-> "none"]]
Syncs == [pc : {"idle", "rows", "applying"},
          seen : [Tasks -> RowStates \union {"add", "remove"}]]

Request(a) ==
  /\ op[a].pc = "idle"
  /\ a \in Chats => up
  /\ requests < MaxRequests
  /\ requests' = requests + 1

Fault ==
  /\ faults < MaxFaults
  /\ faults' = faults + 1

Init ==
  /\ row = [t \in Tasks |-> "none"]
  /\ schedules = {SyncJob}
  /\ issued = {}
  /\ due = {}
  /\ op = [a \in Actors |-> Idle]
  /\ sync = NoSync
  /\ up = TRUE
  /\ requests = 0
  /\ faults = 0
  /\ fired = [t \in Tasks |-> 0]
  /\ exposed = {}

\* The pass under way has read t as active and may still schedule it.
MayBeAdded(t) == sync.seen[t] \in {"active", "add"}

-----------------------------------------------------------------------------
(* The scheduler agent's tools and /cancel                                 *)

\* _create_reminder_impl, _create_morning_brief_impl: the schedule first.  An id
\* that has one keeps it (APScheduler's default conflict policy).
AddSchedule(a, t) ==
  /\ Request(a)
  /\ t \in Briefs \/ t \notin issued
  /\ issued' = issued \union {t}
  /\ schedules' = schedules \union {t}
  /\ Become(a, "creating", {t})
  /\ UNCHANGED <<row, due, sync, up, faults, fired, exposed>>

\* Then the row; the unique apscheduler_id refuses a second one, and the schedule
\* stays.
InsertRow(a) ==
  /\ op[a].pc = "creating"
  /\ row' = [t \in Tasks |->
               IF t \in op[a].ids /\ row[t] = "none" THEN "active" ELSE row[t]]
  /\ Become(a, "idle", {})
  /\ UNCHANGED <<schedules, issued, due, sync, up, requests, faults, fired, exposed>>

\* _cancel_schedule_impl: remove_job first ...
CancelTool(a, t) ==
  /\ Request(a)
  /\ t \in issued
  /\ schedules' = schedules \ {t}
  /\ Become(a, "writing", {t})
  /\ UNCHANGED <<row, issued, due, sync, up, faults, fired, exposed>>

\* (remove_job swallows a failure)
CancelToolMisses(a, t) ==
  /\ Request(a)
  /\ Fault
  /\ t \in issued
  /\ Become(a, "writing", {t})
  /\ UNCHANGED <<tables, due, sync, up, fired, exposed>>

Deactivated(ids) ==
  [t \in Tasks |-> IF t \in ids /\ row[t] = "active" THEN "paused" ELSE row[t]]

\* ... then the UPDATE, which touches no row where there is none.
Deactivate(a) ==
  /\ op[a].pc = "writing"
  /\ row' = Deactivated(op[a].ids)
  /\ Become(a, "idle", {})
  /\ UNCHANGED <<schedules, issued, due, sync, up, requests, faults, fired, exposed>>

\* cmd_cancel: the same two writes the other way round.
CancelCommand(a, t) ==
  /\ Request(a)
  /\ t \in issued
  /\ row' = Deactivated({t})
  /\ Become(a, "removing", {t})
  /\ UNCHANGED <<schedules, issued, due, sync, up, faults, fired, exposed>>

-----------------------------------------------------------------------------
(* The dashboard                                                           *)

\* Rows only, for the sync to pick up.
CreateRows(a, ts) ==
  /\ Request(a)
  /\ ts \intersect issued = {}
  /\ issued' = issued \union ts
  /\ row' = [t \in Tasks |-> IF t \in ts THEN "active" ELSE row[t]]
  /\ UNCHANGED <<schedules, due, op, sync, up, faults, fired, exposed>>

\* setup_org_project_endpoint: those of a plan's tasks that have a schedule, in one
\* commit.
ProjectTasks(a, ts) == ts # {} /\ CreateRows(a, ts)

\* test_cron_job, which makes a one-shot task, and test_interval_job.
TestTask(a, t) == CreateRows(a, {t})

Pause(a, t) ==
  /\ Request(a)
  /\ row[t] # "none"
  /\ row' = Deactivated({t})
  /\ Become(a, "removing", {t})
  /\ UNCHANGED <<schedules, issued, due, sync, up, faults, fired, exposed>>

Resume(a, t) ==
  /\ Request(a)
  /\ row[t] # "none"
  /\ row' = [row EXCEPT ![t] = "active"]
  /\ UNCHANGED <<schedules, issued, due, op, sync, up, faults, fired, exposed>>

\* A delete that leaves the schedule to the sync, as resume does.
DeleteRowOnly(a, t) ==
  /\ Request(a)
  /\ row[t] # "none"
  /\ row' = [row EXCEPT ![t] = "none"]
  /\ exposed' = IF MayBeAdded(t) THEN exposed \union {t} ELSE exposed
  /\ UNCHANGED <<schedules, issued, due, op, sync, up, faults, fired>>

\* delete_schedule: the row, then the schedule.
Delete(a, t) ==
  /\ Request(a)
  /\ row[t] # "none"
  /\ row' = [row EXCEPT ![t] = "none"]
  /\ Become(a, "removing", {t})
  /\ exposed' = IF MayBeAdded(t) THEN exposed \union {t} ELSE exposed
  /\ UNCHANGED <<schedules, issued, due, sync, up, faults, fired>>

\* On to the next id, or the end of the operation.
RemoveRest(a, ids) ==
  Become(a, IF ids = {} THEN "idle" ELSE "removing", ids)

\* _remove_apscheduler_job and remove_job, one id after the other.
RemoveSchedule(a, id) ==
  /\ op[a].pc = "removing"
  /\ id \in op[a].ids
  /\ schedules' = schedules \ {id}
  /\ RemoveRest(a, op[a].ids \ {id})
  /\ UNCHANGED <<row, issued, due, sync, up, requests, faults, fired, exposed>>

\* Both swallow a failure.
RemovalFails(a, id) ==
  /\ op[a].pc = "removing"
  /\ id \in op[a].ids
  /\ Fault
  /\ RemoveRest(a, op[a].ids \ {id})
  /\ exposed' = exposed \union ({id} \intersect Tasks)
  /\ UNCHANGED <<tables, due, sync, up, requests, fired>>

\* sync_schedules, the Sync button: what is scheduled is read first ...
AuditSchedules(a) ==
  /\ Request(a)
  /\ Become(a, "auditing", schedules)
  /\ UNCHANGED <<tables, due, sync, up, faults, fired, exposed>>

\* ... and read as empty when the query fails ...
AuditReadFails(a) ==
  /\ Request(a)
  /\ Fault
  /\ Become(a, "auditing", {})
  /\ UNCHANGED <<tables, due, sync, up, fired, exposed>>

\* One-shot tasks that are not scheduled, or were to fire in the past.
FiredOrStale(live) ==
  {t \in OneShots : row[t] # "none" /\ (t \notin live \/ t \in due)}

\* ... then the rows: stale one-shot schedules go at once, the rows to delete and
\* the schedules that have no row are noted ...
AuditRows(a) ==
  /\ op[a].pc = "auditing"
  /\ LET dead == FiredOrStale(op[a].ids)
         ghosts == {id \in op[a].ids : id \in Tasks => row[id] = "none"}
     IN  /\ schedules' = schedules \ (dead \intersect op[a].ids)
         /\ op' = [op EXCEPT ![a] = [pc |-> "committing", ids |-> ghosts, dead |-> dead]]
  /\ UNCHANGED <<row, issued, due, sync, up, requests, faults, fired, exposed>>

\* ... the rows are deleted, and what has no row is removed one by one, with the
\* internal jobs, which never have a row.
AuditCommit(a) ==
  /\ op[a].pc = "committing"
  /\ row' = [t \in Tasks |-> IF t \in op[a].dead THEN "none" ELSE row[t]]
  /\ exposed' = exposed \union
                  {t \in op[a].dead : t \in schedules \/ MayBeAdded(t)}
  /\ RemoveRest(a, op[a].ids)
  /\ UNCHANGED <<schedules, issued, due, sync, up, requests, faults, fired>>

-----------------------------------------------------------------------------
(* sync_tasks_from_db                                                      *)

SyncReadsRows ==
  /\ up
  /\ SyncJob \in schedules
  /\ sync.pc = "idle"
  /\ sync' = [pc |-> "rows", seen |-> row]
  /\ UNCHANGED <<tables, due, op, up, requests, faults, fired, exposed>>

\* A bug: the branch that puts active tasks back is missing.
OnlyRemoves(state, isLive) ==
  IF state = "paused" /\ isLive THEN "remove" ELSE "none"

\* What a row asks for, given whether its id is scheduled.
Wanted(state, isLive) ==
  CASE state = "active" /\ ~isLive -> "add"
    [] state = "paused" /\ isLive -> "remove"
    [] OTHER -> "none"

SyncReadsSchedules ==
  /\ sync.pc = "rows"
  /\ sync' = [pc |-> "applying",
              seen |-> [t \in Tasks |-> Wanted(sync.seen[t], t \in schedules)]]
  /\ UNCHANGED <<tables, due, op, up, requests, faults, fired, exposed>>

\* The chat's rows hold the trigger flat, the sync looks for it under the name of
\* the type: a recurring one then gets the defaults, a one-shot one is skipped.
Restorable(t) == t \notin OneShots \/ t \notin ChatTasks

SyncApplies(t) ==
  /\ sync.pc = "applying"
  /\ sync.seen[t] # "none"
  /\ schedules' = CASE sync.seen[t] = "remove" -> schedules \ {t}
                    [] sync.seen[t] = "add" /\ Restorable(t) -> schedules \union {t}
                    [] OTHER -> schedules
  /\ sync' = [sync EXCEPT !.seen[t] = "none"]
  /\ UNCHANGED <<row, issued, due, op, up, requests, faults, fired, exposed>>

SyncEnds ==
  /\ sync.pc = "applying"
  /\ sync.seen = NoSync.seen
  /\ sync' = NoSync
  /\ UNCHANGED <<tables, due, op, up, requests, faults, fired, exposed>>

\* A task that cannot be added or removed is reported and passed over.
SyncPassesOver(t) ==
  /\ sync.pc = "applying"
  /\ sync.seen[t] # "none"
  /\ Fault
  /\ sync' = [sync EXCEPT !.seen[t] = "none"]
  /\ UNCHANGED <<tables, due, op, up, requests, fired, exposed>>

\* The second read fails, the pass returns; if the first does, nothing has happened.
SyncFails ==
  /\ sync.pc = "rows"
  /\ Fault
  /\ sync' = NoSync
  /\ UNCHANGED <<tables, due, op, up, requests, fired, exposed>>

-----------------------------------------------------------------------------
(* Time, APScheduler and the processes                                     *)

TimeComes(t) ==
  /\ t \in issued \ due
  /\ due' = due \union {t}
  /\ UNCHANGED <<tables, op, sync, up, requests, faults, fired, exposed>>

\* A date trigger fires once, and its schedule leaves the table; the row is left.
Fire(t) ==
  /\ up
  /\ t \in schedules \intersect due
  /\ schedules' = schedules \ {t}
  /\ fired' = [fired EXCEPT ![t] = IF @ < 2 THEN @ + 1 ELSE 2]
  /\ UNCHANGED <<row, issued, due, op, sync, up, requests, faults, exposed>>

\* What an operation that stops half-way leaves behind.
Left(a) == op[a].ids \intersect Tasks

\* A call of an operation raises, or the API process ends.
Lose(a) ==
  /\ op[a].pc # "idle"
  /\ Fault
  /\ Become(a, "idle", {})
  /\ exposed' = exposed \union Left(a)
  /\ UNCHANGED <<tables, due, sync, up, requests, fired>>

Crash ==
  /\ up
  /\ Fault
  /\ up' = FALSE
  /\ op' = [a \in Actors |-> IF a \in Chats THEN Idle ELSE op[a]]
  /\ sync' = NoSync
  /\ exposed' = exposed \union UNION {Left(a) : a \in Chats}
  /\ UNCHANGED <<tables, due, requests, fired>>

\* start_scheduler adds the internal jobs again.
Restart ==
  /\ ~up
  /\ up' = TRUE
  /\ schedules' = schedules \union {SyncJob}
  /\ UNCHANGED <<row, issued, due, op, sync, requests, faults, fired, exposed>>

-----------------------------------------------------------------------------
ChatRequest(a, t) ==
  \/ t \in ChatTasks /\ AddSchedule(a, t)
  \/ CancelTool(a, t) \/ CancelToolMisses(a, t)
  \/ CancelCommand(a, t)

DashboardRequest(a, t) ==
  \/ t \notin ChatTasks /\ TestTask(a, t)
  \/ Pause(a, t) \/ Resume(a, t) \/ Delete(a, t)

OpStep(a) ==
  \/ InsertRow(a) \/ Deactivate(a)
  \/ \E id \in Schedules : RemoveSchedule(a, id)
  \/ AuditRows(a) \/ AuditCommit(a)

SyncStep ==
  \/ SyncReadsRows \/ SyncReadsSchedules
  \/ \E t \in Tasks : SyncApplies(t)
  \/ SyncEnds

Next ==
  \/ \E a \in Chats, t \in Tasks : ChatRequest(a, t)
  \/ \E a \in Dashboards, t \in Tasks : DashboardRequest(a, t)
  \/ \E a \in Dashboards, ts \in SUBSET (Tasks \ ChatTasks) : ProjectTasks(a, ts)
  \/ \E a \in Dashboards : AuditSchedules(a) \/ AuditReadFails(a)
  \/ \E a \in Actors : OpStep(a) \/ Lose(a)
  \/ \E a \in Actors, id \in Schedules : RemovalFails(a, id)
  \/ SyncStep
  \/ \E t \in Tasks : SyncPassesOver(t)
  \/ SyncFails
  \/ \E t \in OneShots : TimeComes(t) \/ Fire(t)
  \/ Crash \/ Restart

Spec == Init /\ [][Next]_vars

\* APScheduler runs the sync job while it is scheduled and one pass at a time,
\* coroutines go on, and the container is restarted.  Nothing is assumed of the
\* user, of the dashboard or of time.
Fairness ==
  /\ WF_vars(SyncStep)
  /\ \A a \in Actors : WF_vars(OpStep(a))
  /\ WF_vars(Restart)

FairSpec == Spec /\ Fairness

-----------------------------------------------------------------------------
(* Properties                                                              *)

\* Nothing refers to an id before it is given out.
OnlyIssued ==
  \A t \in Tasks \ issued :
    /\ row[t] = "none"
    /\ t \notin schedules
    /\ sync.seen[t] = "none"
    /\ \A a \in Actors : t \notin op[a].ids

\* Type invariant; ids are used as they were given out, and an operation that has
\* nothing left to remove is over.
TypeOK ==
  /\ row \in [Tasks -> RowStates]
  /\ schedules \subseteq Schedules
  /\ issued \subseteq Tasks
  /\ due \subseteq Tasks
  /\ op \in [Actors -> Ops]
  /\ sync \in Syncs
  /\ up \in BOOLEAN
  /\ requests \in 0 .. MaxRequests
  /\ faults \in 0 .. MaxFaults
  /\ fired \in [Tasks -> 0 .. 2]
  /\ exposed \subseteq Tasks
  /\ OnlyIssued
  /\ \A a \in Actors : op[a].pc = "removing" => op[a].ids # {}

\* A schedule without a row fires for ever and no list shows it.  There is none,
\* but while the operation that makes or deletes the row is under way, and for
\* tasks whose deletion crossed a sync pass that had read them or a fault.
NoGhosts ==
  \A t \in schedules \intersect Tasks :
    row[t] = "none" =>
      \/ \E a \in Actors : op[a].pc \in {"creating", "removing"} /\ t \in op[a].ids
      \/ t \in exposed

\* A task that is paused or cancelled stops firing, whatever pass, tool or request
\* was half-way when it was paused, unless it is resumed or deleted or the Sync
\* button has removed the sync job.
PausedIsUnscheduled ==
  \A t \in Tasks :
    row[t] = "paused" ~> (t \notin schedules \/ row[t] # "paused" \/ SyncJob \notin schedules)

\* An active task is scheduled, however its schedule was lost, with the same
\* exceptions; not so a one-shot task of the chat, which the sync cannot read.
ActiveIsScheduled ==
  \A t \in Tasks :
    Restorable(t) =>
      (row[t] = "active" ~> (t \in schedules \/ row[t] # "active" \/ SyncJob \notin schedules))

\* What is scheduled follows the rows, in both directions.
SchedulesFollowRows == PausedIsUnscheduled /\ ActiveIsScheduled

\* api.py test_cron_job, "A reminder will be sent to user ... at the scheduled
\* time": a one-shot task fires once.
OneShotFiresOnce == \A t \in OneShots : fired[t] <= 1
=============================================================================
