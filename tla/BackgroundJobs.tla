--------------------------- MODULE BackgroundJobs ---------------------------
(***************************************************************************)
(* Autonomous background jobs: src/src/agents/background_job.py, the block *)
(* of run_orchestrator that creates them, the dashboard's cancel endpoint  *)
(* and the start-up recovery of scheduler/maintenance.py.                  *)
(*                                                                         *)
(* Shared state is the background_jobs table and APScheduler's persistent  *)
(* schedules.  It is used by the bot process (ticks, creation, recovery)   *)
(* and by the API process (cancel); every session of the code is split at  *)
(* its awaits, so a tick reads the row in one step and writes it in        *)
(* another.  Ticks of one job may overlap: the scheduler's job only starts *)
(* a coroutine and returns.                                                *)
(***************************************************************************)
EXTENDS Naturals

CONSTANTS
  Jobs,           \* rows that can ever be created
  Slots,          \* ticks of one job that can be in flight together
  MaxIterations,  \* max_iterations of a row (48)
  MaxFaults,      \* _MAX_CONSECUTIVE_FAILURES (3)
  MaxOutages,     \* bound: crashes of the bot, failed database or scheduler calls, and
                  \* schedules purged by the dashboard
  User            \* the maker of a job the user asked for

ASSUME MaxIterationsIsPositive == MaxIterations \in Nat \ {0}
ASSUME MaxFaultsIsPositive == MaxFaults \in Nat \ {0}
ASSUME MaxOutagesIsNatural == MaxOutages \in Nat
ASSUME UserIsNoTick == User \notin Jobs \X Slots

Ticks == Jobs \X Slots
JobOf(t) == t[1]

VARIABLES
  status,      \* the column of each row, "absent" before the insert
  iterations,  \* iterations_run of each row
  marks,       \* number of "[tick " marks in the result column of each row
  schedules,   \* jobs whose APScheduler schedule exists
  making,      \* how far create_background_job has come for each row
  maker,       \* who asked for each row: User or the tick whose turn did
  tick,        \* the coroutines of _tick_background_job
  cancelling,  \* jobs the API has read as running and not yet written
  up,          \* whether the bot process runs
  outages,     \* crashes, failed calls and purges so far
  unscheduled, \* history: rows whose registration failed without being undone, or whose
               \* schedule was purged, since the start of the bot
  hist         \* history: turns begun and turns that raised

rows == <<status, iterations, marks>>
vars == <<status, iterations, marks, schedules, making, maker, tick,
          cancelling, up, outages, unscheduled, hist>>

Terminal == {"done", "failed", "cancelled"}
Statuses == {"absent", "running"} \union Terminal

\* What one agent turn gives the tick: a reply that starts with DONE:, any
\* other reply, or an exception.
Outcomes == {"done", "observed", "raised"}

TickPoints == {"idle", "fired", "charging", "agent", "creating", "model",
               "settling", "recording", "removing"}
TickStates == [pc : TickPoints, seen : Nat, outcome : Outcomes]
IdleTick == [pc |-> "idle", seen |-> 0, outcome |-> "observed"]

Become(t, pc, seen, outcome) ==
  tick' = [tick EXCEPT ![t] = [pc |-> pc, seen |-> seen, outcome |-> outcome]]
Goto(t, pc) == Become(t, pc, tick[t].seen, tick[t].outcome)
End(t) == Become(t, IdleTick.pc, IdleTick.seen, IdleTick.outcome)

\* The history of a job's turns.
Note(j, turns, raised) ==
  hist' = [hist EXCEPT ![j] = [turns |-> turns, raised |-> raised]]
NoteTurn(j) == Note(j, hist[j].turns + 1, hist[j].raised)
NoteRaise(j) == Note(j, hist[j].turns, hist[j].raised + 1)

Init ==
  /\ status = [j \in Jobs |-> "absent"]
  /\ iterations = [j \in Jobs |-> 0]
  /\ marks = [j \in Jobs |-> 0]
  /\ schedules = {}
  /\ making = [j \in Jobs |-> "no"]
  /\ maker = [j \in Jobs |-> User]
  /\ tick = [t \in Ticks |-> IdleTick]
  /\ cancelling = {}
  /\ up = TRUE
  /\ outages = 0
  /\ unscheduled = {}
  /\ hist = [j \in Jobs |-> [turns |-> 0, raised |-> 0]]

-----------------------------------------------------------------------------
(* create_background_job                                                   *)

\* What the unique apscheduler_id rules out: a row taken over by a second job.
InsertOverRow(j, by) ==
  /\ status' = [status EXCEPT ![j] = "running"]
  /\ making' = [making EXCEPT ![j] = "inserted"]
  /\ maker' = [maker EXCEPT ![j] = by]

\* The first session: insert the row as running and commit it.
InsertRow(j, by) ==
  /\ status[j] = "absent"
  /\ status' = [status EXCEPT ![j] = "running"]
  /\ making' = [making EXCEPT ![j] = "inserted"]
  /\ maker' = [maker EXCEPT ![j] = by]

\* The user's message names a goal to monitor.
UserAsks(j) ==
  /\ up
  /\ InsertRow(j, User)
  /\ UNCHANGED <<iterations, marks, schedules, tick, cancelling, up, outages,
                 unscheduled, hist>>

\* A tick's prompt quotes the goal, which holds the phrase that made the user's
\* message a monitoring request, so the turn is one too.
TurnAsks(t, j) ==
  /\ tick[t].pc = "agent"
  /\ InsertRow(j, t)
  /\ Goto(t, "creating")
  /\ UNCHANGED <<iterations, marks, schedules, cancelling, up, outages,
                 unscheduled, hist>>

\* What creation gives the turn that asked for it: the fixed reply, or the
\* exception run_orchestrator swallows before it goes on to the model.
MakerGoesOn(j, pc) ==
  IF maker[j] \in Ticks
    THEN Become(maker[j], pc, 0, "observed")
    ELSE UNCHANGED tick

RegisterTick(j) ==
  /\ making[j] = "inserted"
  /\ schedules' = schedules \union {j}
  /\ making' = [making EXCEPT ![j] = "no"]
  /\ MakerGoesOn(j, "settling")
  /\ UNCHANGED <<rows, maker, cancelling, up, outages, unscheduled, hist>>

\* add_interval_job raises: a second session marks the row failed ...
RegistrationFails(j) ==
  /\ making[j] = "inserted"
  /\ outages < MaxOutages
  /\ outages' = outages + 1
  /\ making' = [making EXCEPT ![j] = "rejected"]
  /\ UNCHANGED <<rows, schedules, maker, tick, cancelling, up, unscheduled, hist>>

MarkRejected(j) ==
  /\ making[j] = "rejected"
  /\ status' = [status EXCEPT ![j] = "failed"]
  /\ marks' = [marks EXCEPT ![j] = 0]
  /\ making' = [making EXCEPT ![j] = "no"]
  /\ MakerGoesOn(j, "model")
  /\ UNCHANGED <<iterations, schedules, maker, cancelling, up, outages,
                 unscheduled, hist>>

\* ... unless that session fails as well.
MarkRejectedFails(j) ==
  /\ making[j] = "rejected"
  /\ outages < MaxOutages
  /\ outages' = outages + 1
  /\ unscheduled' = unscheduled \union {j}
  /\ making' = [making EXCEPT ![j] = "no"]
  /\ MakerGoesOn(j, "model")
  /\ UNCHANGED <<rows, schedules, maker, cancelling, up, hist>>

-----------------------------------------------------------------------------
(* _tick_background_job                                                    *)

\* _tick_background_job_sync: APScheduler fires the schedule, the wrapper
\* starts the coroutine.  A wrapper that raises loses the tick: a stutter.
Fire(t) ==
  /\ up
  /\ JobOf(t) \in schedules
  /\ tick[t].pc = "idle"
  /\ Goto(t, "fired")
  /\ UNCHANGED <<rows, schedules, making, maker, cancelling, up, outages,
                 unscheduled, hist>>

\* First session, the read: a job that is not running ends the tick, and the
\* schedule is left as it is.
LoadStopped(t) ==
  /\ tick[t].pc = "fired"
  /\ status[JobOf(t)] # "running"
  /\ End(t)
  /\ UNCHANGED <<rows, schedules, making, maker, cancelling, up, outages,
                 unscheduled, hist>>

LoadRunning(t) ==
  /\ tick[t].pc = "fired"
  /\ status[JobOf(t)] = "running"
  /\ Become(t, "charging", iterations[JobOf(t)], "observed")
  /\ UNCHANGED <<rows, schedules, making, maker, cancelling, up, outages,
                 unscheduled, hist>>

\* A job ends: status and result are written, whatever they have become, and
\* the schedule is removed after the commit.
FinishAndForget(t, verdict) ==
  /\ status' = [status EXCEPT ![JobOf(t)] = verdict]
  /\ marks' = [marks EXCEPT ![JobOf(t)] = 0]
  /\ End(t)
  /\ UNCHANGED <<iterations, schedules, making, maker, cancelling, up, outages,
                 unscheduled, hist>>

Finish(t, verdict) ==
  /\ status' = [status EXCEPT ![JobOf(t)] = verdict]
  /\ marks' = [marks EXCEPT ![JobOf(t)] = 0]
  /\ Goto(t, "removing")
  /\ UNCHANGED <<iterations, schedules, making, maker, cancelling, up, outages,
                 unscheduled, hist>>

AtCapLate(n) == n > MaxIterations
AtCap(n) == n >= MaxIterations

\* First session, the write: the iteration cap ends the job ...
CapReached(t) ==
  /\ tick[t].pc = "charging"
  /\ AtCap(tick[t].seen)
  /\ Finish(t, "done")

\* ... or the turn is charged, from the value read, and begins.
Charge(t) ==
  /\ tick[t].pc = "charging"
  /\ ~AtCap(tick[t].seen)
  /\ iterations' = [iterations EXCEPT ![JobOf(t)] = tick[t].seen + 1]
  /\ Become(t, "agent", 0, "observed")
  /\ NoteTurn(JobOf(t))
  /\ UNCHANGED <<status, marks, schedules, making, maker, cancelling, up,
                 outages, unscheduled>>

\* run_orchestrator returns or raises, without creating a job.
TurnEnds(t, outcome) ==
  /\ tick[t].pc \in {"agent", "model"}
  /\ Become(t, "settling", 0, outcome)
  /\ IF outcome = "raised" THEN NoteRaise(JobOf(t)) ELSE UNCHANGED hist
  /\ UNCHANGED <<rows, schedules, making, maker, cancelling, up, outages, unscheduled>>

SettleObserved(t) ==
  /\ tick[t].pc = "settling"
  /\ tick[t].outcome = "observed"
  /\ End(t)
  /\ UNCHANGED <<rows, schedules, making, maker, cancelling, up, outages,
                 unscheduled, hist>>

\* Second session: nothing asks whether the job is still running.
SettleDone(t) ==
  /\ tick[t].pc = "settling"
  /\ tick[t].outcome = "done"
  /\ Finish(t, "done")

\* The except branch: count the marks, then fail the job or add a mark.
SettleRaised(t) ==
  /\ tick[t].pc = "settling"
  /\ tick[t].outcome = "raised"
  /\ Become(t, "recording", marks[JobOf(t)], "raised")
  /\ UNCHANGED <<rows, schedules, making, maker, cancelling, up, outages,
                 unscheduled, hist>>

TooManyFaultsEarly(faults) == faults + 1 >= MaxFaults
TooManyFaults(faults) == faults >= MaxFaults

GiveUp(t) ==
  /\ tick[t].pc = "recording"
  /\ TooManyFaults(tick[t].seen + 1)
  /\ Finish(t, "failed")

RecordFault(t) ==
  /\ tick[t].pc = "recording"
  /\ ~TooManyFaults(tick[t].seen + 1)
  /\ marks' = [marks EXCEPT ![JobOf(t)] = tick[t].seen + 1]
  /\ End(t)
  /\ UNCHANGED <<status, iterations, schedules, making, maker, cancelling, up,
                 outages, unscheduled, hist>>

\* _cancel_scheduler_job, after the commit.
RemoveSchedule(t) ==
  /\ tick[t].pc = "removing"
  /\ schedules' = schedules \ {JobOf(t)}
  /\ End(t)
  /\ UNCHANGED <<rows, making, maker, cancelling, up, outages, unscheduled, hist>>

\* A database or scheduler call of the tick fails.  Before the turn and in the
\* except branch the coroutine dies; after the turn the except branch takes
\* over; the removal of a schedule swallows the error.
CallFails(t) ==
  /\ tick[t].pc \in {"fired", "charging", "settling", "recording", "removing"}
  /\ outages < MaxOutages
  /\ outages' = outages + 1
  /\ IF tick[t].pc = "settling" /\ tick[t].outcome # "raised"
       THEN Become(t, "settling", 0, "raised") /\ NoteRaise(JobOf(t))
       ELSE End(t) /\ UNCHANGED hist
  /\ UNCHANGED <<rows, schedules, making, maker, cancelling, up, unscheduled>>

-----------------------------------------------------------------------------
(* The dashboard and the process                                           *)

\* cancel_background_job, in the API process: 400 unless the row is running.
CancelRead(j) ==
  /\ status[j] = "running"
  /\ j \notin cancelling
  /\ cancelling' = cancelling \union {j}
  /\ UNCHANGED <<rows, schedules, making, maker, tick, up, outages, unscheduled, hist>>

CancelWrite(j) ==
  /\ j \in cancelling
  /\ status' = [status EXCEPT ![j] = "cancelled"]
  /\ cancelling' = cancelling \ {j}
  /\ UNCHANGED <<iterations, marks, schedules, making, maker, tick, up, outages,
                 unscheduled, hist>>

\* sync_schedules, the dashboard's Sync button: every schedule without a row in
\* scheduled_tasks is a ghost job, and no background job has one.
Purge(j) ==
  /\ j \in schedules
  /\ outages < MaxOutages
  /\ outages' = outages + 1
  /\ schedules' = schedules \ {j}
  /\ unscheduled' = unscheduled \union {j}
  /\ UNCHANGED <<rows, making, maker, tick, cancelling, up, hist>>

\* The bot stops: its coroutines are gone, rows and schedules stay.
Crash ==
  /\ up
  /\ outages < MaxOutages
  /\ up' = FALSE
  /\ outages' = outages + 1
  /\ tick' = [t \in Ticks |-> IdleTick]
  /\ making' = [j \in Jobs |-> "no"]
  /\ UNCHANGED <<rows, schedules, maker, cancelling, unscheduled, hist>>

\* Without recovery a row whose schedule is gone is found by nobody.
NoRecovery == {}
Orphaned == {j \in Jobs \ schedules : status[j] = "running"}

\* start_scheduler: restore_running_background_jobs attaches a schedule to every
\* running row that has none, before anything fires.  An add_interval_job that
\* fails is collected as an error and the row stays as it is.
Restart ==
  /\ ~up
  /\ up' = TRUE
  /\ \E failing \in SUBSET Orphaned :
       /\ failing # {} => outages < MaxOutages
       /\ outages' = IF failing = {} THEN outages ELSE outages + 1
       /\ schedules' = schedules \union (Orphaned \ failing)
       /\ unscheduled' = failing
  /\ UNCHANGED <<rows, making, maker, tick, cancelling, hist>>

-----------------------------------------------------------------------------
CreateStep(j) == RegisterTick(j) \/ MarkRejected(j)

TickStep(t) ==
  \/ LoadStopped(t) \/ LoadRunning(t)
  \/ CapReached(t) \/ Charge(t)
  \/ \E outcome \in Outcomes : TurnEnds(t, outcome)
  \/ SettleObserved(t) \/ SettleDone(t) \/ SettleRaised(t)
  \/ GiveUp(t) \/ RecordFault(t)
  \/ RemoveSchedule(t)

Next ==
  \/ \E j \in Jobs : UserAsks(j) \/ CreateStep(j)
  \/ \E j \in Jobs : RegistrationFails(j) \/ MarkRejectedFails(j)
  \/ \E t \in Ticks, j \in Jobs : TurnAsks(t, j)
  \/ \E t \in Ticks : Fire(t) \/ TickStep(t) \/ CallFails(t)
  \/ \E j \in Jobs : CancelRead(j) \/ CancelWrite(j) \/ Purge(j)
  \/ Crash \/ Restart

Spec == Init /\ [][Next]_vars

\* APScheduler keeps firing a schedule, the event loop runs every coroutine on,
\* an agent turn ends, and the container is restarted.  Nothing is assumed of
\* the user, of the dashboard, or of the outcome of a turn.
Fairness ==
  /\ \A j \in Jobs : WF_vars(CreateStep(j))
  /\ \A t \in Ticks : WF_vars(Fire(t)) /\ WF_vars(TickStep(t))
  /\ WF_vars(Restart)

FairSpec == Spec /\ Fairness

-----------------------------------------------------------------------------
(* Properties                                                              *)

\* Type invariant; iterations_run never passes the cap of the row.
TypeOK ==
  /\ status \in [Jobs -> Statuses]
  /\ iterations \in [Jobs -> 0 .. MaxIterations]
  /\ marks \in [Jobs -> 0 .. MaxFaults - 1]
  /\ schedules \subseteq Jobs
  /\ making \in [Jobs -> {"no", "inserted", "rejected"}]
  /\ maker \in [Jobs -> Ticks \union {User}]
  /\ tick \in [Ticks -> TickStates]
  /\ cancelling \subseteq Jobs
  /\ up \in BOOLEAN
  /\ outages \in 0 .. MaxOutages
  /\ unscheduled \subseteq Jobs
  /\ hist \in [Jobs -> [turns : Nat, raised : Nat]]

\* While the bot is up, a running job has a schedule, or its creation is still
\* under way, or its registration failed and could not be undone, or somebody
\* purged it: creation, ticks and recovery leave no row that sits idle for ever
\* (the bug the comments of create_background_job and start_scheduler tell of).
RunningIsScheduled ==
  up => \A j \in Jobs :
          status[j] = "running" => \/ j \in schedules
                                   \/ making[j] # "no"
                                   \/ j \in unscheduled

\* A job fails because MaxFaults of its own turns raised, or because its tick
\* could not be registered and so no turn ever began.
FailedAfterFaults ==
  \A j \in Jobs :
    status[j] = "failed" => \/ hist[j].raised >= MaxFaults
                            \/ hist[j].turns = 0 /\ j \notin schedules

\* Whatever the interleaving, a job runs once and never comes back from its
\* end: the rows implement the contract of module JobContract.
Contract == INSTANCE JobContract
              WITH phase <- [j \in Jobs |-> IF status[j] \in Terminal
                                             THEN "stopped" ELSE status[j]]
ImplementsContract == Contract!Spec

\* Every running job stops: a turn that never says DONE: is ended by the cap,
\* one that keeps raising by the fault count, through crashes, failed calls,
\* overlapping ticks and lost updates of iterations_run.  And one that ended by
\* itself stops firing, as long as no call fails: the removal of the schedule
\* comes after the commit and may be lost.
EveryJobStops ==
  \A j \in Jobs :
    /\ status[j] = "running" ~> (status[j] # "running" \/ j \in unscheduled)
    /\ status[j] \in {"done", "failed"} ~> (j \notin schedules \/ outages > 0)
=============================================================================
