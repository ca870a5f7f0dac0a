# Verification of PersonalAsst

PersonalAsst is a personal assistant for Telegram: a bot process (aiogram, the
OpenAI Agents SDK, APScheduler) and a dashboard API process (FastAPI) that share
PostgreSQL and Redis, with a repair pipeline that changes the program's own
files. This directory has TLA+ modules of its stateful parts, TLC configurations
that check them on small instances, and proofs for the TLA+ proof system (TLAPS).

Paths below are those of the repository; `BackgroundJobs.tla` and the like are
files of this directory. `PROJECT.json` maps every definition to the lines it
models and lists the hazards of the code with the properties that cover them.

Contents: 1 the system, 2 the modules, 3 the runs, 4 fairness, 5 proofs,
6 disagreements found, 7 what is left out, 8 plan.


## 1. The system

### Processes and stores

| Who | Runs | Shares |
|---|---|---|
| Bot process | one asyncio loop: a task for every Telegram update, one worker task per user's message queue, APScheduler's jobs, background ticks | dicts of `bot/handlers.py`, `_PIPELINE_ATTEMPT_COUNTS` of `repair/engine.py`, the cached skill registries, singletons |
| API process | one task for every HTTP request | wizard sessions and a tool registry of its own; nothing in memory with the bot |
| Scripts | `scripts/prune_memories.py` | the memory store |
| PostgreSQL | rows of all, and APScheduler's `schedules` table | every session commits on its own; no row is locked but those of the repair queue |
| Redis | sessions, pending plans and drafts, challenges, costs, health records | single commands; no transactions |
| Files | the source tree, `user_skills`, `tools/plugins` | the repair engine, the factories, the dashboard |

Nothing in the program spans two stores or two sessions atomically. What is hard
about it is therefore nearly always the same: a coroutine reads, awaits something
that may take minutes or be cancelled by `asyncio.wait_for`, and writes.

### Components

State, operations, partners, what is hard, and what makes it correct. The module
in brackets has the details.

**Chat intake and message queue** (`bot/handlers.py`; ChatTurns, MessageQueue).
State: `_user_queues`, `_user_queue_tasks`, the rate window, the session field
`latest_uploaded_image`. `handle_message` for text, voice and photos,
`_get_user_queue`, `_process_user_queue` with its time-out per turn and its idle
expiry. Hard: updates are tasks, so a text overtakes a photo; a queue may be given
up while another task puts into it; the image is one field for all messages.
Correct if turns of one user never overlap, begin in the order of the puts, no
message waits in a queue nobody works, and no image is answered twice.

**A turn** (`run_orchestrator` of `agents/orchestrator.py`; TurnRoutes). A message
is tried against nine routes; the first that answers ends the turn, which is then
recorded in two places and may leave images in a field of the session. Hard: two
routes swallow what is raised and fall through; the turns of jobs write the same
records and the same field. Correct if an answered turn did its work once and is on
record once, and images go with their turn.

**Conversation session** (`memory/conversation.py`; ConversationSession): turns in a
Redis list with a trim, a background compaction, dead letters and an archive step
that reads, awaits a model and deletes. Correct if a turn that left is in a summary,
on its way to one or in a dead letter.

**Background jobs** (`agents/background_job.py`, the creation block of
`run_orchestrator`, `cancel_background_job` in the API,
`restore_running_background_jobs`; BackgroundJobs). Each tick runs a whole agent
turn between two sessions. Hard: ticks overlap; cancel races a tick; the row is
committed before the schedule exists; a tick's prompt can itself create a job.
Correct if no running row is left without a schedule, jobs end, an ended job stays
ended, and one that failed had its faults.

**Scheduled tasks** (`scheduler/engine.py`, `agents/scheduler_agent.py`, `/cancel`,
the schedule endpoints of the API; ScheduledTasks). Rows of `scheduled_tasks` and
APScheduler's schedules, kept together by `sync_tasks_from_db` every 30 seconds.
Hard: six operations write both tables in either order, from two processes, while
the sync works from copies. Correct if paused and cancelled tasks stop firing,
active ones are scheduled, and no schedule is left without a row.

**Scheduler health** (`scheduler/observability.py`, `scheduler/maintenance.py`;
SchedulerHealth): counters in Redis, read, changed and written back by listeners
that overlap. Correct if no alarm is false: no run or failure is counted that was not
one, and failures in a row are in a row.

**Repair: patches and approval** (`repair/engine.py`, `security/challenge.py`,
`agents/repair_agent.py`; PatchEngine, RepairApproval). Files, the owner's one
pending plan and one challenge in Redis, rows of `repair_tickets`. Hard: many files
and one slot, changed by the owner's turn, background turns and the pipeline; a
crash or time-out between any two steps. Correct if a ticket that says deployed is
true of the files, and a challenge starts at most one execution.

**Self-healing pipeline** (`run_self_healing_pipeline`, the debugger, programmer and
quality control, `subtask_verifier.py`, `agents/fsm.py`; RepairPipeline,
RepairAgents). The attempts per error, a ticket per run, the files through the dry
run and the sandbox, a state machine that mirrors the stages, its checkpoint in
Redis, and the fixes applied without asking. Correct if rejected fixes never ship, a
ticket called ready has its fix in the files, and what reaches the sandbox has
passed every screen.

**Repair queue worker** (`process_repair_queue`; RepairQueue): tickets claimed with
`FOR UPDATE SKIP LOCKED`. Correct if none is claimed twice and every claimable one
is claimed.

**Direct Google flows** (`agents/orchestrator.py`, `action_policy.py`;
`integrations/workspace_mcp.py`; PendingActions): mail drafts and task offers stored,
confirmed, carried out by a remote call that may be tried again, and cleared. **Browser agent and gate** (`integrations/browser_use_runner.py`,
`security/browser_action_gate.py`; BrowserGate): a prompt to the owner and a list
the decision arrives on, for the actions the gate takes for writes. Correct if what was
confirmed is carried out by one call, and a recognised write only once it was approved.

**Costs** (`models/cost_tracker.py`, `integrations/openrouter.py`; SpendingCaps):
caps read before a call and charged after it, in two stores. **Persona**
(`memory/persona.py`; PersonaVersions) and its **interview**
(`agents/persona_interview_agent.py`; PersonaInterview): versions with one active
row; a dialogue whose place is counted from a transcript. **Reviews**
(`agents/reflector_agent.py`, `agents/meta_reflector_agent.py`,
`skills/skill_writer.py`; TurnReview). **Memory** (`memory/mem0_client.py`,
`memory/eviction_runner.py`, `agents/curator_agent.py`; MemoryStore): summarise, then
delete.

**Skills** (`skills/registry.py`, `skills/loader.py`, the skill routes of the API;
SkillShelf) and **tools** (`agents/tool_factory_agent.py`, `tools/registry.py`,
`tools/sandbox.py`; ToolShelf): files shared by two processes, cached by one.

**Organisations** (`agents/org_agent.py`, `orchestration/api.py`): the work in one
(OrgWork), creating and deleting them with their tools (OrgBoard), a project's plan
(ProjectPlan), what the bot sets up (BotOrgTools), the creation wizards of the
dashboard (Wizards). Hard: every handler decides from rows another can change, and
nothing is locked.

Dates in requests, prompts, the Google wrappers, the front end, seed data and
published packages have no state of their own and are not modelled; see section 7
and the components of `PROJECT.json`.

### How the modelled components meet

```
 Telegram update --> ChatTurns ----> MessageQueue (one per user)
                        |  turn
                        v
                    TurnRoutes ----> PendingActions, BrowserGate, SpendingCaps
                        |  |          ConversationSession, MemoryStore, TurnReview
                        |  +-------> BotOrgTools, ToolShelf, SkillShelf
                        v
              RepairApproval ----> PatchEngine <---- RepairPipeline <-- RepairAgents
               (owner's answer)   files, slot,        (sandbox, dry run)
                                  tickets                  ^
 APScheduler --> BackgroundJobs --> a turn of its own      |
     ^       --> RepairQueue ------------------------------+
     |       --> SchedulerHealth (counts), MemoryStore (eviction, curation)
 ScheduledTasks <-- chat tools, /cancel, dashboard, 30 s sync
 Dashboard --> Wizards, OrgWork, OrgBoard, ProjectPlan, SkillShelf, ToolShelf
```

Some modules depend on a property of another. `RepairApproval`, `PendingActions` and
`TurnRoutes` assume that the owner's messages are handled one after the other
(`ChatIsSerial` in the first; one user's turn in the others); that is
`OneTurnAtATime` of `MessageQueue`, proved as `TurnsNeverOverlap`.
`BackgroundJobs` and `ScheduledTasks` share the dashboard's Sync button: the one
sees it purge schedules it does not know (`Purge`), the other models the request
itself (`AuditSchedules` to `RemoveSchedule`).


## 2. The modules

| Module | Models |
|---|---|
| `MessageQueue` | the queue of one user and its worker tasks |
| `MessageLine` | abstract: one line of messages, served one at a time |
| `ChatTurns` (extends `MessageQueue`) | a message from update to answer, the uploaded image |
| `TurnRoutes` | the routes of a turn, its records and its images |
| `ConversationSession` | the list of turns, its trim, compaction, archive |
| `TurnReview` | the score of a turn, learned workflows, the low-score queue |
| `PersonaInterview`, `PersonaVersions` | the dialogue; the versions and their writers |
| `SpendingCaps` | the question of the cap and the two charges |
| `MemoryStore` | memory rows, eviction, curation |
| `BackgroundJobs` | jobs, ticks, cancel, purge, recovery |
| `JobContract` | abstract: a job is absent, runs, stops, once |
| `SchedulerHealth` | the health record and its listeners |
| `ScheduledTasks` | rows against schedules |
| `RepairQueue` | claims of tickets by overlapping workers |
| `PatchEngine` | one execution of a stored plan on files |
| `RepairApproval` (extends `PatchEngine`) | the owner's messages, challenge, tickets |
| `RepairPipeline` (extends `RepairApproval`) | pipeline runs with dry run and sandbox |
| `RepairAgents` | what the agents record, the floor, the mirror, fixes without asking |
| `PendingActions` | the mail draft and the task that wait for a yes |
| `BrowserGate` | browser runs and the approval of their writes |
| `SkillShelf`, `ToolShelf` | skill files and cached registries; tools, their tests and rows |
| `OrgWork`, `OrgBoard` | the rows of one organisation; organisations and their tools |
| `ProjectPlan`, `BotOrgTools` | a plan from draft to rows; the bot's set-up as a chain of commits |
| `Wizards` | the dashboard's creation wizards |
| `SchedulerMC`, `UpkeepMC`, `TurnsMC`, `ApprovalsMC`, `OwnFilesMC`, `OfficeMC` | several of these in one system |
| `ChatTurnsMC`, `ScheduledTasksMC`, `RepairPipelineMC`, `MemoryStoreMC` | values of constants |
| `*Proofs` | theorems and proofs (section 5) |

### Conventions

An action is the code between two awaits at which another task can interfere; a
session that only reads a row and writes it back with nothing but the database
between is one step. Whatever a model, a user or a remote service answers is a free
choice. A failed call or a crash is an action of its own, bounded by a constant
(`MaxFaults`, `ConvFaults` and the like). History variables are marked as such and
are read by properties only. Definitions named like `OnlyAdds`, `KeepsStale` or
`TrimOneMore` next to a definition of the code are its plausible bugs: each property
is known to fail when one of them is put in.

A module that only sets values of constants ends in `MC`. Six of them also compose
parts that share no variable: `part` (in `SchedulerMC`, `half`) says which one moves in a
behaviour, and `Only(p)` (`OnlyHalf(p)`) that nothing else does. Checking the parts one at a time so loses nothing:
no action of one reads or writes what another has. It keeps the number of
runs down to the number of questions. Where components do share state they are one
module or extend one another (`ChatTurns` and its queue, the three repair modules).

Properties with known exceptions name them. Where the code can really lose
something - a turn dropped alone, a draft confirmed twice because the process ended
between sending and clearing - a history variable records that this cause has
occurred, and the property says that nothing else loses it. Every exception is
decided where the cause happens, never by looking whether the harm was done, and is
listed in the comment of the property.

### MessageQueue, MessageLine, ChatTurns

`current` is the dict entry, `worker[q]` the task of each queue ever created,
`queue[q]` what it holds. `PutInNewQueue` and `PutInCurrent` are `_get_user_queue`
followed by the put, with no await between (`NeedsNewQueue` is its test of
`task.done()`). A worker that waits in `queue.get()` can be cancelled by the idle
timer (`IdleTimerFires`) and drops the entry in a later step (`Expire`): a message
put between the two goes with it, which `stranded` records. `HandlerCancelled` is a
cancel that reaches the worker itself. `MessageLine` is what all this comes to for the
sender, one line served one at a time from its head, and `MessageQueue` implements it.

`ChatTurns` gives every message a `stage`. `Arrive` to `Enqueue` are
`handle_message`: rate limit, download or transcription (`Fetched` writes the one
image field), wizards, put. `BeginTurn` to `Answer` are
`_run_orchestrator_with_text`, `_process_user_queue`'s time-out included, with the
read, the analysis and the delete of the image as separate steps. `TickReads` and
`TickDeletes` are the same in a scheduled turn, which the queue does not order.

### TurnRoutes

`turn[t]` is where a turn stands and which route has it; `TakeRoute` picks the first
that matches among those not tried. `Readings` are the sets of routes a message
matches: what a message says is abstracted to that. `spoken` and `inSession` count how
often a turn is in the conversation and in the agents' own session; `imageField` is the field of
generated images, with the turns it came from. `Guarded` are the two routes whose
failure is logged (watch and fan-out); `RouteFails`, `SayFails` and `TimeOut` are the
ways a step goes wrong, `ClearAndRetry` the reply to a stale session.

### ConversationSession, TurnReview

`conv` is the Redis list of turn numbers. `PushTurn`, `MeasureSession`,
`ReadOldTurns`, `TrimSession` are the four calls of `add_turn`, with other writers
between; the compaction is one task (`CompactionSkips`, `Saves`, `Fails`).
`ArchiveClears` deletes the list with whatever came since the read.

`TurnReview` follows the review of a turn: `Reflect` scores it and learns
(`Learn` with its skill file and the mark that may fail), `QueueLowTurn`,
`CountReview`, `ReadLowQueue` and `ClearLowQueue` are the Redis calls, `Propose` the
meta-reflection. A slug is a value (`SlugOf`), since two workflows can have one.

### PersonaInterview, PersonaVersions

A session row is the list of its questions and answers; `InterviewState` is
`get_interview_state`, which counts the answers. Two messages can be under way,
as the interview bypasses the queue; the command resumes, `ResetInterview` archives.
`ByScript` says what a transcript reads like. In `PersonaVersions` a writer reads,
thinks, and stores in one transaction (`BeginStore`, `DeactivateOld`,
`ReadLastNumber`, `CommitVersion`), with the row locks of PostgreSQL in `targets`; a
persona is the set of changes it holds, so that a lost change can be seen.

### SpendingCaps, MemoryStore

`CheckCap` compares `counter` of the day, `Paid` is the provider's answer,
`CountCharge` and `ChargeRow` the two charges in Redis and PostgreSQL, in the order of
the kind of call; `Midnight` falls anywhere. A memory row is the set of facts it
tells; `AddMemory` inserts or merges into a near duplicate. A pass (`StartPass`,
`WriteSummary`, `DeleteOriginal`) chooses rows, writes summaries chunk by chunk and
then deletes; a turn, another writer or a failure may fall between any two steps.
The curator reads, asks a model and prunes by id. `MemoryTools` is what the memory
agent changes in between.

### BackgroundJobs, JobContract

A row is `status`, `iterations`, `marks` (how many fault marks its result text has);
`schedules` is APScheduler's table. `tick[t]` is one coroutine of
`_tick_background_job`, from `Fire` over the two sessions to `RemoveSchedule`; a
slot is a tick in flight, so `Slots` says how many overlap. `UserAsks` and
`TurnAsks` are the two ways into `create_background_job`, then `RegisterTick` or
`RegistrationFails`. `CancelRead` and `CancelWrite` are the API request. `Crash`
loses every coroutine; `Restart` is `restore_running_background_jobs`, where some
registrations may fail. `JobContract` is the abstract specification: a job goes
from absent to running to stopped and never back. `BackgroundJobs` implements it
with `done`, `failed` and `cancelled` mapped to stopped.

### SchedulerHealth

`JobReleased` puts a listener call in flight, `ReadRecord` and `PersistRecord` are its
two Redis calls; `Propagating` are the job bodies whose failure the scheduler sees at
all. `Snapshot` is what the dashboard calls degraded. Three histories say what it should
be measured by: `streak` and `longest` count failures in a row as the scheduler released
them, and `blurred` says that the last success met another listener call or was not
written, so that the reset of the count may be lost.

### ScheduledTasks

`row[t]` is none, active or paused (`is_active`); deleting makes it none.
`op[a]` is the second half of an operation: `creating` (schedule added, row not),
`writing` (schedule removed, row not), `removing` (rows done, schedules to go), and
the two middle states of the Sync button. `sync` is a pass of `sync_tasks_from_db`:
first the rows it read, then per task what it will do, so that every write of the
others can fall between. `Restorable` is what the sync can schedule again: rows of
the chat keep the trigger flat, the sync reads it nested under its type, so a
recurring one comes back with the defaults and a one-shot one not at all. The
sync's own schedule is an element of `schedules`, since the Sync button removes it
too. The dashboard writes rows without a schedule, for the tasks of a project and for
tests (`ProjectTasks`, `TestTask`), and leaves it to the sync to add one. Ids of morning briefs are used again, all others once.

### PatchEngine, RepairApproval, RepairPipeline

The text of a file is how many times each plan's hunks are in it: enough to tell
patched, unpatched and patched twice apart, and to say what a rollback to earlier
bytes removes. `Execute` is `execute_pending_repair` split at its awaits: fetch,
back up, write (all files, or some when a hunk does not match), verify, roll back,
record the ticket, clear the slot, each of which can fail. `RepairApproval` adds
storing and refining plans, the owner's message through
`maybe_handle_pending_repair`, the challenge with its two calls, time-outs at every
await (`TimeOut`), the approve button and edits of tickets on the dashboard.
`RepairPipeline` adds runs: the attempts guard, ticket, quality control, floor,
dry run (which writes), sandbox (which executes through the owner's slot). Nothing keeps
executions apart, so the history variable `crossed` names the plans that another's
execution got in the way of: it rolled back over them (`TakesOut`), it applied the plan
itself while the other had yet to verify it (`AppliesTwice`), or the sandbox found somebody
else's plan in the slot (`Mistakes`).

As the code stands no pipeline gets past its ticket (finding 4), so everything behind
that stage is what the code would do once tickets can be stored. Both modules say so by
a constant: `TicketsStorable` guards `CreateTicket` of `RepairPipeline`, and of the code
as it is it is FALSE, every run ends by `StopRun`, and the properties of the stages hold
for want of tickets; `office` and `own_files` set it TRUE and check the stages as
written, the theorems are for either. `RepairAgents` has `AnalysisKinds`.

### RepairAgents

`analysis`, `proposal` and `verdict` are what the three agents record, `Unrecorded`
if they did not call their tool; `FixProposals` and `Decision` are what the code then
puts in its place. `Blockers` is the deterministic floor, `Transition` with `Vetoed`
the mirror in the state machine, `Deliver` a checkpoint task that runs late. The
second part, with variables of its own, is `propose_low_risk_fix`: its steps one after
the other, of which only the deletion of a key is implemented.

### RepairQueue

`LockOldest` and `CommitClaim` are the claiming transaction, with the row lock in
`locked`; then the second read, the pipeline, and the release on an exception.
`EditTicket` is the dashboard.

### PendingActions, BrowserGate

Drafts and wishes are numbered as they are stored, with a version. A turn checks the
draft (`CheckDraft`), revises, sends and clears it, each with its failure, then the
task, then goes to the agent, whose answer may present a draft. A turn of a job does
the same but never says yes. `SendMail` and `AddTask` are one attempt of
`call_workspace_tool`: it delivers or does not, and whether it does or not it answers
with a text (an error in brackets is one, and taken for success), with an error the
caller recognises, or with one taken for transient, which is tried again up to
`CallAttempts` times and is a text in the end (`CallGoesOn`). `BrowserGate` gives every prompt an id and every id a
list of presses. `IsWriteAction` is what the gate knows of an action, its verb and its
label; `AskOwner` is for the writes it recognises, `LetThrough` for all others, which
are carried out with the same step. `AskOwner`, `Decided` and `ApprovalFails` are
`request_browser_approval`, `RetryBrowsing` the one retry, which begins from nothing.

### SkillShelf, ToolShelf

`shelf[s]` is nothing, a bare directory, a skill or one whose tags were spoiled on the
way. A turn of the bot builds a registry in three steps (`StartBuild`, `LoadSkills`,
`StoreRegistry`) and uses it for `CacheTtl`; set-up and `/skills reload` drop it, the
dashboard cannot. `SkillsCommand` is `/skills`, whose deletions stay in the registry.
`Matched` is `match_skills`. In `ToolShelf` the two processes create
(`CheckName` to `Register`), the dashboard deletes in two steps, and each holds what
it has loaded; `Violations` is the static analysis, `TestPasses` the sandbox.

### OrgWork, OrgBoard

A handler that decides from a row is two steps: the read, and a commit that writes the
columns it changed. What others commit in between makes its read stale
(`TouchClerks`, `MakesStale`), which is how the properties say that only stale writes
go wrong. `OrgBoard` has the deletion of an organisation: what is exclusive to it
(`Exclusive`), the holding organisation, directories removed before the commit.
`OrgsCommand` is `/orgs`, which deletes the row alone.

### ProjectPlan, BotOrgTools

A plan's names are pairs of a name and whether it is padded with blanks.
`ValidatePlan`, `DeepRepair` and `RepairPass` are the three checks of the wizard;
then the dashboard or the bot stores the rows (`DashboardAddsAgent`,
`BotAddsAgent`, `AddTaskRows`, `WriteAlarms`). `BotOrgTools` has `setup_org_project`
as the chain of commits it is - agents hired one by one in an open transaction, the
commit, each tool, each skill, the look around and the verdicts - among the bot's other
tools and the dashboard's edits of the same rows.

### Wizards

A session is in a dictionary; a request keeps the session's object while it awaits a
model, the generator or the database. The three kinds differ in how many answers they
want, what a draft can be and how a save ends.


## 3. The runs

Every run takes four minutes or less with two workers on an ordinary machine, the
violations a second.

| Run | Instance | States | Question |
|---|---|---|---|
| `chat` | 3 messages (an album of two photos, a text), 3 queues, 1 death | 268,031 | do turns overlap, get lost, swap, or share an image? are the queues one line? |
| `turns` | 2 turns of the user and 1 of a job; 2 writers of everything a turn leaves | 1,917,557 | is an answer on record, and does what turns leave behind survive their overlaps? |
| `scheduler` | 1 job, 2 ticks, 2 outages; 4 releases of a schedule | 185,686 | do overlapping ticks lose a job, a fault or its end? is an alarm false? |
| `upkeep` | 3 tasks (brief, chat one-shot, dashboard one-shot), 3 requests, 1 fault; 2 workers, 3 tickets | 162,557 | do rows and schedules come together again? is a ticket claimed twice or never? |
| `approvals` | 1 chat handler, 1 background turn, 2 plans, 2 files; 2 drafts, 1 task, 3 attempts of a call, 2 faults; 2 browser runs, 2 prompts | 2,973,247 | is what the owner is asked done by one call, and only if approved? |
| `own_files` | 2 attempts of the pipeline at one error beside the chat; 1 run of the agents, 3 late checkpoint writes; 2 skills, 2 tools | 756,883 | do rejected fixes ship? what reaches the sandbox, a registry, the tools? |
| `office` | 2 pipeline runs that overlap, 3 starts, 1 fault; 2 handlers on one organisation, 2 organisations; plans of up to 2 agents and tasks; 3 requests on a wizard; a set-up | 1,459,123 | is a ready ticket true? what do handlers that overlap leave in the rows? |
| `chat_photo` | a photo, a voice message | violation | does an image reach another message's turn? |
| `tasks_once` | 1 dashboard one-shot | violation | does a one-shot task fire once? |
| `mail_retried` | 1 mail, 1 task, one call that answers amiss | violation | is it safe to try a call again? |
| `analysis_ticket` | 1 analysis, no fault | violation | does an analysis the debugger is sure of get its ticket? |
| `eviction` | 2 facts, a chunk longer than what is shown | violation | is what is evicted in a summary? |

### Why these bounds

*Two* of whatever interferes (ticks, workers, handlers, runs, writers, requests) is
what every race of the code needs, as each is a read of one and a write of the
other; the third message, ticket, queue or request is there because order and
starvation need something to be overtaken, and a wizard's save needs something that
cancels beside it. Two plans over two files of which one is shared, one editing a
line and one inserting, are the ways hunks can disturb each other. A cap of two
(iterations, faults) has a value below, at and past it. A call has the three attempts of
the code, and two faults let it deliver, be tried again and then meet a second failure. One fault shows every
half-done operation. Tickets are set by hand in `approvals` and not in the two runs of the
pipeline, whose properties exempt such tickets. Plans of two agents
have one that is like the other; a session of two turns with a limit of two and five
turns in all is trimmed alone, together and while another writer trims. Requests are
bounded by 3 in `ScheduledTasks`: a create, a stop, and one that crosses.

Four reviews are what it takes to promote a workflow, lose its mark and promote it again,
with a threshold of two sightings in place of three.

In `turns` the values `p1` and `p2` stand for rows, writers and facts of different
parts, so one symmetry serves all; the two workflows share a slug and are alike too. Symmetry is used only in runs without liveness.

`CHECK_DEADLOCK FALSE` is set throughout: users may stop writing and bounded counters
run out. That nothing is stuck that should move is what the liveness properties say.

### What the properties say beyond their one-line comments

- `TurnsInOrder`, `AcceptedGetsItsTurn` are about puts. That the put order is the
  order of sending is not so (section 6). Stranded messages are exempt and counted.
- `RunningIsScheduled` exempts rows whose registration failed without being undone,
  or that the dashboard purged; both sets are emptied by the next start, which is
  checked by the same invariant.
- `EveryJobStops` holds although overlapping ticks lose updates of `iterations_run`:
  the counter still reaches the cap.
- `NoGhosts` exempts `exposed` tasks: those whose *deletion* happened while a pass
  that had read the row as active was under way, or in a fault. It is decided at
  the deletion, not by looking whether a ghost appears.
- `SchedulesFollowRows` is eventual: within one pass a paused task may well be
  scheduled again.
- `DeployedIsLive` leaves out tickets edited by hand. It holds for the owner's
  turn beside background turns (`approvals`). It does not beside a pipeline run, whose
  sandbox can roll back over what the owner's answer has deployed. There it is part
  of `ReadyIsLive`, which speaks of deployed tickets too.
- `ReadyIsLive` exempts tickets set by hand and the plans in `crossed`. All three causes
  are needed: of the instance of `office` without any one of them TLC finds a ticket that
  says ready of a fix that is not in the files. What is left is not little: overlapping
  sandboxes of different plans, failed file operations, crashes between any two steps,
  a second execution of a plan that is there already; and, in the theorem, the owner's.
- `ClaimableIsClaimed` is about claiming. That a claimed ticket is released again
  is not so (section 6).
- `NoFalseAlarm` asks for `AlertAt` failures in a row behind every "degraded", but where
  `blurred` holds. Without that exception it is false: of a success and a failure whose
  calls overlap, the reset of the success can be written over (section 6).
- `CarriedOutOnce` does not say that a mail goes out once: a call that is tried again
  after a delivery delivers again. It says that one confirmation means one call, of at
  most `CallAttempts` deliveries, and exempts a turn that ended with something delivered
  and the key not cleared, or that stored the draft back. That a retry is safe is
  `RetriesAreSafe`, which `mail_retried` refutes.
- `WritesAreApproved` is about the writes `IsWriteAction` recognises; of those let
  through it says only that none follows a refusal.
- `EditsSurvive` holds while the mark of the promotion can be found. The three ways to
  lose it (`unmarked`) are actions of the model; without the exception for any of them
  TLC finds an edited file written over.
- `RowsAgree`, `DeletionSparesOthers`, `OnePersonaWithItsChanges`, `ConvAccounted`,
  `SavesAreTold` exempt what came of a stale read, a crossed
  transaction or a cut, and name it.
- `OverspendIsBounded` says by how much a cap can be passed: by the calls that can be
  between question and charge at once, and by lost charges.


## 4. Fairness

Weak fairness only, and only of steps the runtime takes by itself.

- `ChatTurns` (`chat`): the event loop resumes a task that can run, and every turn ends
  because `wait_for` ends it. None for arrivals, timers, expiry, crashes.
- `BackgroundJobs` (`FairSchedulerSpec`): APScheduler fires an existing schedule,
  coroutines run on, an agent turn ends, the container restarts
  (`restart: unless-stopped` in `docker-compose.yml`). None for the user or the outcome
  of a turn.
- `ScheduledTasks` (`FairUpkeepSpec`): the sync job runs while it is scheduled, an
  operation begun goes on, the container restarts. The Sync button removes the sync
  job, so the liveness property ends with "or the sync job is gone"; the obligation
  starts again at the restart that adds it.
- `RepairQueue` (`FairUpkeepSpec`): the worker's 60-second job ticks. It assumes that
  nobody presses the Sync button, which removes this job as well.

In the composed systems an action is fair while its part is the one that moves: the
part is chosen once and does not change, so this is the fairness of the part.


## 5. Proofs

All statements are for every value of the constants, under the named assumptions
of the modules: constants are numbers or sets of the right kind, ids do not clash,
calls are finitely many. Two assumptions say something of the system: `ChatIsSerial` in
`RepairApproval`, which is what `TurnsNeverOverlap` proves of the queue, and
`QuestionsFollowUp` in `PersonaInterview`, which is so of the questions in the code.
Each module of proofs has the inductive invariants of its parts; what they add to the
properties is below.

| Theorem | Module | States |
|---|---|---|
| `ChatIsTyped`, `TurnsNeverOverlap`, `TurnsBeginInOrder`, `ImagesAreConsumedOnce` | `ChatTurnsProofs` | `TypeOK`, `OneTurnAtATime`, `TurnsInOrder`, `ConsumedOnce` |
| `QueuesImplementALine` | `ChatTurnsProofs` | `ImplementsLine`: `Spec => Line!Spec` |
| `SessionsAreTyped`, `NoTurnIsLost`, `LowTurnsFindReviews`, `EditedSkillsSurvive` | `TurnsProofs` | `ConvTypeOK`, `ConvAccounted`, `LowTurnsAreReviewed`, `EditsSurvive` |
| `AnswersStayOnRecord`, `ImagesStayWithTheirTurn` | `TurnsProofs` | `AnswersAreOnRecord`, `ImagesGoWithTheirTurn` |
| `InterviewsStayWhole`, `OnePersonaKeepsItsChanges` | `TurnsProofs` | `InterviewsAreWhole`, `OnePersonaWithItsChanges` |
| `OverspendStaysBounded`, `ToldFactsAreKept` | `TurnsProofs` | `OverspendIsBounded`, `FactsAreKept` |
| `TurnsAreTyped`, `TurnsAreSafe` | `TurnsProofs` | `TurnsTypeOK`, all ten of the system with `RunningIsScheduled` |
| `TypeCorrect`, `RunningJobsAreScheduled`, `JobsFailForAReason`, `JobsImplementContract` | `SchedulerProofs` | `TypeOK`, `RunningIsScheduled`, `FailedAfterFaults`, `Spec => Contract!Spec` |
| `HealthNeverAlarmsFalsely`, `SchedulerIsTyped` | `SchedulerProofs` | `NoFalseAlarm`, `SchedulerTypeOK` |
| `TypeCorrect`, `NoGhostsRemain`, `NoTicketIsClaimedTwice`, `UpkeepIsSafe` | `UpkeepProofs` | types, `NoGhosts`, `NoDoubleClaim`, both of the system |
| `DeployedStaysLive`, `ChallengesAreUsedOnce`, `RejectedFixesNeverShip`, `ReadyFixesAreLive` | `RepairProofs` | `DeployedIsLive`, `ChallengeUsedOnce`, `RejectedNeverShips`, `ReadyIsLive` |
| `ConfirmedOnceCarriedOutOnce`, `OnlyApprovedWrites`, `ApprovalsAreSafe` | `ApprovalsProofs` | `CarriedOutOnce`, `WritesAreApproved`, all four of the system |
| `RepairsAreAllEarned`, `RegistryStaysCurrent`, `ToolsStayAccounted`, `FilesAreTyped` | `FilesProofs` | `RepairsAreEarned`, `RegistryIsCurrent`, `ToolsAreAccounted`, `FilesTypeOK` |
| `RowsAlwaysAgree`, `DeletionsSpareOthers`, `ValidPlansStayWhole`, `SavesAreToldTruly`, `SetUpsStaySound` | `OfficeProofs` | `RowsAgree`, `DeletionSparesOthers`, `ValidPlansAreStoredWhole`, `SavesAreTold`, `SetUpsAreSound` |
| `OfficeIsTyped`, `OfficeIsSafe` | `OfficeProofs` | `OfficeTypeOK`, and the six of its parts |

`RunningIsScheduled` is checked in the run `turns` and proved of `BackgroundJobs`;
`RejectedNeverShips` is checked in `own_files` and proved of `RepairPipeline`.
The type invariants of the chat, of the approvals, of upkeep and of the files are proved
and in no run.

**Composed systems.** A behaviour of a composed system is one of each part: the part
that moves takes a step of its own, the others stutter. The lemma that says so
(`PartsAreThemselves` and its like) takes every disjunct of the next-state relation
once; what holds of the parts then holds of the whole, by temporal reasoning alone.

**Chat.** Queues are created in order and only the current one can work
(`OnlyCurrentWorks`), what they hold is sorted by the number of the put
(`QueuesAreSorted`) and later than anything begun (`RestIsQueued`). For images, an
invariant says whose turn may have read what: read images were fetched
(`ImagesWereFetched`), an analysed image is gone from the field (`AnalysedIsGone`),
and one turn at most reads at a time (`OneReader`), which is where the queue's
theorem enters. The refinement maps what waits in the queue of the dicts to the line, the
messages of busy tasks to who is served, and what was stranded to what is lost. A put into
a new queue joins an empty line, since nobody works then. That a crash loses the line and
nothing else needs one more invariant: what is in a queue nobody works was given up with it
(`RestIsGivenUp`).

**Session.** A turn is accounted for as long as what a call of `add_turn` has read is
on record before it trims (`ReadIsOnRecord`), what it trims is what it read unless
another call overlapped (`ReadIsOldest`), and what an archive deletes is in its summary
(`ArchivedIsRemembered`). **Reviews.** A generated file is marked in the memory as
promoted, or its mark is known to be gone or to have an unmarked memory beside it
(`FilesAreMarked`); nothing else keeps the file of a user from being promoted again, as
the code never looks at the file. **Routes.** For every stage of a
turn the invariant says how often its question, its answer and its work are on record
(`AskedFits`, `WorkFits`), which routes can still take it (`RouteFits`), and what the
image field holds of it (`ImagesFit`); the turns of one user come in order
(`OwnersInOrder`), so no other of them writes that field meanwhile.

**Persona.** While no transactions crossed, one writer stores at a time, its locks are on
the rows that are active, and whoever read and was not overtaken holds what the active
version holds (`StoresAreAlone`); so the newest version is the one active and has every
change (`NewestIsActive`). **Interview.** Only the number of answers says where an
interview is. The invariant says that it is enough while nothing is disturbed: one
message is under way (`OneMessage`), one session in progress (`OneSession`), every
transcript is a beginning of the script, entry by entry (`GoodRows`, with `Entry(p)` for
the entry at place p), and what a message read of its row still fits it when it writes
(`MessageFits`). It rests on `QuestionsFollowUp`: only the last question of a session
may have no follow-up, as is so of `INTERVIEW_SESSIONS`
(`persona_interview_agent.py:22`).

**Charges.** What was paid today is counted, lost or about to be counted, and with the
calls that have asked and not yet paid it exceeds the cap by no more than the calls there
are (`CapsHold`); every unit in the ledger has a paid unit of its own, counted as
cardinalities of sets of units (`RowsHold`). **Memory.** During a pass a fact is not just
in some row: it is in a row the pass leaves, in a summary written, or in what the pass
has still to write (`SafeInPass`), which is what makes the deletions harmless, and what
an end between any two steps leaves as it was (`Safe`).

**Jobs.** `RunningIsScheduled` is not inductive: a tick about to remove a schedule
must be known to belong to a job that stopped. `Started` says a tick in flight
belongs to a row that exists, `RemovalIsFinal` that one in `removing` has a row in
an end state, and ends are final. The refinement uses the same invariant: the only
steps that change a mapped phase are the insert (from absent) and writes of an end
state (from running or another end). For `FailedAfterFaults`, the marks of a row are
covered by turns that raised (`FaultsAreReal`), a job whose registration is under
way has had none (`MakersWait`), and a failed one has the limit or never began
(`FailedIsExplained`). **Health.** Each listener call in flight stands for a run of its
own, so what it adds to a record that it read before is still covered. Unless `blurred`,
failures are counted in a row (`CountsInARow`): what the record counts, with the calls
that have still to add theirs, is at most the present streak, and a success under way is
alone (`HealthInv`).

**Tasks.** The one step that schedules a task without looking at its row is the
add of a sync pass. `StaleIsExposed` says that whenever a pass may still add a task
whose row is gone, the deletion has marked it; the rest is one case per action.
**Queue.** A claim is covered by the row lock until its commit (`ClaimsAreLocked`), and
by the status `processing` after it (`HeldAreProcessing`).

**Patches.** A deployed plan has to survive the rollback of another. The
invariant ties together what the chat's execution remembers: the backup it would
write back already contains every deployed plan (`BackupIsLive`), only the chat
executes (`OnlyChatExecutes`), a plan whose ticket is about to be written deployed
is in its files (`ExecutedIsLive`, `SettledIsLive`), a ticket becomes ready by hand
only (`ReadyIsEdited`), and answers in flight are counted (`AnswersAreCounted`) for
the challenge. For the pipeline, a rejected plan is out of reach: in no slot, no run, no
ticket that could be approved (`RejectedAreOut`), and so is every plan a run has not yet
tried (`UntriedAreOut`), because runs do not share plans (`OwnAreUnique`).
`ReadyIsLive` is about executions of any number that overlap. For a plan nobody got in the
way of, whoever has verified it holds it until the ticket is written (`AppliedIsLive`), the
ticket of a run is about the plan its sandbox executed (`SandboxRunsItsOwn`), and one
execution at a time verifies it (`OneVerifies`). The point is a second execution of a plan
that is already in the files, whose own rollback could take it out: the backup of that one
was taken with the plan in the files (`BackupHasPromised`), so it puts the plan back. The
invariant `ReadyInv` was found with TLC on small instances first.

**Pending actions.** Only the user's own turn confirms (`JobsConfirmNothing`), and a
delivered draft is in its key only while the turn that delivered it is about to clear it
(`DraftsOnRecord`, `TasksOnRecord`); how often a call has delivered is bounded by the
attempts it has made, and more than one is on record as a repetition. **Browser.** The semaphore makes the run that waits
unique (`WorkersHoldTheBrowser`); its request's list is complete, so the oldest decision
is the owner's first press (`WaitsForItsOwn`), and what it was asked for was approved
(`GatedAreApproved`); a step with something let through is of the run that has the
browser and was refused nothing.

**Repair agents.** The state machine mirrors the stages until a run ends (`Mirrored`), so
its verifier cannot object on the one edge it looks at, and what is tried has passed the
floor (`TriedIsClean`). A fix that has gone well has done its steps up to where it is
(`FixInv`). **Skills.** What a registry holds of a file is what is on disk, or the file
was written while the registry was there or being built (`TurnsHaveRead`,
`RegistryHasRead`). **Tools.** A name nobody disturbed is at rest, in the hands of one
creation, or in those of one deletion (`Settles`).

**Work in an organisation.** A handler whose read is not stale finds the row as it read
it (`ClerksAreFresh`), and the decisions of a gate are counted with those under way
(`GatesAreCounted`). **Organisations.** What a deletion will take was exclusive when
it was read, and still is unless somebody has touched it (`DeletersAreSparing`); tools
have their directories (`RowsHaveDirs`). **Wizards.** A session in the dictionary has
stored as often as it has saves that only have to answer (`SavesAreCounted`), and at
most one save works on a session that is not contested (`SavesAreAlone`).
**Plans.** What a validation said is said of the plan as it is (`PlanIsRepaired`), and
the rows carry the names the plan's agents were stored under (`PlanIsStored`).
**Set-ups.** What a set-up knows is there or was taken away since (`SetUpsAreKept`,
`VerdictsAreSo`), who it hires is at home in its organisation until they are rows like
the others (`TasksAreHome`).

Some attempts failed for a good reason and changed the model or the property:

- `ReadyIsLive` was false of runs that overlap, which no run had checked: a rollback takes
  out the patch of another, and a sandbox that has found another's plan reports on its own
  ticket. The model now names these plans (`crossed`), and `office` has runs that overlap.
- `RegistryIsCurrent` was false of a user's skill with the id of a Google skill, which
  is registered last and takes its place; the property now says so.
- `DeletionSparesOthers` was false when agents retained from an archived organisation
  were moved into a holding organisation in use while another deletion had read one of
  their tools as exclusive; such a read is now stale.
- The set-up of a project hired its agents in one step. One can be found similar to
  one the same set-up has just added, so hiring is one agent at a time now, as in the
  code.

### Model-checked only

The liveness properties (`EveryJobStops`, `AcceptedGetsItsTurn`, `ClaimableIsClaimed`,
`SchedulesFollowRows`): TLAPS has no rule for fairness and `ENABLED`.

What a recursive definition computes for every input is out of reach of the installed
provers. No module declares one: where a property could be said by recursion it is said
by place (`ByScript`) or by counting (`RowUnits`).


## 6. Disagreements found

With a run of their own (`findings` in `PROJECT.json`):

1. A one-shot task of the dashboard fires at every sync: nothing marks its row when
   it has fired, and `sync_tasks_from_db` adds it again with its past time
   (`tasks_once`).
2. A workspace call is tried again as transient whenever "429" or the like is anywhere in
   what comes back, also after the mail was sent or the task added, so one confirmation
   can carry it out three times (`mail_retried`).
3. The image of one message is analysed in the turn of another (`chat_photo`).
4. The ticket of an analysis is never stored: its `analyzed_at` is a datetime in a JSONB
   column, so the pipeline ends at its second stage (`analysis_ticket`).
5. The eviction's summarizer is shown fifty rows of a chunk that can have more, and all
   of them are deleted (`eviction`).

Seen while modelling, without a run. Where the code does these things the model does
them too, and the properties are stated around them.

**Jobs.** A tick that is in flight when its job is cancelled writes done or failed
over the cancel (`background_job.py:187`). The prompt of a tick quotes the goal,
so its turn may create further jobs, which the per-row budget of
`background_job.py:14` does not bound. The faults that fail a job need not be
consecutive as line 17 says: nothing resets the marks.

**Scheduled tasks.** The dashboard's Sync button deletes every schedule without a
`scheduled_tasks` row, hence the ticks of background jobs and the internal jobs,
the sync included, until the bot restarts (`api.py:1272`). If it cannot read the
schedules it takes all one-shot tasks for fired and deletes them (`api.py:1231`).
A task deleted while a sync pass is under way can stay scheduled for good. A
morning brief that was cancelled cannot be created again by chat: its row still
holds the id, and the insert fails after the schedule was added
(`scheduler_agent.py:163`). Chat rows hold a flat `trigger_config`, the sync reads
it nested: a reminder that is paused and resumed comes back at 9:00 or hourly,
or not at all if it is one-shot. `update_schedule` imports the scheduler engine,
whose package the API image does not install (`requirements-orchestration.txt`),
so editing a task always fails. `/neworg` fails for a like reason: it imports the
API's module into the bot (`handlers.py:2056`), whose requirements do not have FastAPI.

**Scheduler health.** The listener reads, changes and writes the record without a lock
(`observability.py:158`): the reset of a success that meets a failure can be written over,
or fail to be written, and the next failures call the schedule degraded though three in a
row, as the constant has it, there were not. `run_agent_task` swallows its failures, so the listener counts
them as successes; the weekly heartbeat names no account.

**Repair.** A challenge names no plan: the answer executes whatever the slot holds by
then (`repair_agent.py:171`). A diff that fails half-way leaves files written,
where the reply says not modified (`engine.py:829`). A verification that raises
skips the rollback (`engine.py:863`). The dry run writes (`engine.py:1386`), and its
report of a failed patch contains none of the words the floor looks for. A sandbox may
execute another plan than its own (`engine.py:1325`) and then say ready of its own ticket,
its rollback can take out a patch
that the owner's answer has just deployed, and a plan stored meanwhile goes with the
slot. Quality control decides without the diff, since its tool cannot encode the
`generated_at` of a proposal; without a recorded decision the answer is GO. The
validation command that the programmer's instructions default to is not on the floor's
list. Early returns leave the checkpoint for a day, and checkpoint tasks may overtake
one another. Of the fixes applied without asking only `clear_redis_key` is implemented.
The sandbox deploys to the live files (`engine.py:1506`) before the stage that line 1023
calls "Deploy approval (owner confirmation)"; no run gets that far while tickets cannot be
stored. Nothing clears `last_tool_error`, so any later "fix it" goes to the repair agent
with an error that may be repaired.

**Repair queue.** A ticket whose pipeline returns stays `processing`: the lease has no
end (`maintenance.py:433`). No code inserts a row that could be claimed, and the
worker passes the database id of the user where the Telegram id is meant.

**Chat and turns.** Messages are not processed in the order they were sent, as
`PRD_PersonalAssistant.md:967` has it, since uploads are fetched before the put.
A message put while the idle timer expires is lost without a word. Wizard messages
bypass the queue of `PRD_PersonalAssistant.md:133`. An image read by a background
turn, or the second photo of an album, can be deleted unanalysed. A voice
message's `wants_audio_reply` can be deleted by the next text before its reply. Images of
a job's turn wait in the field and go out with the user's next turn, or are erased by it.
The retry after a stale session clears the whole session of the agents and records the
question twice; a direct repair is recorded twice. A branch of the fan-out builds the
orchestrator without the scheduler's user, so for half a minute the cached tools are
bound to the wrong id.

**Conversation.** Compaction does nothing for a single dropped turn
(`conversation.py:534`), and `add_turn` normally drops one, so what is dropped is
hardly ever summarised, against lines 75 and 555. Archiving deletes the turns added
while its model answers.

**Pending actions and browser.** A "yes" meant for a newer task offer sends an older
pending mail first (`action_policy.py:118` says "the immediately preceding pending
action"). The prompt of a job can revise the user's draft. A refused browser write is
reported as a failed run with a ticket, and a denial whose text contains "timeout" is
retried; the retry repeats writes that were carried out. The gate asks only for what
`is_write_action` recognises: a click given by an index, `send_keys` or
`save_text_to_drive` goes unasked, so "ALL write actions" of `skills/browser.py:50` is
more than it does. An error that comes back in brackets (`workspace_mcp.py:178`, 215, 267)
is none of those `orchestrator.py:1922` looks for: the draft is cleared and the user is
told "Done" of a mail that was not sent.

**Costs.** Turns never ask for the cap and are always charged to "openai"; what
parallel branches cost is recorded nowhere; with Redis away nothing is spent.

**Persona and interview.** Crossed transactions leave two active versions, after which
`get_active_persona` raises for good. The curator's second version comes from a persona
it read before its first. `__START__` is recorded as an answer when a session is
resumed, and a reset during a message completes the archived session.

**Memory.** The nightly pass sees one page of 1,000 rows and its cap is 8,000, so only the
script ever evicts. A summary that is deduplicated onto a row chosen for eviction is
deleted with it.

**Generated skills.** "Once you modify this file, the reflector won't overwrite it"
(`skill_writer.py:143`) rests on a mark in the memory of the workflow alone. When that
memory is deleted by eviction, the curator or `/forget`, when the search for it fails and
an unmarked one is stored beside it (`mem0_client.py:108`), or when the mark cannot be
written, the next promotion writes over the edited file (`skill_writer.py:230`).

**Skills and tools.** Two tags are joined into one on their way through the dashboard, so
the skill is found by neither. A user's skill with the id of a Google skill is
overwritten in the registry. A directory without a skill blocks its name. A tool under
test is offered by every load; the bot's registry never drops a tool; `is_active` is
read by nothing that offers tools; a missing binary passes the test.

**Organisations.** The schedules of the bot's organisation tools can never be stored, as
the row gets the Telegram id where the key of the user's row belongs, and the entry in
APScheduler stays; its `cancel_org_schedule` takes any job id. Tasks of an agent that was
cloned under another's name stay unassigned. A reused skill's planned id is reported
found although there is no such skill. `delete_org` removes tool directories before
its commit. The deep repair of a plan always reports an error. A second question of
`/security` is lost, since an in-place append to a JSON column is not tracked.

**Wizards.** The pattern that looks for a tool's code finds the first fenced block, which
is the specification. Sessions have no owner and no expiry. A tool the generator refuses
is reported as created; of two overlapping saves the second reports failure though both
stored.


## 7. What is left out

- Text: prompts, regular expressions, formatting, parsing of dates, e-mails and
  notices. Where text decides (a reply starting with `DONE:`, an approval phrase, a
  route's pattern) the outcome is a free choice.
- Remote services, models, browsers, OAuth: free choices and failures.
- Real time. Timers may fire whenever they can; the order of two timers is free.
- Identity checks of users, and everything about who may do what.
- APScheduler itself: it keeps schedules in a table, ignores an add of an existing
  id, removes a date trigger's schedule after it fired and runs one instance of the
  sync at a time, as the code relies on. Of PostgreSQL, row locks and the visibility of
  committed rows; of Redis, that a command is atomic.
- The backup of the database, reports and statistics, which change nothing the program
  reads again.
- Routing scores, the tables of models and prices: tables of words and numbers.
- The front end, seed data, scripts and published packages.

`components` in `PROJECT.json` says for each part what its module leaves out.


## 8. Plan

The modules were written in the order of what depends on what: jobs and schedules, the
repairs and their approval, the chat queue, the turn and what it leaves, then the
organisations, wizards, skills and tools; each with its run first and its theorems after
TLC agreed. All planned modules are there. What would come next when the code changes:

- once tickets can be stored (finding 4), `TicketsStorable` is true of the code and the
  order of sandbox and owner's approval (section 6, Repair) becomes a question for a run;
- once a workspace call tells a rate limit from a result, or carries an id that makes it
  idempotent, `RetriesAreSafe` can move to `approvals`, and `CarriedOutOnce` say once;
- once the promotion looks at the file it writes, `EditsSurvive` can drop `unmarked`;
- once the health listener updates its record in one step, `NoFalseAlarm` can drop
  `blurred`.
