------------------------------ MODULE ProjectPlan ------------------------------
(***************************************************************************)
(* A project from plan to rows: a model drafts agents and tasks, the       *)
(* wizard validates and repairs the draft, and a set-up turns it into an   *)
(* organization -- the dashboard's (orchestration/api.py) or the bot's     *)
(* (setup_org_project of agents/org_agent.py), which would rather clone an *)
(* agent of a similar name than make a new one.                            *)
(*                                                                         *)
(* A name is a pair <<name, padded>>: padded with blanks or not.  Agents   *)
(* are stored under the stripped name, tasks look theirs up as written.    *)
(***************************************************************************)
EXTENDS Naturals, Sequences, FiniteSets, SequencesExt

CONSTANTS
  AgentDrafts,  \* agents a model may draft: name, skills, tools
  TaskDrafts,   \* tasks a model may draft: agent, trigger
  OldNames,     \* names of agents the owner has in other organizations
  AreSimilar,   \* pairs of names of a similarity of 0.85 and more
  NoName        \* a task that names no agent

ASSUME SimilarityIsReflexive == \A d \in AgentDrafts : <<d.name[1], d.name[1]>> \in AreSimilar
ASSUME AgentDraftsAreTyped ==
  \A d \in AgentDrafts :
    /\ d = [name |-> <<d.name[1], d.name[2]>>, skills |-> d.skills, tools |-> d.tools]
    /\ d.name[2] \in BOOLEAN /\ d.skills \in {"known", "unknown"}
    /\ d.tools \in {"builtin", "plugin", "unknown"}
ASSUME TaskDraftsAreTyped ==
  \A d \in TaskDrafts :
    /\ d = [agent |-> d.agent, trigger |-> d.trigger]
    /\ d.trigger \in {"none", "missing", "odd", "good", "malformed"}
ASSUME NoNameHasNoBlanks == NoName[2] = FALSE

VARIABLES
  draft,      \* the plan: agents and tasks
  planStage,
  planPass,   \* passes of repair_org_plan
  planValid,  \* what the last validation said, of the plan as it is
  agentRows,  \* the name each agent is stored under
  taskRows,   \* the agent each task is assigned to, 0 for none
  alarms,     \* tasks that got a row in scheduled_tasks
  told        \* how many the dashboard says it scheduled

planVars == <<draft, planStage, planPass, planValid, agentRows, taskRows, alarms, told>>

MAX_REPAIR_ITERATIONS == 3
Triggers == {"none", "missing", "odd", "good", "malformed"}
PlanStages == {"drafted", "repairing", "repaired", "dashboard", "bot", "scheduling", "done"}
\* Up to two of them, and at least one.
Lists(S) == UNION {[1..n -> S] : n \in 1..2}
AgentNames(agents) == {agents[i].name : i \in DOMAIN agents}
Stripped(name) == <<name[1], FALSE>>

PlanTypeOK ==
  /\ planStage \in PlanStages /\ planPass \in 0..MAX_REPAIR_ITERATIONS
  /\ planValid \in {"unknown", "valid", "invalid"}
  /\ \A i \in DOMAIN draft.agents : draft.agents[i].skills \in {"known", "unknown"}
                                 /\ draft.agents[i].tools \in {"builtin", "plugin", "unknown"}
  /\ \A i \in DOMAIN draft.tasks : draft.tasks[i].trigger \in Triggers
  /\ Len(agentRows) <= Len(draft.agents)
  /\ taskRows \in Seq(0..Len(draft.agents))
  /\ alarms \subseteq DOMAIN draft.tasks
  /\ told \in 0..Len(draft.tasks)

DraftedPlans == [agents : Lists(AgentDrafts), tasks : Lists(TaskDrafts)]

\* _build_org_plan, or the plan the wizard streamed: never without agents.
PlanInit ==
  /\ draft \in DraftedPlans
  /\ planStage = "drafted" /\ planPass = 0 /\ planValid = "unknown"
  /\ agentRows = <<>> /\ taskRows = <<>> /\ alarms = {} /\ told = 0

\* repair_validate: only a task without its agent makes a plan invalid.
Validated(plan) ==
  IF \A i \in DOMAIN plan.tasks : plan.tasks[i].agent \in AgentNames(plan.agents)
  THEN "valid" ELSE "invalid"

\* validate_org_plan.
ValidatePlan ==
  /\ planStage \in {"drafted", "repaired"} /\ planValid = "unknown"
  /\ planValid' = Validated(draft)
  /\ UNCHANGED <<draft, planStage, planPass, agentRows, taskRows, alarms, told>>

\* The loops of _deep_repair_generator over skills and tools.  A model's answer is
\* cut to the catalog; when nothing is left the skills stay, unknown ones too, and
\* of the tools those that are built in.  A failed call leaves the agent alone.
DeepSkills(agent) == {agent, [agent EXCEPT !.skills = "known"]}
DeepTools(agent) == {agent, [agent EXCEPT !.tools = "builtin"]}
\* The loop over schedules: a task that has one keeps it or gets the model's, whose
\* trigger is put right and whose numbers are not.
DeepSchedule(task) ==
  {task} \union IF task.trigger = "none" THEN {}
                ELSE {[task EXCEPT !.trigger = t] : t \in {"good", "malformed"}}

DeepRepair ==
  /\ planStage = "drafted"
  /\ \E agents \in Lists(UNION {UNION {DeepTools(a) : a \in DeepSkills(draft.agents[i])} :
                               i \in DOMAIN draft.agents}),
        tasks \in Lists(UNION {DeepSchedule(draft.tasks[i]) : i \in DOMAIN draft.tasks}) :
       /\ DOMAIN agents = DOMAIN draft.agents /\ DOMAIN tasks = DOMAIN draft.tasks
       /\ \A i \in DOMAIN agents :
            agents[i] \in UNION {DeepTools(a) : a \in DeepSkills(draft.agents[i])}
       /\ \A i \in DOMAIN tasks : tasks[i] \in DeepSchedule(draft.tasks[i])
       /\ draft' = [agents |-> agents, tasks |-> tasks]
       /\ planValid' = Validated(draft')
  /\ planStage' = "repaired"
  /\ UNCHANGED <<planPass, agentRows, taskRows, alarms, told>>

StartRepair ==
  /\ planStage = "drafted"
  /\ planStage' = "repairing"
  /\ UNCHANGED <<draft, planPass, planValid, agentRows, taskRows, alarms, told>>

\* One pass of repair_org_plan: what is not known is replaced by what is, a tool of
\* a plugin too; a task whose agent there is none of gets the closest name; one
\* that names no agent, and a schedule without a trigger, stay as they are.
FixedAgent(agent) == [agent EXCEPT !.skills = "known", !.tools = "builtin"]
Orphan(task) == task.agent # NoName /\ task.agent \notin AgentNames(draft.agents)
FixedTask(task, closest) ==
  [task EXCEPT !.agent   = IF Orphan(task) THEN closest ELSE @,
               !.trigger = IF @ = "odd" THEN "good" ELSE @]

RepairPass ==
  /\ planStage = "repairing" /\ planPass < MAX_REPAIR_ITERATIONS
  /\ \E closest \in AgentNames(draft.agents) :
       draft' = [agents |-> [i \in DOMAIN draft.agents |-> FixedAgent(draft.agents[i])],
                 tasks  |-> [i \in DOMAIN draft.tasks |-> FixedTask(draft.tasks[i], closest)]]
  /\ planPass' = planPass + 1
  /\ planValid' = Validated(draft')
  /\ planStage' = IF planValid' = "valid" \/ draft' = draft \/ planPass' = MAX_REPAIR_ITERATIONS
                  THEN "repaired" ELSE "repairing"
  /\ UNCHANGED <<agentRows, taskRows, alarms, told>>

\* setup_org_project_endpoint and setup_org_project; neither asks for a validation.
StartSetUp(by) ==
  /\ planStage \in {"drafted", "repaired"}
  /\ planStage' = by
  /\ UNCHANGED <<draft, planPass, planValid, agentRows, taskRows, alarms, told>>

\* The next agent of the plan gets its row.
NextAgent == draft.agents[Len(agentRows) + 1]
AddAgentRow(name) ==
  /\ Len(agentRows) < Len(draft.agents)
  /\ agentRows' = Append(agentRows, name)
  /\ UNCHANGED <<draft, planStage, planPass, planValid, taskRows, alarms, told>>

DashboardAddsAgent ==
  /\ planStage = "dashboard"
  /\ AddAgentRow(Stripped(NextAgent.name))

\* The bot takes the most similar agent of the owner, those it has just added
\* included, and the new row takes that one's name.
Candidates == OldNames \union {agentRows[i][1] : i \in DOMAIN agentRows}
SimilarNames == {n \in Candidates : <<n, NextAgent.name[1]>> \in AreSimilar}

BotAddsAgent ==
  /\ planStage = "bot" /\ Len(agentRows) < Len(draft.agents)
  /\ LET own == NextAgent.name[1]
     IN  IF SimilarNames = {} \/ own \in SimilarNames THEN AddAgentRow(<<own, FALSE>>)
         ELSE \E n \in SimilarNames : AddAgentRow(<<n, FALSE>>)

\* A bug: an agent that is not found gives the first one.
FirstOtherwise(name) ==
  LET named == {i \in DOMAIN agentRows : agentRows[i] = name}
  IN  IF named = {} THEN 1 ELSE CHOOSE i \in named : \A j \in named : j <= i

\* agent_map: of two agents stored under one name the later one.
AgentOf(name) ==
  LET named == {i \in DOMAIN agentRows : agentRows[i] = name}
  IN  IF named = {} THEN 0 ELSE CHOOSE i \in named : \A j \in named : j <= i

AddTaskRows(next) ==
  /\ Len(agentRows) = Len(draft.agents)
  /\ taskRows' = [i \in DOMAIN draft.tasks |-> AgentOf(draft.tasks[i].agent)]
  /\ planStage' = next
  /\ UNCHANGED <<draft, planPass, planValid, agentRows, alarms, told>>

DashboardAddsTasks == planStage = "dashboard" /\ AddTaskRows("scheduling")
BotAddsTasks == planStage = "bot" /\ AddTaskRows("done")

\* The dashboard counts a row before its commit; a number that is none drops all
\* rows, and the set-up goes on.
Scheduled(i) == draft.tasks[i].trigger = "good"
Malformed == {i \in DOMAIN draft.tasks : draft.tasks[i].trigger = "malformed"}

WriteAlarms ==
  /\ planStage = "scheduling"
  /\ told' = Cardinality({i \in DOMAIN draft.tasks : Scheduled(i) /\ \A j \in Malformed : i < j})
  /\ alarms' = IF Malformed = {} THEN {i \in DOMAIN draft.tasks : Scheduled(i)} ELSE {}
  /\ planStage' = "done"
  /\ UNCHANGED <<draft, planPass, planValid, agentRows, taskRows>>

\* _run_cohesion_validation of what was stored: its errors.
Unassigned == {i \in DOMAIN taskRows : taskRows[i] = 0}

PlanNext ==
  \/ ValidatePlan \/ DeepRepair \/ StartRepair \/ RepairPass
  \/ \E by \in {"dashboard", "bot"} : StartSetUp(by)
  \/ DashboardAddsAgent \/ BotAddsAgent \/ DashboardAddsTasks \/ BotAddsTasks
  \/ WriteAlarms

PlanSpec == PlanInit /\ [][PlanNext]_planVars

(***************************************************************************)
(* Properties.                                                             *)
(***************************************************************************)

\* The causes that are known: a name padded with blanks, and an agent the bot
\* stored under the name of a similar one.
Padded(i) == draft.tasks[i].agent # NoName /\ draft.tasks[i].agent[2]
Renamed == \E j \in DOMAIN agentRows : agentRows[j] # Stripped(draft.agents[j].name)

\* What was called valid is stored whole: when a set-up ends, the stored project has
\* no task without an agent, every task belongs to the agent of the plan it named,
\* and the schedules there are the ones reported -- unless a task's agent is padded
\* or an agent was renamed, or a schedule holds a number that is none.  And one
\* repair leaves a plan invalid only for a task that names no agent at all.
ValidPlansAreStoredWhole ==
  /\ planStage = "done" /\ ~Renamed =>
       /\ planValid = "valid" => Unassigned \subseteq {i \in DOMAIN taskRows : Padded(i)}
       /\ \A i \in DOMAIN taskRows \ Unassigned :
            Stripped(draft.agents[taskRows[i]].name) = Stripped(draft.tasks[i].agent)
       /\ Malformed = {} => told = Cardinality(alarms)
  /\ planStage = "repaired" /\ planPass > 0 /\ planValid = "invalid" =>
       \E i \in DOMAIN draft.tasks : draft.tasks[i].agent = NoName
=============================================================================
