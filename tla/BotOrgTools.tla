------------------------------- MODULE BotOrgTools -----------------------------
(***************************************************************************)
(* What the bot does for an owner's organizations: the tools that          *)
(* agents/org_agent.py binds to a user, setup_org_project from its plan to *)
(* its summary among them, and the handlers of the dashboard that change   *)
(* the same rows and files in between.                                     *)
(*                                                                         *)
(* A set-up adds the organization's agents one after the other, each with  *)
(* a look at the agents there are, and is then a chain of commits: the     *)
(* organization with its agents and tasks, each tool, each skill, and last *)
(* what it finds when it looks whether every agent has what it was given.  *)
(* A turn that runs out of time leaves what was committed.  The other      *)
(* tools are one commit each here; how two of them overlap on a row is     *)
(* module OrgWork's matter.                                                *)
(***************************************************************************)
EXTENDS Naturals, FiniteSets, Sequences, SequencesExt

CONSTANTS
  BotOrgs,       \* ids of organizations
  NotOwned,      \* those of another owner
  BotSkills,     \* ids of skills
  Reserved,      \* those built in: _RESERVED_SKILL_IDS
  BotTools,      \* names of tools
  BotNames,      \* names of agents
  NearNames,     \* pairs of names and ids at REUSE_THRESHOLD or above
  BotPlans,      \* plans the model may draw up
  SetUps,        \* calls of setup_org_project
  BotJobs,       \* ids of schedules
  MaxBotAgents,  \* bound: rows of agents
  MaxBotTasks,   \* bound: rows of tasks
  MaxBotCalls    \* bound: calls of the other tools and of the dashboard's handlers

ASSUME ReservedAreSkills == Reserved \subseteq BotSkills
ASSUME NotOwnedAreOrgs == NotOwned \subseteq BotOrgs

VARIABLES
  botOrg,     \* id -> the organization's status
  botAgent,   \* the rows of agents, by id
  botTask,    \* the rows of tasks, by id
  botShelf,   \* what is there: files of skills, directories and rows of tools
  botSetUp,   \* the set-ups
  botJob,     \* id -> the row and the entry of a schedule
  botCalls,   \* calls so far
  botMissed   \* history: names found once and removed since, or reused under another

botVars == <<botOrg, botAgent, botTask, botShelf, botSetUp, botJob, botCalls, botMissed>>

NoHome == "none"
NoMember == 0
Wares == BotSkills \union BotTools
\* What a model draws up: agents with what they use, tasks by their agent's name, the
\* tools and skills to make.
ASSUME BotPlansAreTyped ==
  /\ BotPlans # {} /\ NoHome \notin BotOrgs
  /\ \A p \in BotPlans :
       /\ p.agents \in Seq([name : BotNames, uses : SUBSET Wares]) /\ p.tasks \in Seq(BotNames)
       /\ p.tools \in Seq(BotTools) /\ p.skills \in Seq(BotSkills)
ASSUME BotBoundsAreNatural ==
  MaxBotAgents \in Nat /\ MaxBotTasks \in Nat /\ MaxBotCalls \in Nat
OrgStates == {"absent", "active", "paused", "archived", "deleted"}
NotBegun == [at |-> "idle", plan |-> CHOOSE p \in BotPlans : TRUE, org |-> NoHome,
             crew |-> <<>>, given |-> <<>>, next |-> 1, told |-> {}, known |-> {}]

BotTypeOK ==
  /\ botOrg \in [BotOrgs -> OrgStates]
  /\ \A i \in DOMAIN botAgent :
       /\ botAgent[i].org \in BotOrgs \union {NoHome} /\ botAgent[i].name \in BotNames
       /\ botAgent[i].uses \subseteq Wares /\ botAgent[i].found \subseteq Wares
  /\ \A t \in DOMAIN botTask :
       /\ botTask[t].org \in BotOrgs \union {NoHome} /\ botTask[t].agent \in 0..Len(botAgent)
       /\ botTask[t].status \in {"pending", "in_progress", "completed"}
  /\ botShelf.skills \subseteq BotSkills /\ botShelf.rows \subseteq BotTools
  /\ botShelf.dirs \subseteq BotTools
  /\ \A s \in SetUps :
       /\ botSetUp[s].at \in {"idle", "agents", "tools", "skills", "look", "write", "over"}
       /\ botSetUp[s].org \in BotOrgs \union {NoHome}
       /\ botSetUp[s].known \subseteq Wares /\ botSetUp[s].told \subseteq Wares
  /\ botJob \in [BotJobs -> [row : BOOLEAN, entry : BOOLEAN]]
  /\ botCalls \in 0..MaxBotCalls
  /\ botMissed \subseteq Wares

BotInit ==
  /\ botOrg = [o \in BotOrgs |-> IF o \in NotOwned THEN "active" ELSE "absent"]
  /\ botAgent = <<>> /\ botTask = <<>>
  /\ botShelf = [skills |-> {}, rows |-> {}, dirs |-> {}]
  /\ botSetUp = [s \in SetUps |-> NotBegun]
  /\ botJob = [j \in BotJobs |-> [row |-> FALSE, entry |-> FALSE]]
  /\ botCalls = 0
  /\ botMissed = {}

-----------------------------------------------------------------------------
(* The tools that write one organization                                   *)

\* _get_owned_org.
Owned(o) == o \notin NotOwned /\ botOrg[o] \notin {"absent", "deleted"}
\* Rows of a deleted organization or agent keep their id here, with no organization.
Member(i, o) == i \in DOMAIN botAgent /\ botAgent[i].org = o
TaskOf(t, o) == t \in DOMAIN botTask /\ botTask[t].org = o

NewAgent(o, name, uses) == [org |-> o, name |-> name, uses |-> uses, found |-> {}]
NewTask(o, i) ==
  [org |-> o, agent |-> i, status |-> IF i = NoMember THEN "pending" ELSE "in_progress"]

\* An id that nobody has, nor a set-up that has not committed.
Unborn(o) == botOrg[o] = "absent" /\ \A s \in SetUps : botSetUp[s].org # o

CreateOrganization(o) ==
  /\ Unborn(o)
  /\ botOrg' = [botOrg EXCEPT ![o] = "active"]
  /\ UNCHANGED <<botAgent, botTask, botShelf, botSetUp, botJob, botMissed>>

UpdateOrganization(o, status) ==
  /\ Owned(o) /\ botOrg[o] # status
  /\ botOrg' = [botOrg EXCEPT ![o] = status]
  /\ UNCHANGED <<botAgent, botTask, botShelf, botSetUp, botJob, botMissed>>

\* Neither the skills nor the tools named need exist.
AddOrgAgent(o, name, uses) ==
  /\ Owned(o) /\ Len(botAgent) < MaxBotAgents
  /\ botAgent' = Append(botAgent, NewAgent(o, name, uses))
  /\ UNCHANGED <<botOrg, botTask, botShelf, botSetUp, botJob, botMissed>>

AddOrgTask(o, i) ==
  /\ Owned(o) /\ Len(botTask) < MaxBotTasks
  /\ i = NoMember \/ Member(i, o)
  /\ botTask' = Append(botTask, NewTask(o, i))
  /\ UNCHANGED <<botOrg, botAgent, botShelf, botSetUp, botJob, botMissed>>

\* A completed task is assigned without being taken up again.
AssignOrgTask(o, t, i) ==
  /\ Owned(o) /\ TaskOf(t, o) /\ Member(i, o)
  /\ botTask' = [botTask EXCEPT ![t].agent = i,
                                ![t].status = IF @ = "pending" THEN "in_progress" ELSE @]
  /\ UNCHANGED <<botOrg, botAgent, botShelf, botSetUp, botJob, botMissed>>

CompleteOrgTask(o, t) ==
  /\ Owned(o) /\ TaskOf(t, o) /\ botTask[t].status # "completed"
  /\ botTask' = [botTask EXCEPT ![t].status = "completed"]
  /\ UNCHANGED <<botOrg, botAgent, botShelf, botSetUp, botJob, botMissed>>

\* create_reminder of the scheduler's agent, for the owner and with the id of the
\* owner's row (module ScheduledTasks): an entry and a row.
KeepReminder(j) ==
  /\ ~botJob[j].row /\ ~botJob[j].entry
  /\ botJob' = [botJob EXCEPT ![j] = [row |-> TRUE, entry |-> TRUE]]
  /\ UNCHANGED <<botOrg, botAgent, botTask, botShelf, botSetUp, botMissed>>

\* The entry is made first; the row carries the Telegram id where the key of the
\* user's row belongs, and is refused.  The owner is told that it failed.
ScheduleOrgTask(o, j) ==
  /\ Owned(o) /\ ~botJob[j].row /\ ~botJob[j].entry
  /\ botJob' = [botJob EXCEPT ![j].entry = TRUE]
  /\ UNCHANGED <<botOrg, botAgent, botTask, botShelf, botSetUp, botMissed>>

\* Any schedule's id will do (list_org_schedules, which looks for rows with the Telegram
\* id, shows none).  The entry goes; a row belongs to another id than the
\* one it is looked for with, and stays active.
CancelOrgSchedule(o, j) ==
  /\ Owned(o) /\ botJob[j].entry
  /\ botJob' = [botJob EXCEPT ![j].entry = FALSE]
  /\ UNCHANGED <<botOrg, botAgent, botTask, botShelf, botSetUp, botMissed>>

\* The generator's outcomes (module ToolShelf): "recorded", "unrecorded" when only the
\* row could not be written, "refused".
Generated(shelf, w, outcome) ==
  IF outcome = "refused" \/ w \in shelf.dirs THEN shelf
  ELSE [shelf EXCEPT !.dirs = @ \union {w},
                     !.rows = IF outcome = "recorded" THEN @ \union {w} ELSE @]

CreateOrgTool(o, w, outcome) ==
  /\ Owned(o)
  /\ botShelf' = Generated(botShelf, w, outcome)
  /\ UNCHANGED <<botOrg, botAgent, botTask, botSetUp, botJob, botMissed>>

-----------------------------------------------------------------------------
(* setup_org_project                                                       *)

Near(x, y) == x = y \/ <<x, y>> \in NearNames

\* _find_similar_existing_agent: over all the owner's organizations, whatever their
\* status, the agents the same set-up has just added among them; the best score, and
\* the first of equals.
Similar(rows, name) == {i \in DOMAIN rows : rows[i].org # NoHome /\ rows[i].org \notin NotOwned
                                            /\ Near(rows[i].name, name)}
First(is) == CHOOSE i \in is : \A k \in is : i <= k
Best(rows, name) ==
  LET same == {i \in Similar(rows, name) : rows[i].name = name}
  IN  First(IF same # {} THEN same ELSE Similar(rows, name))

\* The agents a set-up finds: those there are, and those it has added.
Seen(s) == botAgent \o botSetUp[s].crew

\* A planned agent becomes a row of its own: new, or a copy of the one most like it,
\* with that one's name and both their skills and tools.
Hired(rows, o, a) ==
  IF Similar(rows, a.name) = {} THEN NewAgent(o, a.name, a.uses)
  ELSE LET src == Best(rows, a.name)
       IN  NewAgent(o, rows[src].name, rows[src].uses \union a.uses)

\* The transaction begins with the organization.
SetUpBegins(s, plan, o) ==
  /\ botSetUp[s].at = "idle"
  /\ Owned(o) \/ Unborn(o)
  /\ botSetUp' = [botSetUp EXCEPT ![s] = [NotBegun EXCEPT !.at = "agents", !.plan = plan,
                                                         !.org = o]]
  /\ UNCHANGED <<botOrg, botAgent, botTask, botShelf, botJob, botMissed>>

\* A bug: the row of the agent that is like the planned one moves to the organization.
Reparents(s) ==
  LET w == botSetUp[s] IN
  /\ w.at = "agents" /\ Similar(botAgent, w.plan.agents[1].name) # {}
  /\ botAgent' = [botAgent EXCEPT ![Best(botAgent, w.plan.agents[1].name)].org = w.org]
  /\ botSetUp' = [botSetUp EXCEPT ![s].at = "over"]
  /\ UNCHANGED <<botOrg, botTask, botShelf, botJob, botMissed>>

\* The next planned agent is added; nobody else sees it yet.
HireNext(s) ==
  LET w == botSetUp[s] IN
  /\ w.at = "agents" /\ Len(w.crew) < Len(w.plan.agents) /\ Len(Seen(s)) < MaxBotAgents
  /\ botSetUp' = [botSetUp EXCEPT ![s].crew =
                    Append(@, Hired(Seen(s), w.org, w.plan.agents[Len(w.crew) + 1]))]
  /\ UNCHANGED <<botOrg, botAgent, botTask, botShelf, botJob, botMissed>>

\* agent_name_to_obj: the last row of each name.
Team(rows, old) ==
  {i \in DOMAIN rows : i > old /\ \A k \in DOMAIN rows : k > i => rows[k].name # rows[i].name}
Named(rows, team, name) ==
  IF \E i \in team : rows[i].name = name
  THEN CHOOSE i \in team : rows[i].name = name ELSE NoMember

\* The organization, its agents and its tasks are one commit.  A task is looked up by
\* the planned name of its agent.
SetUpCommits(s) ==
  LET w    == botSetUp[s]
      rows == Seen(s)
      team == Team(rows, Len(botAgent))
  IN  /\ w.at = "agents" /\ Len(w.crew) = Len(w.plan.agents)
      /\ Owned(w.org) \/ botOrg[w.org] = "absent"
      /\ Len(rows) <= MaxBotAgents /\ Len(botTask) + Len(w.plan.tasks) <= MaxBotTasks
      /\ botAgent' = rows
      /\ botTask' = botTask \o [k \in DOMAIN w.plan.tasks |->
                                  NewTask(w.org, Named(rows, team, w.plan.tasks[k]))]
      /\ botSetUp' = [botSetUp EXCEPT ![s].at = "tools", ![s].crew = <<>>,
                                      ![s].given = [i \in team |-> rows[i].uses]]
      /\ botOrg' = [botOrg EXCEPT ![w.org] = IF @ = "absent" THEN "active" ELSE @]
      /\ UNCHANGED <<botShelf, botJob, botMissed>>

\* The next of the planned tools or skills; after the last, the next stage.
Advanced(s, of, then) ==
  IF botSetUp[s].next < Len(of) THEN [botSetUp[s] EXCEPT !.next = @ + 1]
                                ELSE [botSetUp[s] EXCEPT !.next = 1, !.at = then]
Current(s, stage, of) == botSetUp[s].at = stage /\ botSetUp[s].next \in DOMAIN of

\* A tool with a row like it is used in its place, and the agents keep the planned name.
SetUpTool(s, outcome) ==
  LET tools == botSetUp[s].plan.tools
      w     == tools[botSetUp[s].next]
      alike == \E r \in botShelf.rows : Near(r, w)
  IN  /\ Current(s, "tools", tools)
      /\ botShelf' = IF alike THEN botShelf ELSE Generated(botShelf, w, outcome)
      /\ botSetUp' = [botSetUp EXCEPT ![s] = Advanced(s, tools, "skills")]
      /\ UNCHANGED <<botOrg, botAgent, botTask, botJob, botMissed>>

\* A reserved id is skipped; a skill with a file like it is used in its place, and its
\* planned id remembered as reused; else the file is written, if the disk lets it.
SetUpSkill(s, written) ==
  LET skills == botSetUp[s].plan.skills
      k      == skills[botSetUp[s].next]
      alike  == \E f \in botShelf.skills : Near(f, k)
      next   == Advanced(s, skills, "look")
  IN  /\ Current(s, "skills", skills)
      /\ botShelf' = IF k \notin Reserved /\ ~alike /\ written
                     THEN [botShelf EXCEPT !.skills = @ \union {k}] ELSE botShelf
      /\ botSetUp' = [botSetUp EXCEPT ![s] =
                        IF k \notin Reserved /\ (alike \/ written)
                        THEN [next EXCEPT !.told = @ \union {k}] ELSE next]
      /\ botMissed' = IF k \notin Reserved /\ alike /\ k \notin botShelf.skills
                      THEN botMissed \union {k} ELSE botMissed
      /\ UNCHANGED <<botOrg, botAgent, botTask, botJob>>

\* A stage with nothing planned.
SkipStage(s) ==
  /\ \/ botSetUp[s].at = "tools" /\ botSetUp[s].plan.tools = <<>>
     \/ botSetUp[s].at = "skills" /\ botSetUp[s].plan.skills = <<>>
  /\ botSetUp' = [botSetUp EXCEPT ![s].at = IF @ = "tools" THEN "skills" ELSE "look"]
  /\ UNCHANGED <<botOrg, botAgent, botTask, botShelf, botJob, botMissed>>

\* A bug: whatever the plan wanted written is taken to be there.
TrustsThePlan(s) ==
  Reserved \union botShelf.skills \union Range(botSetUp[s].plan.skills)
    \union botShelf.rows \union botShelf.dirs

\* What counts as there: built-in ids, files, ids just written or reused, tools with a
\* row or a directory.
KnownWares(s) ==
  Reserved \union botShelf.skills \union botSetUp[s].told \union botShelf.rows \union botShelf.dirs

LookAround(s) ==
  /\ botSetUp[s].at = "look"
  /\ botSetUp' = [botSetUp EXCEPT ![s].known = KnownWares(s), ![s].at = "write"]
  /\ UNCHANGED <<botOrg, botAgent, botTask, botShelf, botJob, botMissed>>

\* The verdicts are written over the configuration the set-up itself gave each agent;
\* if one of them is gone, the commit fails and none is written.
WriteVerdicts(s) ==
  LET given == botSetUp[s].given
      mine  == DOMAIN given
  IN  /\ botSetUp[s].at = "write"
      /\ botAgent' =
           IF \A i \in mine : botAgent[i].org # NoHome
           THEN [i \in DOMAIN botAgent |->
                   IF i \in mine
                   THEN [botAgent[i] EXCEPT !.uses = given[i],
                                            !.found = given[i] \intersect botSetUp[s].known]
                   ELSE botAgent[i]]
           ELSE botAgent
      /\ botSetUp' = [botSetUp EXCEPT ![s] = [NotBegun EXCEPT !.at = "over"]]
      /\ UNCHANGED <<botOrg, botTask, botShelf, botJob, botMissed>>

\* The turn's time is up, or the process ends, between two commits.
SetUpCut(s) ==
  /\ botSetUp[s].at \notin {"idle", "over"}
  /\ botSetUp' = [botSetUp EXCEPT ![s] = [NotBegun EXCEPT !.at = "over"]]
  /\ UNCHANGED <<botOrg, botAgent, botTask, botShelf, botJob, botMissed>>

-----------------------------------------------------------------------------
(* The dashboard                                                           *)

\* update_org_agent: new skills and tools, and the old verdicts with them.
EditAgent(i, uses) ==
  /\ i \in DOMAIN botAgent /\ botAgent[i].org # NoHome /\ botAgent[i].uses # uses
  /\ botAgent' = [botAgent EXCEPT ![i].uses = uses]
  /\ UNCHANGED <<botOrg, botTask, botShelf, botSetUp, botJob, botMissed>>

\* The foreign key of a task is set to null when its agent goes.
DropAgent(i) ==
  /\ i \in DOMAIN botAgent /\ botAgent[i].org # NoHome /\ botOrg[botAgent[i].org] # "active"
  /\ botAgent' = [botAgent EXCEPT ![i].org = NoHome]
  /\ botTask' = [t \in DOMAIN botTask |->
                   IF botTask[t].agent = i THEN [botTask[t] EXCEPT !.agent = NoMember]
                                           ELSE botTask[t]]
  /\ UNCHANGED <<botOrg, botShelf, botSetUp, botJob, botMissed>>

\* delete_org takes the rows that are its own (and no tool here: that is OrgBoard's).
DropOrg(o) ==
  LET gone == {i \in DOMAIN botAgent : botAgent[i].org = o} IN
  /\ Owned(o)
  /\ botOrg' = [botOrg EXCEPT ![o] = "deleted"]
  /\ botAgent' = [i \in DOMAIN botAgent |->
                    IF i \in gone THEN [botAgent[i] EXCEPT !.org = NoHome] ELSE botAgent[i]]
  /\ botTask' = [t \in DOMAIN botTask |->
                   IF botTask[t].org = o THEN [botTask[t] EXCEPT !.org = NoHome, !.agent = NoMember]
                                         ELSE botTask[t]]
  /\ UNCHANGED <<botShelf, botSetUp, botJob, botMissed>>

\* delete_skill and delete_tool.
RemoveWare(x) ==
  /\ x \in botShelf.skills \union botShelf.dirs \union botShelf.rows
  /\ botShelf' = [skills |-> botShelf.skills \ {x}, dirs |-> botShelf.dirs \ {x},
                  rows |-> botShelf.rows \ {x}]
  /\ botMissed' = botMissed \union {x}
  /\ UNCHANGED <<botOrg, botAgent, botTask, botSetUp, botJob>>

\* A call of another tool or of the dashboard.
BotCall ==
  \/ \E o \in BotOrgs :
       \/ CreateOrganization(o) \/ DropOrg(o)
       \/ \E status \in {"active", "paused", "archived"} : UpdateOrganization(o, status)
       \/ \E name \in BotNames, x \in Wares : AddOrgAgent(o, name, {x})
       \/ \E i \in 0..MaxBotAgents : AddOrgTask(o, i)
       \/ \E t \in 1..MaxBotTasks :
            CompleteOrgTask(o, t) \/ \E i \in 1..MaxBotAgents : AssignOrgTask(o, t, i)
       \/ \E j \in BotJobs : ScheduleOrgTask(o, j) \/ CancelOrgSchedule(o, j)
       \/ \E w \in BotTools, outcome \in {"recorded", "unrecorded", "refused"} :
            CreateOrgTool(o, w, outcome)
  \/ \E j \in BotJobs : KeepReminder(j)
  \/ \E i \in 1..MaxBotAgents : DropAgent(i) \/ \E x \in Wares : EditAgent(i, {x})
  \/ \E x \in Wares : RemoveWare(x)

SetUpStep(s) ==
  \/ \E plan \in BotPlans, o \in BotOrgs : SetUpBegins(s, plan, o)
  \/ HireNext(s) \/ SetUpCommits(s)
  \/ \E outcome \in {"recorded", "unrecorded", "refused"} : SetUpTool(s, outcome)
  \/ \E written \in BOOLEAN : SetUpSkill(s, written)
  \/ SkipStage(s) \/ LookAround(s) \/ WriteVerdicts(s) \/ SetUpCut(s)

BotNext ==
  \/ botCalls < MaxBotCalls /\ botCalls' = botCalls + 1 /\ BotCall
  \/ (\E s \in SetUps : SetUpStep(s)) /\ UNCHANGED botCalls

BotSpec == BotInit /\ [][BotNext]_botVars

(***************************************************************************)
(* Properties.                                                             *)
(***************************************************************************)

\* What a set-up says it found is there, for every agent of whatever organization
\* that still stands: a skill has its file, a tool its directory, unless it was
\* removed since or a file of another id was used in its place.
FoundIsThere(i) ==
  \A x \in botAgent[i].found :
    x \in Reserved \union botShelf.skills \union botShelf.dirs \union botMissed

\* org_agent.py:1378, "each OrgAgent row stays owned by its original org": a task is
\* with an agent of its own organization, also when a set-up used that agent again.
StaysAtHome ==
  \A t \in DOMAIN botTask : botTask[t].agent # NoMember =>
    botAgent[botTask[t].agent].org = botTask[t].org

\* Whatever set-ups, tools and handlers run between its commits, a set-up leaves no
\* agent with a verdict that is not so and no task with an agent of another
\* organization.
SetUpsAreSound ==
  StaysAtHome /\ \A i \in DOMAIN botAgent : botAgent[i].org # NoHome => FoundIsThere(i)
=============================================================================
