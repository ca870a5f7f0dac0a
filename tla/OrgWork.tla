------------------------------- MODULE OrgWork -------------------------------
(***************************************************************************)
(* The daily work of one organization: its agents, tasks and approval      *)
(* gates, as the dashboard's handlers (orchestration/api.py) and the bot's *)
(* tools (agents/org_agent.py) change them.                                *)
(*                                                                         *)
(* A handler reads a row, decides, and commits later.  Nothing locks the   *)
(* row, and the commit writes only the columns the handler changed from    *)
(* what it had read; so a handler that decides on a row is two steps here, *)
(* and one that does not is one step.                                      *)
(***************************************************************************)
EXTENDS Naturals, FiniteSets

CONSTANTS
  OrgStaff,       \* ids of agents
  OrgTasks,       \* ids of tasks
  OrgGates,       \* ids of approval gates
  OrgClerks,      \* handlers that can be under way at once
  NoAgent

ASSUME ClerksAreFinite == IsFiniteSet(OrgClerks) /\ "nobody" \notin OrgClerks

VARIABLES
  orgStatus,  \* the organization's status
  orgStaff,      \* agents there are
  orgFormer,   \* agents deleted: an id is never given again
  orgTasks,      \* id -> the row
  orgGates,      \* id -> status and how often it was decided
  orgClerks,     \* what each handler under way has read
  workCollided,   \* history: rows written from a stale read
  workLost        \* history: agents deleted while the organization was active

workVars == <<orgStatus, orgStaff, orgFormer, orgTasks, orgGates, orgClerks, workCollided, workLost>>

NoSuchTask == [agent |-> NoAgent, status |-> "absent", dated |-> FALSE]
DeletedTask == [NoSuchTask EXCEPT !.status = "deleted"]
NewGate == [status |-> "absent", decisions |-> 0]
NoTaskRead == [status |-> "absent", dated |-> FALSE]
ClerkIdle == [does |-> "nothing", of |-> {}, stale |-> FALSE, want |-> "none", read |-> NoTaskRead]
Wants == {"assign", "complete", "complete_once", "pending", "in_progress", "completed"}
TaskRows == [agent : OrgStaff \union {NoAgent}, dated : BOOLEAN,
             status : {"absent", "pending", "in_progress", "completed", "deleted"}]

WorkTypeOK ==
  /\ orgStatus \in {"active", "paused", "archived", "deleted"}
  /\ orgStaff \subseteq OrgStaff /\ orgFormer \subseteq OrgStaff /\ orgStaff \intersect orgFormer = {}
  /\ orgTasks \in [OrgTasks -> TaskRows]
  /\ orgGates \in [OrgGates -> [status : {"absent", "pending", "approved", "rejected"},
                          decisions : 0..Cardinality(OrgClerks)]]
  /\ orgClerks \in [OrgClerks -> [does : {"nothing", "task", "gate", "agent"},
                   of : SUBSET (OrgStaff \union OrgTasks \union OrgGates \union {"org"}),
                   stale : BOOLEAN, want : Wants \union {"none"},
                   read : [status : {"absent", "pending", "in_progress", "completed"},
                           dated : BOOLEAN]]]
  /\ workCollided \subseteq OrgStaff \union OrgTasks \union OrgGates
  /\ workLost \subseteq OrgStaff

WorkInit ==
  /\ orgStatus = "active"
  /\ orgStaff = {} /\ orgFormer = {}
  /\ orgTasks = [t \in OrgTasks |-> NoSuchTask]
  /\ orgGates = [g \in OrgGates |-> NewGate]
  /\ orgClerks = [c \in OrgClerks |-> ClerkIdle]
  /\ workCollided = {} /\ workLost = {}

OrgStanding == orgStatus # "deleted"
TaskStored(t) == orgTasks[t].status \notin {"absent", "deleted"}

\* A commit on some rows makes what other handlers have read of them stale.
TouchClerks(except, things) ==
  [c \in OrgClerks |-> IF c # except /\ orgClerks[c].of \intersect things # {}
                    THEN [orgClerks[c] EXCEPT !.stale = TRUE] ELSE orgClerks[c]]
ClerkDone(c, things) == orgClerks' = [TouchClerks(c, things) EXCEPT ![c] = ClerkIdle]
WorkCollides(c, x) == workCollided' = IF orgClerks[c].stale THEN workCollided \union {x} ELSE workCollided

\* pause_org, resume_org, update_organization: any status after any other.
SetWorkStatus(status) ==
  /\ OrgStanding /\ orgStatus # status
  /\ orgStatus' = status
  /\ orgClerks' = TouchClerks("nobody", {"org"})
  /\ UNCHANGED <<orgStaff, orgFormer, orgTasks, orgGates, workCollided, workLost>>

\* create_org_agent, add_org_agent.
AddAgent(a) ==
  /\ OrgStanding /\ a \notin orgStaff \union orgFormer
  /\ orgStaff' = orgStaff \union {a}
  /\ UNCHANGED <<orgStatus, orgFormer, orgTasks, orgGates, orgClerks, workCollided, workLost>>

\* create_org_task, add_org_task.
CreateOrgTask(t, a) ==
  /\ OrgStanding /\ orgTasks[t] = NoSuchTask
  /\ a \in orgStaff \union {NoAgent}
  /\ orgTasks' = [orgTasks EXCEPT ![t] = [agent |-> a, dated |-> FALSE,
                 status |-> IF a = NoAgent THEN "pending" ELSE "in_progress"]]
  /\ UNCHANGED <<orgStatus, orgStaff, orgFormer, orgGates, orgClerks, workCollided, workLost>>

DeleteOrgTask(t) ==
  /\ TaskStored(t)
  /\ orgTasks' = [orgTasks EXCEPT ![t] = DeletedTask]
  /\ orgClerks' = TouchClerks("nobody", {t})
  /\ UNCHANGED <<orgStatus, orgStaff, orgFormer, orgGates, workCollided, workLost>>

\* update_org_task, complete_org_task and assign_org_task read the row; the
\* bot's complete_org_task gives up on one that is completed.
ReadOrgTask(c, t, want) ==
  /\ orgClerks[c] = ClerkIdle /\ TaskStored(t)
  /\ want = "complete_once" => orgTasks[t].status # "completed"
  /\ orgClerks' = [orgClerks EXCEPT ![c] = [does |-> "task", of |-> {t}, stale |-> FALSE,
                                      want |-> want,
                        read |-> [status |-> orgTasks[t].status, dated |-> orgTasks[t].dated]]]
  /\ UNCHANGED <<orgStatus, orgStaff, orgFormer, orgTasks, orgGates, workCollided, workLost>>

Completes(want) == want \in {"complete", "complete_once"}

WrittenStatus(read, want) ==
  IF want = "assign" THEN (IF read.status = "pending" THEN "in_progress" ELSE read.status)
  ELSE IF Completes(want) THEN "completed" ELSE want

\* A bug: a task that is taken up again keeps the date of its completion.
DateNeverCleared(read, want) == read.dated \/ Completes(want) \/ want = "completed"

\* completed_at: both complete handlers set it; update_org_task sets it on the
\* way to "completed", clears it on the way elsewhere; assigning leaves it.
WrittenDate(read, want) ==
  IF want = "assign" THEN read.dated ELSE Completes(want) \/ want = "completed"

CommitOrgTask(c, a) ==
  /\ orgClerks[c].does = "task"
  /\ orgClerks[c].want = "assign" => a \in orgStaff
  /\ \E t \in orgClerks[c].of :
       LET read   == orgClerks[c].read
           want   == orgClerks[c].want
           status == WrittenStatus(read, want)
           dated  == WrittenDate(read, want)
       IN  IF ~TaskStored(t)
           THEN UNCHANGED <<orgTasks, workCollided>> /\ ClerkDone(c, {})
           ELSE /\ orgTasks' = [orgTasks EXCEPT
                     ![t].status = IF status # read.status THEN status ELSE @,
                     ![t].dated  = IF dated # read.dated \/ Completes(want) THEN dated ELSE @,
                     ![t].agent  = IF want = "assign" THEN a ELSE @]
                /\ WorkCollides(c, t)
                /\ ClerkDone(c, {t})
  /\ UNCHANGED <<orgStatus, orgStaff, orgFormer, orgGates, workLost>>

\* create_approval_gate.
CreateGate(g) ==
  /\ OrgStanding /\ orgGates[g].status = "absent"
  /\ orgGates' = [orgGates EXCEPT ![g].status = "pending"]
  /\ UNCHANGED <<orgStatus, orgStaff, orgFormer, orgTasks, orgClerks, workCollided, workLost>>

\* decide_approval_gate: "cannot decide again".
ReadGate(c, g) ==
  /\ orgClerks[c] = ClerkIdle /\ orgGates[g].status = "pending"
  /\ orgClerks' = [orgClerks EXCEPT ![c] = [ClerkIdle EXCEPT !.does = "gate", !.of = {g}]]
  /\ UNCHANGED <<orgStatus, orgStaff, orgFormer, orgTasks, orgGates, workCollided, workLost>>

DecideGate(c, decision) ==
  /\ orgClerks[c].does = "gate"
  /\ \E g \in orgClerks[c].of :
       IF orgGates[g].status = "absent"
       THEN UNCHANGED <<orgGates, workCollided>> /\ ClerkDone(c, {})
       ELSE /\ orgGates' = [orgGates EXCEPT ![g].status = decision, ![g].decisions = @ + 1]
            /\ WorkCollides(c, g)
            /\ ClerkDone(c, {g})
  /\ UNCHANGED <<orgStatus, orgStaff, orgFormer, orgTasks, workLost>>

\* delete_org_agent: not while the organization is active.
ReadAgent(c, a) ==
  /\ orgClerks[c] = ClerkIdle /\ a \in orgStaff /\ orgStatus # "active"
  /\ orgClerks' = [orgClerks EXCEPT ![c] = [ClerkIdle EXCEPT !.does = "agent", !.of = {a, "org"}]]
  /\ UNCHANGED <<orgStatus, orgStaff, orgFormer, orgTasks, orgGates, workCollided, workLost>>

\* The foreign key sets the agent of its tasks to null; they stay in progress.
DeleteAgent(c) ==
  /\ orgClerks[c].does = "agent"
  /\ \E a \in orgClerks[c].of \ {"org"} :
       IF a \notin orgStaff
       THEN UNCHANGED <<orgStaff, orgFormer, orgTasks, workCollided, workLost>> /\ ClerkDone(c, {})
       ELSE /\ orgStaff' = orgStaff \ {a} /\ orgFormer' = orgFormer \union {a}
            /\ orgTasks' = [t \in OrgTasks |-> IF orgTasks[t].agent = a
                                         THEN [orgTasks[t] EXCEPT !.agent = NoAgent] ELSE orgTasks[t]]
            /\ workLost' = IF orgStatus = "active" THEN workLost \union {a} ELSE workLost
            /\ WorkCollides(c, a)
            /\ ClerkDone(c, {a})
  /\ UNCHANGED <<orgStatus, orgGates>>

\* delete_org takes everything with it.
DeleteWork ==
  /\ OrgStanding
  /\ orgStatus' = "deleted"
  /\ orgStaff' = {} /\ orgFormer' = orgFormer \union orgStaff
  /\ orgTasks' = [t \in OrgTasks |-> IF TaskStored(t) THEN DeletedTask ELSE orgTasks[t]]
  /\ orgGates' = [g \in OrgGates |-> NewGate]
  /\ orgClerks' = TouchClerks("nobody", orgStaff \union OrgTasks \union OrgGates \union {"org"})
  /\ UNCHANGED <<workCollided, workLost>>

WorkNext ==
  \/ \E status \in {"active", "paused", "archived"} : SetWorkStatus(status)
  \/ \E a \in OrgStaff : AddAgent(a)
  \/ \E t \in OrgTasks : DeleteOrgTask(t) \/ \E a \in OrgStaff \union {NoAgent} : CreateOrgTask(t, a)
  \/ \E g \in OrgGates : CreateGate(g)
  \/ DeleteWork
  \/ \E c \in OrgClerks :
       \/ \E t \in OrgTasks, want \in Wants : ReadOrgTask(c, t, want)
       \/ \E a \in OrgStaff \union {NoAgent} : CommitOrgTask(c, a)
       \/ \E g \in OrgGates : ReadGate(c, g)
       \/ \E decision \in {"approved", "rejected"} : DecideGate(c, decision)
       \/ \E a \in OrgStaff : ReadAgent(c, a)
       \/ DeleteAgent(c)

WorkSpec == WorkInit /\ [][WorkNext]_workVars

(***************************************************************************)
(* Properties.                                                             *)
(***************************************************************************)

\* Whatever handlers run in whatever order, a row contradicts itself only where
\* one of them wrote from a row another had changed since: a task is dated
\* exactly when it is completed, a gate is decided once ("cannot decide
\* again"), and no agent leaves an active organization.
RowsAgree ==
  /\ \A t \in OrgTasks \ workCollided : (orgTasks[t].status = "completed") <=> orgTasks[t].dated
  /\ \A g \in OrgGates \ workCollided : orgGates[g].decisions <= 1
  /\ workLost \subseteq workCollided
=============================================================================
