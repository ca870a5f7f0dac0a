---------------------------- MODULE PendingActions ----------------------------
(***************************************************************************)
(* What waits for a user's yes: the mail draft and the Google task that    *)
(* agents/orchestrator.py keeps in Redis and carries out before any agent  *)
(* runs.  A turn asks each direct flow in order - draft, inbox, calendar,  *)
(* tasks - and goes to the agent when none takes it.                       *)
(*                                                                         *)
(* One turn of the user runs at a time (OneTurnAtATime of MessageQueue);   *)
(* turns of scheduled jobs run beside it on the same keys.                 *)
(***************************************************************************)
EXTENDS Naturals, FiniteSets

CONSTANTS
  UserTurn,         \* the user's turn in progress
  JobTurns,         \* turns of jobs in progress
  DraftLimit,       \* bound: drafts ever written
  WishLimit,        \* bound: task requests ever made
  VersionLimit,     \* bound: revisions of a draft
  CallAttempts,     \* stop_after_attempt of a workspace call (3)
  ConfirmFaults     \* bound: calls that miss or answer amiss, time-outs, expiries

ASSUME PendingBounds ==
  /\ DraftLimit \in Nat /\ WishLimit \in Nat
  /\ VersionLimit \in Nat /\ ConfirmFaults \in Nat
  /\ CallAttempts \in Nat \ {0}

VARIABLES
  draft,        \* pending_gmail_send
  wish,         \* pending_google_task, 0 for none
  pendingTurn,  \* what each turn was asked, has read and does
  drafts,       \* drafts written so far
  wishes,       \* task requests made so far
  sends,        \* history: deliveries of each draft
  adds,         \* history: additions of each task
  unsureDrafts, \* history: drafts with an outcome nobody recorded
  unsureTasks,  \* history: tasks with an outcome nobody recorded
  repeatedDrafts, \* history: drafts whose delivery a call made again
  repeatedTasks,  \* history: tasks whose addition a call made again
  confirmFaults \* faults so far

pendingVars == <<draft, wish, pendingTurn, drafts, wishes, sends, adds, unsureDrafts,
                 unsureTasks, repeatedDrafts, repeatedTasks, confirmFaults>>

PendingTurns == {UserTurn} \union JobTurns
Recipients == {"nobody", "named"}
NoDraft == [id |-> 0, to |-> "nobody", version |-> 0]
IdleTurn == [at |-> "idle", says |-> "other", draft |-> NoDraft, wish |-> 0, tries |-> 1]

\* The words that confirm a task confirm a mail too.
Confirms == {"yes", "send"}
Says == Confirms \union {"address", "revise", "task", "mail", "other"}

Drafts == [id : 0..DraftLimit, to : Recipients, version : 0..VersionLimit]

TurnStages ==
  {"idle", "draft", "revising", "sending", "sent", "tasks", "adding", "added", "agent"}
TurnStates == [at : TurnStages, says : Says, draft : Drafts, wish : 0..WishLimit,
               tries : 1..CallAttempts]

PendingTypeOK ==
  /\ draft \in Drafts
  /\ wish \in 0..WishLimit
  /\ pendingTurn \in [PendingTurns -> TurnStates]
  /\ drafts \in 0..DraftLimit /\ wishes \in 0..WishLimit
  /\ sends \in [1..DraftLimit -> Nat] /\ adds \in [1..WishLimit -> Nat]
  /\ unsureDrafts \subseteq 1..DraftLimit /\ unsureTasks \subseteq 1..WishLimit
  /\ repeatedDrafts \subseteq 1..DraftLimit /\ repeatedTasks \subseteq 1..WishLimit
  /\ confirmFaults \in 0..ConfirmFaults

PendingInit ==
  /\ draft = NoDraft /\ wish = 0
  /\ pendingTurn = [t \in PendingTurns |-> IdleTurn]
  /\ drafts = 0 /\ wishes = 0
  /\ sends = [d \in 1..DraftLimit |-> 0] /\ adds = [w \in 1..WishLimit |-> 0]
  /\ unsureDrafts = {} /\ unsureTasks = {} /\ confirmFaults = 0
  /\ repeatedDrafts = {} /\ repeatedTasks = {}

TurnTo(t, stage) == pendingTurn' = [pendingTurn EXCEPT ![t].at = stage]

Replies(t) == pendingTurn' = [pendingTurn EXCEPT ![t] = IdleTurn]
ConfirmFault == confirmFaults < ConfirmFaults /\ confirmFaults' = confirmFaults + 1
MailUntouched == UNCHANGED <<sends, unsureDrafts, repeatedDrafts>>
TasksUntouched == UNCHANGED <<adds, unsureTasks, repeatedTasks>>
RemoteUntouched == MailUntouched /\ TasksUntouched
CountersUntouched == UNCHANGED <<drafts, wishes>>

(***************************************************************************)
(* call_workspace_tool.  Whether or not the call delivers, it answers with *)
(* a text, which may report an error in brackets; with an error its caller *)
(* recognises; or with what is taken for a transient one: no connection in *)
(* time, or "429" or the like anywhere in the text or error that comes     *)
(* back.  A transient error is tried again, and is a text in the end.      *)
(***************************************************************************)
Answers == {"text", "error", "transient"}
AsItShould(delivers, answer) == delivers /\ answer = "text"
TriesAgain(t, answer) == answer = "transient" /\ pendingTurn[t].tries < CallAttempts

CallGoesOn(t, stage, answer) ==
  \/ TriesAgain(t, answer) /\ pendingTurn' = [pendingTurn EXCEPT ![t].tries = @ + 1]
  \/ ~TriesAgain(t, answer) /\ answer # "error" /\ TurnTo(t, stage)
  \/ answer = "error" /\ Replies(t)

\* A message of the user, or the prompt of a job, which is never a bare confirmation.
BeginPendingTurn(t, says) ==
  /\ pendingTurn[t].at = "idle"
  /\ t \in JobTurns => says \notin Confirms
  /\ pendingTurn' = [pendingTurn EXCEPT ![t] = [IdleTurn EXCEPT !.at = "draft", !.says = says]]
  /\ UNCHANGED <<draft, wish, confirmFaults>> /\ RemoteUntouched /\ CountersUntouched

(***************************************************************************)
(* _maybe_handle_pending_connected_gmail_send.                             *)
(***************************************************************************)
CheckDraft(t) ==
  /\ pendingTurn[t].at = "draft"
  /\ LET says == pendingTurn[t].says
         goesTo(stage) ==
           pendingTurn' = [pendingTurn EXCEPT ![t] = [@ EXCEPT !.at = stage, !.draft = draft]]
         revises == /\ draft # NoDraft
                    /\ says = "revise" \/ (says = "address" /\ draft.to = "nobody")
         confirms == draft # NoDraft /\ says \in Confirms
     IN  CASE revises -> goesTo("revising") \/ (says = "revise" /\ TurnTo(t, "tasks"))
           [] confirms /\ draft.to = "named" -> goesTo("sending")
           [] confirms /\ draft.to = "nobody" -> Replies(t)
           [] OTHER -> TurnTo(t, "tasks")
  /\ UNCHANGED <<draft, wish, confirmFaults>> /\ RemoteUntouched /\ CountersUntouched

\* The draft read before is stored again, changed: new details or a recipient.  A
\* revision that changes nothing goes on to the other flows.
ReviseDraft(t) ==
  /\ pendingTurn[t].at = "revising" /\ pendingTurn[t].draft.version < VersionLimit
  /\ draft' = [pendingTurn[t].draft EXCEPT
       !.version = @ + 1, !.to = IF pendingTurn[t].says = "address" THEN "named" ELSE @]
  /\ unsureDrafts' = unsureDrafts \union (IF sends[draft'.id] > 0 THEN {draft'.id} ELSE {})
  /\ Replies(t)
  /\ UNCHANGED <<wish, sends, repeatedDrafts, confirmFaults>> /\ TasksUntouched
  /\ CountersUntouched

\* Drafts and tasks whose turn ends with something delivered and the key not cleared.
LeftUnsure(t, stages, id, delivered) ==
  IF pendingTurn[t].at \in stages /\ delivered[id] > 0 THEN {id} ELSE {}

\* One attempt of send_gmail_message.
SendMail(t, delivers, answer) ==
  /\ pendingTurn[t].at = "sending"
  /\ IF AsItShould(delivers, answer) THEN UNCHANGED confirmFaults ELSE ConfirmFault
  /\ LET d == pendingTurn[t].draft.id
     IN  /\ sends' = [sends EXCEPT ![d] = IF delivers THEN @ + 1 ELSE @]
         /\ repeatedDrafts' = repeatedDrafts \union
              (IF delivers /\ TriesAgain(t, answer) THEN {d} ELSE {})
         /\ unsureDrafts' = unsureDrafts \union
              (IF answer = "error" /\ sends'[d] > 0 THEN {d} ELSE {})
  /\ CallGoesOn(t, "sent", answer)
  /\ UNCHANGED <<draft, wish>> /\ TasksUntouched /\ CountersUntouched

\* A turn that leaves the draft where it is.
KeepDraft(t) ==
  /\ pendingTurn[t].at = "sent"
  /\ Replies(t)
  /\ UNCHANGED <<draft, wish, confirmFaults>> /\ RemoteUntouched /\ CountersUntouched

ClearDraft(t) ==
  /\ pendingTurn[t].at = "sent"
  /\ draft' = NoDraft
  /\ Replies(t)
  /\ UNCHANGED <<wish, confirmFaults>> /\ RemoteUntouched /\ CountersUntouched

\* Redis does not clear the key, and the draft stays.
ClearDraftFails(t) ==
  /\ ConfirmFault /\ pendingTurn[t].at = "sent"
  /\ unsureDrafts' = unsureDrafts \union LeftUnsure(t, {"sent"}, pendingTurn[t].draft.id, sends)
  /\ Replies(t)
  /\ UNCHANGED <<draft, wish, sends, repeatedDrafts>> /\ TasksUntouched /\ CountersUntouched

(***************************************************************************)
(* _maybe_handle_connected_google_tasks_flow.                              *)
(***************************************************************************)
CheckTask(t) ==
  /\ pendingTurn[t].at = "tasks"
  /\ LET says == pendingTurn[t].says
     IN  CASE wish # 0 /\ says = "yes" ->
                /\ pendingTurn' = [pendingTurn EXCEPT
                     ![t] = [@ EXCEPT !.at = "adding", !.wish = wish]]
                /\ UNCHANGED <<wish, wishes>>
           [] says = "task" ->
                /\ wishes < WishLimit
                /\ wishes' = wishes + 1 /\ wish' = wishes'
                /\ Replies(t)
           [] OTHER -> TurnTo(t, "agent") /\ UNCHANGED <<wish, wishes>>
  /\ UNCHANGED <<draft, drafts, confirmFaults>> /\ RemoteUntouched

\* One attempt of manage_task.
AddTask(t, delivers, answer) ==
  /\ pendingTurn[t].at = "adding"
  /\ IF AsItShould(delivers, answer) THEN UNCHANGED confirmFaults ELSE ConfirmFault
  /\ LET w == pendingTurn[t].wish
     IN  /\ adds' = [adds EXCEPT ![w] = IF delivers THEN @ + 1 ELSE @]
         /\ repeatedTasks' = repeatedTasks \union
              (IF delivers /\ TriesAgain(t, answer) THEN {w} ELSE {})
         /\ unsureTasks' = unsureTasks \union
              (IF answer = "error" /\ adds'[w] > 0 THEN {w} ELSE {})
  /\ CallGoesOn(t, "added", answer)
  /\ UNCHANGED <<draft, wish>> /\ MailUntouched /\ CountersUntouched

ClearWish(t) ==
  /\ pendingTurn[t].at = "added"
  /\ wish' = 0
  /\ Replies(t)
  /\ UNCHANGED <<draft, confirmFaults>> /\ RemoteUntouched /\ CountersUntouched

ClearWishFails(t) ==
  /\ ConfirmFault /\ pendingTurn[t].at = "added"
  /\ unsureTasks' = unsureTasks \union LeftUnsure(t, {"added"}, pendingTurn[t].wish, adds)
  /\ Replies(t)
  /\ UNCHANGED <<draft, wish, adds, repeatedTasks>> /\ MailUntouched /\ CountersUntouched

\* The agent answers; the answer to a request about mail may present a draft, with
\* the recipient the request names.
AgentAnswers(t, presents, to) ==
  /\ pendingTurn[t].at = "agent"
  /\ presents => pendingTurn[t].says \in {"mail", "address"} /\ drafts < DraftLimit
  /\ drafts' = IF presents THEN drafts + 1 ELSE drafts
  /\ draft' = IF presents THEN [id |-> drafts', to |-> to, version |-> 0] ELSE draft
  /\ Replies(t)
  /\ UNCHANGED <<wish, wishes, confirmFaults>> /\ RemoteUntouched

\* The turn's time limit, or the end of the process, between any two steps.
PendingTurnDies(t) ==
  /\ ConfirmFault /\ pendingTurn[t].at # "idle"
  /\ unsureDrafts' = unsureDrafts \union
       LeftUnsure(t, {"sending", "sent"}, pendingTurn[t].draft.id, sends)
  /\ unsureTasks' = unsureTasks \union
       LeftUnsure(t, {"adding", "added"}, pendingTurn[t].wish, adds)
  /\ Replies(t)
  /\ UNCHANGED <<draft, wish, sends, adds, repeatedDrafts, repeatedTasks>>
  /\ CountersUntouched

\* SESSION_TTL of either key.
OfferExpires ==
  /\ ConfirmFault
  /\ \/ draft' = NoDraft /\ UNCHANGED wish
     \/ wish' = 0 /\ UNCHANGED draft
  /\ UNCHANGED pendingTurn /\ RemoteUntouched /\ CountersUntouched

PendingNext ==
  \/ \E t \in PendingTurns :
       \/ \E says \in Says : BeginPendingTurn(t, says)
       \/ CheckDraft(t) \/ ReviseDraft(t) \/ ClearDraft(t) \/ ClearDraftFails(t)
       \/ CheckTask(t) \/ ClearWish(t) \/ ClearWishFails(t)
       \/ \E delivers \in BOOLEAN, answer \in Answers :
            SendMail(t, delivers, answer) \/ AddTask(t, delivers, answer)
       \/ \E presents \in BOOLEAN, to \in Recipients : AgentAnswers(t, presents, to)
       \/ PendingTurnDies(t)
  \/ OfferExpires

PendingSpec == PendingInit /\ [][PendingNext]_pendingVars

(***************************************************************************)
(* Properties.                                                             *)
(***************************************************************************)

\* However often the user confirms and whatever jobs revise beside it, a mail
\* or a task is carried out by one workspace call: once, or as often as that call
\* made a delivery again, never more than CallAttempts times.  The exceptions are
\* a turn that ended with something delivered and the key not cleared, and one
\* that stored the draft it had read again afterwards (orchestrator.py:1989-2003,
\* 1712-1727).
CarriedOutOnce ==
  /\ \A d \in (1..DraftLimit) \ unsureDrafts :
       sends[d] <= CallAttempts /\ (sends[d] > 1 => d \in repeatedDrafts)
  /\ \A w \in (1..WishLimit) \ unsureTasks :
       adds[w] <= CallAttempts /\ (adds[w] > 1 => w \in repeatedTasks)

\* The promise of _TransientMCPError: "transient MCP errors that are safe to
\* retry" (workspace_mcp.py:105).  A call that is tried again carries nothing
\* out twice.
RetriesAreSafe ==
  /\ \A d \in 1..DraftLimit : sends[d] > 1 => d \in unsureDrafts
  /\ \A w \in 1..WishLimit : adds[w] > 1 => w \in unsureTasks
=============================================================================
