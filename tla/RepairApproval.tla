--------------------------- MODULE RepairApproval ---------------------------
(***************************************************************************)
(* How a repair plan reaches the files through the owner:                  *)
(* store_repair_plan (the propose_patch tool), maybe_handle_pending_repair *)
(* with the challenge of security/challenge.py, refine_pending_verification*)
(* and the ticket endpoints of the bot and the dashboard.                  *)
(*                                                                         *)
(* The bot handles the owner's messages one after the other               *)
(* (_process_user_queue of bot/handlers.py) and cuts each off after        *)
(* agent_timeout_seconds.  Beside that queue, scheduled tasks, background  *)
(* jobs and the dashboard's run-now start turns for the same owner that    *)
(* interleave with it at every await; none of them holds the answer.       *)
(***************************************************************************)
EXTENDS PatchEngine

CONSTANTS
  Handlers,       \* turns for the owner in flight together
  Chat,           \* the one that comes from the owner's message queue
  Edits,          \* bound: ticket statuses the owner sets by hand
  MaxChallenges   \* bound: challenges ever issued

ASSUME HandlersAreProcs == Handlers \subseteq Procs
ASSUME ChatIsSerial == Chat \subseteq Handlers /\ \A g, h \in Chat : g = h
ASSUME MaxChallengesIsNatural == MaxChallenges \in Nat

VARIABLES
  message,    \* what each coroutine's message says
  challenge,  \* whether repair_challenge:<owner> is set in Redis
  issued,     \* challenges issued so far
  consumed,   \* history: executions the owner's answers have started
  approving,  \* tickets approve_ticket_deploy has read and not yet written
  edited      \* history: tickets whose status was set by hand

ownerVars == <<message, challenge, issued, consumed, approving, edited>>
approvalVars == <<engineVars, ownerVars>>

\* An approval cue, the right answer, something else that looks like an answer,
\* or any other text.
Messages == {"cue", "answer", "wrong", "other"}

ApprovalInit ==
  /\ EngineInit
  /\ message = [h \in Procs |-> "other"]
  /\ challenge = FALSE
  /\ issued = 0
  /\ consumed = 0
  /\ approving = {}
  /\ edited = {}

-----------------------------------------------------------------------------
(* store_repair_plan, called by a turn of the repair agent                 *)

\* A new ticket, committed before the slot is written.
ProposePlan(h, p) ==
  /\ pc[h] = "idle"
  /\ \A g \in Procs : plan[g] # p
  /\ ticket[p] = "none" /\ pending # p
  /\ ticket' = [ticket EXCEPT ![p] = "plan_ready"]
  /\ plan' = [plan EXCEPT ![h] = p]
  /\ Goto(h, "storing")
  /\ UNCHANGED <<disk, pending, backup, faults, ownerVars>>

\* The insert fails: the plan is stored all the same, without a ticket.
ProposeWithoutTicket(h, p) ==
  /\ pc[h] = "idle"
  /\ \A g \in Procs : plan[g] # p
  /\ ticket[p] = "none" /\ pending # p
  /\ Fault
  /\ plan' = [plan EXCEPT ![h] = p]
  /\ Goto(h, "storing")
  /\ UNCHANGED <<disk, pending, ticket, backup, ownerVars>>

StorePlan(h) ==
  /\ pc[h] = "storing"
  /\ StorePending(plan[h])
  /\ Return(h)
  /\ UNCHANGED <<disk, ticket, faults, ownerVars>>

\* update_pending_verification_commands reads the payload and writes it back.
RefineRead(h) ==
  /\ pc[h] = "idle"
  /\ pending # NoPlan
  /\ plan' = [plan EXCEPT ![h] = pending]
  /\ Goto(h, "storing")
  /\ UNCHANGED <<disk, pending, ticket, backup, faults, ownerVars>>

-----------------------------------------------------------------------------
(* maybe_handle_pending_repair                                             *)

\* A message finds a plan in the slot; with none it goes on to the agents.  Only
\* the owner knows the answer to a challenge.
Receive(h, m) ==
  /\ pc[h] = "idle"
  /\ m = "answer" => h \in Chat
  /\ pending # NoPlan
  /\ message' = [message EXCEPT ![h] = m]
  /\ Goto(h, "received")
  /\ UNCHANGED <<disk, pending, ticket, plan, backup, faults,
                 challenge, issued, consumed, approving, edited>>

\* With a challenge active only a cue is not taken for an answer; without one,
\* a cue or anything that looks like an answer issues a challenge.
Dispatch(h) ==
  /\ pc[h] = "received"
  /\ message[h] # (IF challenge THEN "cue" ELSE "other")
  /\ Goto(h, IF challenge THEN "checking" ELSE "issuing")
  /\ UNCHANGED <<disk, pending, ticket, plan, backup, faults, ownerVars>>

\* A reminder that an answer is awaited, or a message that is not for this flow.
PassOn(h) ==
  /\ pc[h] = "received"
  /\ message[h] = (IF challenge THEN "cue" ELSE "other")
  /\ Return(h)
  /\ UNCHANGED <<disk, pending, ticket, faults, ownerVars>>

\* issue_challenge replaces any challenge that is active.
Issue(h) ==
  /\ pc[h] = "issuing"
  /\ issued < MaxChallenges
  /\ issued' = issued + 1
  /\ challenge' = TRUE
  /\ Return(h)
  /\ UNCHANGED <<disk, pending, ticket, faults, message, consumed, approving, edited>>

\* No PIN and no question are configured.
IssueRefused(h) ==
  /\ pc[h] = "issuing"
  /\ Return(h)
  /\ UNCHANGED <<disk, pending, ticket, faults, ownerVars>>

\* verify_challenge: read the challenge and compare ...
AcceptAnswer(h) ==
  /\ pc[h] = "checking"
  /\ challenge /\ message[h] = "answer"
  /\ Goto(h, "consuming")
  /\ UNCHANGED <<disk, pending, ticket, plan, backup, faults, ownerVars>>

RefuseAnswer(h) ==
  /\ pc[h] = "checking"
  /\ ~(challenge /\ message[h] = "answer")
  /\ Return(h)
  /\ UNCHANGED <<disk, pending, ticket, faults, ownerVars>>

\* A challenge that outlives its answer.
StillThere == challenge

AfterAnswer == FALSE

\* ... and delete it on a match, after which the pending plan is executed.
ConsumeChallenge(h) ==
  /\ pc[h] = "consuming"
  /\ challenge' = AfterAnswer
  /\ consumed' = consumed + 1
  /\ Goto(h, "fetch")
  /\ UNCHANGED <<disk, pending, ticket, plan, backup, faults,
                 message, issued, approving, edited>>

\* The owner gets the reply.
Reply(h) ==
  /\ pc[h] \in {"applied", "failed"}
  /\ Return(h)
  /\ UNCHANGED <<disk, pending, ticket, faults, ownerVars>>

ChallengeExpires ==
  /\ challenge
  /\ challenge' = FALSE
  /\ UNCHANGED <<engineVars, message, issued, consumed, approving, edited>>

-----------------------------------------------------------------------------
(* Tickets, from the bot's commands and the dashboard                      *)

\* approve_ticket_deploy reads the status, awaits the approver's row ...
ApproveRead(p) ==
  /\ p \notin approving
  /\ ticket[p] \in {"ready_for_deploy", "deployed"}
  /\ approving' = approving \union {p}
  /\ UNCHANGED <<engineVars, message, challenge, issued, consumed, edited>>

\* ... and writes deployed.
ApproveWrite(p) ==
  /\ p \in approving
  /\ ticket' = [ticket EXCEPT ![p] = "deployed"]
  /\ approving' = approving \ {p}
  /\ UNCHANGED <<disk, pending, pc, plan, backup, faults,
                 message, challenge, issued, consumed, edited>>

\* PATCH /api/tickets/{id} takes any of these; /ticket close is one of them.
EditableStatuses == TicketStatuses \ {"none", "debug_analysis_ready"}

ASSUME EditsAreEditable == Edits \subseteq EditableStatuses

EditTicket(p, s) ==
  /\ ticket[p] # "none"
  /\ ticket' = [ticket EXCEPT ![p] = s]
  /\ edited' = edited \union {p}
  /\ UNCHANGED <<disk, pending, pc, plan, backup, faults,
                 message, challenge, issued, consumed, approving>>

-----------------------------------------------------------------------------
\* wait_for gives up on the turn, wherever it is.
TimeOut(h) ==
  /\ pc[h] # "idle"
  /\ Return(h)
  /\ UNCHANGED <<disk, pending, ticket, faults, ownerVars>>

Crash ==
  /\ LoseCoroutines
  /\ UNCHANGED <<ownerVars>>

Handle(h) ==
  \/ Dispatch(h) \/ PassOn(h)
  \/ Issue(h) \/ IssueRefused(h)
  \/ AcceptAnswer(h) \/ RefuseAnswer(h) \/ ConsumeChallenge(h)
  \/ StorePlan(h)
  \/ Reply(h)
  \/ TimeOut(h)
  \/ Execute(h) /\ UNCHANGED ownerVars

Owner ==
  \/ \E h \in Handlers, p \in Plans : ProposePlan(h, p) \/ ProposeWithoutTicket(h, p)
  \/ \E h \in Handlers, m \in Messages : Receive(h, m)
  \/ \E h \in Handlers : RefineRead(h)
  \/ \E p \in Plans : ApproveRead(p) \/ ApproveWrite(p)
  \/ \E p \in Plans, s \in Edits : EditTicket(p, s)

Environment ==
  \/ PendingExpires /\ UNCHANGED ownerVars
  \/ ChallengeExpires
  \/ Crash

ApprovalNext == Owner \/ Environment \/ \E h \in Handlers : Handle(h)

ApprovalSpec == ApprovalInit /\ [][ApprovalNext]_approvalVars

-----------------------------------------------------------------------------
(* Properties                                                              *)

\* Type invariant.
ApprovalTypeOK ==
  /\ EngineTypeOK
  /\ \A h \in Handlers : pc[h] \in OwnerPoints \union EnginePoints
  /\ \A h \in Handlers : pc[h] = "storing" => plan[h] \in Plans
  /\ message \in [Procs -> Messages]
  /\ challenge \in BOOLEAN
  /\ issued \in 0 .. MaxChallenges
  /\ consumed \in Nat
  /\ approving \subseteq Plans
  /\ edited \subseteq Plans

\* engine.py:935, "The changes are live": a plan whose ticket the code made
\* deployed is in all its files, whatever later plans failed, were rolled back
\* or were cut off by a crash.
DeployedIsLive ==
  \A p \in Plans : ticket[p] = "deployed" /\ p \notin edited => IsLive(p)

\* challenge.py:111, "Returns True on success (and clears the challenge)": a challenge starts
\* at most one execution.
ChallengeUsedOnce == consumed <= issued
=============================================================================
