--------------------------- MODULE RepairPipeline ---------------------------
(***************************************************************************)
(* run_self_healing_pipeline of src/src/repair/engine.py: debugger,        *)
(* ticket, programmer, dry run and quality control, deterministic floor,   *)
(* sandbox.  The sandbox stores the plan in the owner's slot and runs the  *)
(* same execute_pending_repair the owner's answer does, so the pipeline is *)
(* composed with the owner's messages of RepairApproval.                   *)
(*                                                                         *)
(* The agents are outside: an answer of theirs is any the code tells       *)
(* apart.  A plan stands for the ticket of a run together with the diff    *)
(* its programmer comes up with.                                           *)
(***************************************************************************)
EXTENDS RepairApproval

CONSTANTS
  Runs,        \* pipeline runs in flight together
  Errors,      \* error descriptions, the fingerprints of _PIPELINE_ATTEMPT_COUNTS
  MaxAttempts, \* _PIPELINE_MAX_ATTEMPTS (3)
  MaxStarts,   \* bound: runs ever started for an error
  TicketsStorable \* whether the dump of DebugAnalysisModel is JSON

ASSUME RunsAreProcs == Runs \subseteq Procs /\ Runs \cap Handlers = {}
ASSUME MaxAttemptsIsNatural == MaxAttempts \in Nat
ASSUME MaxStartsIsNatural == MaxStarts \in Nat
ASSUME TicketsStorableIsBoolean == TicketsStorable \in BOOLEAN

VARIABLES
  attempts,  \* _PIPELINE_ATTEMPT_COUNTS of this process
  own,       \* the ticket of each run
  rejected,  \* history: plans quality control or the floor turned down
  crossed    \* history: plans that executions of others got in the way of

runVars == <<attempts, own, rejected, crossed>>
vars == <<engineVars, ownerVars, runVars>>

Init ==
  /\ ApprovalInit
  /\ attempts = [e \in Errors |-> 0]
  /\ own = [r \in Runs |-> NoPlan]
  /\ rejected = {}
  /\ crossed = {}

-----------------------------------------------------------------------------
(* The guard on repeated attempts                                          *)

Exhausted(e) == attempts[e] + 1 > MaxAttempts

CountAttempt(e) ==
  /\ attempts[e] < MaxStarts
  /\ attempts' = [attempts EXCEPT ![e] = attempts[e] + 1]

Start(r, e) ==
  /\ pc[r] = "idle"
  /\ CountAttempt(e)
  /\ ~Exhausted(e)
  /\ Goto(r, "debugging")
  /\ UNCHANGED <<disk, pending, ticket, plan, backup, faults, ownerVars,
                 own, rejected, crossed>>

Blocked(r, e) ==
  /\ pc[r] = "idle"
  /\ CountAttempt(e)
  /\ Exhausted(e)
  /\ UNCHANGED <<engineVars, ownerVars, own, rejected, crossed>>

-----------------------------------------------------------------------------
(* The stages                                                              *)

EndRun(r) ==
  /\ Return(r)
  /\ own' = [own EXCEPT ![r] = NoPlan]

\* An agent or the database raises, the debugger is unsure or the ticket cannot
\* be created, or the turn the run belongs to is cut off: the run ends and
\* leaves its ticket as it is.
StopRun(r) ==
  /\ pc[r] # "idle"
  /\ EndRun(r)
  /\ UNCHANGED <<disk, pending, ticket, faults, ownerVars, attempts, rejected,
                 crossed>>

\* create_structured_ticket.  The dump holds a datetime (analyzed_at, models.py:87),
\* which the JSONB column refuses at the commit: TicketsStorable is FALSE of the code
\* as it is, every run ends here by StopRun, and the stages behind are the ones it
\* enters once the dump is JSON (model_dump(mode="json")).
CreateTicket(r, p, s) ==
  /\ pc[r] = "debugging"
  /\ TicketsStorable
  /\ ticket[p] = "none" /\ pending # p /\ \A g \in Procs : plan[g] # p
  /\ \A g \in Runs : own[g] # p
  /\ s \in {"open", "debug_analysis_ready"}
  /\ ticket' = [ticket EXCEPT ![p] = s]
  /\ own' = [own EXCEPT ![r] = p]
  /\ Goto(r, "programming")
  /\ UNCHANGED <<disk, pending, plan, backup, faults, ownerVars, attempts,
                 rejected, crossed>>

\* _update_ticket_status swallows a failure of the database.
UpdateTicketStatus(p, s) ==
  \/ ticket' = [ticket EXCEPT ![p] = s] /\ UNCHANGED faults
  \/ UNCHANGED ticket /\ Fault

\* No diff, or too little confidence in it.
NoFix(r) ==
  /\ pc[r] = "programming"
  /\ UpdateTicketStatus(own[r], "open")
  /\ EndRun(r)
  /\ UNCHANGED <<disk, pending, ownerVars, attempts, rejected, crossed>>

FixGenerated(r) ==
  /\ pc[r] = "programming"
  /\ Goto(r, "dry_run")
  /\ UNCHANGED <<disk, pending, ticket, plan, backup, faults, ownerVars, runVars>>

\* _dry_run_patch applies the diff, drops the outcome, and reports whether the
\* context of the hunks is still where it was.
DryRun(r) ==
  /\ pc[r] = "dry_run"
  /\ WriteAll(own[r]) \/ WriteSome(own[r])
  /\ Goto(r, "validating")
  /\ UNCHANGED <<pending, ticket, plan, backup, ownerVars, runVars>>

\* A rejection that does not return.
GoOn(r) ==
  /\ Goto(r, "flooring")
  /\ UNCHANGED <<plan, backup, own>>

AfterRejection(r) == EndRun(r)

Reject(r, s) ==
  /\ UpdateTicketStatus(own[r], s)
  /\ rejected' = rejected \union {own[r]}
  /\ AfterRejection(r)
  /\ UNCHANGED <<disk, pending, ownerVars, attempts, crossed>>

\* NO_GO fails the ticket, NEEDS_REVISION puts it back to plan_ready.
QualityControlRejects(r) ==
  /\ pc[r] = "validating"
  /\ \E s \in {"verification_failed", "plan_ready"} : Reject(r, s)

\* A blocker of the deterministic checks overrules GO.
FloorRejects(r) ==
  /\ pc[r] = "flooring"
  /\ Reject(r, "verification_failed")

\* GO.
QualityControlGoes(r) ==
  /\ pc[r] = "validating"
  /\ Goto(r, "flooring")
  /\ UNCHANGED <<disk, pending, ticket, plan, backup, faults, ownerVars, runVars>>

\* No blocker: the sandbox stores the plan in the owner's slot and executes.
EnterSandbox(r) ==
  /\ pc[r] = "flooring"
  /\ StorePending(own[r])
  /\ Goto(r, "fetch")
  /\ UNCHANGED <<disk, ticket, plan, backup, faults, ownerVars, runVars>>

SandboxFailed(r) ==
  /\ pc[r] = "failed"
  /\ UpdateTicketStatus(own[r], "verification_failed")
  /\ EndRun(r)
  /\ UNCHANGED <<disk, pending, ownerVars, attempts, rejected, crossed>>

SandboxPassed(r) ==
  /\ pc[r] = "applied"
  /\ UpdateTicketStatus(own[r], "ready_for_deploy")
  /\ EndRun(r)
  /\ UNCHANGED <<disk, pending, ownerVars, attempts, rejected, crossed>>
-----------------------------------------------------------------------------
(* Executions that overlap.  Nothing keeps two runs, or a run and the      *)
(* owner, from executing at the same time.                                 *)

\* A rollback writes back what the files were when its own plan was applied.
TakesOut(h, p) ==
  /\ pc[h] = "verify" /\ pc'[h] = "failed" /\ plan[h] # p
  /\ IsLive(p) /\ ~IsLive(p)'

\* A plan is applied by one execution while another has yet to verify it.
AppliesTwice(h, p) ==
  /\ pc[h] = "apply" /\ pc'[h] = "verify" /\ plan[h] = p
  /\ \E g \in Procs \ {h} : pc[g] = "verify" /\ plan[g] = p

\* The sandbox of a run executes what somebody else has put into the slot.
Mistakes(h, p) ==
  /\ h \in Runs /\ own[h] = p
  /\ pc[h] = "fetch" /\ pc'[h] = "apply" /\ plan'[h] # p

Cross ==
  crossed' = crossed \union
    {p \in Plans : \E h \in Procs : TakesOut(h, p) \/ AppliesTwice(h, p) \/ Mistakes(h, p)}

RunStep(r) ==
  \/ StopRun(r)
  \/ \E p \in Plans, s \in {"open", "debug_analysis_ready"} : CreateTicket(r, p, s)
  \/ NoFix(r) \/ FixGenerated(r) \/ DryRun(r)
  \/ QualityControlRejects(r) \/ QualityControlGoes(r) \/ FloorRejects(r)
  \/ EnterSandbox(r) \/ SandboxFailed(r) \/ SandboxPassed(r)
  \/ /\ Execute(r) /\ Cross
     /\ UNCHANGED <<ownerVars, attempts, own, rejected>>

OwnerStep ==
  /\ Owner \/ \E h \in Handlers : Handle(h)
  /\ Cross
  /\ UNCHANGED <<attempts, own, rejected>>

\* _PIPELINE_ATTEMPT_COUNTS lives in the process.
Restart ==
  /\ Crash
  /\ attempts' = [e \in Errors |-> 0]
  /\ own' = [r \in Runs |-> NoPlan]
  /\ UNCHANGED <<rejected, crossed>>

Expiry ==
  /\ (PendingExpires /\ UNCHANGED ownerVars) \/ ChallengeExpires
  /\ UNCHANGED runVars

Next ==
  \/ \E r \in Runs, e \in Errors : Start(r, e) \/ Blocked(r, e)
  \/ \E r \in Runs : RunStep(r)
  \/ OwnerStep
  \/ Restart
  \/ Expiry

Spec == Init /\ [][Next]_vars

-----------------------------------------------------------------------------
(* Properties                                                              *)

\* Type invariant.
TypeOK ==
  /\ ApprovalTypeOK
  /\ attempts \in [Errors -> 0 .. MaxStarts]
  /\ own \in [Runs -> Plans \union {NoPlan}]
  /\ \A r \in Runs : pc[r] \in RunPoints \union EnginePoints
  /\ \A r \in Runs : pc[r] \notin {"idle", "debugging"} => own[r] \in Plans
  /\ rejected \subseteq Plans
  /\ crossed \subseteq Plans

\* A fix that quality control or the floor turned down is not called ready or
\* deployed later: its plan gets into no slot, whatever the owner's messages,
\* other runs, crashes and failed updates of the ticket do.
RejectedNeverShips ==
  \A p \in rejected \ edited : ticket[p] \notin {"ready_for_deploy", "deployed"}

\* A ticket the pipeline calls ready or deployed has its fix in every file, but for
\* those the owner set by hand and those an execution of somebody else got in the way of.
ReadyIsLive ==
  \A p \in Plans \ (edited \union crossed) :
    ticket[p] \in {"ready_for_deploy", "deployed"} => IsLive(p)
=============================================================================
