----------------------------- MODULE RepairAgents -----------------------------
(***************************************************************************)
(* The agents of the self-healing pipeline: what the debugger, the         *)
(* programmer and quality control leave in their contexts, what the code   *)
(* puts in place of an answer they did not record, the deterministic floor *)
(* under quality control, the state machine that mirrors the stages, and   *)
(* its checkpoints in Redis.  RepairPipeline has the same stages with the  *)
(* files and the owner's slot; here it is the agents' answers that count.  *)
(*                                                                         *)
(* The second part is the fix the repair agent applies without asking.     *)
(***************************************************************************)
EXTENDS Integers, FiniteSets, Sequences

Diffs == {"none", "prose", "sound", "unclean", "astray", "dangerous"}
TestPlans == {"none", "pytest", "verify_file"}

CONSTANTS
  AgentRuns,     \* pipelines and consultations of one user, each run once
  Confidences,   \* what the debugger records, in tenths
  Proposals,     \* what the programmer records: a diff, a test plan, a confidence
  LastWords,     \* diffs its final words may pass for
  Unrecorded,    \* context.analysis, fix_proposal, validation_result = None
  NoCheckpoint,
  AnalysisKinds, \* kinds of values in DebugAnalysisModel.model_dump()
  MaxLateWrites, \* bound: checkpoint writes under way together
  StaleKeys,     \* Redis keys a fix may name
  FixPlans       \* sequences of steps the agent proposes to apply at once

ASSUME ConfidencesAreTenths == Confidences \subseteq 0 .. 10 /\ 3 \in Confidences
ASSUME ProposalsAreDiffs ==
  Proposals \subseteq [diff : Diffs, tests : TestPlans, confidence : 0 .. 10]
ASSUME LastWordsAreDiffs == LastWords \subseteq Diffs
\* A step that clears names a key.
ASSUME FixPlansAreSteps ==
  \A p \in FixPlans :
    /\ p \in Seq({p[i] : i \in DOMAIN p})
    /\ \A i \in DOMAIN p : p[i].action = "clear_redis_key" => p[i].key \in StaleKeys
ASSUME MaxLateWritesIsNatural == MaxLateWrites \in Nat

Decisions == {"GO", "NO_GO", "NEEDS_REVISION"}

Stages == {"idle", "debugging", "ticket_created", "programming", "qa_validation",
           "sandbox_testing", "awaiting_approval", "ended",
           "asking_debugger", "asking_programmer", "asking_quality_control"}
Phases == {"plan", "act", "observe", "failed"}
Statuses == {"none", "open", "debug_analysis_ready", "plan_ready",
             "verification_failed", "ready_for_deploy", "deployed"}

VARIABLES
  stage,      \* pipeline.current_stage of each run, or the agent being asked
  fsm,        \* phase and step_id of its FSMRunner
  analysis,   \* DebuggerContext.analysis: its confidence
  proposal,   \* ProgrammerContext.fix_proposal
  verdict,    \* QualityControlContext.validation_result: its decision
  row,        \* status of the run's RepairTicket
  filed,      \* statuses of the tickets debuggers filed by themselves
  late,       \* checkpoint writes created as tasks and not yet carried out
  checkpoint, \* repair_checkpoint:{user}
  raised,     \* history: runs one of whose agents raised
  unfiled     \* history: runs whose analysis a healthy database refused

agentVars == <<stage, fsm, analysis, proposal, verdict, row, filed, late,
               checkpoint, raised, unfiled>>

AgentInit ==
  /\ stage = [r \in AgentRuns |-> "idle"]
  /\ fsm = [r \in AgentRuns |-> [phase |-> "plan", step |-> 0]]
  /\ analysis = [r \in AgentRuns |-> Unrecorded]
  /\ proposal = [r \in AgentRuns |-> Unrecorded]
  /\ verdict = [r \in AgentRuns |-> Unrecorded]
  /\ row = [r \in AgentRuns |-> "none"]
  /\ filed = {}
  /\ late = {}
  /\ checkpoint = NoCheckpoint
  /\ raised = {}
  /\ unfiled = {}

-----------------------------------------------------------------------------
(* The deterministic checks                                                *)

\* A patch that does not fit is reported in words the check does not look for,
\* so a dry run that was made always counts as clean.
DryRunText(d) == IF d = "unclean" THEN "context mismatch" ELSE "applies cleanly"
PatchApplies(d) == DryRunText(d) \notin {"error", "fail", "rejected"}
NoSecurityPattern(d) == d # "dangerous"
\* No test plan is skipped; python -m src.repair.verify_file is not on the list.
TestsAllowlisted(t) == t # "verify_file"
FilesInScope(d) == d # "astray"

\* The names of the blockers that fail.
Blockers(p) ==
  (IF PatchApplies(p.diff) THEN {} ELSE {"patch_applies_cleanly"}) \union
  (IF NoSecurityPattern(p.diff) THEN {} ELSE {"security_patterns"}) \union
  (IF TestsAllowlisted(p.tests) THEN {} ELSE {"test_commands_allowlisted"})

\* A floor that leaves the test plan to quality control.
WithoutTestPlan(p) ==
  CASE ~NoSecurityPattern(p.diff) -> "NO_GO"
    [] ~FilesInScope(p.diff) -> "NEEDS_REVISION"
    [] OTHER -> "GO"

\* aggregate_decision; the pipeline goes on unless it is NO_GO.
Floor(p) ==
  CASE Blockers(p) # {} -> "NO_GO"
    [] Blockers(p) = {} /\ ~FilesInScope(p.diff) -> "NEEDS_REVISION"
    [] OTHER -> "GO"

-----------------------------------------------------------------------------
(* The mirror                                                              *)

PhaseOf(s) ==
  CASE s \in {"debugging", "ticket_created"} -> "plan"
    [] s \in {"programming", "sandbox_testing"} -> "act"
    [] s \in {"qa_validation", "awaiting_approval"} -> "observe"
    [] OTHER -> "plan"

\* The verifier is installed with the floor and looks at one edge only.
Vetoed(r, target) ==
  /\ fsm[r].phase = "observe" /\ target = "act"
  /\ Blockers(proposal[r]) # {}

\* _on_fsm_transition: a task that saves the snapshot, or clears it when the
\* flow has failed.
Snapshot(r, at) ==
  /\ Cardinality(late) < MaxLateWrites
  /\ late' = late \union {[run |-> r, phase |-> at.phase, step |-> at.step]}

Transition(r, target) ==
  LET next == IF Vetoed(r, target) THEN fsm[r]
              ELSE [phase |-> target, step |-> fsm[r].step + 1]
  IN  fsm' = [fsm EXCEPT ![r] = next] /\ Snapshot(r, next)

\* mark_stage and _advance_fsm.
Advance(r, s) ==
  /\ stage' = [stage EXCEPT ![r] = s]
  /\ IF PhaseOf(s) = fsm[r].phase THEN UNCHANGED <<fsm, late>>
     ELSE Transition(r, PhaseOf(s))

Deliver(w) ==
  /\ w \in late
  /\ late' = late \ {w}
  /\ \/ checkpoint' = IF w.phase = "failed" THEN NoCheckpoint ELSE w
     \/ UNCHANGED checkpoint   \* Redis fails: logged
  /\ UNCHANGED <<stage, fsm, analysis, proposal, verdict, row, filed, raised, unfiled>>

CheckpointExpires ==
  /\ checkpoint # NoCheckpoint
  /\ checkpoint' = NoCheckpoint
  /\ UNCHANGED <<stage, fsm, analysis, proposal, verdict, row, filed, late, raised, unfiled>>

-----------------------------------------------------------------------------
(* The stages                                                              *)

DropContexts(r) ==
  /\ analysis' = [analysis EXCEPT ![r] = Unrecorded]
  /\ proposal' = [proposal EXCEPT ![r] = Unrecorded]
  /\ verdict' = [verdict EXCEPT ![r] = Unrecorded]

\* An early return: the state machine stays in its phase.
EndsHere(r) ==
  /\ stage' = [stage EXCEPT ![r] = "ended"]
  /\ DropContexts(r)
  /\ UNCHANGED <<fsm, late>>

\* _update_ticket_status; a database that fails is logged.
SetRow(r, s) == row' \in {row, [row EXCEPT ![r] = s]}

StartPipeline(r) ==
  /\ stage[r] = "idle"
  /\ Advance(r, "debugging")
  /\ UNCHANGED <<analysis, proposal, verdict, row, filed, checkpoint, raised, unfiled>>

\* The repair agent asks one of the three by itself; a run stands for the call.
Ask(r, s) ==
  /\ stage[r] = "idle"
  /\ stage' = [stage EXCEPT ![r] = s]
  /\ UNCHANGED <<fsm, analysis, proposal, verdict, row, filed, late, checkpoint,
                 raised, unfiled>>

AskDebugger(r) == Ask(r, "asking_debugger")
AskProgrammer(r) == Ask(r, "asking_programmer")
AskQualityControl(r) == Ask(r, "asking_quality_control")

\* The answer is text for the repair agent; what was recorded goes with the
\* context, the diff of a proposal too.
Answered(r) ==
  /\ stage[r] \in {"asking_debugger", "asking_programmer", "asking_quality_control"}
  /\ EndsHere(r)
  /\ UNCHANGED <<row, filed, checkpoint, raised, unfiled>>

RecordAnalysis(r, c) ==
  /\ stage[r] \in {"debugging", "asking_debugger"}
  /\ analysis' = [analysis EXCEPT ![r] = c]
  /\ UNCHANGED <<stage, fsm, proposal, verdict, row, filed, late, checkpoint,
                 raised, unfiled>>

\* What the column's serializer takes.  The code's analysis also has analyzed_at,
\* a "time".
JsonKinds == {"text", "number", "list", "mapping"}
IsStorable == AnalysisKinds \subseteq JsonKinds

StatusFor(c) == IF c >= 7 THEN "debug_analysis_ready" ELSE "open"

\* create_ticket_from_analysis.  Fields no model can be made of go in as they
\* were recorded, without the model's time.
FileTicket(r) ==
  /\ stage[r] \in {"debugging", "asking_debugger"}
  /\ analysis[r] # Unrecorded
  /\ filed' = filed \union {StatusFor(analysis[r])}
  /\ UNCHANGED <<stage, fsm, analysis, proposal, verdict, row, late, checkpoint,
                 raised, unfiled>>

\* What run_debugger_analysis returns.
DebuggerConfidence(r) == IF analysis[r] = Unrecorded THEN 3 ELSE analysis[r]

DebuggerAnswers(r) ==
  /\ stage[r] = "debugging"
  /\ IF DebuggerConfidence(r) < 3 THEN EndsHere(r)
     ELSE /\ Advance(r, "ticket_created")
          /\ analysis' = [analysis EXCEPT ![r] = DebuggerConfidence(r)]
          /\ UNCHANGED <<proposal, verdict>>
  /\ UNCHANGED <<row, filed, checkpoint, raised, unfiled>>

\* Whatever it had recorded, its confidence is 0.
DebuggerRaises(r) ==
  /\ stage[r] = "debugging"
  /\ raised' = raised \union {r}
  /\ EndsHere(r)
  /\ UNCHANGED <<row, filed, checkpoint, unfiled>>

OpenTicket(r) ==
  /\ stage[r] = "ticket_created"
  /\ IsStorable
  /\ row' = [row EXCEPT ![r] = StatusFor(analysis[r])]
  /\ Advance(r, "programming")
  /\ analysis' = [analysis EXCEPT ![r] = Unrecorded]
  /\ UNCHANGED <<proposal, verdict, filed, checkpoint, raised, unfiled>>

\* The user is unknown, the database fails, or the analysis is not JSON.
TicketRefused(r) ==
  /\ stage[r] = "ticket_created"
  /\ \/ ~IsStorable /\ unfiled' = unfiled \union {r}
     \/ UNCHANGED unfiled
  /\ EndsHere(r)
  /\ UNCHANGED <<row, filed, checkpoint, raised>>

RecordFixProposal(r, p) ==
  /\ stage[r] \in {"programming", "asking_programmer"}
  /\ proposal' = [proposal EXCEPT ![r] = p]
  /\ UNCHANGED <<stage, fsm, analysis, verdict, row, filed, late, checkpoint,
                 raised, unfiled>>

\* What run_programmer_fix_generation returns: without a record, the beginning
\* of the programmer's last words as the diff.
FixProposals(r) ==
  IF proposal[r] # Unrecorded THEN {proposal[r]}
  ELSE {[diff |-> d, tests |-> "pytest", confidence |-> 3] : d \in LastWords}

TooUnsure(p) == p.confidence < 3 \/ p.diff = "none"

ProgrammerAnswers(r) ==
  /\ stage[r] = "programming"
  /\ \E p \in FixProposals(r) :
       IF TooUnsure(p) THEN EndsHere(r) /\ SetRow(r, "open")
       ELSE /\ Advance(r, "qa_validation")
            /\ proposal' = [proposal EXCEPT ![r] = [p EXCEPT !.confidence = 3]] \* not read again
            /\ UNCHANGED <<analysis, verdict, row>>
  /\ UNCHANGED <<filed, checkpoint, raised, unfiled>>

ProgrammerRaises(r) ==
  /\ stage[r] = "programming"
  /\ raised' = raised \union {r}
  /\ EndsHere(r)
  /\ SetRow(r, "open")
  /\ UNCHANGED <<filed, checkpoint, unfiled>>

RecordDecision(r, d) ==
  /\ stage[r] \in {"qa_validation", "asking_quality_control"}
  /\ verdict' = [verdict EXCEPT ![r] = d]
  /\ UNCHANGED <<stage, fsm, analysis, proposal, row, filed, late, checkpoint,
                 raised, unfiled>>

\* What run_quality_control_validation returns: without a record, GO.
Decision(r) == IF verdict[r] = Unrecorded THEN "GO" ELSE verdict[r]

GoesToSandbox(r, d) ==
  /\ d = "GO" /\ Floor(proposal[r]) # "NO_GO"
  /\ Advance(r, "sandbox_testing")
  /\ verdict' = [verdict EXCEPT ![r] = Unrecorded]   \* not read again
  /\ UNCHANGED <<analysis, proposal, row>>

TurnedDown(r, d) ==
  /\ d # "GO" \/ Floor(proposal[r]) = "NO_GO"
  /\ EndsHere(r)
  /\ SetRow(r, IF d = "NEEDS_REVISION" THEN "plan_ready" ELSE "verification_failed")

QualityControlAnswers(r) ==
  /\ stage[r] = "qa_validation"
  /\ GoesToSandbox(r, Decision(r)) \/ TurnedDown(r, Decision(r))
  /\ UNCHANGED <<filed, checkpoint, raised, unfiled>>

\* A failing validation answered like a missing one.
GoesAnyway(r) ==
  /\ stage[r] = "qa_validation"
  /\ raised' = raised \union {r}
  /\ GoesToSandbox(r, "GO") \/ TurnedDown(r, "GO")
  /\ UNCHANGED <<filed, checkpoint, unfiled>>

QualityControlRaises(r) ==
  /\ stage[r] = "qa_validation"
  /\ raised' = raised \union {r}
  /\ TurnedDown(r, "NO_GO")
  /\ UNCHANGED <<filed, checkpoint, unfiled>>

\* The patch is rolled back, or found no file to go to.
SandboxFails(r) ==
  /\ stage[r] = "sandbox_testing"
  /\ EndsHere(r)
  /\ SetRow(r, "verification_failed")
  /\ UNCHANGED <<filed, checkpoint, raised, unfiled>>

\* execute_pending_repair calls the ticket deployed.
SandboxPasses(r) ==
  /\ stage[r] = "sandbox_testing"
  /\ proposal[r].diff # "prose"
  /\ SetRow(r, "deployed")
  /\ Advance(r, "awaiting_approval")
  /\ UNCHANGED <<analysis, proposal, verdict, filed, checkpoint, raised, unfiled>>

PipelineReturns(r) ==
  /\ stage[r] = "awaiting_approval"
  /\ SetRow(r, "ready_for_deploy")
  /\ EndsHere(r)
  /\ UNCHANGED <<filed, checkpoint, raised, unfiled>>

Running(r) ==
  stage[r] \in {"debugging", "ticket_created", "programming", "qa_validation",
                "sandbox_testing", "awaiting_approval"}

\* An exception between the agents: a conversion to the stored models, the dry
\* run or a write.
PipelineRaises(r) ==
  /\ Running(r)
  /\ Transition(r, "failed")
  /\ stage' = [stage EXCEPT ![r] = "ended"]
  /\ DropContexts(r)
  /\ UNCHANGED <<row, filed, checkpoint, raised, unfiled>>

\* A cancelled turn is no Exception: nothing is done for the flow.
CutOffRun(r) ==
  /\ stage[r] \notin {"idle", "ended"}
  /\ EndsHere(r)
  /\ UNCHANGED <<row, filed, checkpoint, raised, unfiled>>

\* The process ends with its runs and its tasks; Redis keeps the checkpoint.
AgentCrash ==
  /\ stage' = [r \in AgentRuns |-> IF stage[r] = "idle" THEN "idle" ELSE "ended"]
  /\ late' = {}
  /\ analysis' = [r \in AgentRuns |-> Unrecorded]
  /\ proposal' = [r \in AgentRuns |-> Unrecorded]
  /\ verdict' = [r \in AgentRuns |-> Unrecorded]
  /\ UNCHANGED <<fsm, row, filed, checkpoint, raised, unfiled>>

RunOfAgents(r) ==
  \/ StartPipeline(r) \/ AskDebugger(r) \/ AskProgrammer(r) \/ AskQualityControl(r)
  \/ Answered(r)
  \/ \E c \in Confidences : RecordAnalysis(r, c)
  \/ FileTicket(r) \/ DebuggerAnswers(r) \/ DebuggerRaises(r)
  \/ OpenTicket(r) \/ TicketRefused(r)
  \/ \E p \in Proposals : RecordFixProposal(r, p)
  \/ ProgrammerAnswers(r) \/ ProgrammerRaises(r)
  \/ \E d \in Decisions : RecordDecision(r, d)
  \/ QualityControlAnswers(r) \/ QualityControlRaises(r)
  \/ SandboxFails(r) \/ SandboxPasses(r) \/ PipelineReturns(r)
  \/ PipelineRaises(r) \/ CutOffRun(r)

AgentNext ==
  \/ \E r \in AgentRuns : RunOfAgents(r)
  \/ \E w \in late : Deliver(w)
  \/ CheckpointExpires
  \/ AgentCrash

-----------------------------------------------------------------------------
(* propose_low_risk_fix                                                    *)

VARIABLES
  fix,     \* the plan being applied, the steps left, whether all went well so
           \* far, and the keys it has deleted
  keys,    \* Redis keys that exist
  outcome  \* the ticket of the last fix: its status, and the fix as it ended

fixVars == <<fix, keys, outcome>>

NoFixPlan == <<>>
Idle == [plan |-> NoFixPlan, left |-> NoFixPlan, ok |-> TRUE, done |-> {}]

FixInit ==
  /\ fix = Idle
  /\ keys = StaleKeys
  /\ outcome = [status |-> "none", fix |-> Idle]

LowRiskActions == {"clear_redis_key", "reinject_schedule", "set_env_var",
                   "restart_service", "clear_cache"}
MediumRiskActions == {"edit_config_file", "update_yaml", "update_json_config"}

\* The first step that is not of low risk decides.
Risk(steps) ==
  LET others == SelectSeq(steps, LAMBDA s : s.action \notin LowRiskActions)
  IN  CASE steps = <<>> -> "high"
        [] steps # <<>> /\ others = <<>> -> "low"
        [] others # <<>> /\ Head(others).action \in MediumRiskActions -> "medium"
        [] OTHER -> "high"

ProposeLowRiskFix(p) ==
  /\ fix = Idle
  /\ Risk(p) = "low"
  /\ fix' = [Idle EXCEPT !.plan = p, !.left = p]
  /\ UNCHANGED <<keys, outcome>>

\* A step that is only logged counts as carried out.
LoggedIsEnough(s) == s.action \in LowRiskActions

\* Only the deletion of a key is implemented; the others leave a warning.
CarriesOut(s) == s.action = "clear_redis_key"

StepGoesThrough(s) ==
  /\ fix' = [fix EXCEPT !.left = Tail(@), !.ok = @ /\ CarriesOut(s),
                        !.done = @ \union ({s.key} \intersect StaleKeys)]
  /\ keys' = keys \ {s.key}
  /\ UNCHANGED outcome

\* Redis fails, or the step names no key: the next step is taken all the same.
StepFails ==
  /\ fix' = [fix EXCEPT !.left = Tail(@), !.ok = FALSE]
  /\ UNCHANGED <<keys, outcome>>

ApplyStep ==
  /\ fix.left # <<>>
  /\ StepGoesThrough(Head(fix.left)) \/ StepFails

\* The ticket is written last, and its failure is only logged.
CloseFix ==
  /\ fix # Idle /\ fix.left = <<>>
  /\ fix' = Idle
  /\ \/ outcome' = [status |-> IF fix.ok THEN "deployed" ELSE "verification_failed",
                    fix |-> fix]
     \/ UNCHANGED outcome
  /\ UNCHANGED keys

\* The turn is cut off between two steps.
CutOffFix ==
  /\ fix # Idle
  /\ fix' = Idle
  /\ UNCHANGED <<keys, outcome>>

\* The rest of the program writes the key again.
KeyReturns(k) ==
  /\ k \notin keys
  /\ keys' = keys \union {k}
  /\ UNCHANGED <<fix, outcome>>

FixNext ==
  \/ \E p \in FixPlans : ProposeLowRiskFix(p)
  \/ ApplyStep \/ CloseFix \/ CutOffFix
  \/ \E k \in StaleKeys : KeyReturns(k)

\* The two share no variable.
RepairAgentsSpec ==
  /\ AgentInit /\ FixInit
  /\ [][ \/ AgentNext /\ UNCHANGED fixVars
         \/ FixNext /\ UNCHANGED agentVars ]_<<agentVars, fixVars>>

-----------------------------------------------------------------------------
(* Properties                                                              *)

\* Type invariant.
AgentTypeOK ==
  /\ stage \in [AgentRuns -> Stages]
  /\ fsm \in [AgentRuns -> [phase : Phases, step : 0 .. 5]]
  /\ analysis \in [AgentRuns -> Confidences \union {Unrecorded}]
  /\ \A r \in AgentRuns : proposal[r] # Unrecorded =>
       proposal[r].diff \in Diffs /\ proposal[r].tests \in TestPlans
  /\ verdict \in [AgentRuns -> Decisions \union {Unrecorded}]
  /\ row \in [AgentRuns -> Statuses] /\ filed \subseteq Statuses
  /\ late \subseteq [run : AgentRuns, phase : Phases, step : 1 .. 5]
  /\ checkpoint \in [run : AgentRuns, phase : Phases, step : 1 .. 5] \union {NoCheckpoint}
  /\ raised \subseteq AgentRuns /\ unfiled \subseteq AgentRuns
  /\ keys \subseteq StaleKeys /\ fix.done \subseteq StaleKeys
  /\ outcome.status \in Statuses

\* engine.py:1277, "Even when the agent says GO ... reject if any BLOCKER trips":
\* whatever the agents record, forget to record or raise, what the pipeline
\* tries on the files has no blocker and no agent that failed behind it, and
\* the state machine has followed it there: its own verifier did not object.
TriedIsScreened ==
  \A r \in AgentRuns : stage[r] = "sandbox_testing" =>
    /\ Blockers(proposal[r]) = {}
    /\ r \notin raised
    /\ fsm[r].phase = PhaseOf(stage[r])

\* A fix that was applied without asking and is called deployed has done every
\* step of its plan.
LowRiskIsDone ==
  outcome.status = "deployed" =>
    \A i \in DOMAIN outcome.fix.plan : outcome.fix.plan[i].key \in outcome.fix.done

\* What the repair agents get to, with the pipeline or without asking, they have
\* earned: the sandbox by passing every screen, a ticket's "deployed" by every step.
RepairsAreEarned == TriedIsScreened /\ LowRiskIsDone

\* engine.py:1020, "Ticket creation (durable tracking)": an analysis the
\* debugger is sure of gets its ticket unless the database fails.
AnalysesAreFiled == unfiled = {}
===============================================================================
