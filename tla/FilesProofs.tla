----------------------------- MODULE FilesProofs -----------------------------
(***************************************************************************)
(* What the program writes into its own files, for any constants: the      *)
(* agents' screens and the fixes made without asking, the skill files and  *)
(* the tools; at the end, with the pipeline of RepairProofs, the parts of  *)
(* OwnFilesMC as one system.                                               *)
(***************************************************************************)
EXTENDS OwnFilesMC, RepairProofs, TLAPS

-----------------------------------------------------------------------------
(* The agents.  The state machine mirrors the stages exactly until a run   *)
(* ends, so it cannot object on the edge its verifier looks at, and what   *)
(* is tried has passed the floor.                                          *)

\* Where the state machine is while a run is at a stage.
Mirror(s) ==
  CASE s \in {"idle", "debugging", "ticket_created", "asking_debugger", "asking_programmer",
              "asking_quality_control"} -> [phase |-> "plan", step |-> 0]
    [] s = "programming" -> [phase |-> "act", step |-> 1]
    [] s = "qa_validation" -> [phase |-> "observe", step |-> 2]
    [] s = "sandbox_testing" -> [phase |-> "act", step |-> 3]
    [] s = "awaiting_approval" -> [phase |-> "observe", step |-> 4]

\* A run that has not ended is mirrored, and no agent of it has raised.
Mirrored ==
  \A r \in AgentRuns : stage[r] # "ended" => fsm[r] = Mirror(stage[r]) /\ r \notin raised

TriedIsClean ==
  \A r \in AgentRuns : stage[r] = "sandbox_testing" => Blockers(proposal[r]) = {}

\* The types of what the agents leave behind.
AgentsTyped ==
  /\ stage \in [AgentRuns -> Stages]
  /\ fsm \in [AgentRuns -> [phase : Phases, step : 0 .. 5]]
  /\ analysis \in [AgentRuns -> Confidences \union {Unrecorded}]
  /\ proposal \in [AgentRuns -> [diff : Diffs, tests : TestPlans, confidence : 0 .. 10]
                                 \union {Unrecorded}]
  /\ verdict \in [AgentRuns -> Decisions \union {Unrecorded}]
  /\ row \in [AgentRuns -> Statuses] /\ filed \subseteq Statuses
  /\ late \subseteq [run : AgentRuns, phase : Phases, step : 1 .. 5]
  /\ checkpoint \in [run : AgentRuns, phase : Phases, step : 1 .. 5] \union {NoCheckpoint}
  /\ raised \subseteq AgentRuns /\ unfiled \subseteq AgentRuns

AgentInv == AgentsTyped /\ Mirrored /\ TriedIsClean

\* No pipeline, no answer, no ticket at first.
LEMMA AgentsStartMirrored == AgentInit => AgentInv
BY DEF AgentInit, AgentInv, AgentsTyped, Mirrored, TriedIsClean, Mirror, Stages, Phases,
       Decisions, Statuses

\* A stage that does not end the run moves the mirror with it.
LEMMA AdvanceIsMirrored ==
  ASSUME AgentInv, NEW r \in AgentRuns, NEW s \in Stages, Advance(r, s),
         \/ stage[r] = "idle" /\ s = "debugging"
         \/ stage[r] = "debugging" /\ s = "ticket_created"
         \/ stage[r] = "ticket_created" /\ s = "programming"
         \/ stage[r] = "programming" /\ s = "qa_validation"
         \/ stage[r] = "qa_validation" /\ s = "sandbox_testing" /\ Blockers(proposal[r]) = {}
         \/ stage[r] = "sandbox_testing" /\ s = "awaiting_approval"
  PROVE  /\ stage' = [stage EXCEPT ![r] = s]
         /\ fsm' = [fsm EXCEPT ![r] = Mirror(s)]
         /\ Mirror(s) \in [phase : Phases, step : 0 .. 5]
         /\ late' \subseteq [run : AgentRuns, phase : Phases, step : 1 .. 5]
<1> USE DEF AgentInv, AgentsTyped, Mirrored, Mirror, Phases
<1>0. fsm[r] = Mirror(stage[r]) /\ stage' = [stage EXCEPT ![r] = s]
  BY DEF Advance
<1>1. CASE PhaseOf(s) = fsm[r].phase
  BY <1>0, <1>1 DEF Advance, PhaseOf
<1>2. CASE PhaseOf(s) # fsm[r].phase
  <2>1. Transition(r, PhaseOf(s)) /\ ~Vetoed(r, PhaseOf(s))
    BY <1>0, <1>2 DEF Advance, Vetoed, PhaseOf
  <2>2. [phase |-> PhaseOf(s), step |-> fsm[r].step + 1] = Mirror(s)
    BY <1>0, <1>2 DEF PhaseOf
  <2>3. /\ fsm' = [fsm EXCEPT ![r] = Mirror(s)]
        /\ late' = late \union {[run |-> r, phase |-> Mirror(s).phase, step |-> Mirror(s).step]}
    BY <2>1, <2>2 DEF Transition, Snapshot
  <2>4. Mirror(s) \in [phase : Phases, step : 1 .. 5]
    BY <1>0, <1>2 DEF PhaseOf
  <2>5. QED
    BY <1>0, <2>3, <2>4
<1>3. QED
  BY <1>1, <1>2

\* A run that ends, and one whose ticket is updated.
LEMMA EndingKeepsAgents ==
  ASSUME AgentInv, NEW r \in AgentRuns,
         stage' = [stage EXCEPT ![r] = "ended"], DropContexts(r),
         fsm' \in [AgentRuns -> [phase : Phases, step : 0 .. 5]],
         \A q \in AgentRuns \ {r} : fsm'[q] = fsm[q],
         late' \subseteq [run : AgentRuns, phase : Phases, step : 1 .. 5],
         row' \in [AgentRuns -> Statuses], filed' \subseteq Statuses,
         raised' \in {raised, raised \union {r}}, unfiled' \subseteq AgentRuns,
         checkpoint' = checkpoint
  PROVE  AgentInv'
<1> USE DEF AgentInv, AgentsTyped, DropContexts, Mirrored, TriedIsClean, Stages
<1>1. AgentsTyped'
  OBVIOUS
<1>2. \A q \in AgentRuns : stage'[q] # "ended" =>
        q # r /\ stage'[q] = stage[q] /\ proposal'[q] = proposal[q]
  OBVIOUS
<1>3. Mirrored'
  BY <1>2
<1>4. TriedIsClean'
  BY <1>2 DEF Blockers, PatchApplies, NoSecurityPattern, TestsAllowlisted, DryRunText
<1>5. QED
  BY <1>1, <1>3, <1>4

\* An update, made or lost, gives the row a status.
LEMMA SetRowTypes ==
  ASSUME AgentInv, NEW r \in AgentRuns, NEW s \in Statuses, SetRow(r, s)
  PROVE  row' \in [AgentRuns -> Statuses]
BY DEF SetRow, AgentInv, AgentsTyped

\* What is recorded while a run stays at its stage.
LEMMA RecordKeepsAgents ==
  ASSUME AgentInv, NEW r \in AgentRuns, stage[r] # "sandbox_testing", AgentsTyped',
         \A q \in AgentRuns \ {r} : proposal'[q] = proposal[q],
         UNCHANGED <<stage, fsm, raised>>
  PROVE  AgentInv'
BY DEF AgentInv, AgentsTyped, Mirrored, TriedIsClean, Blockers, PatchApplies,
       NoSecurityPattern, TestsAllowlisted, DryRunText

\* A run that goes on to its next stage.
LEMMA GoingOnKeepsAgents ==
  ASSUME AgentInv, NEW r \in AgentRuns, NEW s \in Stages \ {"ended"},
         stage' = [stage EXCEPT ![r] = s], stage[r] # "ended",
         fsm' = [fsm EXCEPT ![r] = Mirror(s)], AgentsTyped',
         \A q \in AgentRuns \ {r} : proposal'[q] = proposal[q],
         s = "sandbox_testing" => Blockers(proposal'[r]) = {},
         UNCHANGED raised
  PROVE  AgentInv'
<1> USE DEF AgentInv, AgentsTyped, Mirrored, TriedIsClean
<1>1. stage'[r] = s /\ \A q \in AgentRuns \ {r} : stage'[q] = stage[q] /\ fsm'[q] = fsm[q]
  OBVIOUS
<1>2. Mirrored'
  BY <1>1
<1>3. TriedIsClean'
  BY <1>1 DEF Blockers, PatchApplies, NoSecurityPattern, TestsAllowlisted, DryRunText
<1>4. QED
  BY <1>2, <1>3

\* An early return.
LEMMA EndsHereKeepsAgents ==
  ASSUME AgentInv, NEW r \in AgentRuns, EndsHere(r),
         row' \in [AgentRuns -> Statuses], filed' = filed,
         raised' \in {raised, raised \union {r}}, unfiled' \subseteq AgentRuns,
         checkpoint' = checkpoint
  PROVE  AgentInv'
BY EndingKeepsAgents DEF EndsHere, AgentInv, AgentsTyped

\* The steps of one run, or of one consultation.
LEMMA AgentRunsKeepAgents ==
  ASSUME AgentInv, NEW r \in AgentRuns, RunOfAgents(r)
  PROVE  AgentInv'
<1>0. /\ row \in [AgentRuns -> Statuses] /\ unfiled \subseteq AgentRuns
      /\ 3 \in Confidences /\ Confidences \subseteq 0 .. 10
  BY ConfidencesAreTenths DEF AgentInv, AgentsTyped
<1> USE <1>0 DEF Stages, Statuses
<1>1. CASE StartPipeline(r)
  <2>1. /\ stage' = [stage EXCEPT ![r] = "debugging"]
        /\ fsm' = [fsm EXCEPT ![r] = Mirror("debugging")]
        /\ Mirror("debugging") \in [phase : Phases, step : 0 .. 5]
        /\ late' \subseteq [run : AgentRuns, phase : Phases, step : 1 .. 5]
    BY <1>1, AdvanceIsMirrored DEF StartPipeline
  <2>2. AgentsTyped'
    BY <1>1, <2>1 DEF StartPipeline, AgentInv, AgentsTyped
  <2>3. QED
    BY <1>1, <2>1, <2>2, GoingOnKeepsAgents DEF StartPipeline
<1>2. ASSUME NEW s \in {"asking_debugger", "asking_programmer", "asking_quality_control"},
             Ask(r, s)
      PROVE  AgentInv'
  <2>1. /\ Mirror(s) = fsm[r] /\ fsm' = [fsm EXCEPT ![r] = Mirror(s)]
        /\ stage' = [stage EXCEPT ![r] = s]
    BY <1>2 DEF Ask, AgentInv, AgentsTyped, Mirrored, Mirror
  <2>2. AgentsTyped'
    BY <1>2, <2>1 DEF Ask, AgentInv, AgentsTyped
  <2>3. QED
    BY <1>2, <2>1, <2>2, GoingOnKeepsAgents DEF Ask
<1>3. CASE Answered(r)
  BY <1>3, EndsHereKeepsAgents DEF Answered
<1>4. ASSUME NEW c \in Confidences, RecordAnalysis(r, c) PROVE AgentInv'
  <2>1. AgentsTyped'
    BY <1>4 DEF RecordAnalysis, AgentInv, AgentsTyped
  <2>2. QED
    BY <1>4, <2>1, RecordKeepsAgents DEF RecordAnalysis
<1>5. CASE FileTicket(r)
  <2>1. AgentsTyped'
    BY <1>5 DEF FileTicket, StatusFor, AgentInv, AgentsTyped
  <2>2. QED
    BY <1>5, <2>1, RecordKeepsAgents DEF FileTicket
<1>6. CASE DebuggerAnswers(r)
  <2>1. CASE DebuggerConfidence(r) < 3
    BY <1>6, <2>1, EndsHereKeepsAgents DEF DebuggerAnswers
  <2>2. CASE ~(DebuggerConfidence(r) < 3)
    <3>1. Advance(r, "ticket_created") /\ stage[r] = "debugging"
      BY <1>6, <2>2 DEF DebuggerAnswers
    <3>2. /\ stage' = [stage EXCEPT ![r] = "ticket_created"]
          /\ fsm' = [fsm EXCEPT ![r] = Mirror("ticket_created")]
          /\ Mirror("ticket_created") \in [phase : Phases, step : 0 .. 5]
          /\ late' \subseteq [run : AgentRuns, phase : Phases, step : 1 .. 5]
      BY <3>1, AdvanceIsMirrored
    <3>3. DebuggerConfidence(r) \in Confidences \union {Unrecorded}
      BY DEF DebuggerConfidence, AgentInv, AgentsTyped
    <3>4. AgentsTyped'
      BY <1>6, <2>2, <3>2, <3>3 DEF DebuggerAnswers, AgentInv, AgentsTyped
    <3>5. QED
      BY <1>6, <2>2, <3>1, <3>2, <3>4, GoingOnKeepsAgents DEF DebuggerAnswers
  <2>3. QED
    BY <2>1, <2>2
<1>7. CASE DebuggerRaises(r)
  BY <1>7, EndsHereKeepsAgents DEF DebuggerRaises
<1>8. CASE OpenTicket(r)
  <2>1. /\ stage' = [stage EXCEPT ![r] = "programming"]
        /\ fsm' = [fsm EXCEPT ![r] = Mirror("programming")]
        /\ Mirror("programming") \in [phase : Phases, step : 0 .. 5]
        /\ late' \subseteq [run : AgentRuns, phase : Phases, step : 1 .. 5]
    BY <1>8, AdvanceIsMirrored DEF OpenTicket
  <2>2. AgentsTyped'
    BY <1>8, <2>1 DEF OpenTicket, StatusFor, AgentInv, AgentsTyped
  <2>3. QED
    BY <1>8, <2>1, <2>2, GoingOnKeepsAgents DEF OpenTicket
<1>9. CASE TicketRefused(r)
  BY <1>9, EndsHereKeepsAgents DEF TicketRefused
<1>10. ASSUME NEW p \in Proposals, RecordFixProposal(r, p) PROVE AgentInv'
  <2>1. AgentsTyped'
    BY <1>10, ProposalsAreDiffs DEF RecordFixProposal, AgentInv, AgentsTyped
  <2>2. QED
    BY <1>10, <2>1, RecordKeepsAgents DEF RecordFixProposal, AgentInv, AgentsTyped
<1>11. CASE ProgrammerAnswers(r)
  <2>1. PICK p \in FixProposals(r) :
          IF TooUnsure(p) THEN EndsHere(r) /\ SetRow(r, "open")
          ELSE /\ Advance(r, "qa_validation")
               /\ proposal' = [proposal EXCEPT ![r] = [p EXCEPT !.confidence = 3]]
               /\ UNCHANGED <<analysis, verdict, row>>
    BY <1>11 DEF ProgrammerAnswers
  <2>2. CASE TooUnsure(p)
    BY <1>11, <2>1, <2>2, SetRowTypes, EndsHereKeepsAgents DEF ProgrammerAnswers
  <2>3. CASE ~TooUnsure(p)
    <3>1. /\ stage' = [stage EXCEPT ![r] = "qa_validation"]
          /\ fsm' = [fsm EXCEPT ![r] = Mirror("qa_validation")]
          /\ Mirror("qa_validation") \in [phase : Phases, step : 0 .. 5]
          /\ late' \subseteq [run : AgentRuns, phase : Phases, step : 1 .. 5]
      BY <1>11, <2>1, <2>3, AdvanceIsMirrored DEF ProgrammerAnswers
    <3>2. p \in [diff : Diffs, tests : TestPlans, confidence : 0 .. 10]
      BY LastWordsAreDiffs DEF FixProposals, AgentInv, AgentsTyped, TestPlans
    <3>3. [p EXCEPT !.confidence = 3] \in [diff : Diffs, tests : TestPlans,
    confidence : 0 .. 10]
      BY <3>2
    <3>4. AgentsTyped'
      BY <1>11, <2>1, <2>3, <3>1, <3>3 DEF ProgrammerAnswers, AgentInv, AgentsTyped
    <3>5. \A q \in AgentRuns \ {r} : proposal'[q] = proposal[q]
      BY <2>1, <2>3 DEF AgentInv, AgentsTyped
    <3>6. QED
      BY <1>11, <3>1, <3>4, <3>5, GoingOnKeepsAgents DEF ProgrammerAnswers
  <2>4. QED
    BY <2>2, <2>3
<1>12. CASE ProgrammerRaises(r)
  BY <1>12, SetRowTypes, EndsHereKeepsAgents DEF ProgrammerRaises
<1>13. ASSUME NEW d \in Decisions, RecordDecision(r, d) PROVE AgentInv'
  <2>1. AgentsTyped'
    BY <1>13 DEF RecordDecision, AgentInv, AgentsTyped
  <2>2. QED
    BY <1>13, <2>1, RecordKeepsAgents DEF RecordDecision
<1>14. ASSUME NEW d, TurnedDown(r, d), raised' \in {raised, raised \union {r}},
              UNCHANGED <<filed, checkpoint, unfiled>>
       PROVE  AgentInv'
  BY <1>14, SetRowTypes, EndsHereKeepsAgents DEF TurnedDown
<1>15. CASE QualityControlAnswers(r)
  <2>1. CASE TurnedDown(r, Decision(r))
    BY <1>14, <1>15, <2>1 DEF QualityControlAnswers
  <2>2. CASE GoesToSandbox(r, Decision(r))
    <3>1. Blockers(proposal[r]) = {} /\ stage[r] = "qa_validation"
      BY <1>15, <2>2 DEF GoesToSandbox, Floor, QualityControlAnswers
    <3>2. /\ stage' = [stage EXCEPT ![r] = "sandbox_testing"]
          /\ fsm' = [fsm EXCEPT ![r] = Mirror("sandbox_testing")]
          /\ Mirror("sandbox_testing") \in [phase : Phases, step : 0 .. 5]
          /\ late' \subseteq [run : AgentRuns, phase : Phases, step : 1 .. 5]
      BY <2>2, <3>1, AdvanceIsMirrored DEF GoesToSandbox
    <3>3. AgentsTyped'
      BY <1>15, <2>2, <3>2 DEF GoesToSandbox, QualityControlAnswers, AgentInv, AgentsTyped
    <3>4. Blockers(proposal'[r]) = {} /\ proposal' = proposal
      BY <2>2, <3>1 DEF GoesToSandbox
    <3>5. QED
      BY <1>15, <3>1, <3>2, <3>3, <3>4, GoingOnKeepsAgents DEF QualityControlAnswers
  <2>3. QED
    BY <1>15, <2>1, <2>2 DEF QualityControlAnswers
<1>16. CASE QualityControlRaises(r)
  BY <1>14, <1>16 DEF QualityControlRaises
<1>17. CASE SandboxFails(r)
  BY <1>17, SetRowTypes, EndsHereKeepsAgents DEF SandboxFails
<1>18. CASE SandboxPasses(r)
  <2>1. /\ stage' = [stage EXCEPT ![r] = "awaiting_approval"]
        /\ fsm' = [fsm EXCEPT ![r] = Mirror("awaiting_approval")]
        /\ Mirror("awaiting_approval") \in [phase : Phases, step : 0 .. 5]
        /\ late' \subseteq [run : AgentRuns, phase : Phases, step : 1 .. 5]
    BY <1>18, AdvanceIsMirrored DEF SandboxPasses
  <2>2. row' \in [AgentRuns -> Statuses]
    BY <1>18, SetRowTypes DEF SandboxPasses
  <2>3. AgentsTyped'
    BY <1>18, <2>1, <2>2 DEF SandboxPasses, AgentInv, AgentsTyped
  <2>4. QED
    BY <1>18, <2>1, <2>3, GoingOnKeepsAgents DEF SandboxPasses
<1>19. CASE PipelineReturns(r)
  BY <1>19, SetRowTypes, EndsHereKeepsAgents DEF PipelineReturns
<1>20. CASE PipelineRaises(r)
  <2>1. fsm[r] = Mirror(stage[r]) /\ Mirror(stage[r]).step \in 0 .. 4
    BY <1>20 DEF PipelineRaises, Running, AgentInv, AgentsTyped, Mirrored, Mirror
  <2>2. ~Vetoed(r, "failed")
    BY DEF Vetoed
  <2>3. [phase |-> "failed", step |-> fsm[r].step + 1] \in [phase : Phases, step : 1 .. 5]
    BY <2>1 DEF Phases
  <2>4. /\ fsm' = [fsm EXCEPT ![r] = [phase |-> "failed", step |-> fsm[r].step + 1]]
        /\ late' = late \union {[run |-> r, phase |-> "failed", step |-> fsm[r].step + 1]}
    BY <1>20, <2>2 DEF PipelineRaises, Transition, Snapshot
  <2>5. /\ fsm' \in [AgentRuns -> [phase : Phases, step : 0 .. 5]]
        /\ \A q \in AgentRuns \ {r} : fsm'[q] = fsm[q]
        /\ late' \subseteq [run : AgentRuns, phase : Phases, step : 1 .. 5]
    BY <2>3, <2>4 DEF AgentInv, AgentsTyped
  <2>6. QED
    BY <1>20, <2>5, EndingKeepsAgents DEF PipelineRaises, AgentInv, AgentsTyped
<1>21. CASE CutOffRun(r)
  BY <1>21, EndsHereKeepsAgents DEF CutOffRun
<1>22. QED
  BY <1>1, <1>2, <1>3, <1>4, <1>5, <1>6, <1>7, <1>8, <1>9, <1>10, <1>11, <1>12, <1>13,
     <1>15, <1>16, <1>17, <1>18, <1>19, <1>20, <1>21
     DEF RunOfAgents, AskDebugger, AskProgrammer, AskQualityControl

\* The steps of the checkpoint, and a crash.
LEMMA CheckpointsKeepAgents ==
  ASSUME AgentInv,
         \/ \E w \in late : Deliver(w)
         \/ CheckpointExpires \/ AgentCrash \/ UNCHANGED agentVars
  PROVE  AgentInv'
<1>1. ASSUME NEW w \in late, Deliver(w) PROVE AgentInv'
  BY <1>1 DEF Deliver, AgentInv, AgentsTyped, Mirrored, TriedIsClean
<1>2. CASE CheckpointExpires
  BY <1>2 DEF CheckpointExpires, AgentInv, AgentsTyped, Mirrored, TriedIsClean
<1>3. CASE AgentCrash
  <2>1. \A r \in AgentRuns : stage'[r] = (IF stage[r] = "idle" THEN "idle" ELSE "ended")
    BY <1>3 DEF AgentCrash
  <2>2. AgentsTyped'
    BY <1>3 DEF AgentCrash, AgentInv, AgentsTyped, Stages
  <2>3. QED
    BY <1>3, <2>1, <2>2 DEF AgentCrash, AgentInv, Mirrored, TriedIsClean
<1>4. CASE UNCHANGED agentVars
  BY <1>4 DEF agentVars, AgentInv, AgentsTyped, Mirrored, TriedIsClean
<1>5. QED
  BY <1>1, <1>2, <1>3, <1>4

-----------------------------------------------------------------------------
(* The fixes made without asking.  The steps left are the end of the plan, *)
(* and while all has gone well every step before them has done its key.    *)

FixSteps == UNION {{p[i] : i \in DOMAIN p} : p \in FixPlans}
FixRecords ==
  [plan : Seq(FixSteps), left : Seq(FixSteps), ok : BOOLEAN, done : SUBSET StaleKeys]

\* How many steps have been taken.
Taken(f) == Len(f.plan) - Len(f.left)

InPlan(f) ==
  /\ Len(f.left) <= Len(f.plan)
  /\ \A i \in 1 .. Len(f.left) : f.left[i] = f.plan[Taken(f) + i]
  /\ f.ok => \A i \in 1 .. Taken(f) : f.plan[i].key \in f.done

FixTyped ==
  /\ fix \in FixRecords
  /\ keys \subseteq StaleKeys
  /\ outcome.status \in Statuses

FixInv ==
  /\ FixTyped
  /\ \A i \in DOMAIN fix.plan : fix.plan[i].action = "clear_redis_key" =>
       fix.plan[i].key \in StaleKeys
  /\ InPlan(fix)
  /\ LowRiskIsDone

\* A plan of FixPlans is a sequence of its steps.
LEMMA PlansAreSteps ==
  ASSUME NEW p \in FixPlans
  PROVE  p \in Seq(FixSteps)
<1>1. {p[i] : i \in DOMAIN p} \subseteq FixSteps
  BY DEF FixSteps
<1>2. p \in Seq({p[i] : i \in DOMAIN p})
  BY FixPlansAreSteps
<1>3. QED
  BY <1>1, <1>2

\* Nothing is being fixed at first, and nothing while no fix is under way.
LEMMA NoFixIsInPlan ==
  /\ Idle \in FixRecords /\ InPlan(Idle)
  /\ \A i \in DOMAIN Idle.plan : Idle.plan[i].action = "clear_redis_key" =>
       Idle.plan[i].key \in StaleKeys
BY DEF Idle, NoFixPlan, FixRecords, InPlan, Taken

\* With one step less to go, one more has been taken.
LEMMA OneStepLess ==
  \A m \in Nat, n \in Nat \ {0} : m - (n - 1) = (m - n) + 1
OBVIOUS

\* One step further in the plan, with what it did.
LEMMA StepTakenIsInPlan ==
  ASSUME FixInv, fix.left # <<>>, NEW f,
         f.plan = fix.plan, f.left = Tail(fix.left),
         f.ok \in BOOLEAN, f.done \in SUBSET StaleKeys, fix.done \subseteq f.done,
         f.ok => fix.ok /\ Head(fix.left).key \in f.done
  PROVE  InPlan(f)
<1>1. /\ fix.left \in Seq(FixSteps) /\ fix.plan \in Seq(FixSteps)
      /\ Len(fix.left) \in Nat \ {0} /\ Len(fix.plan) \in Nat
      /\ Tail(fix.left) \in Seq(FixSteps)
      /\ Len(f.left) = Len(fix.left) - 1
      /\ \A i \in 1 .. Len(f.left) : f.left[i] = fix.left[i + 1]
      /\ Head(fix.left) = fix.left[1]
  BY DEF FixInv, FixTyped, FixRecords
<1>2. Taken(f) = Taken(fix) + 1 /\ Taken(fix) \in Nat
  <2>1. Len(fix.left) <= Len(fix.plan) /\ Len(f.plan) = Len(fix.plan)
    BY DEF FixInv, InPlan
  <2>2. /\ Taken(fix) = Len(fix.plan) - Len(fix.left)
        /\ Taken(f) = Len(f.plan) - Len(f.left)
    BY DEF Taken
  <2>3. Len(fix.left) \in Nat \ {0} /\ Len(fix.plan) \in Nat /\ Len(f.left) = Len(fix.left) - 1
    BY <1>1
  <2>4. Len(fix.plan) - Len(fix.left) \in Nat
    BY <2>1, <2>3
  <2>5. Len(f.plan) - Len(f.left) = (Len(fix.plan) - Len(fix.left)) + 1
    BY <2>1, <2>3, OneStepLess
  <2>6. QED
    BY <2>2, <2>4, <2>5
<1>3. ASSUME NEW i \in 1 .. Len(f.left) PROVE f.left[i] = f.plan[Taken(f) + i]
  <2>1. i + 1 \in 1 .. Len(fix.left) /\ f.left[i] = fix.left[i + 1]
    BY <1>1
  <2>2. fix.left[i + 1] = fix.plan[Taken(fix) + (i + 1)]
    BY <2>1 DEF FixInv, InPlan
  <2>3. Taken(fix) + (i + 1) = Taken(f) + i
    BY <1>1, <1>2
  <2>4. QED
    BY <2>1, <2>2, <2>3
<1>4. fix.left[1] = fix.plan[Taken(f)]
  BY <1>1, <1>2 DEF FixInv, InPlan
<1>5. f.ok => \A i \in 1 .. Taken(f) : f.plan[i].key \in f.done
  BY <1>1, <1>2, <1>4 DEF FixInv, InPlan
<1>6. QED
  BY <1>1, <1>3, <1>5 DEF FixInv, InPlan

\* Every step of a fix keeps to its plan.
LEMMA FixStepsKeepPlan ==
  ASSUME FixInv, FixNext \/ UNCHANGED fixVars
  PROVE  FixInv'
<1>0. fix \in FixRecords /\ Statuses = Statuses' /\ keys \subseteq StaleKeys
  BY DEF FixInv, FixTyped, Statuses
<1>1. ASSUME NEW p \in FixPlans, ProposeLowRiskFix(p) PROVE FixInv'
  <2>1. fix' = [plan |-> p, left |-> p, ok |-> TRUE, done |-> {}]
    BY <1>1 DEF ProposeLowRiskFix, Idle
  <2>2. fix' \in FixRecords
    BY <2>1, PlansAreSteps DEF FixRecords
  <2>3. p \in Seq(FixSteps) /\ Len(p) \in Nat
    BY PlansAreSteps
  <2>4. InPlan(fix')
    BY <2>1, <2>3 DEF InPlan, Taken
  <2>5. QED
    BY <1>1, <2>1, <2>2, <2>4, FixPlansAreSteps
       DEF ProposeLowRiskFix, FixInv, FixTyped, LowRiskIsDone, InPlan, Taken
<1>2. ASSUME fix.left # <<>>, StepGoesThrough(Head(fix.left)) PROVE FixInv'
  <2>1. /\ fix' = [fix EXCEPT !.left = Tail(@), !.ok = @ /\ CarriesOut(Head(fix.left)),
                              !.done = @ \union ({Head(fix.left).key} \intersect StaleKeys)]
        /\ keys' = keys \ {Head(fix.left).key} /\ UNCHANGED outcome
    BY <1>2 DEF StepGoesThrough
  <2>2. Tail(fix.left) \in Seq(FixSteps) /\ fix.ok \in BOOLEAN /\ fix.done \in SUBSET StaleKeys
    BY <1>0, <1>2 DEF FixRecords
  <2>3. CarriesOut(Head(fix.left)) \in BOOLEAN
    BY DEF CarriesOut
  <2>4. fix' \in FixRecords
    BY <1>0, <2>1, <2>2, <2>3 DEF FixRecords
  <2>5. /\ fix'.plan = fix.plan /\ fix'.left = Tail(fix.left)
        /\ fix'.ok = (fix.ok /\ CarriesOut(Head(fix.left)))
        /\ fix'.done = fix.done \union ({Head(fix.left).key} \intersect StaleKeys)
    BY <1>0, <2>1 DEF FixRecords
  <2>6. CarriesOut(Head(fix.left)) => Head(fix.left).key \in StaleKeys
    <3>1. /\ Head(fix.left) = fix.left[1] /\ 1 \in 1 .. Len(fix.left)
          /\ Taken(fix) + 1 \in DOMAIN fix.plan
      BY <1>0, <1>2 DEF FixRecords, FixInv, InPlan, Taken
    <3>2. Head(fix.left) = fix.plan[Taken(fix) + 1]
      BY <3>1 DEF FixInv, InPlan
    <3>3. QED
      BY <3>1, <3>2 DEF CarriesOut, FixInv
  <2>7. InPlan(fix')
    <3> DEFINE f == fix'
    <3>1. /\ f.plan = fix.plan /\ f.left = Tail(fix.left)
          /\ f.ok \in BOOLEAN /\ f.done \in SUBSET StaleKeys /\ fix.done \subseteq f.done
          /\ f.ok => fix.ok /\ Head(fix.left).key \in f.done
      BY <2>2, <2>3, <2>5, <2>6
    <3> HIDE DEF f
    <3>2. InPlan(f)
      BY <1>2, <3>1, StepTakenIsInPlan
    <3>3. QED
      BY <3>2 DEF f
  <2>8. QED
    BY <1>0, <2>1, <2>4, <2>5, <2>7 DEF FixInv, FixTyped, LowRiskIsDone, InPlan, Taken
<1>3. ASSUME fix.left # <<>>, StepFails PROVE FixInv'
  <2>1. fix' = [fix EXCEPT !.left = Tail(@), !.ok = FALSE] /\ UNCHANGED <<keys, outcome>>
    BY <1>3 DEF StepFails
  <2>2. Tail(fix.left) \in Seq(FixSteps) /\ fix.done \in SUBSET StaleKeys
    BY <1>0, <1>3 DEF FixRecords
  <2>3. fix' \in FixRecords
    BY <1>0, <2>1, <2>2 DEF FixRecords
  <2>4. /\ fix'.plan = fix.plan /\ fix'.left = Tail(fix.left)
        /\ fix'.ok = FALSE /\ fix'.done = fix.done
    BY <1>0, <2>1 DEF FixRecords
  <2>5. InPlan(fix')
    <3> DEFINE f == fix'
    <3>1. /\ f.plan = fix.plan /\ f.left = Tail(fix.left)
          /\ f.ok = FALSE /\ f.done \in SUBSET StaleKeys /\ fix.done \subseteq f.done
      BY <2>2, <2>4
    <3> HIDE DEF f
    <3>2. InPlan(f)
      BY <1>3, <3>1, StepTakenIsInPlan
    <3>3. QED
      BY <3>2 DEF f
  <2>6. QED
    BY <2>1, <2>3, <2>4, <2>5 DEF FixInv, FixTyped, LowRiskIsDone, InPlan, Taken
<1>4. CASE CloseFix
  <2>1. fix.left = <<>> /\ fix' = Idle /\ UNCHANGED keys
    BY <1>4 DEF CloseFix
  <2>2. fix.ok => \A i \in DOMAIN fix.plan : fix.plan[i].key \in fix.done
    BY <1>0, <2>1 DEF FixInv, InPlan, Taken, FixRecords
  <2>3. \/ outcome' = [status |-> IF fix.ok THEN "deployed" ELSE "verification_failed",
                       fix |-> fix]
        \/ UNCHANGED outcome
    BY <1>4 DEF CloseFix
  <2>4. LowRiskIsDone'
    BY <2>2, <2>3 DEF FixInv, LowRiskIsDone
  <2>5. outcome'.status \in Statuses
    BY <2>3 DEF FixInv, FixTyped, Statuses
  <2>6. QED
    BY <1>0, <2>1, <2>4, <2>5, NoFixIsInPlan DEF FixInv, FixTyped, InPlan, Taken
<1>5. CASE CutOffFix
  BY <1>0, <1>5, NoFixIsInPlan DEF CutOffFix, FixInv, FixTyped, LowRiskIsDone, InPlan, Taken
<1>6. ASSUME NEW k \in StaleKeys, KeyReturns(k) PROVE FixInv'
  BY <1>6 DEF KeyReturns, FixInv, FixTyped, LowRiskIsDone, InPlan, Taken
<1>7. CASE UNCHANGED fixVars
  BY <1>7 DEF fixVars, FixInv, FixTyped, LowRiskIsDone, InPlan, Taken
<1>8. QED
  BY <1>1, <1>2, <1>3, <1>4, <1>5, <1>6, <1>7 DEF FixNext, ApplyStep

\* The agents keep to the floor and the fixes to their plans.
THEOREM AgentsInvariant == RepairAgentsSpec => [](AgentInv /\ FixInv)
<1>1. AgentInit /\ FixInit => AgentInv /\ FixInv
  BY AgentsStartMirrored, NoFixIsInPlan DEF FixInit, FixInv, FixTyped, LowRiskIsDone, Statuses
<1>2. AgentInv /\ FixInv
      /\ [ \/ AgentNext /\ UNCHANGED fixVars
           \/ FixNext /\ UNCHANGED agentVars ]_<<agentVars, fixVars>>
      => AgentInv' /\ FixInv'
  BY AgentRunsKeepAgents, CheckpointsKeepAgents, FixStepsKeepPlan DEF AgentNext
<1>3. QED
  BY <1>1, <1>2, PTL DEF RepairAgentsSpec

\* engine.py:1277: whatever the agents record, forget to record or raise, what is
\* tried has no blocker and no failed agent behind it, and what is called deployed
\* without asking has done every step.
THEOREM RepairsAreAllEarned == RepairAgentsSpec => []RepairsAreEarned
<1>1. AgentInv => TriedIsScreened
  BY DEF AgentInv, AgentsTyped, Mirrored, TriedIsClean, TriedIsScreened, Mirror, PhaseOf
<1>2. FixInv => LowRiskIsDone
  BY DEF FixInv
<1>3. QED
  BY <1>1, <1>2, AgentsInvariant, PTL DEF RepairsAreEarned

-----------------------------------------------------------------------------
(* The skill files.  What a registry holds of a skill is what is on disk,  *)
(* or the skill was written while the registry was there, and is younger   *)
(* than it; or it was written while the registry was being built.          *)

\* A turn that has read the files knows them, but for those written since.
TurnsHaveRead ==
  \A t \in ShelfTurns : shelfTurn[t].at = "account" =>
    \A s \in UserSkills \ shelfTurn[t].blind : shelfTurn[t].holds[s] = shelf[s]

RegistryHasRead ==
  registry.age < CacheTtl =>
    \A s \in UserSkills \ registry.blind :
      registry.holds[s] = shelf[s] \/ unchanged[s] <= registry.age

ShelfInv == ShelfTypeOK /\ TurnsHaveRead /\ RegistryHasRead

\* Writing a skill file.
LEMMA PutKeepsShelf ==
  ASSUME ShelfInv, NEW s \in UserSkills, NEW what \in Contents, Put(s, what),
         UNCHANGED registry,
         setup' \in {"idle", "running", "wrote"}, shelfFaults' \in 0..ShelfFaults
  PROVE  ShelfInv'
<1>1. /\ shelf' = [shelf EXCEPT ![s] = what] /\ unchanged' = [unchanged EXCEPT ![s] = 0]
      /\ \A t \in ShelfTurns : shelfTurn'[t] =
           IF shelfTurn[t].at = "account" THEN [shelfTurn[t] EXCEPT !.blind = @ \union {s}]
                                          ELSE shelfTurn[t]
  BY DEF Put
<1>2. shelf' \in [UserSkills -> Contents] /\ unchanged' \in [UserSkills -> 0..CacheTtl]
  BY <1>1, CacheTtlIsPositive DEF ShelfInv, ShelfTypeOK
<1>3. ASSUME NEW t \in ShelfTurns
      PROVE  /\ shelfTurn'[t] \in [at : {"idle", "persona", "account"},
                                   holds : [UserSkills -> Contents], blind : SUBSET UserSkills]
             /\ shelfTurn'[t].at = shelfTurn[t].at
             /\ shelfTurn'[t].holds = shelfTurn[t].holds
             /\ shelfTurn[t].at = "account" =>
                  shelfTurn'[t].blind = shelfTurn[t].blind \union {s}
  <2>1. /\ shelfTurn[t] \in [at : {"idle", "persona", "account"},
                            holds : [UserSkills -> Contents], blind : SUBSET UserSkills]
        /\ shelfTurn[t].blind \union {s} \in SUBSET UserSkills
    BY DEF ShelfInv, ShelfTypeOK
  <2>2. CASE shelfTurn[t].at = "account"
    <3>1. shelfTurn'[t] = [shelfTurn[t] EXCEPT !.blind = shelfTurn[t].blind \union {s}]
      BY <1>1, <2>2
    <3>2. QED
      BY <2>1, <3>1
  <2>3. CASE shelfTurn[t].at # "account"
    BY <1>1, <2>1, <2>3
  <2>4. QED
    BY <2>2, <2>3
<1>4. ShelfTypeOK'
  <2>1. shelfTurn' \in [ShelfTurns -> [at : {"idle", "persona", "account"},
                          holds : [UserSkills -> Contents], blind : SUBSET UserSkills]]
    BY <1>3 DEF Put
  <2>2. QED
    BY <1>2, <2>1 DEF ShelfInv, ShelfTypeOK
<1>5. TurnsHaveRead'
  BY <1>1, <1>3 DEF ShelfInv, ShelfTypeOK, TurnsHaveRead
<1>6. RegistryHasRead'
  BY <1>1 DEF ShelfInv, ShelfTypeOK, RegistryHasRead
<1>7. QED
  BY <1>4, <1>5, <1>6 DEF ShelfInv

\* A cleared cache holds nothing to be wrong about.
LEMMA DroppedIsCurrent ==
  ASSUME ShelfInv, Drop, UNCHANGED shelf,
         \/ UNCHANGED shelfTurn
         \/ shelfTurn' = [t \in ShelfTurns |-> ShelfIdle],
         setup' \in {"idle", "running", "wrote"}, shelfFaults' \in 0..ShelfFaults
  PROVE  ShelfInv'
<1>1. NoRegistry \in [age : 0..CacheTtl, holds : [UserSkills -> Contents],
                      blind : SUBSET UserSkills]
  BY CacheTtlIsPositive DEF NoRegistry, Contents
<1>2. ShelfIdle \in [at : {"idle", "persona", "account"}, holds : [UserSkills -> Contents],
                     blind : SUBSET UserSkills]
  BY DEF ShelfIdle, Contents
<1>3. ShelfTypeOK'
  BY <1>1, <1>2, CacheTtlIsPositive DEF Drop, ShelfInv, ShelfTypeOK
<1>4. TurnsHaveRead'
  BY DEF ShelfInv, TurnsHaveRead, ShelfIdle
<1>5. RegistryHasRead'
  BY CacheTtlIsPositive DEF Drop, NoRegistry, RegistryHasRead
<1>6. QED
  BY <1>3, <1>4, <1>5 DEF ShelfInv

\* No write, set-up, reload, tick, build or crash makes a registry wrong.
THEOREM ShelfInvariant == ShelfSpec => []ShelfInv
<1>1. ShelfInit => ShelfInv
  BY CacheTtlIsPositive, ShelfFaultsIsNatural
     DEF ShelfInit, ShelfInv, ShelfTypeOK, TurnsHaveRead, RegistryHasRead, NoRegistry,
         ShelfIdle, Contents
<1>2. ShelfInv /\ [ShelfNext]_shelfVars => ShelfInv'
  <2> SUFFICES ASSUME ShelfInv, [ShelfNext]_shelfVars PROVE ShelfInv'
    OBVIOUS
  <2>0. /\ setup \in {"idle", "running", "wrote"} /\ shelfFaults \in 0..ShelfFaults
        /\ CacheTtl \in Nat \ {0} /\ ShelfFaults \in Nat
        /\ shelf \in [UserSkills -> Contents]
    BY CacheTtlIsPositive, ShelfFaultsIsNatural DEF ShelfInv, ShelfTypeOK
  <2>1. ASSUME NEW s \in UserSkills, NEW n \in 0..2, CreateSkill(s, n) \/ UpdateSkill(s, n)
        PROVE  ShelfInv'
    <3>1. PICK what \in Contents : Put(s, what)
      BY <2>0, <2>1 DEF CreateSkill, UpdateSkill, DashboardWrites, Contents
    <3>2. QED
      BY <2>0, <2>1, <3>1, PutKeepsShelf DEF CreateSkill, UpdateSkill
  <2>2. ASSUME NEW s \in UserSkills,
               CreateSkillFails(s) \/ DeleteSkill(s) \/ SetupWritesSkill(s)
        PROVE  ShelfInv'
    <3>1. PICK what \in Contents : Put(s, what)
      BY <2>2 DEF CreateSkillFails, DeleteSkill, SetupWritesSkill, Contents
    <3>2. QED
      BY <2>0, <2>2, <3>1, PutKeepsShelf
         DEF CreateSkillFails, DeleteSkill, SetupWritesSkill, ShelfFault
  <2>3. CASE StartSetup \/ SetupBreaksOff \/ (FinishSetup /\ setup # "wrote")
    <3>1. /\ UNCHANGED <<shelf, unchanged, registry, shelfTurn>>
          /\ setup' \in {"idle", "running", "wrote"} /\ shelfFaults' \in 0..ShelfFaults
      BY <2>0, <2>3 DEF StartSetup, SetupBreaksOff, FinishSetup, ShelfFault
    <3>2. QED
      BY <3>1 DEF ShelfInv, ShelfTypeOK, TurnsHaveRead, RegistryHasRead
  <2>4. CASE (FinishSetup /\ setup = "wrote") \/ ReloadCommand \/ ShelfCrash
    <3>1. /\ Drop /\ UNCHANGED shelf
          /\ UNCHANGED shelfTurn \/ shelfTurn' = [t \in ShelfTurns |-> ShelfIdle]
          /\ setup' \in {"idle", "running", "wrote"} /\ shelfFaults' \in 0..ShelfFaults
      BY <2>0, <2>4 DEF FinishSetup, ReloadCommand, ShelfCrash, ShelfFault
    <3>2. QED
      BY <3>1, DroppedIsCurrent
  <2>5. ASSUME NEW t \in ShelfTurns, StartBuild(t) PROVE ShelfInv'
    BY <2>5 DEF StartBuild, ShelfInv, ShelfTypeOK, TurnsHaveRead, RegistryHasRead
  <2>6. ASSUME NEW t \in ShelfTurns, LoadSkills(t) PROVE ShelfInv'
    BY <2>6 DEF LoadSkills, ShelfInv, ShelfTypeOK, TurnsHaveRead, RegistryHasRead
  <2>7. ASSUME NEW t \in ShelfTurns, StoreRegistry(t) PROVE ShelfInv'
    <3>1. /\ registry' = [age |-> 0, holds |-> shelfTurn[t].holds, blind |-> shelfTurn[t].blind]
          /\ shelfTurn' = [shelfTurn EXCEPT ![t] = ShelfIdle]
          /\ \A s \in UserSkills \ shelfTurn[t].blind : shelfTurn[t].holds[s] = shelf[s]
          /\ UNCHANGED <<shelf, unchanged, setup, shelfFaults>>
      BY <2>7 DEF StoreRegistry, ShelfInv, TurnsHaveRead
    <3>2. ShelfIdle \in [at : {"idle", "persona", "account"},
                         holds : [UserSkills -> Contents], blind : SUBSET UserSkills]
      BY DEF ShelfIdle, Contents
    <3>3. ShelfTypeOK'
      BY <2>0, <3>1, <3>2 DEF ShelfInv, ShelfTypeOK
    <3>4. TurnsHaveRead' /\ RegistryHasRead'
      BY <3>1 DEF ShelfInv, ShelfTypeOK, TurnsHaveRead, RegistryHasRead, ShelfIdle
    <3>5. QED
      BY <3>3, <3>4 DEF ShelfInv
  <2>8. CASE ShelfTick
    <3>1. /\ UNCHANGED <<shelf, shelfTurn, setup, shelfFaults>>
          /\ \A s \in UserSkills : unchanged'[s] =
               IF unchanged[s] < CacheTtl THEN unchanged[s] + 1 ELSE CacheTtl
          /\ registry' = IF registry.age + 1 < CacheTtl THEN [registry EXCEPT !.age = @ + 1]
                                                        ELSE NoRegistry
      BY <2>8 DEF ShelfTick
    <3>2. unchanged' \in [UserSkills -> 0..CacheTtl]
      BY <2>0, <2>8 DEF ShelfTick, ShelfInv, ShelfTypeOK
    <3>3. CASE registry.age + 1 < CacheTtl
      <4>1. /\ registry'.age = registry.age + 1
            /\ registry'.holds = registry.holds /\ registry'.blind = registry.blind
            /\ registry' \in [age : 0..CacheTtl, holds : [UserSkills -> Contents],
                              blind : SUBSET UserSkills]
        BY <2>0, <3>1, <3>3 DEF ShelfInv, ShelfTypeOK
      <4>2. RegistryHasRead'
        BY <2>0, <3>1, <3>3, <4>1 DEF ShelfInv, ShelfTypeOK, RegistryHasRead
      <4>3. QED
        BY <3>1, <3>2, <4>1, <4>2 DEF ShelfInv, ShelfTypeOK, TurnsHaveRead
    <3>4. CASE ~(registry.age + 1 < CacheTtl)
      <4>1. /\ registry' = NoRegistry
            /\ NoRegistry \in [age : 0..CacheTtl, holds : [UserSkills -> Contents],
                               blind : SUBSET UserSkills]
        BY <2>0, <3>1, <3>4 DEF NoRegistry, Contents
      <4>2. RegistryHasRead'
        BY <2>0, <4>1 DEF NoRegistry, RegistryHasRead
      <4>3. QED
        BY <3>1, <3>2, <4>1, <4>2 DEF ShelfInv, ShelfTypeOK, TurnsHaveRead
    <3>5. QED
      BY <3>3, <3>4
  <2>9. CASE UNCHANGED shelfVars
    BY <2>9 DEF shelfVars, ShelfInv, ShelfTypeOK, TurnsHaveRead, RegistryHasRead
  <2>10. QED
    BY <2>1, <2>2, <2>3, <2>4, <2>5, <2>6, <2>7, <2>8, <2>9 DEF ShelfNext, SkillsCommand
<1>3. QED
  BY <1>1, <1>2, PTL DEF ShelfSpec

\* A skill that a message names by its hint is offered exactly if the registry has it.
LEMMA NamedIsMatched ==
  ASSUME NEW holds \in [UserSkills -> Contents], NEW s \in UserSkills \ Workspace,
         NEW google \in BOOLEAN, NEW other
  PROVE  s \in Matched(holds, google, {[by |-> "hint", of |-> s], other})
           <=> holds[s] \in Loadable
<1> DEFINE said == {[by |-> "hint", of |-> s], other}
<1>1. [by |-> "hint", of |-> s] \in said
  OBVIOUS
<1> HIDE DEF said
<1>2. CASE holds[s] \in Loadable
  BY <1>1, <1>2, Zenon DEF Matched
<1>3. CASE holds[s] \notin Loadable
  BY <1>3, Zenon DEF Matched
<1>4. QED
  BY <1>2, <1>3 DEF said

\* org_agent.py:1627: for any number of turns that build a registry beside writes of
\* the bot and the dashboard, a skill left alone is offered exactly if it is there.
THEOREM RegistryStaysCurrent == ShelfSpec => []RegistryIsCurrent
<1>1. ShelfInv => RegistryIsCurrent
  <2> SUFFICES ASSUME ShelfInv, registry.age < CacheTtl,
                      NEW s \in UserSkills \ (registry.blind \union Workspace),
                      NEW google \in BOOLEAN, NEW other \in Mentions,
                      unchanged[s] = CacheTtl
               PROVE  s \in Matched(registry.holds, google, {[by |-> "hint", of |-> s], other})
                        <=> shelf[s] \in Loadable
    BY DEF RegistryIsCurrent
  <2>1. registry.holds \in [UserSkills -> Contents] /\ registry.age \in Nat
    BY DEF ShelfInv, ShelfTypeOK
  <2>2. registry.holds[s] = shelf[s]
    BY <2>1, CacheTtlIsPositive DEF ShelfInv, RegistryHasRead
  <2>3. QED
    BY <2>1, <2>2, NamedIsMatched, Zenon
<1>2. QED
  BY <1>1, ShelfInvariant, PTL

-----------------------------------------------------------------------------
(* The tools.  A name nobody disturbed is at rest, in the hands of one     *)
(* creation, or of one deletion.                                           *)

NobodyWrites(n) == \A m \in MakersOf(n) : maker[m].at = "named"

AtRest(n) ==
  /\ NobodyWrites(n) /\ DeletionsOf(n) = {}
  /\ \/ plugin[n].state = "passed" /\ toolRow[n] # "none"
     \/ plugin[n].state = "nothing" /\ toolRow[n] = "none"

InTheMaking(n) ==
  /\ DeletionsOf(n) = {} /\ toolRow[n] = "none"
  /\ \E m \in Makers : /\ MakersOf(n) = {m}
                       /\ \/ maker[m].at = "testing" /\ plugin[n].state = "untested"
                          \/ maker[m].at = "registering" /\ plugin[n].state = "passed"

GoingAway(n) ==
  /\ NobodyWrites(n)
  /\ \E d \in Deletions : DeletionsOf(n) = {d}
  /\ plugin[n].state = "nothing" /\ toolRow[n] # "none"

Settles(n) == AtRest(n) \/ InTheMaking(n) \/ GoingAway(n)

ToolInv ==
  /\ ToolTypeOK
  /\ \A n \in Tools \ (Protected \union disturbed) : Settles(n)

\* What a name is, and who works on it, decides how it stands.
LEMMA UntouchedSettles ==
  ASSUME NEW n \in Tools, Settles(n),
         plugin'[n] = plugin[n], toolRow'[n] = toolRow[n],
         MakersOf(n)' = MakersOf(n), \A m \in MakersOf(n) : maker'[m] = maker[m],
         DeletionsOf(n)' = DeletionsOf(n)
  PROVE  Settles(n)'
BY DEF Settles, AtRest, InTheMaking, GoingAway, NobodyWrites

\* What a process can be doing.
Creations == [at : {"idle", "named", "testing", "registering"}, tool : Tools]

\* Ending a creation of one name, and of no other.
LEMMA NobodyIsACreation ==
  NoCreation \in Creations
BY ToolsAreNames DEF NoCreation, Creations

\* Directories with and without a tool.
LEMMA NothingIsADirectory ==
  Nothing \in [state : {"nothing", "broken", "untested", "passed"},
               kind : Kinds, works : BOOLEAN]
BY DEF Nothing, Kinds

\* The steps of a creation before it has written anything.
LEMMA NamingSettles ==
  ASSUME ToolInv, NEW m \in Makers,
         (\E n \in Tools : CheckName(m, n)) \/ GivesUp(m)
  PROVE  ToolInv'
<1>1. PICK c \in Creations :
        /\ maker' = [maker EXCEPT ![m] = c]
        /\ c.at \in {"idle", "named"}
        /\ c.at = "named" => plugin[c.tool].state = "nothing"
        /\ maker[m].at \in {"idle", "named"}
        /\ UNCHANGED <<plugin, toolRow, deletion, offered, listed, disturbed, toolFaults>>
  <2>1. CASE GivesUp(m)
    BY <2>1, NobodyIsACreation DEF GivesUp, NoCreation
  <2>2. ASSUME NEW n \in Tools, CheckName(m, n)
        PROVE  LET c == [at |-> "named", tool |-> n]
               IN  /\ c \in Creations
                   /\ maker' = [maker EXCEPT ![m] = c]
                   /\ plugin[n].state = "nothing"
                   /\ maker[m].at = "idle"
                   /\ UNCHANGED <<plugin, toolRow, deletion, offered, listed, disturbed,
                                  toolFaults>>
    BY <2>2 DEF CheckName, Creations
  <2>3. QED
    BY <2>1, <2>2
<1>2. ToolTypeOK'
  BY <1>1 DEF ToolInv, ToolTypeOK, Creations
<1>3. ASSUME NEW n \in Tools, Settles(n) PROVE Settles(n)'
  <2>1. /\ maker'[m] = c /\ \A k \in Makers \ {m} : maker'[k] = maker[k]
        /\ MakersOf(n)' = (MakersOf(n) \ {m})
             \union (IF c.at # "idle" /\ c.tool = n THEN {m} ELSE {})
    BY <1>1 DEF ToolInv, ToolTypeOK, Creations, MakersOf
  <2>2. DeletionsOf(n)' = DeletionsOf(n)
    BY <1>1 DEF DeletionsOf
  <2>3. CASE AtRest(n) \/ GoingAway(n)
    <3>1. NobodyWrites(n)'
      BY <1>1, <2>1, <2>3 DEF NobodyWrites, AtRest, GoingAway, MakersOf
    <3>2. QED
      BY <1>1, <2>2, <2>3, <3>1 DEF Settles, AtRest, GoingAway
  <2>4. CASE InTheMaking(n)
    <3>1. PICK k \in Makers : /\ MakersOf(n) = {k}
            /\ \/ maker[k].at = "testing" /\ plugin[n].state = "untested"
               \/ maker[k].at = "registering" /\ plugin[n].state = "passed"
      BY <2>4 DEF InTheMaking
    <3>2. k # m /\ ~(c.at # "idle" /\ c.tool = n)
      BY <1>1, <3>1
    <3>3. MakersOf(n)' = {k} /\ maker'[k] = maker[k]
      BY <2>1, <3>1, <3>2
    <3>4. InTheMaking(n)'
      BY <1>1, <2>2, <2>4, <3>1, <3>3 DEF InTheMaking
    <3>5. QED
      BY <3>4 DEF Settles, InTheMaking
  <2>5. QED
    BY <1>3, <2>3, <2>4 DEF Settles
<1>4. QED
  BY <1>1, <1>2, <1>3 DEF ToolInv

\* The files of a creation: over another's, and the name is disturbed.
LEMMA WritingSettles ==
  ASSUME ToolInv, NEW m \in Makers, NEW kind \in Kinds, NEW works \in BOOLEAN,
         Writes(m, kind, works)
  PROVE  ToolInv'
<1> DEFINE n == maker[m].tool
<1>0. /\ maker[m].at = "named" /\ n \in Tools
      /\ plugin' = [plugin EXCEPT ![n] = [state |-> "untested", kind |-> kind,
                                          works |-> works]]
      /\ maker' = [maker EXCEPT ![m].at = "testing"]
      /\ maker[m] \in Creations
      /\ disturbed' = IF MakersOf(n) # {m} \/ DeletionsOf(n) # {} \/ plugin[n].state # "nothing"
                        THEN disturbed \union {n} ELSE disturbed
      /\ UNCHANGED <<toolRow, deletion, offered, listed, toolFaults>>
  BY DEF Writes, ToolInv, ToolTypeOK, Creations
<1>1. /\ [at |-> "testing", tool |-> n] \in Creations
      /\ [maker[m] EXCEPT !.at = "testing"] = [at |-> "testing", tool |-> n]
  BY <1>0 DEF Creations
<1> HIDE DEF n
<1>2. maker' = [maker EXCEPT ![m] = [at |-> "testing", tool |-> n]]
  BY <1>0, <1>1
<1>3. ToolTypeOK'
  BY <1>0, <1>1, <1>2 DEF ToolInv, ToolTypeOK, Kinds, Creations
<1>4. ASSUME NEW t \in Tools \ (Protected \union disturbed') PROVE Settles(t)'
  <2>1. Settles(t) /\ t \notin disturbed
    BY <1>0, <1>4 DEF ToolInv
  <2>2. /\ maker'[m] = [at |-> "testing", tool |-> n]
        /\ \A k \in Makers \ {m} : maker'[k] = maker[k]
        /\ MakersOf(t)' = (MakersOf(t) \ {m}) \union (IF n = t THEN {m} ELSE {})
    BY <1>1, <1>2 DEF ToolInv, ToolTypeOK, Creations, MakersOf
  <2>3. DeletionsOf(t)' = DeletionsOf(t)
    BY <1>0 DEF DeletionsOf
  <2>4. CASE t # n
    <3>1. m \notin MakersOf(t) /\ MakersOf(t) \subseteq Makers
      BY <2>4 DEF MakersOf, n
    <3>2. plugin'[t] = plugin[t]
      BY <1>0, <2>4 DEF ToolInv, ToolTypeOK
    <3>3. QED
      BY <1>0, <2>1, <2>2, <2>3, <2>4, <3>1, <3>2, UntouchedSettles
  <2>5. CASE t = n
    <3>1. MakersOf(n) = {m} /\ DeletionsOf(n) = {} /\ plugin[n].state = "nothing"
      BY <1>0, <1>4, <2>1, <2>5
    <3>2. toolRow[n] = "none"
      BY <1>0, <2>1, <2>5, <3>1 DEF Settles, AtRest, InTheMaking, GoingAway
    <3>3. plugin'[n].state = "untested"
      BY <1>0 DEF ToolInv, ToolTypeOK
    <3>4. MakersOf(t)' = {m} /\ maker'[m].at = "testing"
      BY <2>2, <2>5, <3>1
    <3>5. QED
      BY <1>0, <2>3, <2>5, <3>1, <3>2, <3>3, <3>4 DEF Settles, InTheMaking
  <2>6. QED
    BY <2>4, <2>5
<1>5. QED
  BY <1>3, <1>4 DEF ToolInv

\* Whoever has written a name's files is alone with it.
LEMMA BegunIsAlone ==
  ASSUME ToolInv, NEW m \in Makers, maker[m].at \in {"testing", "registering"},
         NEW n \in Tools \ (Protected \union disturbed), n = maker[m].tool
  PROVE  /\ MakersOf(n) = {m} /\ DeletionsOf(n) = {} /\ toolRow[n] = "none"
         /\ maker[m].at = "testing" => plugin[n].state = "untested"
         /\ maker[m].at = "registering" => plugin[n].state = "passed"
<1>1. m \in MakersOf(n) /\ maker[m].at # "named"
  BY DEF MakersOf
<1>2. InTheMaking(n)
  BY <1>1 DEF ToolInv, Settles, AtRest, GoingAway, NobodyWrites
<1>3. QED
  BY <1>1, <1>2 DEF InTheMaking

\* A step of a creation leaves the other names as they are.
LEMMA MakerStepSettles ==
  ASSUME ToolInv, NEW m \in Makers, maker[m].at # "idle",
         NEW n \in Tools, n = maker[m].tool,
         NEW c \in Creations, c.at = "idle" \/ c.tool = n,
         maker' = [maker EXCEPT ![m] = c],
         deletion' = deletion, disturbed \subseteq disturbed',
         \A t \in Tools \ {n} : plugin'[t] = plugin[t] /\ toolRow'[t] = toolRow[t],
         n \notin Protected \union disturbed' => Settles(n)'
  PROVE  \A t \in Tools \ (Protected \union disturbed') : Settles(t)'
<1>1. SUFFICES ASSUME NEW t \in Tools \ (Protected \union disturbed'), t # n
               PROVE  Settles(t)'
  OBVIOUS
<1>2. Settles(t)
  BY <1>1 DEF ToolInv
<1>3. /\ MakersOf(t)' = MakersOf(t)
      /\ \A k \in MakersOf(t) : maker'[k] = maker[k]
      /\ DeletionsOf(t)' = DeletionsOf(t)
  BY <1>1 DEF ToolInv, ToolTypeOK, Creations, MakersOf, DeletionsOf
<1>4. QED
  BY <1>1, <1>2, <1>3, UntouchedSettles

\* Nor does a step of a deletion.
LEMMA DeletionStepSettles ==
  ASSUME ToolInv, NEW d \in Deletions, NEW n \in Tools, NEW x,
         deletion' = [deletion EXCEPT ![d] = x],
         deletion[d] \in {n, NoTool}, x \in {n, NoTool},
         maker' = maker, disturbed \subseteq disturbed',
         \A t \in Tools \ {n} : plugin'[t] = plugin[t] /\ toolRow'[t] = toolRow[t],
         n \notin Protected \union disturbed' => Settles(n)'
  PROVE  \A t \in Tools \ (Protected \union disturbed') : Settles(t)'
<1>1. SUFFICES ASSUME NEW t \in Tools \ (Protected \union disturbed'), t # n
               PROVE  Settles(t)'
  OBVIOUS
<1>2. Settles(t)
  BY <1>1 DEF ToolInv
<1>3. /\ MakersOf(t)' = MakersOf(t)
      /\ \A k \in MakersOf(t) : maker'[k] = maker[k]
      /\ DeletionsOf(t)' = DeletionsOf(t)
  BY <1>1, ToolsAreNames DEF ToolInv, ToolTypeOK, MakersOf, DeletionsOf
<1>4. QED
  BY <1>1, <1>2, <1>3, UntouchedSettles

\* A name with neither files nor anyone at work on them is at rest.
LEMMA FinishedRests ==
  ASSUME ToolTypeOK, NEW m \in Makers, NEW n \in Tools, MakersOf(n) = {m},
         DeletionsOf(n) = {}, deletion' = deletion,
         maker' = [maker EXCEPT ![m] = NoCreation],
         \/ plugin'[n].state = "passed" /\ toolRow'[n] # "none"
         \/ plugin'[n].state = "nothing" /\ toolRow'[n] = "none"
  PROVE  Settles(n)'
<1>1. \A k \in Makers : maker'[k].at # "idle" => maker'[k].tool # n
  BY DEF ToolTypeOK, MakersOf, NoCreation
<1>2. DeletionsOf(n)' = {}
  BY DEF DeletionsOf
<1>3. NobodyWrites(n)'
  BY <1>1 DEF NobodyWrites, MakersOf
<1>4. QED
  BY <1>2, <1>3 DEF Settles, AtRest

\* The test, the row, and what fails or is cut short.
LEMMA MakingSettles ==
  ASSUME ToolInv, NEW m \in Makers, NEW n \in Tools, n = maker[m].tool,
         TestPasses(m) \/ TestFails(m) \/ Register(m) \/ RegisterFails(m)
  PROVE  ToolInv'
<1>0. /\ maker[m] \in Creations
      /\ plugin \in [Tools -> [state : {"nothing", "broken", "untested", "passed"},
                               kind : Kinds, works : BOOLEAN]]
      /\ maker[m].at \in {"testing", "registering"}
  BY DEF ToolInv, ToolTypeOK, Creations, TestPasses, TestFails, Register, RegisterFails
<1>1. CASE TestPasses(m)
  <2>1. /\ [maker[m] EXCEPT !.at = "registering"] = [at |-> "registering", tool |-> n]
        /\ [at |-> "registering", tool |-> n] \in Creations
    BY <1>0 DEF Creations
  <2>2. /\ plugin' = [plugin EXCEPT ![n].state = "passed"]
        /\ maker' = [maker EXCEPT ![m] = [at |-> "registering", tool |-> n]]
        /\ maker[m].at = "testing"
        /\ UNCHANGED <<toolRow, deletion, offered, listed, disturbed, toolFaults>>
    BY <1>1, <2>1 DEF TestPasses
  <2>3. ToolTypeOK'
    BY <1>0, <2>1, <2>2 DEF ToolInv, ToolTypeOK, Creations
  <2>4. ASSUME n \notin Protected \union disturbed' PROVE Settles(n)'
    <3>1. MakersOf(n) = {m} /\ DeletionsOf(n) = {} /\ toolRow[n] = "none"
      BY <1>0, <2>2, <2>4, BegunIsAlone
    <3>2. /\ plugin'[n].state = "passed" /\ maker'[m].at = "registering"
          /\ maker'[m].tool = n
          /\ \A k \in Makers \ {m} : maker'[k] = maker[k]
      BY <1>0, <2>1, <2>2 DEF ToolInv, ToolTypeOK
    <3>3. {k \in Makers : maker'[k].at # "idle" /\ maker'[k].tool = n} = {m}
      BY <3>1, <3>2 DEF MakersOf
    <3>4. {k \in Deletions : deletion'[k] = n} = {} /\ toolRow'[n] = "none"
      BY <2>2, <3>1 DEF DeletionsOf
    <3>5. QED
      BY <3>2, <3>3, <3>4 DEF Settles, InTheMaking, MakersOf, DeletionsOf
  <2>5. \A t \in Tools \ {n} : plugin'[t] = plugin[t] /\ toolRow'[t] = toolRow[t]
    BY <1>0, <2>2
  <2>6. QED
    BY <1>0, <2>1, <2>2, <2>3, <2>4, <2>5, MakerStepSettles DEF ToolInv
<1>2. CASE TestFails(m)
  <2>1. /\ plugin' = [plugin EXCEPT ![n] = Nothing]
        /\ maker' = [maker EXCEPT ![m] = NoCreation]
        /\ toolFaults' \in 0..ToolFaults
        /\ UNCHANGED <<toolRow, deletion, offered, listed, disturbed>>
    BY <1>2, ToolFaultsIsNatural DEF TestFails, ToolFault, ToolInv, ToolTypeOK
  <2>2. ToolTypeOK'
    BY <1>0, <2>1, NothingIsADirectory, NobodyIsACreation DEF ToolInv, ToolTypeOK, Creations
  <2>3. ASSUME n \notin Protected \union disturbed' PROVE Settles(n)'
    <3>1. MakersOf(n) = {m} /\ DeletionsOf(n) = {} /\ toolRow[n] = "none"
      BY <1>0, <2>1, <2>3, BegunIsAlone
    <3>2. plugin'[n].state = "nothing" /\ toolRow'[n] = "none"
      BY <1>0, <2>1, <3>1 DEF Nothing
    <3>3. QED
      BY <1>0, <2>1, <3>1, <3>2, FinishedRests DEF ToolInv
  <2>4. NoCreation.at = "idle"
    BY DEF NoCreation
  <2>5. QED
    BY <1>0, <2>1, <2>2, <2>3, <2>4, NobodyIsACreation, MakerStepSettles DEF ToolInv
<1>3. CASE Register(m)
  <2>1. /\ toolRow' = [toolRow EXCEPT ![n] = IF toolRow[n] = "none" THEN "active" ELSE toolRow[n]]
        /\ maker' = [maker EXCEPT ![m] = NoCreation]
        /\ maker[m].at = "registering"
        /\ UNCHANGED <<plugin, deletion, offered, listed, disturbed, toolFaults>>
    BY <1>3 DEF Register
  <2>2. ToolTypeOK'
    BY <1>0, <2>1, NobodyIsACreation DEF ToolInv, ToolTypeOK, Creations
  <2>3. ASSUME n \notin Protected \union disturbed' PROVE Settles(n)'
    <3>1. MakersOf(n) = {m} /\ DeletionsOf(n) = {} /\ plugin[n].state = "passed"
      BY <1>0, <2>1, <2>3, BegunIsAlone
    <3>2. plugin'[n].state = "passed" /\ toolRow'[n] # "none"
      BY <1>0, <2>1, <3>1 DEF ToolInv, ToolTypeOK
    <3>3. QED
      BY <1>0, <2>1, <3>1, <3>2, FinishedRests DEF ToolInv
  <2>4. NoCreation.at = "idle" /\ \A t \in Tools \ {n} : toolRow'[t] = toolRow[t]
    BY <2>1 DEF NoCreation, ToolInv, ToolTypeOK
  <2>5. QED
    BY <1>0, <2>1, <2>2, <2>3, <2>4, NobodyIsACreation, MakerStepSettles DEF ToolInv
<1>4. CASE RegisterFails(m)
  <2>1. /\ maker' = [maker EXCEPT ![m] = NoCreation]
        /\ disturbed' = disturbed \union {n} /\ toolFaults' \in 0..ToolFaults
        /\ UNCHANGED <<plugin, toolRow, deletion, offered, listed>>
    BY <1>4, ToolFaultsIsNatural DEF RegisterFails, ToolFault, ToolInv, ToolTypeOK
  <2>2. ToolTypeOK'
    BY <1>0, <2>1, NobodyIsACreation DEF ToolInv, ToolTypeOK, Creations
  <2>3. NoCreation.at = "idle"
    BY DEF NoCreation
  <2>4. QED
    BY <1>0, <2>1, <2>2, <2>3, NobodyIsACreation, MakerStepSettles DEF ToolInv
<1>5. QED
  BY <1>1, <1>2, <1>3, <1>4

\* A creation cut off, by its clock or by the end of its process, disturbs the name
\* whose files it has begun.
LEMMA CutSettles ==
  ASSUME ToolInv, NEW m \in Makers,
         maker' = [maker EXCEPT ![m] = NoCreation],
         disturbed \union Begun(m) \subseteq disturbed',
         UNCHANGED <<plugin, toolRow>>,
         NEW n \in Tools \ (Protected \union disturbed'),
         DeletionsOf(n)' = DeletionsOf(n)
  PROVE  Settles(n)'
<1>1. Settles(n) /\ n \notin Begun(m)
  BY DEF ToolInv
<1>2. /\ maker'[m] = NoCreation /\ NoCreation.at = "idle"
      /\ \A k \in Makers \ {m} : maker'[k] = maker[k]
  BY DEF ToolInv, ToolTypeOK, NoCreation
<1>3. m \in MakersOf(n) => maker[m].at = "named"
  BY <1>1 DEF ToolInv, ToolTypeOK, MakersOf, Begun
<1>4. MakersOf(n)' = MakersOf(n) \ {m}
  BY <1>2 DEF MakersOf
<1>5. \A k \in MakersOf(n)' : maker'[k] = maker[k]
  BY <1>2, <1>4 DEF MakersOf
<1>6. CASE AtRest(n) \/ GoingAway(n)
  <2>1. NobodyWrites(n)'
    BY <1>4, <1>5, <1>6 DEF NobodyWrites, AtRest, GoingAway
  <2>2. QED
    BY <1>6, <2>1 DEF Settles, AtRest, GoingAway
<1>7. CASE InTheMaking(n)
  <2>1. m \notin MakersOf(n)
    BY <1>3, <1>7 DEF InTheMaking
  <2>2. QED
    BY <1>4, <1>5, <1>7, <2>1 DEF Settles, InTheMaking
<1>8. QED
  BY <1>1, <1>6, <1>7 DEF Settles

\* The end of a turn, and of a process.
LEMMA CrashSettles ==
  ASSUME ToolInv, NEW m \in Makers, ToolCrash(m) \/ (m = "bot" /\ CutOff)
  PROVE  ToolInv'
<1>1. /\ maker' = [maker EXCEPT ![m] = NoCreation]
      /\ disturbed \union Begun(m) \subseteq disturbed'
      /\ toolFaults' \in 0..ToolFaults
      /\ UNCHANGED <<plugin, toolRow>>
  BY ToolFaultsIsNatural DEF ToolCrash, CutOff, ToolFault, ToolInv, ToolTypeOK
<1>2. Begun(m) \subseteq Tools
  BY DEF ToolInv, ToolTypeOK, Begun
<1>3. /\ deletion' \in [Deletions -> Tools \union {NoTool}]
      /\ \A n \in Tools \ disturbed' : DeletionsOf(n)' = DeletionsOf(n)
      /\ disturbed' \subseteq Tools /\ offered' \subseteq Tools
      /\ listed' = {NoTool} \/ listed' \subseteq Tools
  <2>1. CASE CutOff
    <3>1. disturbed' = disturbed \union Begun("bot") /\ Begun("bot") \subseteq Tools
      BY <2>1 DEF CutOff, Begun, ToolInv, ToolTypeOK, Makers
    <3>2. UNCHANGED <<deletion, offered, listed>>
      BY <2>1 DEF CutOff
    <3>3. QED
      BY <3>1, <3>2 DEF ToolInv, ToolTypeOK, DeletionsOf
  <2>2. CASE ToolCrash(m) /\ m = "bot"
    BY <1>2, <2>2 DEF ToolCrash, ToolInv, ToolTypeOK, DeletionsOf
  <2>3. CASE ToolCrash(m) /\ m # "bot"
    <3>1. /\ deletion' = [d \in Deletions |-> NoTool]
          /\ listed' = {NoTool} /\ offered' = offered
          /\ disturbed' = disturbed \union Begun(m) \union
                            {n \in Tools : DeletionsOf(n) # {}}
      BY <2>3 DEF ToolCrash, Makers
    <3>2. \A n \in Tools : DeletionsOf(n)' = {}
      BY <3>1, ToolsAreNames DEF DeletionsOf
    <3>3. \A n \in Tools \ disturbed' : DeletionsOf(n) = {}
      BY <3>1
    <3>4. QED
      BY <1>2, <3>1, <3>2, <3>3 DEF ToolInv, ToolTypeOK
  <2>4. QED
    BY <2>1, <2>2, <2>3
<1>4. ToolTypeOK'
  BY <1>1, <1>3, NobodyIsACreation DEF ToolInv, ToolTypeOK, Creations
<1>5. \A n \in Tools \ (Protected \union disturbed') : Settles(n)'
  BY <1>1, <1>3, CutSettles
<1>6. QED
  BY <1>4, <1>5 DEF ToolInv

\* The files go first; whoever is at work on the name is disturbed.
LEMMA RemovalSettles ==
  ASSUME ToolInv, NEW n \in Tools,
         (\E d \in Deletions : RemoveFiles(d, n)) \/ RemoveFails(n)
  PROVE  ToolInv'
<1>1. CASE RemoveFails(n)
  <2>1. /\ plugin' = [plugin EXCEPT ![n].state = "broken"]
        /\ disturbed' = disturbed \union {n} /\ toolFaults' \in 0..ToolFaults
        /\ UNCHANGED <<toolRow, maker, deletion, offered, listed>>
    BY <1>1, ToolFaultsIsNatural DEF RemoveFails, ToolFault, ToolInv, ToolTypeOK
  <2>2. ToolTypeOK'
    BY <2>1 DEF ToolInv, ToolTypeOK
  <2>3. ASSUME NEW t \in Tools \ (Protected \union disturbed') PROVE Settles(t)'
    <3>1. Settles(t) /\ plugin'[t] = plugin[t]
      BY <2>1, <2>3 DEF ToolInv, ToolTypeOK
    <3>2. MakersOf(t)' = MakersOf(t) /\ DeletionsOf(t)' = DeletionsOf(t)
      BY <2>1 DEF MakersOf, DeletionsOf
    <3>3. QED
      BY <2>1, <3>1, <3>2, UntouchedSettles
  <2>4. QED
    BY <2>2, <2>3 DEF ToolInv
<1>2. ASSUME NEW d \in Deletions, RemoveFiles(d, n) PROVE ToolInv'
  <2>1. /\ deletion[d] = NoTool /\ toolRow[n] # "none"
        /\ plugin' = [plugin EXCEPT ![n] = Nothing]
        /\ deletion' = [deletion EXCEPT ![d] = n]
        /\ disturbed' = IF Worked(n) THEN disturbed \union {n} ELSE disturbed
        /\ UNCHANGED <<toolRow, maker, offered, listed, toolFaults>>
    BY <1>2 DEF RemoveFiles
  <2>2. ToolTypeOK'
    BY <2>1, NothingIsADirectory DEF ToolInv, ToolTypeOK
  <2>3. ASSUME n \notin Protected \union disturbed' PROVE Settles(n)'
    <3>1. MakersOf(n) = {} /\ DeletionsOf(n) = {}
      BY <2>1, <2>3 DEF Worked
    <3>2. DeletionsOf(n)' = {d}
      BY <2>1, <3>1 DEF ToolInv, ToolTypeOK, DeletionsOf
    <3>3. MakersOf(n)' = {}
      BY <2>1, <3>1 DEF MakersOf
    <3>4. plugin'[n].state = "nothing" /\ toolRow'[n] # "none"
      BY <2>1 DEF ToolInv, ToolTypeOK, Nothing
    <3>5. QED
      BY <3>2, <3>3, <3>4 DEF Settles, GoingAway, NobodyWrites
  <2>4. \A t \in Tools \ {n} : plugin'[t] = plugin[t] /\ toolRow'[t] = toolRow[t]
    BY <2>1 DEF ToolInv, ToolTypeOK
  <2>5. \A t \in Tools \ (Protected \union disturbed') : Settles(t)'
    BY <2>1, <2>3, <2>4, DeletionStepSettles
  <2>6. QED
    BY <2>2, <2>5 DEF ToolInv
<1>3. QED
  BY <1>1, <1>2

\* Then the row, or the error that leaves it.
LEMMA RowGoesSettles ==
  ASSUME ToolInv, NEW d \in Deletions, DeleteRow(d) \/ DeleteRowFails(d)
  PROVE  ToolInv'
<1>1. PICK n \in Tools : n = deletion[d]
  BY DEF DeleteRow, DeleteRowFails, ToolInv, ToolTypeOK
<1>2. d \in DeletionsOf(n)
  BY <1>1 DEF DeletionsOf
<1>3. CASE DeleteRow(d)
  <2>1. /\ toolRow' = [toolRow EXCEPT ![n] = "none"]
        /\ deletion' = [deletion EXCEPT ![d] = NoTool]
        /\ listed' = (IF listed = {NoTool} THEN Held ELSE listed) \ {n}
        /\ UNCHANGED <<plugin, maker, offered, disturbed, toolFaults>>
    BY <1>1, <1>3 DEF DeleteRow
  <2>2. ToolTypeOK'
    BY <2>1 DEF ToolInv, ToolTypeOK, Held
  <2>3. ASSUME n \notin Protected \union disturbed' PROVE Settles(n)'
    <3>1. GoingAway(n)
      BY <1>2, <2>1, <2>3 DEF ToolInv, Settles, AtRest, InTheMaking
    <3>2. DeletionsOf(n) = {d}
      BY <1>2, <3>1 DEF GoingAway
    <3>3. DeletionsOf(n)' = {}
      BY <2>1, <3>2, ToolsAreNames DEF ToolInv, ToolTypeOK, DeletionsOf
    <3>4. NobodyWrites(n)'
      BY <2>1, <3>1 DEF GoingAway, NobodyWrites, MakersOf
    <3>5. plugin'[n].state = "nothing" /\ toolRow'[n] = "none"
      BY <2>1, <3>1 DEF GoingAway, ToolInv, ToolTypeOK
    <3>6. QED
      BY <3>3, <3>4, <3>5 DEF Settles, AtRest
  <2>4. \A t \in Tools \ {n} : plugin'[t] = plugin[t] /\ toolRow'[t] = toolRow[t]
    BY <2>1 DEF ToolInv, ToolTypeOK
  <2>5. \A t \in Tools \ (Protected \union disturbed') : Settles(t)'
    BY <1>1, <2>1, <2>3, <2>4, DeletionStepSettles
  <2>6. QED
    BY <2>2, <2>5 DEF ToolInv
<1>4. CASE DeleteRowFails(d)
  <2>1. /\ deletion' = [deletion EXCEPT ![d] = NoTool]
        /\ disturbed \subseteq disturbed' /\ disturbed' \subseteq Tools
        /\ toolRow[n] # "none" => n \in disturbed'
        /\ toolFaults' \in 0..ToolFaults
        /\ UNCHANGED <<plugin, toolRow, maker, offered, listed>>
    BY <1>1, <1>4, ToolFaultsIsNatural DEF DeleteRowFails, ToolFault, ToolInv, ToolTypeOK
  <2>2. ToolTypeOK'
    BY <2>1 DEF ToolInv, ToolTypeOK
  <2>3. n \in Protected \union disturbed'
    BY <1>2, <2>1 DEF ToolInv, Settles, AtRest, InTheMaking, GoingAway
  <2>4. \A t \in Tools \ (Protected \union disturbed') : Settles(t)'
    BY <1>1, <2>1, <2>3, DeletionStepSettles
  <2>5. QED
    BY <2>2, <2>4 DEF ToolInv
<1>5. QED
  BY <1>3, <1>4

\* Flags, and what the two processes offer.
LEMMA OffersSettle ==
  ASSUME ToolInv, (\E n \in Tools : ToggleTool(n)) \/ LoadAll \/ ListAvailable
  PROVE  ToolInv'
<1>1. /\ UNCHANGED <<plugin, maker, deletion, disturbed, toolFaults>>
      /\ toolRow' \in [Tools -> {"none", "active", "inactive"}]
      /\ \A n \in Tools : toolRow'[n] = "none" <=> toolRow[n] = "none"
      /\ offered' \subseteq Tools /\ (listed' = {NoTool} \/ listed' \subseteq Tools)
  BY DEF ToggleTool, LoadAll, ListAvailable, Held, ToolInv, ToolTypeOK
<1>2. ToolTypeOK'
  BY <1>1 DEF ToolInv, ToolTypeOK
<1>3. ASSUME NEW n \in Tools \ (Protected \union disturbed') PROVE Settles(n)'
  <2>1. MakersOf(n)' = MakersOf(n) /\ DeletionsOf(n)' = DeletionsOf(n)
    BY <1>1 DEF MakersOf, DeletionsOf
  <2>2. Settles(n)
    BY <1>1, <1>3 DEF ToolInv
  <2>3. QED
    BY <1>1, <2>1, <2>2 DEF Settles, AtRest, InTheMaking, GoingAway, NobodyWrites
<1>4. QED
  BY <1>2, <1>3 DEF ToolInv

\* How every name stands, in every reachable state: at rest, in the hands of one
\* creation that wrote its files, or of one deletion that removed them.
THEOREM ToolInvariant == ToolSpec => []ToolInv
<1>1. ToolInit => ToolInv
  <2>1. SUFFICES ASSUME ToolInit PROVE ToolInv
    OBVIOUS
  <2>2. ToolTypeOK
    <3>1. /\ [state |-> "passed", kind |-> "function", works |-> TRUE]
               \in [state : {"nothing", "broken", "untested", "passed"},
                   kind : Kinds, works : BOOLEAN]
          /\ [n \in Tools |-> "none"] \in [Tools -> {"none", "active", "inactive"}]
      BY DEF Kinds
    <3>2. plugin \in [Tools -> [state : {"nothing", "broken", "untested", "passed"},
                                kind : Kinds, works : BOOLEAN]]
      BY <2>1, <3>1, NothingIsADirectory DEF ToolInit
    <3>3. maker \in [Makers -> Creations]
      BY <2>1, NobodyIsACreation DEF ToolInit
    <3>4. deletion \in [Deletions -> Tools \union {NoTool}]
      BY <2>1 DEF ToolInit
    <3>5. toolRow \in [Tools -> {"none", "active", "inactive"}]
      BY <2>1, <3>1 DEF ToolInit
    <3>6. offered \subseteq Tools /\ listed = {NoTool} /\ disturbed \subseteq Tools
      BY <2>1 DEF ToolInit
    <3>7. toolFaults \in 0..ToolFaults
      BY <2>1, ToolFaultsIsNatural DEF ToolInit
    <3>8. QED
      BY <3>2, <3>3, <3>4, <3>5, <3>6, <3>7 DEF ToolTypeOK, Creations
  <2>3. \A n \in Tools \ Protected : AtRest(n)
    <3>1. SUFFICES ASSUME NEW n \in Tools \ Protected PROVE AtRest(n)
      OBVIOUS
    <3>2. NoCreation.at = "idle" /\ Nothing.state = "nothing"
      BY DEF NoCreation, Nothing
    <3>3. MakersOf(n) = {} /\ DeletionsOf(n) = {}
      BY <2>1, <3>2, ToolsAreNames DEF ToolInit, MakersOf, DeletionsOf
    <3>4. plugin[n].state = "nothing" /\ toolRow[n] = "none"
      BY <2>1, <3>2 DEF ToolInit
    <3>5. QED
      BY <3>3, <3>4 DEF AtRest, NobodyWrites
  <2>4. QED
    BY <2>2, <2>3 DEF ToolInv, Settles
<1>2. ToolInv /\ [ToolNext]_toolVars => ToolInv'
  <2>1. SUFFICES ASSUME ToolInv, [ToolNext]_toolVars PROVE ToolInv'
    OBVIOUS
  <2>2. ASSUME NEW m \in Makers, NEW n \in Tools, CheckName(m, n) PROVE ToolInv'
    BY <2>1, <2>2, NamingSettles
  <2>3. ASSUME NEW m \in Makers, NEW parsed \in BOOLEAN, NEW works \in BOOLEAN,
               \/ \E kind \in Kinds, code \in SUBSET Features :
                    GenerateCli(m, kind, code, parsed, works)
               \/ GenerateHttp(m, parsed, works)
        PROVE  ToolInv'
    <3>1. GivesUp(m) \/ \E kind \in Kinds : Writes(m, kind, works)
      BY <2>3 DEF GenerateCli, GenerateHttp, Kinds
    <3>2. QED
      BY <2>1, <3>1, NamingSettles, WritingSettles
  <2>4. ASSUME NEW m \in Makers,
               TestPasses(m) \/ TestFails(m) \/ Register(m) \/ RegisterFails(m)
        PROVE  ToolInv'
    <3>1. maker[m].tool \in Tools
      BY <2>1 DEF ToolInv, ToolTypeOK
    <3>2. QED
      BY <2>1, <2>4, <3>1, MakingSettles
  <2>5. ASSUME NEW m \in Makers, ToolCrash(m) PROVE ToolInv'
    BY <2>1, <2>5, CrashSettles
  <2>6. CASE CutOff
    BY <2>1, <2>6, CrashSettles DEF Makers
  <2>7. ASSUME NEW n \in Tools, RemoveFails(n) \/ \E d \in Deletions : RemoveFiles(d, n)
        PROVE  ToolInv'
    BY <2>1, <2>7, RemovalSettles
  <2>8. ASSUME NEW d \in Deletions, DeleteRow(d) \/ DeleteRowFails(d) PROVE ToolInv'
    BY <2>1, <2>8, RowGoesSettles
  <2>9. CASE (\E n \in Tools : ToggleTool(n)) \/ LoadAll \/ ListAvailable
    BY <2>1, <2>9, OffersSettle
  <2>10. CASE UNCHANGED toolVars
    <3>1. \A n \in Tools : MakersOf(n)' = MakersOf(n) /\ DeletionsOf(n)' = DeletionsOf(n)
      BY <2>10 DEF toolVars, MakersOf, DeletionsOf
    <3>2. \A n \in Tools : Settles(n) => Settles(n)'
      BY <2>10, <3>1 DEF toolVars, Settles, AtRest, InTheMaking, GoingAway, NobodyWrites
    <3>3. QED
      BY <2>1, <2>10, <3>2 DEF toolVars, ToolInv, ToolTypeOK
  <2>11. QED
    BY <2>1, <2>2, <2>3, <2>4, <2>5, <2>6, <2>7, <2>8, <2>9, <2>10 DEF ToolNext
<1>3. QED
  BY <1>1, <1>2, PTL DEF ToolSpec

\* Whatever the two processes do to a name one after the other, cut short or not, it
\* is left with a directory that passed its test and a row, or with neither, unless
\* the history disturbed it.
THEOREM ToolsStayAccounted == ToolSpec => []ToolsAreAccounted
<1>1. ToolInv => ToolsAreAccounted
  <2>1. SUFFICES ASSUME ToolInv, NEW n \in Tools \ (Protected \union disturbed), ~Worked(n)
                 PROVE  AtRest(n)
    BY DEF ToolsAreAccounted, AtRest
  <2>2. MakersOf(n) = {} /\ DeletionsOf(n) = {}
    BY <2>1 DEF Worked
  <2>3. QED
    BY <2>1, <2>2 DEF ToolInv, Settles, InTheMaking, GoingAway
<1>2. QED
  BY <1>1, ToolInvariant, PTL

-----------------------------------------------------------------------------
(* The system of OwnFilesMC.  The parts share no variable, so what holds   *)
(* of each holds of the whole.                                             *)

\* A behaviour of the whole is a behaviour of every part.
LEMMA FilesRunTheirParts ==
  FilesSpec => Spec /\ RepairAgentsSpec /\ ShelfSpec /\ ToolSpec
<1>1. FilesInit => Init /\ AgentInit /\ FixInit /\ ShelfInit /\ ToolInit
  BY DEF FilesInit
<1>2. [FilesNext]_fileVars =>
        /\ [Next]_vars
        /\ [ \/ AgentNext /\ UNCHANGED fixVars
             \/ FixNext /\ UNCHANGED agentVars ]_<<agentVars, fixVars>>
        /\ [ShelfNext]_shelfVars
        /\ [ToolNext]_toolVars
  <2>1. CASE Only("repair") /\ Next
    BY <2>1 DEF Only
  <2>2. CASE Only("agents") /\ AgentNext
    BY <2>2 DEF Only
  <2>3. CASE Only("fixes") /\ FixNext
    BY <2>3 DEF Only
  <2>4. CASE Only("shelf") /\ ShelfNext
    BY <2>4 DEF Only
  <2>5. CASE Only("tools") /\ ToolNext
    BY <2>5 DEF Only
  <2>6. CASE UNCHANGED fileVars
    BY <2>6 DEF fileVars
  <2>7. QED
    BY <2>1, <2>2, <2>3, <2>4, <2>5, <2>6 DEF FilesNext
<1>3. QED
  BY <1>1, <1>2, PTL DEF FilesSpec, Spec, RepairAgentsSpec, ShelfSpec, ToolSpec

\* Every variable of the five parts keeps its type.
THEOREM FilesAreTyped == FilesSpec => []FilesTypeOK
<1>1. RunInv => TypeOK
  BY DEF RunInv
<1>2. AgentInv /\ FixInv => AgentTypeOK
  <2>1. SUFFICES ASSUME AgentInv, FixInv PROVE AgentTypeOK
    OBVIOUS
  <2>2. /\ fix.done \subseteq StaleKeys /\ keys \subseteq StaleKeys
        /\ outcome.status \in Statuses
    BY <2>1 DEF FixInv, FixTyped, FixRecords
  <2>3. \A r \in AgentRuns : proposal[r] # Unrecorded =>
          proposal[r].diff \in Diffs /\ proposal[r].tests \in TestPlans
    BY <2>1 DEF AgentInv, AgentsTyped
  <2>4. QED
    BY <2>1, <2>2, <2>3 DEF AgentInv, AgentsTyped, AgentTypeOK
<1>3. ShelfInv => ShelfTypeOK
  BY DEF ShelfInv
<1>4. ToolInv => ToolTypeOK
  BY DEF ToolInv
<1>5. TypeOK /\ AgentTypeOK /\ ShelfTypeOK /\ ToolTypeOK => FilesTypeOK
  BY DEF FilesTypeOK
<1>6. QED
  BY <1>1, <1>2, <1>3, <1>4, <1>5, FilesRunTheirParts, RunInvariant, AgentsInvariant,
     ShelfInvariant, ToolInvariant, PTL

\* Together: a fix that was turned down never ships, a repair is never reported that
\* was not earned, the registry never serves an outdated skill, and no tool is half
\* there.
THEOREM FilesAreSafe ==
  FilesSpec => [](/\ RejectedNeverShips /\ RepairsAreEarned
                  /\ RegistryIsCurrent /\ ToolsAreAccounted)
BY FilesRunTheirParts, RejectedFixesNeverShip, RepairsAreAllEarned, RegistryStaysCurrent,
   ToolsStayAccounted, PTL

==============================================================================
