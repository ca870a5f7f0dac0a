---------------------------- MODULE RepairProofs -----------------------------
(***************************************************************************)
(* Patches of the program's own code, for any constants: those the owner   *)
(* approves, and those the pipeline's runs draft, try and roll back beside *)
(* them.                                                                   *)
(***************************************************************************)
EXTENDS RepairPipeline, TLAPS

-----------------------------------------------------------------------------
(* The owner's approvals: for any plans, files and hunks, any number of    *)
(* turns beside the owner's queue, and any number of timeouts, crashes and *)
(* failed file operations, a deployed plan stays in its files, and a       *)
(* challenge starts one execution.  Both rest on ChatIsSerial, the queue   *)
(* that handles the owner's messages one after the other.                  *)

\* Answers come through the owner's queue, and so do executions.
OnlyChatExecutes ==
  \A h \in Procs :
    message[h] = "answer" \/ pc[h] \in EnginePoints \union {"consuming"} => h \in Chat

\* Plans that must stay in their files: deployed, or about to be approved.
Settled == {p \in Plans \ edited : ticket[p] = "deployed" \/ p \in approving}

\* Nobody but the owner calls a ticket ready.
ReadyIsEdited == \A p \in Plans : ticket[p] = "ready_for_deploy" => p \in edited

SettledIsLive == \A p \in Settled : IsLive(p)

\* The bytes a rollback would restore hold every settled plan.
BackupIsLive ==
  \A h \in Procs : pc[h] = "verify" =>
    \A p \in Settled : \A f \in Targets(p) : backup[h][f][p] > 0

\* A plan that is being verified or recorded is in its files.
ExecutedIsLive ==
  \A h \in Procs : pc[h] \in {"verify", "record"} => IsLive(plan[h])

\* An open challenge, or an answer that has passed one, is not yet counted.
AnswersAreCounted ==
  /\ consumed <= issued
  /\ challenge => consumed < issued
  /\ \A h \in Procs : pc[h] = "consuming" => consumed < issued

ApprovalInv ==
  /\ ApprovalTypeOK
  /\ OnlyChatExecutes
  /\ ReadyIsEdited
  /\ SettledIsLive
  /\ BackupIsLive
  /\ ExecutedIsLive
  /\ AnswersAreCounted

ApprovalIsSafe ==
  /\ OnlyChatExecutes /\ ReadyIsEdited
  /\ SettledIsLive /\ BackupIsLive /\ ExecutedIsLive
  /\ AnswersAreCounted

-----------------------------------------------------------------------------
(* Files                                                                   *)

\* Patching raises one count in some files.
LEMMA PatchedGrows ==
  ASSUME NEW p \in Plans, NEW files \in SUBSET Files, disk \in [Files -> Texts]
  PROVE  /\ Patched(p, files) \in [Files -> Texts]
         /\ \A f \in Files, q \in Plans : Patched(p, files)[f][q] >= disk[f][q]
         /\ \A f \in files : Patched(p, files)[f][p] > 0
BY DEF Patched, Texts

\* Restored text is a text.
LEMMA RestoredIsText ==
  ASSUME NEW h \in Procs, NEW files \in SUBSET Files,
         disk \in [Files -> Texts], backup \in [Procs -> [Files -> Texts]]
  PROVE  /\ Restored(h, files) \in [Files -> Texts]
         /\ \A f \in Files : Restored(h, files)[f] \in {disk[f], backup[h][f]}
BY DEF Restored

\* Both ways to apply a diff only add to files.
LEMMA WritingGrows ==
  ASSUME NEW p \in Plans, disk \in [Files -> Texts], faults \in 0 .. MaxFaults,
         WriteAll(p) \/ WriteSome(p)
  PROVE  /\ disk' \in [Files -> Texts]
         /\ faults' \in 0 .. MaxFaults
         /\ \A f \in Files, q \in Plans : disk'[f][q] >= disk[f][q]
<1>1. Targets(p) \subseteq Files
  BY DEF Targets
<1>2. CASE WriteAll(p)
  BY <1>1, <1>2, PatchedGrows DEF WriteAll
<1>3. CASE WriteSome(p)
  <2>1. PICK written \in SUBSET Files : disk' = Patched(p, written)
    BY <1>1, <1>3 DEF WriteSome
  <2>2. faults' \in 0 .. MaxFaults
    BY <1>3, MaxFaultsIsNatural DEF WriteSome, Fault
  <2> QED
    BY <2>1, <2>2, PatchedGrows
<1> QED
  BY <1>2, <1>3

\* Live plans stay live while files only grow.
LEMMA LiveStaysLive ==
  ASSUME disk \in [Files -> Texts], disk' \in [Files -> Texts],
         \A f \in Files, q \in Plans : disk'[f][q] >= disk[f][q],
         NEW p \in Plans, IsLive(p)
  PROVE  IsLive(p)'
BY DEF IsLive, Targets, Texts

-----------------------------------------------------------------------------
(* Types                                                                   *)

\* The initial state is typed and has nothing settled.
LEMMA ApprovalStartsSafe == ApprovalInit => ApprovalInv
<1> SUFFICES ASSUME ApprovalInit PROVE ApprovalInv
  OBVIOUS
<1>1. Original \in Texts /\ NoBackup \in [Files -> Texts]
  BY DEF NoBackup, Original, Texts
<1>2. ApprovalTypeOK
  <2>1. EngineTypeOK
    BY <1>1, MaxFaultsIsNatural
       DEF ApprovalInit, EngineInit, EngineTypeOK, EnginePoints, OwnerPoints,
           RunPoints, Points, TicketStatuses
  <2>2. \A h \in Handlers : pc[h] = "idle"
    BY HandlersAreProcs DEF ApprovalInit, EngineInit
  <2>3. message \in [Procs -> Messages] /\ approving \subseteq Plans /\ edited \subseteq Plans
    BY DEF ApprovalInit, Messages
  <2>4. issued \in 0 .. MaxChallenges /\ consumed \in Nat
    BY MaxChallengesIsNatural DEF ApprovalInit
  <2>5. challenge \in BOOLEAN
    BY DEF ApprovalInit
  <2> QED
    BY <2>1, <2>2, <2>3, <2>4, <2>5 DEF ApprovalTypeOK, OwnerPoints
<1>3. ApprovalIsSafe
  BY MaxChallengesIsNatural
     DEF ApprovalInit, EngineInit, ApprovalIsSafe, OnlyChatExecutes, EnginePoints,
         ReadyIsEdited, SettledIsLive, Settled,
         BackupIsLive, ExecutedIsLive, AnswersAreCounted
<1> QED
  BY <1>2, <1>3 DEF ApprovalInv, ApprovalIsSafe

\* The steps of one execution, the owner's or a run's, keep the types.
LEMMA ExecuteKeepsTypes ==
  ASSUME ApprovalTypeOK, NEW h \in Procs, Execute(h), UNCHANGED ownerVars
  PROVE  ApprovalTypeOK'
<1> USE HandlersAreProcs, MaxFaultsIsNatural, NoPlanIsNoPlan
        DEF ApprovalTypeOK, EngineTypeOK, EnginePoints, OwnerPoints, RunPoints, Points,
            ownerVars, Goto
<1>1. CASE FetchNothing(h)
  BY <1>1 DEF FetchNothing
<1>2. CASE FetchPlan(h)
  BY <1>2 DEF FetchPlan, SlotHoldsPlan
<1>3. CASE VerifyPasses(h)
  BY <1>3 DEF VerifyPasses
<1>4. CASE VerifyRaises(h)
  BY <1>4 DEF VerifyRaises
<1>5. CASE Record(h)
  BY <1>5 DEF Record, TicketStatuses
<1>6. CASE RecordFails(h)
  BY <1>6 DEF RecordFails, Fault
<1>7. CASE Clear(h)
  BY <1>7 DEF Clear
<1>8. CASE ApplyDiff(h) \/ ApplyFails(h)
  <2>1. /\ plan[h] \in Plans
        /\ disk' \in [Files -> Texts]
        /\ faults' \in 0 .. MaxFaults
    BY <1>8, WritingGrows DEF ApplyDiff, ApplyFails
  <2>2. backup' \in [Procs -> [Files -> Texts]]
    BY <1>8 DEF ApplyDiff, ApplyFails, KeepBackup
  <2> QED
    BY <1>8, <2>1, <2>2 DEF ApplyDiff, ApplyFails
<1>9. CASE VerifyFails(h)
  <2>1. disk' \in [Files -> Texts]
    <3>1. Targets(plan[h]) \subseteq Files
      BY DEF Targets
    <3> QED
      BY <1>9, <3>1, RestoredIsText DEF VerifyFails
  <2>2. faults' \in 0 .. MaxFaults
    BY <1>9 DEF VerifyFails, Fault
  <2> QED
    BY <1>9, <2>1, <2>2 DEF VerifyFails
<1> QED
  BY <1>1, <1>2, <1>3, <1>4, <1>5, <1>6, <1>7, <1>8, <1>9 DEF Execute

\* The owner's steps and the environment's keep the types.
LEMMA OthersKeepTypes ==
  ASSUME ApprovalTypeOK,
         \/ \E h \in Handlers : Handle(h) /\ ~(Execute(h) /\ UNCHANGED ownerVars)
         \/ Owner
         \/ Environment
  PROVE  ApprovalTypeOK'
<1>0. NoBackup \in [Files -> Texts]
  BY DEF NoBackup, Original, Texts
<1> USE <1>0, HandlersAreProcs, MaxFaultsIsNatural, MaxChallengesIsNatural, NoPlanIsNoPlan
        DEF ApprovalTypeOK, EngineTypeOK, EnginePoints, OwnerPoints, RunPoints, Points,
            ownerVars,
            engineVars, Goto
<1>1. ASSUME NEW h \in Handlers, NEW p \in Plans, ProposePlan(h, p)
      PROVE  ApprovalTypeOK'
  BY <1>1 DEF ProposePlan, TicketStatuses
<1>2. ASSUME NEW h \in Handlers, NEW p \in Plans, ProposeWithoutTicket(h, p)
      PROVE  ApprovalTypeOK'
  BY <1>2 DEF ProposeWithoutTicket, Fault
<1>3. ASSUME NEW h \in Handlers, NEW m \in Messages, Receive(h, m)
      PROVE  ApprovalTypeOK'
  BY <1>3 DEF Receive
<1>4. ASSUME NEW h \in Handlers, RefineRead(h)
      PROVE  ApprovalTypeOK'
  BY <1>4 DEF RefineRead
<1>5. ASSUME NEW h \in Handlers, Dispatch(h)
      PROVE  ApprovalTypeOK'
  BY <1>5 DEF Dispatch
<1>6. ASSUME NEW h \in Handlers, PassOn(h)
      PROVE  ApprovalTypeOK'
  BY <1>6 DEF PassOn, Return
<1>7. ASSUME NEW h \in Handlers, Issue(h)
      PROVE  ApprovalTypeOK'
  BY <1>7 DEF Issue, Return
<1>8. ASSUME NEW h \in Handlers, IssueRefused(h)
      PROVE  ApprovalTypeOK'
  BY <1>8 DEF IssueRefused, Return
<1>9. ASSUME NEW h \in Handlers, AcceptAnswer(h)
      PROVE  ApprovalTypeOK'
  BY <1>9 DEF AcceptAnswer
<1>10. ASSUME NEW h \in Handlers, RefuseAnswer(h)
      PROVE  ApprovalTypeOK'
  BY <1>10 DEF RefuseAnswer, Return
<1>11. ASSUME NEW h \in Handlers, ConsumeChallenge(h)
      PROVE  ApprovalTypeOK'
  <2>1. challenge' = FALSE
    BY <1>11 DEF ConsumeChallenge, AfterAnswer
  <2>2. consumed' \in Nat
    BY <1>11 DEF ConsumeChallenge
  <2> QED
    BY <1>11, <2>1, <2>2 DEF ConsumeChallenge
<1>12. ASSUME NEW h \in Handlers, StorePlan(h)
      PROVE  ApprovalTypeOK'
  BY <1>12 DEF StorePlan, StorePending, Return
<1>13. ASSUME NEW h \in Handlers, Reply(h)
      PROVE  ApprovalTypeOK'
  BY <1>13 DEF Reply, Return
<1>14. ASSUME NEW p \in Plans, ApproveRead(p)
      PROVE  ApprovalTypeOK'
  BY <1>14 DEF ApproveRead
<1>15. ASSUME NEW p \in Plans, ApproveWrite(p)
      PROVE  ApprovalTypeOK'
  BY <1>15 DEF ApproveWrite, TicketStatuses
<1>16. ASSUME NEW p \in Plans, NEW s \in Edits, EditTicket(p, s)
      PROVE  ApprovalTypeOK'
  BY <1>16, EditsAreEditable DEF EditTicket, EditableStatuses
<1>17. ASSUME Crash
      PROVE  ApprovalTypeOK'
  BY <1>17 DEF Crash, LoseCoroutines, Fault
<1>18. ASSUME ChallengeExpires
      PROVE  ApprovalTypeOK'
  BY <1>18 DEF ChallengeExpires
<1>19. ASSUME PendingExpires /\ UNCHANGED ownerVars
      PROVE  ApprovalTypeOK'
  BY <1>19 DEF PendingExpires
<1>20. ASSUME NEW h \in Handlers, TimeOut(h)
      PROVE  ApprovalTypeOK'
  BY <1>20 DEF TimeOut, Return
<1> QED
  BY <1>1, <1>2, <1>3, <1>4, <1>5, <1>6, <1>7, <1>8, <1>9, <1>10, <1>11, <1>12, <1>13, <1>14,
     <1>15, <1>16, <1>17, <1>18, <1>19, <1>20
     DEF Handle, Owner, Environment

-----------------------------------------------------------------------------
(* Safety                                                                  *)

\* One execution, with nobody else executing.
LEMMA ExecuteIsSafe ==
  ASSUME ApprovalInv, ApprovalTypeOK',
         NEW h \in Handlers, Execute(h), UNCHANGED ownerVars
  PROVE  ApprovalIsSafe'
<1>0. /\ h \in Procs /\ plan[h] \in Plans \union {NoPlan}
      /\ h \in Chat
      /\ \A g \in Procs : g \in Chat => g = h
      /\ disk \in [Files -> Texts] /\ disk' \in [Files -> Texts]
      /\ UNCHANGED <<approving, edited, issued, consumed, challenge>>
  BY HandlersAreProcs, ChatIsSerial
     DEF ApprovalInv, OnlyChatExecutes, ApprovalTypeOK, EngineTypeOK, ownerVars,
         EnginePoints, Execute,
         FetchNothing, FetchPlan, ApplyDiff, ApplyFails, VerifyPasses, VerifyFails,
         VerifyRaises, Record, RecordFails, Clear
<1> USE <1>0 DEF ApprovalInv, ApprovalIsSafe, OnlyChatExecutes, EnginePoints, ownerVars,
                 ReadyIsEdited, SettledIsLive, Settled, IsLive, BackupIsLive,
                 ExecutedIsLive, AnswersAreCounted, ApprovalTypeOK, EngineTypeOK, Goto
<1>1. CASE FetchNothing(h)
  BY <1>1 DEF FetchNothing
<1>2. CASE FetchPlan(h)
  BY <1>2 DEF FetchPlan
<1>3. CASE ApplyDiff(h)
  <2>1. plan[h] \in Plans
    BY <1>3 DEF ApplyDiff, EnginePoints
  <2>2. /\ \A f \in Files, q \in Plans : disk'[f][q] >= disk[f][q]
        /\ \A f \in Targets(plan[h]) : disk'[f][plan[h]] > 0
    <3>1. Targets(plan[h]) \subseteq Files
      BY DEF Targets
    <3> QED
      BY <1>3, <2>1, <3>1, PatchedGrows DEF ApplyDiff, WriteAll
  <2>3. backup' = [backup EXCEPT ![h] = disk] /\ UNCHANGED <<ticket, plan>>
    BY <1>3 DEF ApplyDiff, KeepBackup
  <2>4. \A p \in Settled : IsLive(p)'
    BY <2>2, LiveStaysLive
  <2> QED
    BY <1>3, <2>1, <2>2, <2>3, <2>4 DEF ApplyDiff
<1>4. CASE ApplyFails(h)
  <2>1. plan[h] \in Plans
    BY <1>4 DEF ApplyFails, EnginePoints
  <2>2. \A f \in Files, q \in Plans : disk'[f][q] >= disk[f][q]
    BY <1>4, <2>1, WritingGrows DEF ApplyFails
  <2>3. \A p \in Settled : IsLive(p)'
    BY <2>2, LiveStaysLive
  <2> QED
    BY <1>4, <2>3 DEF ApplyFails
<1>5. CASE VerifyPasses(h)
  BY <1>5 DEF VerifyPasses
<1>6. CASE VerifyFails(h)
  <2>1. PICK back \in SUBSET Targets(plan[h]) : disk' = Restored(h, back)
    BY <1>6 DEF VerifyFails
  <2>2. back \in SUBSET Files
    BY DEF Targets
  <2>3. \A f \in Files : disk'[f] \in {disk[f], backup[h][f]}
    BY <2>1, <2>2, RestoredIsText
  <2>4. \A p \in Settled : IsLive(p)'
    BY <1>6, <2>3 DEF VerifyFails, Targets
  <2> QED
    BY <1>6, <2>4 DEF VerifyFails
<1>7. CASE VerifyRaises(h)
  BY <1>7 DEF VerifyRaises
<1>8. CASE Record(h)
  BY <1>8 DEF Record
<1>9. CASE RecordFails(h)
  BY <1>9 DEF RecordFails
<1>10. CASE Clear(h)
  BY <1>10 DEF Clear
<1> QED
  BY <1>1, <1>2, <1>3, <1>4, <1>5, <1>6, <1>7, <1>8, <1>9, <1>10 DEF Execute

\* The steps of the owner and of the environment.
LEMMA OthersAreSafe ==
  ASSUME ApprovalInv, ApprovalTypeOK',
         \/ \E h \in Handlers : Handle(h) /\ ~(Execute(h) /\ UNCHANGED ownerVars)
         \/ Owner
         \/ Environment
  PROVE  ApprovalIsSafe'
<1> USE HandlersAreProcs, ChatIsSerial
    DEF ApprovalInv, ApprovalIsSafe, OnlyChatExecutes, EnginePoints, ReadyIsEdited,
        SettledIsLive, Settled, IsLive, BackupIsLive,
        ExecutedIsLive, AnswersAreCounted, ApprovalTypeOK, EngineTypeOK, Goto,
        ownerVars, engineVars
<1>1. ASSUME NEW h \in Handlers, NEW p \in Plans, ProposePlan(h, p)
      PROVE  ApprovalIsSafe'
  BY <1>1 DEF ProposePlan
<1>2. ASSUME NEW h \in Handlers, NEW p \in Plans, ProposeWithoutTicket(h, p)
      PROVE  ApprovalIsSafe'
  BY <1>2 DEF ProposeWithoutTicket
<1>3. ASSUME NEW h \in Handlers, NEW m \in Messages, Receive(h, m)
      PROVE  ApprovalIsSafe'
  BY <1>3 DEF Receive
<1>4. ASSUME NEW h \in Handlers, RefineRead(h)
      PROVE  ApprovalIsSafe'
  BY <1>4 DEF RefineRead
<1>5. ASSUME NEW h \in Handlers, Dispatch(h)
      PROVE  ApprovalIsSafe'
  BY <1>5 DEF Dispatch
<1>6. ASSUME NEW h \in Handlers, PassOn(h)
      PROVE  ApprovalIsSafe'
  BY <1>6 DEF PassOn, Return
<1>7. ASSUME NEW h \in Handlers, Issue(h)
      PROVE  ApprovalIsSafe'
  BY <1>7 DEF Issue, Return
<1>8. ASSUME NEW h \in Handlers, IssueRefused(h)
      PROVE  ApprovalIsSafe'
  BY <1>8 DEF IssueRefused, Return
<1>9. ASSUME NEW h \in Handlers, AcceptAnswer(h)
      PROVE  ApprovalIsSafe'
  BY <1>9 DEF AcceptAnswer
<1>10. ASSUME NEW h \in Handlers, RefuseAnswer(h)
      PROVE  ApprovalIsSafe'
  BY <1>10 DEF RefuseAnswer, Return
<1>11. ASSUME NEW h \in Handlers, ConsumeChallenge(h)
      PROVE  ApprovalIsSafe'
  BY <1>11 DEF ConsumeChallenge, AfterAnswer
<1>12. ASSUME NEW h \in Handlers, StorePlan(h)
      PROVE  ApprovalIsSafe'
  BY <1>12 DEF StorePlan, Return
<1>13. ASSUME NEW h \in Handlers, Reply(h)
      PROVE  ApprovalIsSafe'
  BY <1>13 DEF Reply, Return
<1>14. ASSUME NEW p \in Plans, ApproveRead(p)
      PROVE  ApprovalIsSafe'
  BY <1>14 DEF ApproveRead
<1>15. ASSUME NEW p \in Plans, ApproveWrite(p)
      PROVE  ApprovalIsSafe'
  BY <1>15 DEF ApproveWrite
<1>16. ASSUME NEW p \in Plans, NEW s \in Edits, EditTicket(p, s)
      PROVE  ApprovalIsSafe'
  BY <1>16 DEF EditTicket
<1>17. ASSUME Crash
      PROVE  ApprovalIsSafe'
  BY <1>17 DEF Crash, LoseCoroutines
<1>18. ASSUME ChallengeExpires
      PROVE  ApprovalIsSafe'
  BY <1>18 DEF ChallengeExpires
<1>19. ASSUME PendingExpires /\ UNCHANGED ownerVars
      PROVE  ApprovalIsSafe'
  BY <1>19 DEF PendingExpires
<1>20. ASSUME NEW h \in Handlers, TimeOut(h)
      PROVE  ApprovalIsSafe'
  BY <1>20 DEF TimeOut, Return
<1> QED
  BY <1>1, <1>2, <1>3, <1>4, <1>5, <1>6, <1>7, <1>8, <1>9, <1>10, <1>11, <1>12, <1>13, <1>14,
     <1>15, <1>16, <1>17, <1>18, <1>19, <1>20
     DEF Handle, Owner, Environment

-----------------------------------------------------------------------------
\* The strengthening is inductive.
THEOREM ApprovalInvariant == ApprovalSpec => []ApprovalInv
<1>1. ApprovalInit => ApprovalInv
  BY ApprovalStartsSafe
<1>2. ApprovalInv /\ [ApprovalNext]_approvalVars => ApprovalInv'
  <2> SUFFICES ASSUME ApprovalInv, [ApprovalNext]_approvalVars PROVE ApprovalInv'
    OBVIOUS
  <2>1. CASE \E h \in Handlers : Execute(h) /\ UNCHANGED ownerVars
    <3>1. PICK h \in Handlers : Execute(h) /\ UNCHANGED ownerVars
      BY <2>1
    <3>2. ApprovalTypeOK'
      BY <3>1, HandlersAreProcs, ExecuteKeepsTypes DEF ApprovalInv
    <3>3. ApprovalIsSafe'
      BY <3>1, <3>2, ExecuteIsSafe
    <3> QED
      BY <3>2, <3>3 DEF ApprovalInv, ApprovalIsSafe
  <2>2. CASE \/ \E h \in Handlers : Handle(h) /\ ~(Execute(h) /\ UNCHANGED ownerVars)
             \/ Owner
             \/ Environment
    <3>1. ApprovalTypeOK'
      BY <2>2, OthersKeepTypes DEF ApprovalInv
    <3>2. ApprovalIsSafe'
      BY <2>2, <3>1, OthersAreSafe
    <3> QED
      BY <3>1, <3>2 DEF ApprovalInv, ApprovalIsSafe
  <2>3. CASE UNCHANGED approvalVars
    BY <2>3
       DEF approvalVars, ownerVars, engineVars, ApprovalInv, ApprovalTypeOK, EngineTypeOK,
           OnlyChatExecutes,
           ReadyIsEdited, SettledIsLive, Settled, IsLive, BackupIsLive, ExecutedIsLive,
           AnswersAreCounted
  <2> QED
    BY <2>1, <2>2, <2>3 DEF ApprovalNext
<1> QED
  BY <1>1, <1>2, PTL DEF ApprovalSpec

\* engine.py:935: a deployed plan is live.
THEOREM DeployedStaysLive == ApprovalSpec => []DeployedIsLive
<1>1. ApprovalInv => DeployedIsLive
  BY DEF ApprovalInv, SettledIsLive, Settled, DeployedIsLive
<1> QED
  BY <1>1, ApprovalInvariant, PTL

\* challenge.py:111: a challenge starts at most one execution.
THEOREM ChallengesAreUsedOnce == ApprovalSpec => []ChallengeUsedOnce
<1>1. ApprovalInv => ChallengeUsedOnce
  BY DEF ApprovalInv, AnswersAreCounted, ChallengeUsedOnce
<1> QED
  BY <1>1, ApprovalInvariant, PTL

-----------------------------------------------------------------------------
(* The pipeline's runs, beside the owner.  A plan that is turned down was  *)
(* never in the slot, in a turn's hands or called ready, and nothing the   *)
(* code does brings it there: its ticket exists, so it is not proposed     *)
(* again, and it belongs to no other run.                                  *)

\* A plan nothing executes, stores or approves any more, or not yet.
OutOfReach(p) ==
  /\ ticket[p] # "none"
  /\ pending # p
  /\ \A h \in Procs : plan[h] # p
  /\ p \notin edited => ticket[p] \notin {"ready_for_deploy", "deployed"} /\ p \notin approving

\* Where a run has a ticket and has not been to the sandbox.
BeforeSandbox == {"programming", "dry_run", "validating", "flooring"}

TicketsStay == \A p \in approving : ticket[p] # "none"
RejectedAreOut == \A p \in rejected : OutOfReach(p)
UntriedAreOut == \A r \in Runs : pc[r] \in BeforeSandbox => OutOfReach(own[r])
OwnAreLive == \A r \in Runs : own[r] \notin rejected
OwnAreUnique == \A r, s \in Runs : own[r] = own[s] /\ own[r] # NoPlan => r = s

Apart == TicketsStay /\ RejectedAreOut /\ UntriedAreOut /\ OwnAreLive /\ OwnAreUnique
RunInv == TypeOK /\ Apart

\* The variables of the engine and of the owner, of which a run changes few.
LEMMA RunsKeepApprovalTypes ==
  ASSUME TypeOK, NEW r \in Runs,
         disk' \in [Files -> Texts], pending' \in Plans \union {NoPlan},
         ticket' \in [Plans -> TicketStatuses], faults' \in 0 .. MaxFaults,
         NEW point \in RunPoints \union {"fetch"}, Goto(r, point),
         plan' \in {plan, [plan EXCEPT ![r] = NoPlan]},
         backup' \in {backup, [backup EXCEPT ![r] = NoBackup]},
         UNCHANGED ownerVars
  PROVE  ApprovalTypeOK'
<1>1. /\ pc' = [pc EXCEPT ![r] = point] /\ r \in Procs /\ r \notin Handlers
      /\ point \in Points /\ point \notin EnginePoints \ {"fetch", "failed"}
  BY RunsAreProcs DEF Goto, Points, RunPoints, EnginePoints
<1>2. NoBackup \in [Files -> Texts]
  BY DEF NoBackup, Original, Texts
<1>3. plan' \in [Procs -> Plans \union {NoPlan}] /\ \A h \in Procs \ {r} : plan'[h] = plan[h]
  BY <1>1 DEF TypeOK, ApprovalTypeOK, EngineTypeOK
<1>4. backup' \in [Procs -> [Files -> Texts]]
  BY <1>1, <1>2 DEF TypeOK, ApprovalTypeOK, EngineTypeOK
<1>5. pc' \in [Procs -> Points] /\ \A h \in Procs \ {r} : pc'[h] = pc[h]
  BY <1>1 DEF TypeOK, ApprovalTypeOK, EngineTypeOK
<1>6. \A h \in Procs : pc'[h] \in EnginePoints \ {"fetch", "failed"} => plan'[h] \in Plans
  BY <1>1, <1>3, <1>5 DEF TypeOK, ApprovalTypeOK, EngineTypeOK
<1>7. EngineTypeOK'
  BY <1>3, <1>4, <1>5, <1>6 DEF EngineTypeOK
<1>8. \A h \in Handlers : pc'[h] = pc[h] /\ plan'[h] = plan[h]
  BY <1>1, <1>3, <1>5, HandlersAreProcs
<1>9. QED
  BY <1>7, <1>8 DEF TypeOK, ApprovalTypeOK, ownerVars

\* A ticket's update, made or lost, gives one ticket its status.
LEMMA UpdateKeepsTypes ==
  ASSUME TypeOK, NEW p \in Plans, NEW s \in TicketStatuses \ {"none"},
         UpdateTicketStatus(p, s)
  PROVE  /\ ticket' \in [Plans -> TicketStatuses]
         /\ faults' \in 0 .. MaxFaults
         /\ \A q \in Plans : ticket'[q] \in {ticket[q], s}
         /\ \A q \in Plans \ {p} : ticket'[q] = ticket[q]
BY MaxFaultsIsNatural DEF UpdateTicketStatus, Fault, TypeOK, ApprovalTypeOK, EngineTypeOK

\* Where a run can be is a point of the engine or of the pipeline.
LEMMA EngineStops ==
  ASSUME ApprovalTypeOK, NEW h \in Procs, Execute(h)
  PROVE  /\ pc'[h] \in EnginePoints /\ pc[h] \in EnginePoints
         /\ \A g \in Procs \ {h} : pc'[g] = pc[g] /\ plan'[g] = plan[g]
<1> USE DEF ApprovalTypeOK, EngineTypeOK, EnginePoints, Goto
<1>1. CASE FetchNothing(h)
  BY <1>1 DEF FetchNothing
<1>2. CASE FetchPlan(h)
  BY <1>2 DEF FetchPlan
<1>3. CASE ApplyDiff(h) \/ ApplyFails(h)
  BY <1>3 DEF ApplyDiff, ApplyFails
<1>4. CASE VerifyPasses(h) \/ VerifyFails(h) \/ VerifyRaises(h)
  BY <1>4 DEF VerifyPasses, VerifyFails, VerifyRaises
<1>5. CASE Record(h) \/ RecordFails(h)
  BY <1>5 DEF Record, RecordFails
<1>6. CASE Clear(h)
  BY <1>6 DEF Clear
<1>7. QED
  BY <1>1, <1>2, <1>3, <1>4, <1>5, <1>6 DEF Execute

\* What the steps of one execution can do to a plan out of reach: nothing.
LEMMA ExecutionDoesNotReach ==
  ASSUME ApprovalTypeOK, NEW h \in Procs, Execute(h), UNCHANGED ownerVars,
         NEW p \in Plans, OutOfReach(p)
  PROVE  OutOfReach(p)'
<1> USE NoPlanIsNoPlan
        DEF OutOfReach, ApprovalTypeOK, EngineTypeOK, EnginePoints, Goto, ownerVars
<1>1. CASE FetchNothing(h)
  BY <1>1 DEF FetchNothing
<1>2. CASE FetchPlan(h)
  BY <1>2 DEF FetchPlan
<1>3. CASE ApplyDiff(h) \/ ApplyFails(h)
  BY <1>3 DEF ApplyDiff, ApplyFails
<1>4. CASE VerifyPasses(h) \/ VerifyFails(h) \/ VerifyRaises(h)
  BY <1>4 DEF VerifyPasses, VerifyFails, VerifyRaises
<1>5. CASE Record(h)
  BY <1>5 DEF Record
<1>6. CASE RecordFails(h)
  BY <1>6 DEF RecordFails
<1>7. CASE Clear(h)
  BY <1>7 DEF Clear
<1>8. QED
  BY <1>1, <1>2, <1>3, <1>4, <1>5, <1>6, <1>7 DEF Execute

\* Tickets do not go away.
LEMMA ExecutionKeepsTickets ==
  ASSUME ApprovalTypeOK, NEW h \in Procs, Execute(h)
  PROVE  \A p \in Plans : ticket[p] # "none" => ticket'[p] # "none"
BY DEF Execute, FetchNothing, FetchPlan, ApplyDiff, ApplyFails, VerifyPasses, VerifyFails,
       VerifyRaises, Record, RecordFails, Clear, ApprovalTypeOK, EngineTypeOK

\* Every stage of a run keeps the types.
LEMMA RunStepsKeepTypes ==
  ASSUME TypeOK, NEW r \in Runs, RunStep(r)
  PROVE  TypeOK'
<1>0. /\ r \in Procs /\ r \notin Handlers
      /\ disk \in [Files -> Texts] /\ pending \in Plans \union {NoPlan}
      /\ ticket \in [Plans -> TicketStatuses] /\ faults \in 0 .. MaxFaults
      /\ pc[r] \notin {"idle", "debugging"} => own[r] \in Plans
      /\ own \in [Runs -> Plans \union {NoPlan}] /\ pc \in [Procs -> Points]
      /\ Runs \subseteq Procs
  BY RunsAreProcs DEF TypeOK, ApprovalTypeOK, EngineTypeOK
<1> USE DEF RunPoints, EnginePoints
<1>1. ASSUME NEW point \in RunPoints \union {"fetch"}, Goto(r, point), ApprovalTypeOK',
             \/ own' = own
             \/ \E p \in Plans \union {NoPlan} : own' = [own EXCEPT ![r] = p],
             point \in {"idle", "debugging"} \/ own'[r] \in Plans,
             UNCHANGED <<attempts, crossed>>, rejected' \subseteq Plans
      PROVE  TypeOK'
  <2>1. \A s \in Runs \ {r} : pc'[s] = pc[s] /\ own'[s] = own[s]
    BY <1>0, <1>1 DEF Goto
  <2>2. pc'[r] = point /\ own' \in [Runs -> Plans \union {NoPlan}]
    BY <1>0, <1>1 DEF Goto
  <2>3. QED
    BY <1>1, <2>1, <2>2 DEF TypeOK
<1>2. CASE StopRun(r)
  <2>1. Goto(r, "idle") /\ "idle" \in RunPoints
    BY <1>2 DEF StopRun, EndRun, Return
  <2>2. ApprovalTypeOK'
    BY <1>0, <1>2, <2>1, RunsKeepApprovalTypes DEF StopRun, EndRun, Return
  <2>3. QED
    BY <1>1, <1>2, <2>1, <2>2 DEF StopRun, EndRun, TypeOK
<1>3. ASSUME NEW p \in Plans, NEW s \in {"open", "debug_analysis_ready"}, CreateTicket(r, p, s)
      PROVE  TypeOK'
  <2>1. Goto(r, "programming") /\ "programming" \in RunPoints
    BY <1>3 DEF CreateTicket
  <2>2. ticket' \in [Plans -> TicketStatuses]
    BY <1>0, <1>3 DEF CreateTicket, TicketStatuses
  <2>3. ApprovalTypeOK'
    BY <1>0, <1>3, <2>1, <2>2, RunsKeepApprovalTypes DEF CreateTicket
  <2>4. own' = [own EXCEPT ![r] = p] /\ own'[r] \in Plans
    BY <1>0, <1>3 DEF CreateTicket
  <2>5. QED
    BY <1>1, <1>3, <2>1, <2>3, <2>4 DEF CreateTicket, TypeOK
<1>4. CASE NoFix(r)
  <2>1. Goto(r, "idle") /\ "idle" \in RunPoints /\ own[r] \in Plans
    BY <1>0, <1>4 DEF NoFix, EndRun, Return
  <2>2. ticket' \in [Plans -> TicketStatuses] /\ faults' \in 0 .. MaxFaults
    BY <1>4, <2>1, UpdateKeepsTypes DEF NoFix, TicketStatuses
  <2>3. ApprovalTypeOK'
    BY <1>0, <1>4, <2>1, <2>2, RunsKeepApprovalTypes DEF NoFix, EndRun, Return
  <2>4. QED
    BY <1>1, <1>4, <2>1, <2>3 DEF NoFix, EndRun, TypeOK
<1>5. CASE FixGenerated(r)
  <2>1. Goto(r, "dry_run") /\ "dry_run" \in RunPoints /\ own[r] \in Plans
    BY <1>0, <1>5 DEF FixGenerated
  <2>2. ApprovalTypeOK'
    BY <1>0, <1>5, <2>1, RunsKeepApprovalTypes DEF FixGenerated
  <2>3. QED
    BY <1>1, <1>5, <2>1, <2>2 DEF FixGenerated, runVars, TypeOK
<1>6. CASE DryRun(r)
  <2>1. Goto(r, "validating") /\ "validating" \in RunPoints /\ own[r] \in Plans
    BY <1>0, <1>6 DEF DryRun
  <2>2. disk' \in [Files -> Texts] /\ faults' \in 0 .. MaxFaults
    BY <1>0, <1>6, <2>1, WritingGrows DEF DryRun
  <2>3. ApprovalTypeOK'
    BY <1>0, <1>6, <2>1, <2>2, RunsKeepApprovalTypes DEF DryRun
  <2>4. QED
    BY <1>1, <1>6, <2>1, <2>3 DEF DryRun, runVars, TypeOK
<1>7. ASSUME NEW s \in {"verification_failed", "plan_ready"}, Reject(r, s), own[r] \in Plans
      PROVE  TypeOK'
  <2>1. Goto(r, "idle") /\ "idle" \in RunPoints
    BY <1>7 DEF Reject, AfterRejection, EndRun, Return
  <2>2. ticket' \in [Plans -> TicketStatuses] /\ faults' \in 0 .. MaxFaults
    BY <1>7, <2>1, UpdateKeepsTypes DEF Reject, TicketStatuses
  <2>3. ApprovalTypeOK'
    BY <1>0, <1>7, <2>1, <2>2, RunsKeepApprovalTypes
       DEF Reject, AfterRejection, EndRun, Return
  <2>4. QED
    BY <1>1, <1>7, <2>1, <2>3 DEF Reject, AfterRejection, EndRun, TypeOK
<1>8. CASE QualityControlRejects(r) \/ FloorRejects(r)
  BY <1>0, <1>7, <1>8 DEF QualityControlRejects, FloorRejects
<1>9. CASE QualityControlGoes(r)
  <2>1. Goto(r, "flooring") /\ "flooring" \in RunPoints /\ own[r] \in Plans
    BY <1>0, <1>9 DEF QualityControlGoes
  <2>2. ApprovalTypeOK'
    BY <1>0, <1>9, <2>1, RunsKeepApprovalTypes DEF QualityControlGoes
  <2>3. QED
    BY <1>1, <1>9, <2>1, <2>2 DEF QualityControlGoes, runVars, TypeOK
<1>10. CASE EnterSandbox(r)
  <2>1. Goto(r, "fetch") /\ own[r] \in Plans /\ pending' = own[r]
    BY <1>0, <1>10 DEF EnterSandbox, StorePending
  <2>2. ApprovalTypeOK'
    BY <1>0, <1>10, <2>1, RunsKeepApprovalTypes DEF EnterSandbox
  <2>3. QED
    BY <1>1, <1>10, <2>1, <2>2 DEF EnterSandbox, runVars, TypeOK
<1>11. ASSUME NEW s \in {"verification_failed", "ready_for_deploy"}, own[r] \in Plans,
              UpdateTicketStatus(own[r], s), EndRun(r),
              UNCHANGED <<disk, pending, ownerVars, attempts, rejected, crossed>>
       PROVE  TypeOK'
  <2>1. Goto(r, "idle") /\ "idle" \in RunPoints
    BY <1>11 DEF EndRun, Return
  <2>2. ticket' \in [Plans -> TicketStatuses] /\ faults' \in 0 .. MaxFaults
    BY <1>11, UpdateKeepsTypes DEF TicketStatuses
  <2>3. ApprovalTypeOK'
    BY <1>0, <1>11, <2>1, <2>2, RunsKeepApprovalTypes DEF EndRun, Return
  <2>4. QED
    BY <1>1, <1>11, <2>1, <2>3 DEF EndRun, TypeOK
<1>12. CASE SandboxFailed(r) \/ SandboxPassed(r)
  BY <1>0, <1>11, <1>12 DEF SandboxFailed, SandboxPassed
<1>13. CASE /\ Execute(r) /\ Cross
            /\ UNCHANGED <<ownerVars, attempts, own, rejected>>
  <2>1. ApprovalTypeOK'
    BY <1>0, <1>13, ExecuteKeepsTypes DEF TypeOK
  <2>2. /\ pc'[r] \in EnginePoints /\ pc[r] \in EnginePoints
        /\ \A s \in Runs \ {r} : pc'[s] = pc[s]
    BY <1>0, <1>13, EngineStops DEF TypeOK
  <2>3. QED
    BY <1>0, <1>13, <2>1, <2>2 DEF TypeOK, Cross
<1>14. QED
  BY <1>2, <1>3, <1>4, <1>5, <1>6, <1>8, <1>9, <1>10, <1>12, <1>13 DEF RunStep

\* Turns leave the runs where they are.
LEMMA OwnerLeavesRuns ==
  ASSUME TypeOK, OwnerStep
  PROVE  \A r \in Runs : pc'[r] = pc[r]
<1>0. Runs \subseteq Procs /\ Runs \cap Handlers = {} /\ pc \in [Procs -> Points]
  BY RunsAreProcs DEF TypeOK, ApprovalTypeOK, EngineTypeOK
<1>1. ASSUME NEW h \in Handlers, Execute(h) PROVE \A r \in Runs : pc'[r] = pc[r]
  BY <1>0, <1>1, HandlersAreProcs, EngineStops DEF TypeOK
<1>2. ASSUME NEW h \in Handlers, Handle(h), ~Execute(h)
      PROVE  \A r \in Runs : pc'[r] = pc[r]
  BY <1>0, <1>2 DEF Handle, Dispatch, PassOn, Issue, IssueRefused, AcceptAnswer,
     RefuseAnswer, ConsumeChallenge, StorePlan, Reply, TimeOut, Return, Goto
<1>3. CASE Owner
  BY <1>0, <1>3 DEF Owner, ProposePlan, ProposeWithoutTicket, Receive, RefineRead,
     ApproveRead, ApproveWrite, EditTicket, engineVars, Goto
<1>4. QED
  BY <1>1, <1>2, <1>3 DEF OwnerStep

\* Every other step keeps them too.
LEMMA OtherStepsKeepTypes ==
  ASSUME TypeOK,
         \/ \E r \in Runs, e \in Errors : Start(r, e) \/ Blocked(r, e)
         \/ OwnerStep \/ Restart \/ Expiry
         \/ UNCHANGED vars
  PROVE  TypeOK'
<1>0. /\ Runs \subseteq Procs /\ Runs \cap Handlers = {}
      /\ attempts \in [Errors -> 0 .. MaxStarts] /\ pc \in [Procs -> Points]
  BY RunsAreProcs DEF TypeOK, ApprovalTypeOK, EngineTypeOK
<1>1. ASSUME NEW r \in Runs, NEW e \in Errors, Start(r, e) PROVE TypeOK'
  <2>1. Goto(r, "debugging") /\ "debugging" \in RunPoints
    BY <1>1 DEF Start, RunPoints
  <2>2. ApprovalTypeOK'
    BY <1>1, <2>1, RunsKeepApprovalTypes DEF Start, TypeOK, ApprovalTypeOK, EngineTypeOK
  <2>3. attempts' \in [Errors -> 0 .. MaxStarts]
    BY <1>0, <1>1, MaxStartsIsNatural DEF Start, CountAttempt
  <2>4. pc'[r] = "debugging" /\ \A s \in Runs \ {r} : pc'[s] = pc[s]
    BY <1>0, <2>1 DEF Goto
  <2>5. QED
    BY <1>1, <2>1, <2>2, <2>3, <2>4 DEF Start, TypeOK
<1>2. ASSUME NEW r \in Runs, NEW e \in Errors, Blocked(r, e) PROVE TypeOK'
  <2>1. attempts' \in [Errors -> 0 .. MaxStarts]
    BY <1>0, <1>2, MaxStartsIsNatural DEF Blocked, CountAttempt
  <2>2. ApprovalTypeOK' /\ UNCHANGED <<pc, own, rejected, crossed>>
    BY <1>2 DEF Blocked, engineVars, ownerVars, TypeOK, ApprovalTypeOK, EngineTypeOK
  <2>3. QED
    BY <2>1, <2>2 DEF TypeOK
<1>3. CASE OwnerStep
  <2>1. ApprovalTypeOK'
    <3>1. CASE \E h \in Handlers : Execute(h) /\ UNCHANGED ownerVars
      BY <3>1, HandlersAreProcs, ExecuteKeepsTypes DEF TypeOK
    <3>2. CASE ~ \E h \in Handlers : Execute(h) /\ UNCHANGED ownerVars
      BY <1>3, <3>2, OthersKeepTypes DEF OwnerStep, TypeOK
    <3>3. QED
      BY <3>1, <3>2
  <2>2. \A r \in Runs : pc'[r] = pc[r]
    BY <1>3, OwnerLeavesRuns
  <2>3. QED
    BY <1>3, <2>1, <2>2 DEF OwnerStep, Cross, TypeOK
<1>4. CASE Restart
  <2>1. ApprovalTypeOK'
    BY <1>4, OthersKeepTypes
       DEF Restart, Environment, TypeOK
  <2>2. \A r \in Runs : pc'[r] = "idle"
    BY <1>0, <1>4 DEF Restart, Crash, LoseCoroutines
  <2>3. attempts' \in [Errors -> 0 .. MaxStarts]
    BY <1>4, MaxStartsIsNatural DEF Restart
  <2>4. QED
    BY <1>4, <2>1, <2>2, <2>3 DEF Restart, TypeOK, RunPoints
<1>5. CASE Expiry
  <2>1. ApprovalTypeOK'
    BY <1>5, OthersKeepTypes DEF Expiry, Environment, TypeOK
  <2>2. pc' = pc
    BY <1>5 DEF Expiry, PendingExpires, ChallengeExpires, engineVars
  <2>3. QED
    BY <1>5, <2>1, <2>2 DEF Expiry, runVars, TypeOK
<1>6. CASE UNCHANGED vars
  BY <1>6 DEF vars, engineVars, ownerVars, runVars, TypeOK, ApprovalTypeOK, EngineTypeOK
<1>7. QED
  BY <1>1, <1>2, <1>3, <1>4, <1>5, <1>6

\* The stages of a run: a plan goes to the sandbox once it is the run's own, and
\* a rejection takes it from the run.
LEMMA RunStepsKeepApart ==
  ASSUME RunInv, TypeOK', NEW r \in Runs, RunStep(r)
  PROVE  Apart'
<1>0. /\ r \in Procs /\ Runs \subseteq Procs
      /\ plan \in [Procs -> Plans \union {NoPlan}] /\ pc \in [Procs -> Points]
      /\ own \in [Runs -> Plans \union {NoPlan}] /\ ticket \in [Plans -> TicketStatuses]
      /\ pc[r] \notin {"idle", "debugging"} => own[r] \in Plans
      /\ rejected \subseteq Plans /\ approving \subseteq Plans
      /\ pending \in Plans \union {NoPlan}
  BY RunsAreProcs DEF RunInv, TypeOK, ApprovalTypeOK, EngineTypeOK
<1> USE <1>0, NoPlanIsNoPlan
        DEF RunInv, Apart, TicketsStay, RejectedAreOut, UntriedAreOut, OwnAreLive,
            OwnAreUnique, BeforeSandbox
<1>1. CASE StopRun(r)
  <2>1. /\ pc' = [pc EXCEPT ![r] = "idle"] /\ plan' = [plan EXCEPT ![r] = NoPlan]
        /\ own' = [own EXCEPT ![r] = NoPlan]
        /\ UNCHANGED <<pending, ticket, approving, edited, rejected>>
    BY <1>1 DEF StopRun, EndRun, Return, Goto, ownerVars
  <2>2. \A p \in Plans : OutOfReach(p) => OutOfReach(p)'
    BY <2>1 DEF OutOfReach
  <2>3. QED
    BY <2>1, <2>2 DEF TypeOK
<1>2. ASSUME NEW p \in Plans, NEW s \in {"open", "debug_analysis_ready"}, CreateTicket(r, p, s)
      PROVE  Apart'
  <2>1. /\ pc' = [pc EXCEPT ![r] = "programming"] /\ own' = [own EXCEPT ![r] = p]
        /\ ticket' = [ticket EXCEPT ![p] = s] /\ s # "none"
        /\ ticket[p] = "none" /\ pending # p /\ \A g \in Procs : plan[g] # p
        /\ \A g \in Runs : own[g] # p
        /\ UNCHANGED <<pending, plan, approving, edited, rejected>>
    BY <1>2 DEF CreateTicket, Goto, ownerVars
  <2>2. \A q \in Plans : OutOfReach(q) => OutOfReach(q)'
    BY <2>1 DEF OutOfReach
  <2>3. OutOfReach(p)' /\ p \notin rejected
    BY <2>1 DEF OutOfReach
  <2>4. QED
    BY <2>1, <2>2, <2>3 DEF TypeOK
<1>3. ASSUME UNCHANGED <<pending, plan, ticket, approving, edited, rejected, own>>,
             NEW point, pc' = [pc EXCEPT ![r] = point],
             point \in BeforeSandbox => pc[r] \in BeforeSandbox
      PROVE  Apart'
  <2>1. \A q \in Plans : OutOfReach(q) => OutOfReach(q)'
    BY <1>3 DEF OutOfReach
  <2>2. QED
    BY <1>3, <2>1 DEF TypeOK
<1>4. CASE FixGenerated(r) \/ DryRun(r) \/ QualityControlGoes(r)
  <2>1. CASE FixGenerated(r)
    BY <1>3, <2>1 DEF FixGenerated, Goto, runVars, ownerVars
  <2>2. CASE DryRun(r)
    BY <1>3, <2>2 DEF DryRun, Goto, runVars, ownerVars
  <2>3. CASE QualityControlGoes(r)
    BY <1>3, <2>3 DEF QualityControlGoes, Goto, runVars, ownerVars
  <2>4. QED
    BY <1>4, <2>1, <2>2, <2>3
<1>5. ASSUME own[r] \in Plans, NEW s \in TicketStatuses \ {"none"},
             UpdateTicketStatus(own[r], s), EndRun(r),
             UNCHANGED <<pending, ownerVars>>,
             \/ rejected' = rejected
             \/ /\ rejected' = rejected \union {own[r]} /\ OutOfReach(own[r])
                /\ s \notin {"ready_for_deploy", "deployed"}
      PROVE  Apart'
  <2>1. /\ pc' = [pc EXCEPT ![r] = "idle"] /\ plan' = [plan EXCEPT ![r] = NoPlan]
        /\ own' = [own EXCEPT ![r] = NoPlan]
        /\ UNCHANGED <<pending, approving, edited>>
    BY <1>5 DEF EndRun, Return, Goto, ownerVars
  <2>2. /\ \A q \in Plans : ticket'[q] \in {ticket[q], s}
        /\ \A q \in Plans \ {own[r]} : ticket'[q] = ticket[q]
    BY <1>5, UpdateKeepsTypes DEF RunInv
  <2>3. \A q \in Plans \ {own[r]} : OutOfReach(q) => OutOfReach(q)'
    BY <2>1, <2>2 DEF OutOfReach
  <2>4. s \notin {"ready_for_deploy", "deployed"} =>
          \A q \in {own[r]} : OutOfReach(q) => OutOfReach(q)'
    BY <1>5, <2>1, <2>2 DEF OutOfReach
  <2>5. \A q \in rejected' : OutOfReach(q)'
    BY <1>5, <2>3, <2>4
  <2>6. \A t \in Runs : pc'[t] \in BeforeSandbox => OutOfReach(own[t])'
    BY <1>5, <2>1, <2>3 DEF TypeOK
  <2>7. QED
    BY <1>5, <2>1, <2>2, <2>5, <2>6 DEF TypeOK
<1>6. CASE NoFix(r)
  BY <1>5, <1>6 DEF NoFix, TicketStatuses
<1>7. CASE QualityControlRejects(r) \/ FloorRejects(r)
  BY <1>5, <1>7
     DEF QualityControlRejects, FloorRejects, Reject, AfterRejection, TicketStatuses
<1>8. CASE SandboxFailed(r) \/ SandboxPassed(r)
  BY <1>5, <1>8 DEF SandboxFailed, SandboxPassed, TicketStatuses
<1>9. CASE EnterSandbox(r)
  <2>1. /\ pc' = [pc EXCEPT ![r] = "fetch"] /\ pending' = own[r] /\ own[r] \in Plans
        /\ UNCHANGED <<plan, ticket, approving, edited, rejected, own>>
    BY <1>9 DEF EnterSandbox, StorePending, Goto, ownerVars, runVars
  <2>2. \A q \in Plans \ {own[r]} : OutOfReach(q) => OutOfReach(q)'
    BY <2>1 DEF OutOfReach
  <2>3. QED
    BY <2>1, <2>2 DEF TypeOK
<1>10. CASE /\ Execute(r) /\ Cross
            /\ UNCHANGED <<ownerVars, attempts, own, rejected>>
  <2>1. \A q \in Plans : OutOfReach(q) => OutOfReach(q)'
    BY <1>10, ExecutionDoesNotReach DEF TypeOK
  <2>2. \A q \in Plans : ticket[q] # "none" => ticket'[q] # "none"
    BY <1>10, ExecutionKeepsTickets DEF TypeOK
  <2>3. /\ pc'[r] \notin BeforeSandbox
        /\ \A s \in Runs \ {r} : pc'[s] = pc[s]
    BY <1>10, EngineStops DEF TypeOK, EnginePoints
  <2>4. QED
    BY <1>10, <2>1, <2>2, <2>3 DEF TypeOK, ownerVars
<1>11. QED
  BY <1>1, <1>2, <1>4, <1>6, <1>7, <1>8, <1>9, <1>10 DEF RunStep

\* What the owner's turns and tickets do to a plan out of reach: the owner can
\* set its status by hand, no more.
LEMMA OwnerDoesNotReach ==
  ASSUME TypeOK, TicketsStay, Owner \/ \E h \in Handlers : Handle(h),
         NEW p \in Plans, OutOfReach(p)
  PROVE  OutOfReach(p)'
<1>0. /\ plan \in [Procs -> Plans \union {NoPlan}] /\ Handlers \subseteq Procs
      /\ ticket \in [Plans -> TicketStatuses]
  BY HandlersAreProcs DEF TypeOK, ApprovalTypeOK, EngineTypeOK
<1> USE <1>0, NoPlanIsNoPlan DEF OutOfReach
<1>1. ASSUME NEW h \in Handlers, Execute(h) /\ UNCHANGED ownerVars PROVE OutOfReach(p)'
  BY <1>1, ExecutionDoesNotReach DEF TypeOK
<1>2. ASSUME NEW h \in Handlers,
             \/ Dispatch(h) \/ AcceptAnswer(h) \/ ConsumeChallenge(h)
             \/ PassOn(h) \/ Issue(h) \/ IssueRefused(h) \/ RefuseAnswer(h)
             \/ Reply(h) \/ TimeOut(h)
      PROVE  OutOfReach(p)'
  <2>1. /\ plan' \in {plan, [plan EXCEPT ![h] = NoPlan]}
        /\ UNCHANGED <<pending, ticket, approving, edited>>
    BY <1>2 DEF Dispatch, AcceptAnswer, ConsumeChallenge, PassOn, Issue, IssueRefused,
       RefuseAnswer, Reply, TimeOut, Return, ownerVars
  <2>2. QED
    BY <2>1
<1>3. ASSUME NEW h \in Handlers, StorePlan(h) PROVE OutOfReach(p)'
  <2>1. /\ plan' = [plan EXCEPT ![h] = NoPlan] /\ pending' = plan[h]
        /\ UNCHANGED <<ticket, approving, edited>>
    BY <1>3 DEF StorePlan, StorePending, Return, ownerVars
  <2>2. QED
    BY <2>1
<1>4. ASSUME NEW h \in Handlers, NEW q \in Plans, ProposePlan(h,
q) \/ ProposeWithoutTicket(h, q)
      PROVE  OutOfReach(p)'
  <2>1. /\ q # p /\ plan' = [plan EXCEPT ![h] = q]
        /\ ticket' \in {ticket, [ticket EXCEPT ![q] = "plan_ready"]}
        /\ UNCHANGED <<pending, approving, edited>>
    BY <1>4 DEF ProposePlan, ProposeWithoutTicket, ownerVars
  <2>2. QED
    BY <2>1
<1>5. ASSUME NEW h \in Handlers, RefineRead(h) \/ \E m \in Messages : Receive(h, m)
      PROVE  OutOfReach(p)'
  <2>1. /\ plan' \in {plan, [plan EXCEPT ![h] = pending]}
        /\ UNCHANGED <<pending, ticket, approving, edited>>
    BY <1>5 DEF RefineRead, Receive, ownerVars
  <2>2. QED
    BY <2>1
<1>6. ASSUME NEW q \in Plans, ApproveRead(q) \/ ApproveWrite(q) PROVE OutOfReach(p)'
  <2>1. CASE ApproveRead(q)
    BY <2>1 DEF ApproveRead, engineVars
  <2>2. CASE ApproveWrite(q)
    BY <2>2 DEF ApproveWrite
  <2>3. QED
    BY <1>6, <2>1, <2>2
<1>7. ASSUME NEW q \in Plans, NEW s \in Edits, EditTicket(q, s) PROVE OutOfReach(p)'
  <2>1. s # "none"
    BY EditsAreEditable DEF EditableStatuses
  <2>2. QED
    BY <1>7, <2>1 DEF EditTicket
<1>8. QED
  BY <1>1, <1>2, <1>3, <1>4, <1>5, <1>6, <1>7 DEF Owner, Handle

\* Tickets stay, the owner's being approved too.
LEMMA OwnerKeepsTickets ==
  ASSUME TypeOK, TicketsStay, Owner \/ \E h \in Handlers : Handle(h)
  PROVE  TicketsStay'
<1>0. /\ ticket \in [Plans -> TicketStatuses] /\ approving \subseteq Plans
      /\ Handlers \subseteq Procs
  BY HandlersAreProcs DEF TypeOK, ApprovalTypeOK, EngineTypeOK
<1> USE <1>0 DEF TicketsStay
<1>1. ASSUME NEW h \in Handlers, Execute(h) /\ UNCHANGED ownerVars PROVE TicketsStay'
  BY <1>1, ExecutionKeepsTickets DEF TypeOK, ownerVars
<1>2. ASSUME NEW h \in Handlers,
             \/ Dispatch(h) \/ AcceptAnswer(h) \/ ConsumeChallenge(h)
             \/ PassOn(h) \/ Issue(h) \/ IssueRefused(h) \/ RefuseAnswer(h)
             \/ Reply(h) \/ TimeOut(h) \/ StorePlan(h)
             \/ RefineRead(h) \/ \E m \in Messages : Receive(h, m)
      PROVE  TicketsStay'
  <2>1. UNCHANGED <<ticket, approving>>
    BY <1>2 DEF Dispatch, AcceptAnswer, ConsumeChallenge, PassOn, Issue, IssueRefused,
       RefuseAnswer, Reply, TimeOut, StorePlan, RefineRead, Receive, ownerVars
  <2>2. QED
    BY <2>1
<1>3. ASSUME NEW h \in Handlers, NEW q \in Plans, ProposePlan(h,
q) \/ ProposeWithoutTicket(h, q)
      PROVE  TicketsStay'
  BY <1>3 DEF ProposePlan, ProposeWithoutTicket, ownerVars
<1>4. ASSUME NEW q \in Plans, ApproveRead(q) \/ ApproveWrite(q) PROVE TicketsStay'
  BY <1>4 DEF ApproveRead, ApproveWrite, engineVars
<1>5. ASSUME NEW q \in Plans, NEW s \in Edits, EditTicket(q, s) PROVE TicketsStay'
  BY <1>5, EditsAreEditable DEF EditTicket, EditableStatuses
<1>6. QED
  BY <1>1, <1>2, <1>3, <1>4, <1>5 DEF Owner, Handle

\* The steps that are not a run's.
LEMMA OtherStepsKeepApart ==
  ASSUME RunInv, TypeOK',
         \/ \E r \in Runs, e \in Errors : Start(r, e) \/ Blocked(r, e)
         \/ OwnerStep \/ Restart \/ Expiry
         \/ UNCHANGED vars
  PROVE  Apart'
<1>0. /\ Runs \subseteq Procs /\ pc \in [Procs -> Points]
      /\ plan \in [Procs -> Plans \union {NoPlan}]
      /\ rejected \subseteq Plans
      /\ \A r \in Runs : pc[r] \in BeforeSandbox => own[r] \in Plans
  BY RunsAreProcs DEF RunInv, TypeOK, ApprovalTypeOK, EngineTypeOK, BeforeSandbox
<1> USE <1>0, NoPlanIsNoPlan
        DEF RunInv, Apart, TicketsStay, RejectedAreOut, UntriedAreOut, OwnAreLive, OwnAreUnique
<1>1. ASSUME NEW r \in Runs, NEW e \in Errors, Start(r, e) \/ Blocked(r, e) PROVE Apart'
  <2>1. /\ pc' \in {pc, [pc EXCEPT ![r] = "debugging"]}
        /\ UNCHANGED <<plan, pending, ticket, approving, edited, rejected, own>>
    BY <1>1 DEF Start, Blocked, Goto, engineVars, ownerVars
  <2>2. \A q \in Plans : OutOfReach(q) => OutOfReach(q)'
    BY <2>1 DEF OutOfReach
  <2>3. QED
    BY <2>1, <2>2 DEF BeforeSandbox
<1>2. CASE OwnerStep
  <2>1. \A q \in Plans : OutOfReach(q) => OutOfReach(q)'
    BY <1>2, OwnerDoesNotReach DEF OwnerStep
  <2>2. TicketsStay'
    BY <1>2, OwnerKeepsTickets DEF OwnerStep
  <2>3. /\ \A r \in Runs : pc'[r] = pc[r]
        /\ UNCHANGED <<own, rejected>>
    BY <1>2, OwnerLeavesRuns DEF OwnerStep
  <2>4. QED
    BY <2>1, <2>2, <2>3
<1>3. CASE Restart
  <2>1. /\ pc' = [h \in Procs |-> "idle"] /\ plan' = [h \in Procs |-> NoPlan]
        /\ own' = [r \in Runs |-> NoPlan]
        /\ UNCHANGED <<pending, ticket, approving, edited, rejected>>
    BY <1>3 DEF Restart, Crash, LoseCoroutines, ownerVars
  <2>2. \A q \in Plans : OutOfReach(q) => OutOfReach(q)'
    BY <2>1 DEF OutOfReach
  <2>3. QED
    BY <2>1, <2>2 DEF BeforeSandbox
<1>4. CASE Expiry
  <2>1. /\ pending' \in {pending, NoPlan}
        /\ UNCHANGED <<pc, plan, ticket, approving, edited, own, rejected>>
    BY <1>4 DEF Expiry, PendingExpires, ChallengeExpires, engineVars, ownerVars, runVars
  <2>2. \A q \in Plans : OutOfReach(q) => OutOfReach(q)'
    BY <2>1 DEF OutOfReach
  <2>3. QED
    BY <2>1, <2>2
<1>5. CASE UNCHANGED vars
  BY <1>5 DEF vars, engineVars, ownerVars, runVars, OutOfReach
<1>6. QED
  BY <1>1, <1>2, <1>3, <1>4, <1>5

\* At first nothing is proposed, turned down or under way.
LEMMA RunsStartApart == Init => RunInv
<1> SUFFICES ASSUME Init PROVE RunInv
  OBVIOUS
<1>1. ApprovalTypeOK
  BY ApprovalStartsSafe DEF Init, ApprovalInv
<1>2. /\ \A h \in Procs : pc[h] = "idle"
      /\ approving = {} /\ rejected = {} /\ crossed = {} /\ Runs \subseteq Procs
  BY RunsAreProcs DEF Init, ApprovalInit, EngineInit
<1>3. TypeOK
  BY <1>1, <1>2, MaxStartsIsNatural DEF Init, TypeOK, RunPoints
<1>4. Apart
  BY <1>2 DEF Init, Apart, TicketsStay, RejectedAreOut, UntriedAreOut, OwnAreLive,
     OwnAreUnique, BeforeSandbox
<1>5. QED
  BY <1>3, <1>4 DEF RunInv

\* Plans that were turned down are out of reach, in every reachable state.
THEOREM RunInvariant == Spec => []RunInv
<1>1. RunInv /\ [Next]_vars => RunInv'
  <2> SUFFICES ASSUME RunInv, [Next]_vars PROVE RunInv'
    OBVIOUS
  <2>1. ASSUME NEW r \in Runs, RunStep(r) PROVE RunInv'
    BY <2>1, RunStepsKeepTypes, RunStepsKeepApart DEF RunInv
  <2>2. CASE \/ \E r \in Runs, e \in Errors : Start(r, e) \/ Blocked(r, e)
             \/ OwnerStep \/ Restart \/ Expiry
             \/ UNCHANGED vars
    BY <2>2, OtherStepsKeepTypes, OtherStepsKeepApart DEF RunInv
  <2>3. QED
    BY <2>1, <2>2 DEF Next
<1>2. QED
  BY <1>1, RunsStartApart, PTL DEF Spec

\* A fix that was turned down is not called ready or deployed later, whatever the
\* owner's turns, other runs, crashes and lost updates do, but by hand.
THEOREM RejectedFixesNeverShip == Spec => []RejectedNeverShips
<1>1. RunInv => RejectedNeverShips
  BY DEF RunInv, Apart, RejectedAreOut, OutOfReach, RejectedNeverShips
<1>2. QED
  BY <1>1, RunInvariant, PTL

-----------------------------------------------------------------------------
(* What is called ready or deployed, with any number of executions under   *)
(* way: the owner's, of any number of turns, and those of the pipeline's   *)
(* sandboxes.  The argument is about one plan p that no execution got in   *)
(* the way of.  Whoever has verified p holds it until it says so on a      *)
(* ticket, and one execution verifies p at a time; so where p is promised  *)
(* or held, the backup of whoever verifies p once more was taken with p in *)
(* the files, and rolling back to it does not take p out.                  *)

\* Points of an execution that has read its plan and not given up on it.
Executing == {"apply", "verify", "record", "clear", "applied"}

\* A ticket says that p is in the files, or is about to.
Promised(p) ==
  /\ p \notin edited
  /\ ticket[p] \in {"ready_for_deploy", "deployed"} \/ p \in approving

Verifies(h, p) == pc[h] = "verify" /\ plan[h] = p
Holds(h, p) == pc[h] \in {"record", "clear", "applied"} /\ plan[h] = p
IsHeld(p) == \E h \in Procs : Holds(h, p)

PromisedIsLive(p) == Promised(p) => IsLive(p)
AppliedIsLive(p) == \A h \in Procs : Verifies(h, p) \/ Holds(h, p) => IsLive(p)
SandboxRunsItsOwn(p) == \A r \in Runs : own[r] = p /\ pc[r] \in Executing => plan[r] = p
OneVerifies(p) == \A g, h \in Procs : Verifies(g, p) /\ Verifies(h, p) => g = h
BackupHasPromised(p) ==
  \A h \in Procs : Verifies(h, p) /\ (Promised(p) \/ IsHeld(p)) =>
    \A f \in Targets(p) : backup[h][f][p] > 0

PlanStands(p) ==
  /\ PromisedIsLive(p)
  /\ AppliedIsLive(p)
  /\ SandboxRunsItsOwn(p)
  /\ OneVerifies(p)
  /\ BackupHasPromised(p)

ReadyInv == RunInv /\ \A p \in Plans \ crossed : PlanStands(p)

\* A step after which nobody verifies p who did not before, nobody holds it who had
\* not verified it, and nobody promises it who did not hold it.
LEMMA SomeStepsKeepStanding ==
  ASSUME NEW p \in Plans, PlanStands(p),
         IsLive(p) /\ (Promised(p) \/ IsHeld(p) \/ \E h \in Procs : Verifies(h, p)')
           => IsLive(p)',
         Promised(p)' => Promised(p) \/ IsHeld(p),
         \A h \in Procs : Verifies(h, p)' => Verifies(h, p) /\ backup'[h] = backup[h],
         \A h \in Procs : Holds(h, p)' => Holds(h, p) \/ (Verifies(h, p) /\ IsLive(p)'),
         \A r \in Runs : own'[r] = p /\ pc'[r] \in Executing => plan'[r] = p
  PROVE  PlanStands(p)'
<1>1. \A h \in Procs : Verifies(h, p)' => ~Holds(h, p)'
  BY DEF Verifies, Holds
<1>2. IsHeld(p) => IsLive(p)
  BY DEF IsHeld, PlanStands, AppliedIsLive
<1>3. PromisedIsLive(p)'
  BY <1>2 DEF PlanStands, PromisedIsLive
<1>4. AppliedIsLive(p)'
  BY <1>2 DEF PlanStands, AppliedIsLive, IsHeld
<1>5. SandboxRunsItsOwn(p)'
  BY DEF SandboxRunsItsOwn
<1>6. OneVerifies(p)'
  BY DEF PlanStands, OneVerifies
<1>7. BackupHasPromised(p)'
  <2> SUFFICES ASSUME NEW h \in Procs, Verifies(h, p)', Promised(p)' \/ IsHeld(p)',
                      NEW f \in Targets(p)
               PROVE  backup'[h][f][p] > 0
    BY DEF BackupHasPromised, Targets
  <2>1. Verifies(h, p) /\ backup'[h] = backup[h]
    OBVIOUS
  <2>2. IsHeld(p)' => IsHeld(p)
    <3>1. ASSUME NEW g \in Procs, Holds(g, p)' PROVE Holds(g, p)
      <4>1. Verifies(g, p) => g = h
        BY <2>1 DEF PlanStands, OneVerifies
      <4> QED
        BY <1>1, <3>1, <4>1
    <3> QED
      BY <3>1 DEF IsHeld
  <2> QED
    BY <2>1, <2>2 DEF PlanStands, BackupHasPromised
<1> QED
  BY <1>3, <1>4, <1>5, <1>6, <1>7 DEF PlanStands

\* A step of one coroutine outside of its execution, or out of it.
LEMMA LeavingKeepsStanding ==
  ASSUME NEW p \in Plans, PlanStands(p), NEW h \in Procs,
         IsLive(p) => IsLive(p)',
         Promised(p)' => Promised(p) \/ IsHeld(p),
         pc'[h] \notin Executing,
         \A g \in Procs \ {h} :
           pc'[g] = pc[g] /\ plan'[g] = plan[g] /\ backup'[g] = backup[g],
         \A r \in Runs \ {h} : own'[r] = own[r]
  PROVE  PlanStands(p)'
<1>1. \A g \in Procs : Verifies(g, p)' => Verifies(g, p) /\ backup'[g] = backup[g]
  BY DEF Verifies, Executing
<1>2. \A g \in Procs : Holds(g, p)' => Holds(g, p)
  BY DEF Holds, Executing
<1>3. \A r \in Runs : own'[r] = p /\ pc'[r] \in Executing => plan'[r] = p
  BY RunsAreProcs DEF PlanStands, SandboxRunsItsOwn
<1> QED
  BY <1>1, <1>2, <1>3, SomeStepsKeepStanding

\* A step that moves nobody.
LEMMA RestingKeepsStanding ==
  ASSUME NEW p \in Plans, PlanStands(p), UNCHANGED <<disk, pc, plan, backup, own>>,
         Promised(p)' => Promised(p) \/ IsHeld(p)
  PROVE  PlanStands(p)'
<1>1. IsLive(p) => IsLive(p)'
  BY DEF IsLive
<1>2. \A g \in Procs : Verifies(g, p)' => Verifies(g, p) /\ backup'[g] = backup[g]
  BY DEF Verifies
<1>3. \A g \in Procs : Holds(g, p)' => Holds(g, p)
  BY DEF Holds
<1>4. \A r \in Runs : own'[r] = p /\ pc'[r] \in Executing => plan'[r] = p
  BY DEF PlanStands, SandboxRunsItsOwn
<1> QED
  BY <1>1, <1>2, <1>3, <1>4, SomeStepsKeepStanding

\* A plan that stays out of crossed was not got in the way of by the step.
LEMMA NotCrossed ==
  ASSUME NEW p \in Plans, p \notin crossed', Cross, NEW h \in Procs
  PROVE  ~TakesOut(h, p) /\ ~AppliesTwice(h, p) /\ ~Mistakes(h, p)
BY DEF Cross

\* Applying the diff takes a backup of what is promised and puts the plan into its files.
LEMMA ApplyingKeepsStanding ==
  ASSUME ApprovalTypeOK, NEW h \in Procs, NEW p \in Plans, PlanStands(p),
         ApplyDiff(h), Cross, p \notin crossed', UNCHANGED <<ownerVars, own>>
  PROVE  PlanStands(p)'
<1>1. /\ pc[h] = "apply" /\ pc' = [pc EXCEPT ![h] = "verify"] /\ pc'[h] = "verify"
      /\ backup' = [backup EXCEPT ![h] = disk] /\ backup'[h] = disk
      /\ \A g \in Procs \ {h} : pc'[g] = pc[g] /\ backup'[g] = backup[g]
      /\ UNCHANGED <<plan, ticket, approving, edited, own>>
  BY DEF ApplyDiff, KeepBackup, Goto, ApprovalTypeOK, EngineTypeOK, ownerVars
<1>2. /\ plan[h] \in Plans /\ disk \in [Files -> Texts] /\ disk' \in [Files -> Texts]
      /\ \A f \in Files, q \in Plans : disk'[f][q] >= disk[f][q]
      /\ Targets(plan[h]) \subseteq Files
      /\ \A f \in Targets(plan[h]) : disk'[f][plan[h]] > 0
  <2>1. plan[h] \in Plans /\ disk \in [Files -> Texts] /\ Targets(plan[h]) \subseteq Files
    BY <1>1 DEF ApprovalTypeOK, EngineTypeOK, EnginePoints, Targets
  <2> QED
    BY <2>1, PatchedGrows DEF ApplyDiff, WriteAll
<1>3. IsLive(p) => IsLive(p)'
  BY <1>2, LiveStaysLive
<1>4. (Promised(p)' <=> Promised(p)) /\ \A g \in Procs : Holds(g, p)' <=> Holds(g, p)
  BY <1>1 DEF Promised, Holds
<1>5. \A g \in Procs \ {h} : Verifies(g, p)' <=> Verifies(g, p)
  BY <1>1 DEF Verifies
<1>6. \A r \in Runs : own'[r] = p /\ pc'[r] \in Executing => plan'[r] = p
  BY <1>1, RunsAreProcs DEF PlanStands, SandboxRunsItsOwn, Executing
<1>7. CASE plan[h] # p
  <2>1. ~Verifies(h, p)'
    BY <1>1, <1>7 DEF Verifies
  <2> QED
    BY <1>1, <1>3, <1>4, <1>5, <1>6, <2>1, SomeStepsKeepStanding
<1>8. CASE plan[h] = p
  <2>1. IsLive(p)'
    BY <1>2, <1>8 DEF IsLive
  <2>2. \A g \in Procs \ {h} : ~Verifies(g, p)
    <3>1. ~AppliesTwice(h, p)
      BY NotCrossed
    <3> QED
      BY <1>1, <1>8, <3>1 DEF AppliesTwice, Verifies
  <2>3. PromisedIsLive(p)' /\ AppliedIsLive(p)' /\ SandboxRunsItsOwn(p)'
    BY <1>6, <2>1 DEF PromisedIsLive, AppliedIsLive, SandboxRunsItsOwn
  <2>4. OneVerifies(p)'
    BY <1>5, <2>2 DEF OneVerifies
  <2>5. Promised(p)' \/ IsHeld(p)' => IsLive(p)
    BY <1>4 DEF PlanStands, PromisedIsLive, AppliedIsLive, IsHeld
  <2>6. IsLive(p) => \A f \in Targets(p) : backup'[h][f][p] > 0
    BY <1>1 DEF IsLive
  <2>7. BackupHasPromised(p)'
    BY <1>5, <2>2, <2>5, <2>6 DEF BackupHasPromised, Targets
  <2> QED
    BY <2>3, <2>4, <2>7 DEF PlanStands
<1> QED
  BY <1>7, <1>8

\* A rollback takes out its own plan, unless that is promised or held by another.
LEMMA RollbackKeepsStanding ==
  ASSUME ApprovalTypeOK, NEW h \in Procs, NEW p \in Plans, PlanStands(p),
         VerifyFails(h), Cross, p \notin crossed', UNCHANGED <<ownerVars, own>>
  PROVE  PlanStands(p)'
<1>1. /\ pc[h] = "verify" /\ pc'[h] = "failed"
      /\ \A g \in Procs \ {h} : pc'[g] = pc[g]
      /\ UNCHANGED <<plan, backup, ticket, approving, edited, own>>
  BY DEF VerifyFails, Goto, ApprovalTypeOK, EngineTypeOK, ownerVars
<1>2. \A f \in Files : disk'[f] \in {disk[f], backup[h][f]}
  <2>1. PICK back \in SUBSET Targets(plan[h]) : disk' = Restored(h, back)
    BY DEF VerifyFails
  <2>2. back \in SUBSET Files
    BY DEF Targets
  <2> QED
    BY <2>1, <2>2, RestoredIsText DEF ApprovalTypeOK, EngineTypeOK
<1>3. \A g \in Procs : Verifies(g, p)' => Verifies(g, p) /\ g # h
  BY <1>1 DEF Verifies
<1>4. \A g \in Procs : Holds(g, p)' => Holds(g, p)
  BY <1>1 DEF Holds
<1>5. Promised(p)' => Promised(p)
  BY <1>1 DEF Promised
<1>6. IsLive(p) /\ (Promised(p) \/ IsHeld(p) \/ \E g \in Procs : Verifies(g, p)') => IsLive(p)'
  <2>1. CASE plan[h] # p
    <3>1. ~TakesOut(h, p)
      BY NotCrossed
    <3> QED
      BY <1>1, <2>1, <3>1 DEF TakesOut
  <2>2. CASE plan[h] = p
    <3>1. Verifies(h, p)
      BY <1>1, <2>2 DEF Verifies
    <3>2. ~ \E g \in Procs : Verifies(g, p)'
      BY <1>3, <3>1 DEF PlanStands, OneVerifies
    <3>3. Promised(p) \/ IsHeld(p) => \A f \in Targets(p) : backup[h][f][p] > 0
      BY <3>1 DEF PlanStands, BackupHasPromised
    <3>4. Targets(p) \subseteq Files
      BY DEF Targets
    <3>5. IsLive(p) /\ (\A f \in Targets(p) : backup[h][f][p] > 0) => IsLive(p)'
      BY <1>2, <3>4 DEF IsLive, Targets
    <3> QED
      BY <3>2, <3>3, <3>5
  <2> QED
    BY <2>1, <2>2
<1>7. \A r \in Runs : own'[r] = p /\ pc'[r] \in Executing => plan'[r] = p
  BY <1>1, RunsAreProcs DEF PlanStands, SandboxRunsItsOwn, Executing
<1> QED
  BY <1>1, <1>3, <1>4, <1>5, <1>6, <1>7, SomeStepsKeepStanding

\* Every step of an execution.
LEMMA ExecutingKeepsStanding ==
  ASSUME ApprovalTypeOK, NEW h \in Procs, NEW p \in Plans, PlanStands(p),
         Execute(h), Cross, p \notin crossed', UNCHANGED <<ownerVars, own>>
  PROVE  PlanStands(p)'
<1>0. /\ pc \in [Procs -> Points] /\ plan \in [Procs -> Plans \union {NoPlan}]
      /\ backup \in [Procs -> [Files -> Texts]] /\ ticket \in [Plans -> TicketStatuses]
      /\ disk \in [Files -> Texts] /\ faults \in 0 .. MaxFaults
      /\ (pc[h] = "apply" => plan[h] \in Plans)
      /\ UNCHANGED <<approving, edited, own>>
  BY DEF ApprovalTypeOK, EngineTypeOK, EnginePoints, ownerVars
<1>1. ASSUME NEW point, point \notin Executing, Goto(h, point), UNCHANGED <<plan, ticket>>,
             IsLive(p) => IsLive(p)',
             backup' \in {backup, [backup EXCEPT ![h] = disk]}
      PROVE  PlanStands(p)'
  <2>1. pc'[h] = point /\ \A g \in Procs \ {h} : pc'[g] = pc[g] /\ backup'[g] = backup[g]
    BY <1>0, <1>1 DEF Goto
  <2>2. Promised(p)' => Promised(p)
    BY <1>0, <1>1 DEF Promised
  <2> QED
    BY <1>0, <1>1, <2>1, <2>2, LeavingKeepsStanding
<1>2. CASE FetchNothing(h) \/ VerifyRaises(h)
  <2>1. Goto(h, "failed") /\ UNCHANGED <<plan, ticket, disk, backup>>
    BY <1>2 DEF FetchNothing, VerifyRaises
  <2>2. IsLive(p) => IsLive(p)'
    BY <2>1 DEF IsLive
  <2> QED
    BY <1>1, <2>1, <2>2 DEF Executing
<1>3. CASE ApplyFails(h)
  <2>1. /\ Goto(h, "failed") /\ UNCHANGED <<plan, ticket>> /\ plan[h] \in Plans
        /\ WriteSome(plan[h]) /\ backup' = [backup EXCEPT ![h] = disk]
    BY <1>0, <1>3 DEF ApplyFails, KeepBackup
  <2>2. IsLive(p) => IsLive(p)'
    BY <1>0, <2>1, WritingGrows, LiveStaysLive
  <2> QED
    BY <1>1, <2>1, <2>2 DEF Executing
<1>4. CASE FetchPlan(h)
  <2>1. /\ pc[h] = "fetch" /\ pc'[h] = "apply"
        /\ UNCHANGED <<disk, ticket, backup>>
        /\ \A g \in Procs \ {h} : pc'[g] = pc[g] /\ plan'[g] = plan[g]
    BY <1>0, <1>4 DEF FetchPlan, Goto
  <2>2. \A r \in Runs : own'[r] = p /\ pc'[r] \in Executing => plan'[r] = p
    <3>1. ~Mistakes(h, p)
      BY NotCrossed
    <3> QED
      BY <1>0, <2>1, <3>1, RunsAreProcs DEF Mistakes, PlanStands, SandboxRunsItsOwn
  <2>3. IsLive(p) => IsLive(p)'
    BY <2>1 DEF IsLive
  <2>4. Promised(p)' => Promised(p)
    BY <1>0, <2>1 DEF Promised
  <2>5. \A g \in Procs : (Verifies(g, p)' => Verifies(g, p)) /\ (Holds(g, p)' => Holds(g, p))
    BY <2>1 DEF Verifies, Holds
  <2> QED
    BY <2>1, <2>2, <2>3, <2>4, <2>5, SomeStepsKeepStanding
<1>5. CASE VerifyPasses(h) \/ Record(h) \/ RecordFails(h) \/ Clear(h)
  <2>1. /\ UNCHANGED <<disk, plan, backup>>
        /\ \A g \in Procs \ {h} : pc'[g] = pc[g]
        /\ \/ pc[h] = "verify" /\ pc'[h] = "record" /\ ticket' = ticket
           \/ /\ pc[h] = "record" /\ pc'[h] = "clear"
              /\ \A q \in Plans : q # plan[h] => ticket'[q] = ticket[q]
           \/ pc[h] = "clear" /\ pc'[h] = "applied" /\ ticket' = ticket
    BY <1>0, <1>5 DEF VerifyPasses, Record, RecordFails, Clear, Goto
  <2>2. IsLive(p) => IsLive(p)'
    BY <2>1 DEF IsLive
  <2>3. \A g \in Procs : /\ Verifies(g, p)' => Verifies(g, p)
                         /\ Holds(g, p)' => Holds(g, p) \/ Verifies(g, p)
    BY <2>1 DEF Verifies, Holds
  <2>4. Promised(p)' => Promised(p) \/ IsHeld(p)
    BY <1>0, <2>1 DEF Promised, IsHeld, Holds
  <2>5. \A r \in Runs : own'[r] = p /\ pc'[r] \in Executing => plan'[r] = p
    BY <1>0, <2>1, RunsAreProcs DEF PlanStands, SandboxRunsItsOwn, Executing
  <2>6. \A g \in Procs : Verifies(g, p) => IsLive(p)'
    BY <2>2 DEF PlanStands, AppliedIsLive
  <2> QED
    BY <2>1, <2>2, <2>3, <2>4, <2>5, <2>6, SomeStepsKeepStanding
<1>6. CASE ApplyDiff(h)
  BY <1>0, <1>6, ApplyingKeepsStanding
<1>7. CASE VerifyFails(h)
  BY <1>0, <1>7, RollbackKeepsStanding
<1> QED
  BY <1>2, <1>3, <1>4, <1>5, <1>6, <1>7 DEF Execute

\* Every stage of a run: it says ready only of what it holds.
LEMMA RunStepsKeepStanding ==
  ASSUME TypeOK, NEW r \in Runs, RunStep(r), NEW p \in Plans, p \notin crossed', PlanStands(p)
  PROVE  PlanStands(p)'
<1>0. /\ ApprovalTypeOK /\ r \in Procs /\ Runs \subseteq Procs
      /\ pc \in [Procs -> Points] /\ plan \in [Procs -> Plans \union {NoPlan}]
      /\ backup \in [Procs -> [Files -> Texts]] /\ ticket \in [Plans -> TicketStatuses]
      /\ disk \in [Files -> Texts] /\ faults \in 0 .. MaxFaults
      /\ own \in [Runs -> Plans \union {NoPlan}]
      /\ pc[r] \notin {"idle", "debugging"} => own[r] \in Plans
  BY RunsAreProcs DEF TypeOK, ApprovalTypeOK, EngineTypeOK
<1>1. ASSUME NEW point, point \notin Executing, Goto(r, point),
             plan' \in {plan, [plan EXCEPT ![r] = NoPlan]},
             backup' \in {backup, [backup EXCEPT ![r] = NoBackup]},
             \A s \in Runs \ {r} : own'[s] = own[s],
             IsLive(p) => IsLive(p)', Promised(p)' => Promised(p) \/ IsHeld(p)
      PROVE  PlanStands(p)'
  <2>1. /\ pc'[r] \notin Executing
        /\ \A g \in Procs \ {r} :
             pc'[g] = pc[g] /\ plan'[g] = plan[g] /\ backup'[g] = backup[g]
    BY <1>0, <1>1 DEF Goto
  <2> QED
    BY <1>0, <1>1, <2>1, LeavingKeepsStanding
<1>2. ASSUME EndRun(r), disk' = disk, Promised(p)' => Promised(p) \/ IsHeld(p)
      PROVE  PlanStands(p)'
  <2>1. /\ Goto(r, "idle") /\ plan' = [plan EXCEPT ![r] = NoPlan]
        /\ backup' = [backup EXCEPT ![r] = NoBackup]
        /\ \A s \in Runs \ {r} : own'[s] = own[s]
    BY <1>0, <1>2 DEF EndRun, Return
  <2>2. IsLive(p) => IsLive(p)'
    BY <1>2 DEF IsLive
  <2> QED
    BY <1>1, <1>2, <2>1, <2>2 DEF Executing
<1>3. ASSUME UNCHANGED <<plan, backup, ticket, approving, edited, own>>,
             NEW point, point \notin Executing, Goto(r, point), IsLive(p) => IsLive(p)'
      PROVE  PlanStands(p)'
  <2>1. Promised(p)' => Promised(p)
    BY <1>3 DEF Promised
  <2> QED
    BY <1>1, <1>3, <2>1
<1>4. CASE StopRun(r)
  <2>1. Promised(p)' => Promised(p)
    BY <1>4 DEF StopRun, Promised, ownerVars
  <2> QED
    BY <1>2, <1>4, <2>1 DEF StopRun
<1>5. ASSUME NEW q \in Plans, NEW s \in {"open", "debug_analysis_ready"}, CreateTicket(r, q, s)
      PROVE  PlanStands(p)'
  <2>1. /\ Goto(r, "programming") /\ own' = [own EXCEPT ![r] = q]
        /\ ticket' = [ticket EXCEPT ![q] = s]
        /\ UNCHANGED <<disk, plan, backup, approving, edited>>
    BY <1>5 DEF CreateTicket, ownerVars
  <2>2. IsLive(p) => IsLive(p)'
    BY <2>1 DEF IsLive
  <2>3. Promised(p)' => Promised(p)
    BY <1>0, <2>1 DEF Promised
  <2>4. \A t \in Runs \ {r} : own'[t] = own[t]
    BY <1>0, <2>1
  <2> QED
    BY <1>1, <2>1, <2>2, <2>3, <2>4 DEF Executing
<1>6. CASE FixGenerated(r) \/ QualityControlGoes(r) \/ EnterSandbox(r)
  <2>1. /\ UNCHANGED <<disk, plan, backup, ticket, approving, edited, own>>
        /\ Goto(r, "dry_run") \/ Goto(r, "flooring") \/ Goto(r, "fetch")
    BY <1>6 DEF FixGenerated, QualityControlGoes, EnterSandbox, ownerVars, runVars
  <2>2. IsLive(p) => IsLive(p)'
    BY <2>1 DEF IsLive
  <2> QED
    BY <1>3, <2>1, <2>2 DEF Executing
<1>7. CASE DryRun(r)
  <2>1. /\ UNCHANGED <<plan, backup, ticket, approving, edited, own>>
        /\ Goto(r, "validating") /\ own[r] \in Plans
        /\ WriteAll(own[r]) \/ WriteSome(own[r])
    BY <1>0, <1>7 DEF DryRun, ownerVars, runVars
  <2>2. IsLive(p) => IsLive(p)'
    BY <1>0, <2>1, WritingGrows, LiveStaysLive
  <2> QED
    BY <1>3, <2>1, <2>2 DEF Executing
<1>8. ASSUME NEW s \in TicketStatuses \ {"none", "ready_for_deploy", "deployed"},
             own[r] \in Plans, UpdateTicketStatus(own[r], s),
             EndRun(r), UNCHANGED <<disk, ownerVars>>
      PROVE  PlanStands(p)'
  <2>1. ticket'[p] \in {ticket[p], s} /\ UNCHANGED <<approving, edited>>
    BY <1>8, UpdateKeepsTypes DEF ownerVars
  <2>2. Promised(p)' => Promised(p)
    BY <1>8, <2>1 DEF Promised
  <2> QED
    BY <1>2, <1>8, <2>2
<1>9. CASE NoFix(r) \/ SandboxFailed(r)
  BY <1>0, <1>8, <1>9 DEF NoFix, SandboxFailed, TicketStatuses
<1>10. CASE QualityControlRejects(r) \/ FloorRejects(r)
  BY <1>0, <1>8, <1>10
     DEF QualityControlRejects, FloorRejects, Reject, AfterRejection, TicketStatuses
<1>11. CASE SandboxPassed(r)
  <2>1. /\ pc[r] = "applied" /\ own[r] \in Plans /\ EndRun(r) /\ UNCHANGED <<disk, ownerVars>>
        /\ UpdateTicketStatus(own[r], "ready_for_deploy")
    BY <1>0, <1>11 DEF SandboxPassed
  <2>2. own[r] = p => IsHeld(p)
    BY <1>0, <2>1 DEF PlanStands, SandboxRunsItsOwn, Executing, IsHeld, Holds
  <2>3. own[r] # p => ticket'[p] = ticket[p]
    BY <2>1, UpdateKeepsTypes DEF TicketStatuses
  <2>4. Promised(p)' => Promised(p) \/ IsHeld(p)
    BY <2>1, <2>2, <2>3 DEF Promised, ownerVars
  <2> QED
    BY <1>2, <2>1, <2>4
<1>12. CASE /\ Execute(r) /\ Cross
            /\ UNCHANGED <<ownerVars, attempts, own, rejected>>
  BY <1>0, <1>12, ExecutingKeepsStanding
<1> QED
  BY <1>4, <1>5, <1>6, <1>7, <1>9, <1>10, <1>11, <1>12 DEF RunStep

\* The owner's turns and tickets: approve says deployed of what is promised.
LEMMA OwnerKeepsStanding ==
  ASSUME TypeOK, OwnerStep, NEW p \in Plans, p \notin crossed', PlanStands(p)
  PROVE  PlanStands(p)'
<1>0. /\ ApprovalTypeOK /\ Handlers \subseteq Procs /\ Runs \intersect Handlers = {}
      /\ pc \in [Procs -> Points] /\ plan \in [Procs -> Plans \union {NoPlan}]
      /\ backup \in [Procs -> [Files -> Texts]] /\ ticket \in [Plans -> TicketStatuses]
      /\ Cross /\ own' = own
  BY RunsAreProcs, HandlersAreProcs DEF TypeOK, ApprovalTypeOK, EngineTypeOK, OwnerStep
<1>1. ASSUME NEW h \in Handlers, NEW point, point \notin Executing, Goto(h, point),
             \/ plan' = plan
             \/ \E q \in Plans \union {NoPlan} : plan' = [plan EXCEPT ![h] = q],
             backup' \in {backup, [backup EXCEPT ![h] = NoBackup]},
             disk' = disk, Promised(p)' => Promised(p)
      PROVE  PlanStands(p)'
  <2>1. /\ h \in Procs /\ pc'[h] \notin Executing
        /\ \A g \in Procs \ {h} :
             pc'[g] = pc[g] /\ plan'[g] = plan[g] /\ backup'[g] = backup[g]
    BY <1>0, <1>1 DEF Goto
  <2>2. IsLive(p) => IsLive(p)'
    BY <1>1 DEF IsLive
  <2> QED
    BY <1>0, <1>1, <2>1, <2>2, LeavingKeepsStanding
<1>2. ASSUME NEW h \in Handlers, Execute(h) /\ UNCHANGED ownerVars PROVE PlanStands(p)'
  BY <1>0, <1>2, ExecutingKeepsStanding
<1>3. ASSUME NEW h \in Handlers,
             Dispatch(h) \/ AcceptAnswer(h) \/ ConsumeChallenge(h)
             \/ \E m \in Messages : Receive(h, m)
      PROVE  PlanStands(p)'
  <2>1. /\ \E point \in {"received", "issuing", "checking", "consuming", "fetch"} : Goto(h, point)
        /\ UNCHANGED <<disk, plan, backup, ticket, approving, edited>>
    BY <1>3 DEF Dispatch, AcceptAnswer, ConsumeChallenge, Receive, ownerVars
  <2>2. Promised(p)' => Promised(p)
    BY <2>1 DEF Promised
  <2> QED
    BY <1>1, <2>1, <2>2 DEF Executing
<1>4. ASSUME NEW h \in Handlers,
             \/ PassOn(h) \/ Issue(h) \/ IssueRefused(h) \/ RefuseAnswer(h)
             \/ Reply(h) \/ TimeOut(h) \/ StorePlan(h)
      PROVE  PlanStands(p)'
  <2>1. /\ Goto(h, "idle") /\ plan' = [plan EXCEPT ![h] = NoPlan]
        /\ backup' = [backup EXCEPT ![h] = NoBackup]
        /\ UNCHANGED <<disk, ticket, approving, edited>>
    BY <1>4 DEF PassOn, Issue, IssueRefused, RefuseAnswer, Reply, TimeOut, StorePlan, Return,
       ownerVars
  <2>2. Promised(p)' => Promised(p)
    BY <2>1 DEF Promised
  <2> QED
    BY <1>1, <2>1, <2>2 DEF Executing
<1>5. ASSUME NEW h \in Handlers, NEW q \in Plans, ProposePlan(h, q) \/ ProposeWithoutTicket(h, q)
      PROVE  PlanStands(p)'
  <2>1. /\ Goto(h, "storing") /\ plan' = [plan EXCEPT ![h] = q]
        /\ ticket' \in {ticket, [ticket EXCEPT ![q] = "plan_ready"]}
        /\ UNCHANGED <<disk, backup, approving, edited>>
    BY <1>5 DEF ProposePlan, ProposeWithoutTicket, ownerVars
  <2>2. Promised(p)' => Promised(p)
    BY <1>0, <2>1 DEF Promised
  <2> QED
    BY <1>1, <2>1, <2>2 DEF Executing
<1>6. ASSUME NEW h \in Handlers, RefineRead(h) PROVE PlanStands(p)'
  <2>1. /\ Goto(h, "storing") /\ plan' = [plan EXCEPT ![h] = pending]
        /\ pending \in Plans \union {NoPlan}
        /\ UNCHANGED <<disk, backup, ticket, approving, edited>>
    BY <1>6 DEF RefineRead, ownerVars, TypeOK, ApprovalTypeOK, EngineTypeOK
  <2>2. Promised(p)' => Promised(p)
    BY <2>1 DEF Promised
  <2> QED
    BY <1>1, <2>1, <2>2 DEF Executing
<1>7. ASSUME UNCHANGED <<disk, pc, plan, backup>>, Promised(p)' => Promised(p)
      PROVE  PlanStands(p)'
  BY <1>0, <1>7, RestingKeepsStanding
<1>8. ASSUME NEW q \in Plans, ApproveRead(q) \/ ApproveWrite(q) PROVE PlanStands(p)'
  <2>1. UNCHANGED <<disk, pc, plan, backup, edited>>
    BY <1>8 DEF ApproveRead, ApproveWrite, engineVars
  <2>2. CASE ApproveRead(q)
    <3>1. Promised(p)' => Promised(p)
      BY <2>2 DEF ApproveRead, engineVars, Promised
    <3> QED
      BY <1>7, <2>1, <3>1
  <2>3. CASE ApproveWrite(q)
    <3>1. Promised(p)' => Promised(p)
      BY <1>0, <2>3 DEF ApproveWrite, Promised
    <3> QED
      BY <1>7, <2>1, <3>1
  <2> QED
    BY <1>8, <2>2, <2>3
<1>9. ASSUME NEW q \in Plans, NEW s \in Edits, EditTicket(q, s) PROVE PlanStands(p)'
  <2>1. UNCHANGED <<disk, pc, plan, backup>>
    BY <1>9 DEF EditTicket
  <2>2. Promised(p)' => Promised(p)
    BY <1>0, <1>9 DEF EditTicket, Promised
  <2> QED
    BY <1>7, <2>1, <2>2
<1> QED
  BY <1>2, <1>3, <1>4, <1>5, <1>6, <1>8, <1>9 DEF OwnerStep, Owner, Handle

\* The steps that are neither a run's nor the owner's.
LEMMA OtherStepsKeepStanding ==
  ASSUME TypeOK, NEW p \in Plans, PlanStands(p),
         \/ \E r \in Runs, e \in Errors : Start(r, e) \/ Blocked(r, e)
         \/ Restart \/ Expiry \/ UNCHANGED vars
  PROVE  PlanStands(p)'
<1>0. UNCHANGED <<disk, ticket, approving, edited>>
  BY DEF Start, Blocked, Restart, Crash, LoseCoroutines, Expiry, PendingExpires, ChallengeExpires,
     vars, engineVars, ownerVars
<1>1. (IsLive(p) => IsLive(p)') /\ (Promised(p)' => Promised(p))
  BY <1>0 DEF IsLive, Promised
<1>2. ASSUME NEW r \in Runs, NEW e \in Errors, Start(r, e) PROVE PlanStands(p)'
  <2>1. /\ r \in Procs /\ pc'[r] = "debugging" /\ UNCHANGED <<plan, backup, own>>
        /\ \A g \in Procs \ {r} : pc'[g] = pc[g]
    BY <1>2, RunsAreProcs DEF Start, Goto, TypeOK, ApprovalTypeOK, EngineTypeOK
  <2> QED
    BY <1>1, <2>1, LeavingKeepsStanding DEF Executing
<1>3. CASE \/ \E r \in Runs, e \in Errors : Blocked(r, e)
           \/ Expiry \/ UNCHANGED vars
  <2>1. UNCHANGED <<pc, plan, backup, own>>
    BY <1>3 DEF Blocked, Expiry, PendingExpires, ChallengeExpires, vars, engineVars, ownerVars,
       runVars
  <2> QED
    BY <1>0, <1>1, <2>1, RestingKeepsStanding
<1>4. CASE Restart
  <2>1. \A h \in Procs : pc'[h] = "idle"
    BY <1>4 DEF Restart, Crash, LoseCoroutines
  <2>2. \A h \in Procs : ~Verifies(h, p)' /\ ~Holds(h, p)'
    BY <2>1 DEF Verifies, Holds
  <2>3. \A r \in Runs : pc'[r] \notin Executing
    BY <2>1, RunsAreProcs DEF Executing
  <2> QED
    BY <1>1, <2>2, <2>3, SomeStepsKeepStanding
<1> QED
  BY <1>2, <1>3, <1>4

\* What nothing got in the way of stands, in every reachable state.
THEOREM ReadyInvariant == Spec => []ReadyInv
<1>1. Init => ReadyInv
  <2> SUFFICES ASSUME Init PROVE ReadyInv
    OBVIOUS
  <2>1. /\ \A h \in Procs : pc[h] = "idle"
        /\ \A p \in Plans : ticket[p] = "none" /\ p \notin approving
        /\ Runs \subseteq Procs
    BY RunsAreProcs DEF Init, ApprovalInit, EngineInit
  <2>2. \A p \in Plans : PlanStands(p)
    BY <2>1 DEF PlanStands, PromisedIsLive, Promised, AppliedIsLive, Verifies, Holds,
       SandboxRunsItsOwn, Executing, OneVerifies, BackupHasPromised
  <2> QED
    BY <2>2, RunsStartApart DEF ReadyInv
<1>2. RunInv' /\ ReadyInv /\ [Next]_vars => ReadyInv'
  <2> SUFFICES ASSUME RunInv', ReadyInv, [Next]_vars, NEW p \in Plans, p \notin crossed'
               PROVE  PlanStands(p)'
    BY DEF ReadyInv
  <2>1. TypeOK
    BY DEF ReadyInv, RunInv
  <2>2. crossed \subseteq crossed'
    BY DEF Next, Start, Blocked, RunStep, StopRun, CreateTicket, NoFix, FixGenerated, DryRun,
       QualityControlRejects, FloorRejects, Reject, QualityControlGoes, EnterSandbox,
       SandboxFailed, SandboxPassed, OwnerStep, Restart, Expiry, Cross, runVars, vars
  <2>3. PlanStands(p)
    BY <2>2 DEF ReadyInv
  <2>4. ASSUME NEW r \in Runs, RunStep(r) PROVE PlanStands(p)'
    BY <2>1, <2>3, <2>4, RunStepsKeepStanding
  <2>5. CASE OwnerStep
    BY <2>1, <2>3, <2>5, OwnerKeepsStanding
  <2>6. CASE \/ \E r \in Runs, e \in Errors : Start(r, e) \/ Blocked(r, e)
             \/ Restart \/ Expiry \/ UNCHANGED vars
    BY <2>1, <2>3, <2>6, OtherStepsKeepStanding
  <2> QED
    BY <2>4, <2>5, <2>6 DEF Next
<1> QED
  BY <1>1, <1>2, RunInvariant, PTL DEF Spec

\* What the pipeline calls ready or deployed is in every file, for any number of runs and
\* of turns of the owner that execute plans at the same time, and whatever fails, crashes
\* or times out: but for what the owner set by hand, and for plans that a rollback of another
\* took out, that two executions applied at once, or whose sandbox executed another one.
THEOREM ReadyFixesAreLive == Spec => []ReadyIsLive
<1>1. ReadyInv => ReadyIsLive
  BY DEF ReadyInv, PlanStands, PromisedIsLive, Promised, ReadyIsLive
<1> QED
  BY <1>1, ReadyInvariant, PTL
==============================================================================
