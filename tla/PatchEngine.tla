----------------------------- MODULE PatchEngine -----------------------------
(***************************************************************************)
(* The part of src/src/repair/engine.py that changes files on disk:        *)
(* execute_pending_repair with _apply_unified_diff, its verification       *)
(* commands and _rollback_patch, over the one pending-repair slot of the   *)
(* owner in Redis (memory/conversation.py).                                *)
(*                                                                         *)
(* A plan stands for one stored repair plan: its diff, its verification    *)
(* commands and its ticket.  The text of a file is abstracted to how many  *)
(* times the hunks of each plan are in it, which is what tells a patched   *)
(* file from an original one, and a patched file from one patched twice.   *)
(*                                                                         *)
(* This module has the actions of one execution; the modules that extend   *)
(* it add the callers and say how the processes interleave.                *)
(***************************************************************************)
EXTENDS Naturals, FiniteSets

CONSTANTS
  Procs,     \* coroutines that can execute the pending plan
  Plans,     \* repair plans, each with a diff and a ticket
  Files,     \* files of the repository
  HunkKind,  \* what each plan's diff does to each file
  NoPlan,    \* an empty slot
  MaxFaults  \* bound: failed reads and writes of files and tickets, and crashes

\* "replace" hunks find their lines once; after that the lines are gone.
\* "insert" hunks find their context again and again.  "stale" hunks never do.
HunkKinds == {"none", "replace", "insert", "stale"}

ASSUME HunkKindIsTyped == HunkKind \in [Plans -> [Files -> HunkKinds]]
ASSUME NoPlanIsNoPlan == NoPlan \notin Plans
ASSUME MaxFaultsIsNatural == MaxFaults \in Nat

VARIABLES
  disk,     \* for each file, how often each plan's hunks are in it
  pending,  \* the plan under pending_repair:<owner> in Redis
  ticket,   \* status of each plan's repair_tickets row, "none" before the insert
  pc,       \* how far each coroutine has come
  plan,     \* the plan each coroutine read or is about to store
  backup,   \* the bytes each coroutine would roll back to
  faults    \* failures so far

engineVars == <<disk, pending, ticket, pc, plan, backup, faults>>

Texts == [Plans -> Nat]
Original == [p \in Plans |-> 0]
NoBackup == [f \in Files |-> Original]

\* RepairTicket.status
TicketStatuses ==
  {"none", "open", "debug_analysis_ready", "plan_ready", "verifying",
   "verification_failed", "ready_for_deploy", "deployed", "closed"}

EnginePoints == {"fetch", "apply", "verify", "record", "clear", "applied", "failed"}

\* Where the callers of this module can be besides: the owner's messages of
\* RepairApproval and the runs of RepairPipeline.
OwnerPoints == {"idle", "storing", "received", "issuing", "checking", "consuming"}
RunPoints == {"idle", "debugging", "programming", "dry_run", "validating", "flooring"}
Points == EnginePoints \union OwnerPoints \union RunPoints

EngineInit ==
  /\ disk = [f \in Files |-> Original]
  /\ pending = NoPlan
  /\ ticket = [p \in Plans |-> "none"]
  /\ pc = [h \in Procs |-> "idle"]
  /\ plan = [h \in Procs |-> NoPlan]
  /\ backup = [h \in Procs |-> NoBackup]
  /\ faults = 0

Fault ==
  /\ faults < MaxFaults
  /\ faults' = faults + 1

Goto(h, point) == pc' = [pc EXCEPT ![h] = point]

\* The coroutine ends and its local variables with it.
Return(h) ==
  /\ Goto(h, "idle")
  /\ plan' = [plan EXCEPT ![h] = NoPlan]
  /\ backup' = [backup EXCEPT ![h] = NoBackup]

-----------------------------------------------------------------------------
(* _apply_unified_diff and _rollback_patch                                 *)

Targets(p) == {f \in Files : HunkKind[p][f] # "none"}

\* The search for the old lines of every hunk of the file succeeds.
Matches(p, f) ==
  \/ HunkKind[p][f] = "insert"
  \/ HunkKind[p][f] = "replace" /\ disk[f][p] = 0

AllMatch(p) == \A f \in Targets(p) : Matches(p, f)

Patched(p, files) ==
  [f \in Files |-> IF f \in files
                     THEN [disk[f] EXCEPT ![p] = disk[f][p] + 1]
                     ELSE disk[f]]

\* A rollback for which no original bytes were kept.
RestoredEmpty(h, files) ==
  [f \in Files |-> IF f \in files THEN Original ELSE disk[f]]

Restored(h, files) ==
  [f \in Files |-> IF f \in files THEN backup[h][f] ELSE disk[f]]

\* Every file of the diff is patched and written.
WriteAll(p) ==
  /\ AllMatch(p)
  /\ disk' = Patched(p, Targets(p))
  /\ UNCHANGED faults

\* A hunk no longer matches, or a file cannot be read or written: the files
\* that come before it in the diff have been written by then.
WriteSome(p) ==
  \E written \in SUBSET {f \in Targets(p) : Matches(p, f)} :
    /\ written # Targets(p)
    /\ IF AllMatch(p) THEN Fault ELSE UNCHANGED faults
    /\ disk' = Patched(p, written)

-----------------------------------------------------------------------------
(* execute_pending_repair, one action for each stretch between two awaits  *)

\* A payload nobody looked at.
SlotUnchecked == TRUE

SlotHoldsPlan == pending # NoPlan

FetchNothing(h) ==
  /\ pc[h] = "fetch"
  /\ ~SlotHoldsPlan
  /\ Goto(h, "failed")
  /\ UNCHANGED <<disk, pending, ticket, plan, backup, faults>>

FetchPlan(h) ==
  /\ pc[h] = "fetch"
  /\ SlotHoldsPlan
  /\ plan' = [plan EXCEPT ![h] = pending]
  /\ Goto(h, "apply")
  /\ UNCHANGED <<disk, pending, ticket, backup, faults>>

KeepBackup(h) == backup' = [backup EXCEPT ![h] = disk]

ApplyDiff(h) ==
  /\ pc[h] = "apply"
  /\ WriteAll(plan[h])
  /\ KeepBackup(h)
  /\ Goto(h, "verify")
  /\ UNCHANGED <<pending, ticket, plan>>

\* A diff half applied that is verified and recorded all the same.
ApplyShrugsOff(h) ==
  /\ pc[h] = "apply"
  /\ WriteSome(plan[h])
  /\ KeepBackup(h)
  /\ Goto(h, "verify")
  /\ UNCHANGED <<pending, ticket, plan>>

ApplyFails(h) ==
  /\ pc[h] = "apply"
  /\ WriteSome(plan[h])
  /\ KeepBackup(h)
  /\ Goto(h, "failed")
  /\ UNCHANGED <<pending, ticket, plan>>

\* All the commands exit with 0, or there are none.
VerifyPasses(h) ==
  /\ pc[h] = "verify"
  /\ Goto(h, "record")
  /\ UNCHANGED <<disk, pending, ticket, plan, backup, faults>>

\* A command exits with another code; a file that cannot be written back is
\* logged and left.
VerifyFails(h) ==
  /\ pc[h] = "verify"
  /\ \E back \in SUBSET Targets(plan[h]) :
       /\ IF back = Targets(plan[h]) THEN UNCHANGED faults ELSE Fault
       /\ disk' = Restored(h, back)
  /\ Goto(h, "failed")
  /\ UNCHANGED <<pending, ticket, plan, backup>>

\* _validate_command refuses a command the sandbox stored unchecked, or the
\* program of a command is not installed: the exception leaves the function.
VerifyRaises(h) ==
  /\ pc[h] = "verify"
  /\ Goto(h, "failed")
  /\ UNCHANGED <<disk, pending, ticket, plan, backup, faults>>

\* The ticket, a new one if the plan has none, becomes deployed.
Record(h) ==
  /\ pc[h] = "record"
  /\ ticket' = [ticket EXCEPT ![plan[h]] = "deployed"]
  /\ Goto(h, "clear")
  /\ UNCHANGED <<disk, pending, plan, backup, faults>>

\* A failure of the database is swallowed.
RecordFails(h) ==
  /\ pc[h] = "record"
  /\ Fault
  /\ Goto(h, "clear")
  /\ UNCHANGED <<disk, pending, ticket, plan, backup>>

Clear(h) ==
  /\ pc[h] = "clear"
  /\ pending' = NoPlan
  /\ Goto(h, "applied")
  /\ UNCHANGED <<disk, ticket, plan, backup, faults>>

Execute(h) ==
  \/ FetchNothing(h) \/ FetchPlan(h)
  \/ ApplyDiff(h) \/ ApplyFails(h)
  \/ VerifyPasses(h) \/ VerifyFails(h) \/ VerifyRaises(h)
  \/ Record(h) \/ RecordFails(h)
  \/ Clear(h)

-----------------------------------------------------------------------------
(* The slot                                                                *)

\* store_pending_repair: the newest plan takes the slot.
StorePending(p) == pending' = p

\* The slot lives for SESSION_TTL.
PendingExpires ==
  /\ pending # NoPlan
  /\ pending' = NoPlan
  /\ UNCHANGED <<disk, ticket, pc, plan, backup, faults>>

\* What a crash of the bot loses: the coroutines.  Redis, the database and the
\* files stay as they are.
LoseCoroutines ==
  /\ Fault
  /\ pc' = [h \in Procs |-> "idle"]
  /\ plan' = [h \in Procs |-> NoPlan]
  /\ backup' = [h \in Procs |-> NoBackup]
  /\ UNCHANGED <<disk, pending, ticket>>

IsLive(p) == \A f \in Targets(p) : disk[f][p] > 0

EngineTypeOK ==
  /\ disk \in [Files -> Texts]
  /\ pending \in Plans \union {NoPlan}
  /\ ticket \in [Plans -> TicketStatuses]
  /\ pc \in [Procs -> Points]
  /\ plan \in [Procs -> Plans \union {NoPlan}]
  /\ \A h \in Procs : pc[h] \in EnginePoints \ {"fetch", "failed"} => plan[h] \in Plans
  /\ backup \in [Procs -> [Files -> Texts]]
  /\ faults \in 0 .. MaxFaults
=============================================================================
