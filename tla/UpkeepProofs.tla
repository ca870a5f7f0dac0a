----------------------------- MODULE UpkeepProofs -----------------------------
(***************************************************************************)
(* The two parts of UpkeepMC, for any constants: no schedule outlives its  *)
(* row unnoticed, and no two workers hold one ticket of the repair queue.  *)
(***************************************************************************)
EXTENDS UpkeepMC, TLAPS

-----------------------------------------------------------------------------
(* Scheduled tasks: the type invariant and NoGhosts.                       *)

\* An actor at rest has a state.
LEMMA IdleIsAnOp == Idle \in Ops
BY DEF Idle, Ops, Phases

\* So has a pass that is not running.
LEMMA NoSyncIsASync == NoSync \in Syncs
BY DEF NoSync, Syncs, RowStates

\* What an actor becomes is an operation, and the others stay as they are.
LEMMA BecomeTypes ==
  ASSUME NEW a \in Actors, NEW pc \in Phases, NEW ids \in SUBSET Schedules,
         op \in [Actors -> Ops], Become(a, pc, ids)
  PROVE  /\ op' \in [Actors -> Ops]
         /\ op'[a].pc = pc /\ op'[a].ids = ids
         /\ \A b \in Actors \ {a} : op'[b] = op[b]
BY DEF Become, Ops

\* Of the operations, TypeOK asks that they are such and hold only ids given out.
OpsAreTyped ==
  /\ op \in [Actors -> Ops]
  /\ \A a \in Actors : op[a].pc = "removing" => op[a].ids # {}
  /\ \A t \in Tasks \ issued : \A a \in Actors : t \notin op[a].ids

\* The change of one operation keeps that.
LEMMA BecomeKeepsOps ==
  ASSUME NEW a \in Actors, NEW pc \in Phases, NEW ids \in SUBSET Schedules,
         OpsAreTyped, Become(a, pc, ids), issued \subseteq issued',
         pc = "removing" => ids # {}, ids \intersect Tasks \subseteq issued'
  PROVE  OpsAreTyped'
<1>1. /\ op' \in [Actors -> Ops]
      /\ op'[a].pc = pc /\ op'[a].ids = ids
      /\ \A b \in Actors \ {a} : op'[b] = op[b]
  BY BecomeTypes DEF OpsAreTyped
<1>2. ASSUME NEW b \in Actors, op'[b].pc = "removing" PROVE op'[b].ids # {}
  BY <1>1, <1>2 DEF OpsAreTyped
<1>3. ASSUME NEW t \in Tasks \ issued', NEW b \in Actors PROVE t \notin op'[b].ids
  BY <1>1 DEF OpsAreTyped
<1> QED
  BY <1>1, <1>2, <1>3 DEF OpsAreTyped

\* Pausing writes rows, and only such as there are.
LEMMA DeactivatedTypes ==
  ASSUME row \in [Tasks -> RowStates], NEW ids
  PROVE  /\ Deactivated(ids) \in [Tasks -> RowStates]
         /\ \A t \in Tasks : (Deactivated(ids)[t] = "none") <=> (row[t] = "none")
BY DEF Deactivated, RowStates

\* Every variable stays in its range, through every operation, pass and fault.
THEOREM TypeCorrect == Spec => []TypeOK
<1>1. Init => TypeOK
  BY IdleIsAnOp, NoSyncIsASync, BoundsAreNatural, SyncJobIsNoTask
     DEF Init, TypeOK, OnlyIssued, RowStates, Schedules, Idle, NoSync
<1>2. TypeOK /\ [Next]_vars => TypeOK'
  <2> SUFFICES ASSUME TypeOK, [Next]_vars PROVE TypeOK'
    OBVIOUS
  <2> USE BoundsAreNatural, SyncJobIsNoTask
  <2> USE DEF TypeOK, OnlyIssued, Schedules
  <2>0. OpsAreTyped
    BY DEF OpsAreTyped
  <2>1. ASSUME NEW a \in Chats, NEW t \in Tasks, AddSchedule(a, t) PROVE TypeOK'
    <3>1. a \in Actors /\ {t} \in SUBSET Schedules /\ "creating" \in Phases
      BY DEF Actors, Phases
    <3>2. Become(a, "creating", {t}) /\ issued' = issued \union {t}
      BY <2>1 DEF AddSchedule
    <3>3. OpsAreTyped'
      BY <2>0, <3>1, <3>2, BecomeKeepsOps
    <3> QED
      BY <2>1, <3>3 DEF AddSchedule, Request, OpsAreTyped
  <2>2. ASSUME NEW a \in Actors, InsertRow(a) PROVE TypeOK'
    <3>1. {} \in SUBSET Schedules /\ "idle" \in Phases
      BY DEF Phases
    <3>2. row' \in [Tasks -> RowStates] /\ \A t \in Tasks \ issued : row'[t] = row[t]
      BY <2>2 DEF InsertRow, RowStates
    <3>3. OpsAreTyped'
      BY <2>0, <2>2, <3>1, BecomeKeepsOps DEF InsertRow
    <3> QED
      BY <2>2, <3>2, <3>3 DEF InsertRow, OpsAreTyped
  <2>3. ASSUME NEW a \in Chats, NEW t \in Tasks,
               CancelTool(a, t) \/ CancelToolMisses(a, t)
        PROVE  TypeOK'
    <3>1. a \in Actors /\ {t} \in SUBSET Schedules /\ "writing" \in Phases
      BY DEF Actors, Phases
    <3>2. /\ Become(a, "writing", {t}) /\ t \in issued
          /\ schedules' \subseteq schedules
          /\ UNCHANGED <<row, issued, due, sync, up, fired, exposed>>
      BY <2>3 DEF CancelTool, CancelToolMisses, tables
    <3>3. requests' \in 0 .. MaxRequests /\ faults' \in 0 .. MaxFaults
      BY <2>3 DEF CancelTool, CancelToolMisses, Request, Fault
    <3>4. OpsAreTyped'
      BY <2>0, <3>1, <3>2, BecomeKeepsOps
    <3> QED
      BY <3>2, <3>3, <3>4 DEF OpsAreTyped
  <2>4. ASSUME NEW a \in Actors, Deactivate(a) PROVE TypeOK'
    <3>1. {} \in SUBSET Schedules /\ "idle" \in Phases
      BY DEF Phases
    <3>2. OpsAreTyped'
      BY <2>0, <2>4, <3>1, BecomeKeepsOps DEF Deactivate
    <3>3. /\ row' \in [Tasks -> RowStates]
          /\ \A t \in Tasks : row[t] = "none" => row'[t] = "none"
      BY <2>4, DeactivatedTypes DEF Deactivate
    <3> QED
      BY <2>4, <3>2, <3>3 DEF Deactivate, OpsAreTyped
  <2>5. ASSUME NEW a \in Actors, NEW t \in Tasks, CancelCommand(a, t) \/ Pause(a, t)
        PROVE  TypeOK'
    <3>1. {t} \in SUBSET Schedules /\ "removing" \in Phases
      BY DEF Phases
    <3>2. Become(a, "removing", {t}) /\ row' = Deactivated({t}) /\ t \in issued
      BY <2>5 DEF CancelCommand, Pause
    <3>3. /\ requests' \in 0 .. MaxRequests
          /\ UNCHANGED <<schedules, issued, due, sync, up, faults, fired, exposed>>
      BY <2>5 DEF CancelCommand, Pause, Request
    <3>4. OpsAreTyped'
      BY <2>0, <3>1, <3>2, <3>3, BecomeKeepsOps
    <3>5. /\ row' \in [Tasks -> RowStates]
          /\ \A s \in Tasks : row[s] = "none" => row'[s] = "none"
      BY <3>2, DeactivatedTypes
    <3> QED
      BY <3>3, <3>4, <3>5 DEF OpsAreTyped
  <2>6. ASSUME NEW a \in Dashboards, NEW t \in Tasks, Resume(a, t) PROVE TypeOK'
    <3>1. row' \in [Tasks -> RowStates] /\ \A s \in Tasks \ {t} : row'[s] = row[s]
      BY <2>6 DEF Resume, RowStates
    <3> QED
      BY <2>6, <3>1 DEF Resume, Request
  <2>21. ASSUME NEW a \in Dashboards, NEW ts \in SUBSET Tasks, CreateRows(a, ts)
         PROVE  TypeOK'
    <3>1. row' \in [Tasks -> RowStates] /\ \A s \in Tasks \ ts : row'[s] = row[s]
      BY <2>21 DEF CreateRows, RowStates
    <3> QED
      BY <2>21, <3>1 DEF CreateRows, Request
  <2>7. ASSUME NEW a \in Dashboards, NEW t \in Tasks, Delete(a, t) PROVE TypeOK'
    <3>1. a \in Actors /\ {t} \in SUBSET Schedules /\ "removing" \in Phases
      BY DEF Actors, Phases
    <3>2. row' \in [Tasks -> RowStates] /\ \A s \in Tasks \ {t} : row'[s] = row[s]
      BY <2>7 DEF Delete, RowStates
    <3>3. Become(a, "removing", {t}) /\ t \in issued /\ issued' = issued
      BY <2>7 DEF Delete
    <3>4. OpsAreTyped'
      BY <2>0, <3>1, <3>3, BecomeKeepsOps
    <3> QED
      BY <2>7, <3>2, <3>3, <3>4 DEF Delete, Request, OpsAreTyped
  <2>8. ASSUME NEW a \in Actors, NEW id \in Schedules,
               RemoveSchedule(a, id) \/ RemovalFails(a, id)
        PROVE  TypeOK'
    <3> DEFINE ids == op[a].ids \ {id}
    <3>1. op[a] \in Ops
      OBVIOUS
    <3>2. ids \in SUBSET Schedules
      BY <3>1 DEF Ops
    <3>3. PICK pc \in {"idle", "removing"} : /\ Become(a, pc, ids)
                                             /\ pc = "removing" => ids # {}
      BY <2>8 DEF RemoveSchedule, RemovalFails, RemoveRest
    <3>4. /\ op' \in [Actors -> Ops]
          /\ \A b \in Actors : op'[b].ids \subseteq op[b].ids
          /\ \A b \in Actors : op'[b].pc = "removing" => op'[b].ids # {}
      <4>1. pc \in Phases /\ op \in [Actors -> Ops]
        BY <3>3 DEF Phases
      <4>2. /\ op' \in [Actors -> Ops] /\ op'[a].pc = pc /\ op'[a].ids = ids
            /\ \A b \in Actors \ {a} : op'[b] = op[b]
        BY <3>2, <3>3, <4>1, BecomeTypes
      <4> QED
        BY <3>3, <4>2
    <3>5. /\ schedules' \subseteq schedules
          /\ faults' \in 0 .. MaxFaults /\ exposed' \subseteq Tasks
          /\ UNCHANGED <<row, issued, due, sync, up, requests, fired>>
      BY <2>8 DEF RemoveSchedule, RemovalFails, Fault, tables
    <3> QED
      BY <3>4, <3>5
  <2>9. ASSUME NEW a \in Dashboards, AuditSchedules(a) \/ AuditReadFails(a) PROVE TypeOK'
    <3>1. a \in Actors /\ {} \in SUBSET Schedules /\ schedules \in SUBSET Schedules
          /\ "auditing" \in Phases
      BY DEF Actors, Phases
    <3>2. /\ Become(a, "auditing", {}) \/ Become(a, "auditing", schedules)
          /\ UNCHANGED <<row, schedules, issued, due, sync, up, fired, exposed>>
      BY <2>9 DEF AuditSchedules, AuditReadFails, tables
    <3>3. requests' \in 0 .. MaxRequests /\ faults' \in 0 .. MaxFaults
      BY <2>9 DEF AuditSchedules, AuditReadFails, Request, Fault
    <3>4. OpsAreTyped'
      BY <2>0, <3>1, <3>2, BecomeKeepsOps
    <3> QED
      BY <3>2, <3>3, <3>4 DEF OpsAreTyped
  <2>10. ASSUME NEW a \in Actors, AuditRows(a) PROVE TypeOK'
    <3> DEFINE dead == FiredOrStale(op[a].ids)
               ghosts == {id \in op[a].ids : id \in Tasks => row[id] = "none"}
    <3>1. dead \in SUBSET Tasks
      BY OneShotsAreTasks DEF FiredOrStale
    <3>2. ghosts \in SUBSET Schedules /\ ghosts \subseteq op[a].ids
      BY DEF Ops
    <3>3. op' = [op EXCEPT ![a] = [pc |-> "committing", ids |-> ghosts, dead |-> dead]]
      BY <2>10 DEF AuditRows
    <3>4. /\ op' \in [Actors -> Ops]
          /\ \A b \in Actors : op'[b].ids \subseteq op[b].ids
          /\ \A b \in Actors : op'[b].pc = "removing" => op'[b].ids # {}
      BY <3>1, <3>2, <3>3 DEF Ops, Phases
    <3>5. /\ schedules' \subseteq schedules
          /\ UNCHANGED <<row, issued, due, sync, up, requests, faults, fired, exposed>>
      BY <2>10 DEF AuditRows
    <3> QED
      BY <3>4, <3>5
  <2>11. ASSUME NEW a \in Actors, AuditCommit(a) PROVE TypeOK'
    <3>1. op[a].ids \in SUBSET Schedules /\ op[a].dead \in SUBSET Tasks
      BY DEF Ops
    <3>2. PICK pc \in {"idle", "removing"} : /\ Become(a, pc, op[a].ids)
                                             /\ pc = "removing" => op[a].ids # {}
      BY <2>11 DEF AuditCommit, RemoveRest
    <3>3. /\ op' \in [Actors -> Ops]
          /\ \A b \in Actors : op'[b].ids \subseteq op[b].ids
          /\ \A b \in Actors : op'[b].pc = "removing" => op'[b].ids # {}
      BY <3>1, <3>2, BecomeTypes DEF Phases
    <3>4. row' \in [Tasks -> RowStates] /\ \A t \in Tasks : row[t] = "none" => row'[t] = "none"
      BY <2>11 DEF AuditCommit, RowStates
    <3>5. /\ exposed' \subseteq Tasks
          /\ UNCHANGED <<schedules, issued, due, sync, up, requests, faults, fired>>
      BY <2>11, <3>1 DEF AuditCommit
    <3> QED
      BY <3>3, <3>4, <3>5
  <2>12. CASE SyncReadsRows
    BY <2>12 DEF SyncReadsRows, Syncs, tables
  <2>13. CASE SyncReadsSchedules
    <3>1. \A t \in Tasks : Wanted(sync.seen[t], t \in schedules) \in {"add", "remove", "none"}
      BY DEF Wanted
    <3>2. \A t \in Tasks : sync.seen[t] = "none" => Wanted(sync.seen[t], t \in schedules) = "none"
      BY DEF Wanted
    <3>3. /\ sync'.pc = "applying" /\ sync' \in Syncs
          /\ \A t \in Tasks : sync'.seen[t] = Wanted(sync.seen[t], t \in schedules)
      BY <2>13, <3>1 DEF SyncReadsSchedules, Syncs, RowStates
    <3> QED
      BY <2>13, <3>2, <3>3 DEF SyncReadsSchedules, tables
  <2>14. ASSUME NEW t \in Tasks, SyncApplies(t) \/ SyncPassesOver(t) PROVE TypeOK'
    <3>1. sync' = [sync EXCEPT !.seen[t] = "none"] /\ t \in issued
      BY <2>14 DEF SyncApplies, SyncPassesOver
    <3>2. /\ sync' \in Syncs
          /\ \A s \in Tasks : sync'.seen[s] = "none" \/ sync'.seen[s] = sync.seen[s]
      BY <3>1 DEF Syncs, RowStates
    <3>3. schedules' \subseteq schedules \union {t}
      BY <2>14 DEF SyncApplies, SyncPassesOver, tables
    <3>4. /\ faults' \in 0 .. MaxFaults
          /\ UNCHANGED <<row, issued, due, op, up, requests, fired, exposed>>
      BY <2>14 DEF SyncApplies, SyncPassesOver, Fault, tables
    <3> QED
      BY <3>1, <3>2, <3>3, <3>4
  <2>15. CASE SyncEnds \/ SyncFails
    <3>1. sync' = NoSync /\ faults' \in 0 .. MaxFaults
      BY <2>15 DEF SyncEnds, SyncFails, Fault
    <3>2. UNCHANGED <<row, schedules, issued, due, op, up, requests, fired, exposed>>
      BY <2>15 DEF SyncEnds, SyncFails, tables
    <3> QED
      BY <3>1, <3>2, NoSyncIsASync DEF NoSync
  <2>16. ASSUME NEW t \in OneShots, TimeComes(t) \/ Fire(t) PROVE TypeOK'
    <3>1. t \in Tasks
      BY OneShotsAreTasks
    <3>2. fired' \in [Tasks -> 0 .. 2]
      BY <2>16, <3>1 DEF TimeComes, Fire
    <3> QED
      BY <2>16, <3>1, <3>2 DEF TimeComes, Fire, tables
  <2>17. ASSUME NEW a \in Actors, Lose(a) PROVE TypeOK'
    <3>1. {} \in SUBSET Schedules /\ "idle" \in Phases
      BY DEF Phases
    <3>2. Become(a, "idle", {}) /\ issued' = issued
      BY <2>17 DEF Lose, tables
    <3>3. OpsAreTyped'
      BY <2>0, <3>1, <3>2, BecomeKeepsOps
    <3> QED
      BY <2>17, <3>3 DEF Lose, Left, Fault, tables, OpsAreTyped
  <2>18. CASE Crash
    <3>1. op' \in [Actors -> Ops] /\ \A a \in Actors : op'[a] = Idle \/ op'[a] = op[a]
      BY <2>18, IdleIsAnOp DEF Crash
    <3>2. exposed' \subseteq Tasks
      BY <2>18 DEF Crash, Left
    <3>3. sync' \in Syncs /\ \A t \in Tasks : sync'.seen[t] = "none"
      BY <2>18, NoSyncIsASync DEF Crash, NoSync
    <3>4. up' \in BOOLEAN
      BY <2>18, Zenon DEF Crash
    <3>5. /\ faults' \in 0 .. MaxFaults
          /\ UNCHANGED <<row, schedules, issued, due, requests, fired>>
      <4>1. faults < MaxFaults /\ faults' = faults + 1
        BY <2>18, Zenon DEF Crash, Fault
      <4>2. UNCHANGED <<row, schedules, issued, due, requests, fired>>
        BY <2>18, Zenon DEF Crash, tables
      <4> QED
        BY <4>1, <4>2
    <3> QED
      BY <3>1, <3>2, <3>3, <3>4, <3>5 DEF Idle
  <2>19. CASE Restart
    <3>1. /\ schedules' \subseteq Schedules
          /\ \A t \in Tasks : t \in schedules' => t \in schedules
      BY <2>19 DEF Restart
    <3>2. up' \in BOOLEAN
      BY <2>19 DEF Restart
    <3> QED
      BY <2>19, <3>1, <3>2 DEF Restart
  <2>20. CASE UNCHANGED vars
    BY <2>20 DEF vars
  <2> QED
    BY <2>1, <2>2, <2>3, <2>4, <2>5, <2>6, <2>7, <2>8, <2>9, <2>10, <2>11, <2>12, <2>13,
       <2>14, <2>15, <2>16, <2>17, <2>18, <2>19, <2>20, <2>21
       DEF Next, ChatRequest, DashboardRequest, ProjectTasks, TestTask, OpStep, SyncStep,
           Actors
<1> QED
  BY <1>1, <1>2, PTL DEF Spec
-----------------------------------------------------------------------------
\* The danger is the stale add of a pass: a row that the pass has read as active
\* and that is gone since is exposed already.
StaleIsExposed ==
  \A t \in Tasks : MayBeAdded(t) /\ row[t] = "none" => t \in exposed

\* An operation under way accounts for the schedule of t.
Accounted(t) ==
  \E a \in Actors : op[a].pc \in {"creating", "removing"} /\ t \in op[a].ids

GhostIInv ==
  /\ \A t \in schedules \intersect Tasks : row[t] = "none" => Accounted(t) \/ t \in exposed
  /\ StaleIsExposed

\* Of one task: what a step has to show of it.
GhostFree(t) ==
  /\ t \in schedules /\ row[t] = "none" => Accounted(t) \/ t \in exposed
  /\ MayBeAdded(t) /\ row[t] = "none" => t \in exposed

\* A step that starts no schedule, deletes no row, plans no add, forgets no
\* exposure and drops no account keeps what it has to.
LEMMA QuietStep ==
  ASSUME NEW t \in Tasks, GhostFree(t),
         t \in schedules' => t \in schedules,
         row'[t] = "none" => row[t] = "none",
         MayBeAdded(t)' => MayBeAdded(t),
         exposed \subseteq exposed',
         Accounted(t) /\ t \in schedules' => Accounted(t)' \/ t \in exposed' \/ row'[t] # "none"
  PROVE  GhostFree(t)'
BY DEF GhostFree

\* An actor with nothing to account for goes on to something else.
LEMMA OthersAccount ==
  ASSUME NEW a \in Actors, NEW pc, NEW ids, op \in [Actors -> Ops],
         Become(a, pc, ids), op[a].pc \notin {"creating", "removing"},
         NEW t, Accounted(t)
  PROVE  Accounted(t)'
<1>1. PICK b \in Actors : op[b].pc \in {"creating", "removing"} /\ t \in op[b].ids
  BY DEF Accounted
<1>2. op'[b] = op[b]
  BY <1>1 DEF Become
<1> QED
  BY <1>1, <1>2 DEF Accounted

\* No schedule is left without a row, but while an operation is under way and for
\* tasks whose deletion crossed a sync pass or a fault.
THEOREM NoGhostsRemain == Spec => []NoGhosts
<1>1. Init => GhostIInv
  BY SyncJobIsNoTask DEF Init, GhostIInv, StaleIsExposed, MayBeAdded, NoSync
<1>2. TypeOK /\ GhostIInv /\ [Next]_vars => GhostIInv'
  <2> SUFFICES ASSUME TypeOK, GhostIInv, [Next]_vars, NEW t \in Tasks
               PROVE  GhostFree(t)'
    BY DEF GhostIInv, GhostFree, StaleIsExposed
  <2>0. GhostFree(t) /\ op \in [Actors -> Ops] /\ sync \in Syncs
    BY DEF GhostIInv, GhostFree, StaleIsExposed, TypeOK
  <2>1. ASSUME NEW a \in Chats, NEW s \in Tasks, AddSchedule(a, s) PROVE GhostFree(t)'
    <3>1. a \in Actors /\ op[a].pc = "idle" /\ Become(a, "creating", {s})
      BY <2>1 DEF AddSchedule, Request, Actors
    <3>2. CASE t = s
      <4>1. Accounted(t)'
        BY <2>0, <3>1, <3>2 DEF Accounted, Become
      <4> QED
        BY <2>0, <2>1, <4>1 DEF AddSchedule, GhostFree, MayBeAdded
    <3>3. CASE t # s
      <4>1. Accounted(t) => Accounted(t)'
        BY <2>0, <3>1, OthersAccount
      <4> QED
        BY <2>0, <2>1, <3>3, <4>1, QuietStep DEF AddSchedule, MayBeAdded
    <3> QED
      BY <3>2, <3>3
  <2>2. ASSUME NEW a \in Actors, InsertRow(a) PROVE GhostFree(t)'
    <3>1. row'[t] = "none" => row[t] = "none" /\ t \notin op[a].ids
      BY <2>2 DEF InsertRow
    <3>2. Accounted(t) => Accounted(t)' \/ row'[t] # "none"
      <4> SUFFICES ASSUME Accounted(t), row'[t] = "none" PROVE Accounted(t)'
        OBVIOUS
      <4>1. PICK b \in Actors : op[b].pc \in {"creating", "removing"} /\ t \in op[b].ids
        BY DEF Accounted
      <4>2. op'[b] = op[b]
        BY <2>0, <2>2, <3>1, <4>1 DEF InsertRow, Become
      <4> QED
        BY <4>1, <4>2 DEF Accounted
    <3> QED
      BY <2>0, <2>2, <3>1, <3>2, QuietStep DEF InsertRow, MayBeAdded
  <2>3. ASSUME NEW a \in Chats, NEW s \in Tasks,
               CancelTool(a, s) \/ CancelToolMisses(a, s)
        PROVE  GhostFree(t)'
    <3>1. a \in Actors /\ op[a].pc = "idle" /\ Become(a, "writing", {s})
      BY <2>3 DEF CancelTool, CancelToolMisses, Request, Actors
    <3>2. Accounted(t) => Accounted(t)'
      BY <2>0, <3>1, OthersAccount
    <3> QED
      BY <2>0, <2>3, <3>2, QuietStep DEF CancelTool, CancelToolMisses, tables, MayBeAdded
  <2>4. ASSUME NEW a \in Actors, Deactivate(a) PROVE GhostFree(t)'
    <3>1. Accounted(t) => Accounted(t)'
      BY <2>0, <2>4, OthersAccount DEF Deactivate
    <3>2. row'[t] = "none" => row[t] = "none"
      BY <2>4, DeactivatedTypes DEF Deactivate, TypeOK
    <3> QED
      BY <2>0, <2>4, <3>1, <3>2, QuietStep DEF Deactivate, MayBeAdded
  <2>5. ASSUME NEW a \in Actors, NEW s \in Tasks, CancelCommand(a, s) \/ Pause(a, s)
        PROVE  GhostFree(t)'
    <3>1. op[a].pc = "idle" /\ Become(a, "removing", {s})
      BY <2>5 DEF CancelCommand, Pause, Request
    <3>2. Accounted(t) => Accounted(t)'
      BY <2>0, <3>1, OthersAccount
    <3>3. row'[t] = "none" => row[t] = "none"
      BY <2>5, DeactivatedTypes DEF CancelCommand, Pause, TypeOK
    <3>4. UNCHANGED <<schedules, sync, exposed>>
      BY <2>5 DEF CancelCommand, Pause
    <3> QED
      BY <2>0, <3>2, <3>3, <3>4, QuietStep DEF MayBeAdded
  <2>6. ASSUME NEW a \in Dashboards, NEW s \in Tasks, Resume(a, s) PROVE GhostFree(t)'
    <3>1. UNCHANGED <<schedules, op, sync, exposed>>
      BY <2>6 DEF Resume
    <3>2. row'[t] = "none" => row[t] = "none"
      BY <2>6 DEF Resume, TypeOK
    <3> QED
      BY <2>0, <3>1, <3>2, QuietStep DEF MayBeAdded, Accounted
  <2>21. ASSUME NEW a \in Dashboards, NEW ts \in SUBSET Tasks, CreateRows(a, ts)
         PROVE  GhostFree(t)'
    <3>1. UNCHANGED <<schedules, op, sync, exposed>>
      BY <2>21 DEF CreateRows
    <3>2. row'[t] = "none" => row[t] = "none"
      BY <2>21 DEF CreateRows, TypeOK
    <3> QED
      BY <2>0, <3>1, <3>2, QuietStep DEF MayBeAdded, Accounted
  <2>7. ASSUME NEW a \in Dashboards, NEW s \in Tasks, Delete(a, s) PROVE GhostFree(t)'
    <3>1. a \in Actors /\ op[a].pc = "idle" /\ Become(a, "removing", {s})
      BY <2>7 DEF Delete, Request, Actors
    <3>2. CASE t = s
      <4>1. Accounted(t)'
        BY <2>0, <3>1, <3>2 DEF Accounted, Become
      <4>2. MayBeAdded(t)' => t \in exposed'
        BY <2>7, <3>2 DEF Delete, MayBeAdded
      <4> QED
        BY <4>1, <4>2 DEF GhostFree
    <3>3. CASE t # s
      <4>1. Accounted(t) => Accounted(t)'
        BY <2>0, <3>1, OthersAccount
      <4>2. row'[t] = row[t] /\ exposed \subseteq exposed' /\ UNCHANGED <<schedules, sync>>
        BY <2>7, <3>3 DEF Delete, TypeOK
      <4> QED
        BY <2>0, <4>1, <4>2, QuietStep DEF MayBeAdded
    <3> QED
      BY <3>2, <3>3
  <2>8. ASSUME NEW a \in Actors, NEW id \in Schedules,
               RemoveSchedule(a, id) \/ RemovalFails(a, id)
        PROVE  GhostFree(t)'
    <3> DEFINE ids == op[a].ids \ {id}
    <3>1. PICK pc \in {"idle", "removing"} : /\ Become(a, pc, ids)
                                             /\ pc = "idle" => ids = {}
      BY <2>8 DEF RemoveSchedule, RemovalFails, RemoveRest
    <3>2. Accounted(t) => Accounted(t)' \/ t = id
      <4> SUFFICES ASSUME Accounted(t), t # id PROVE Accounted(t)'
        OBVIOUS
      <4>1. PICK b \in Actors : op[b].pc \in {"creating", "removing"} /\ t \in op[b].ids
        BY DEF Accounted
      <4>2. CASE b = a
        <5>1. t \in ids /\ pc = "removing"
          BY <3>1, <4>1, <4>2
        <5>2. op'[a].pc = "removing" /\ op'[a].ids = ids
          BY <2>0, <3>1, <5>1 DEF Become
        <5> QED
          BY <5>1, <5>2 DEF Accounted
      <4>3. CASE b # a
        <5>1. op'[b] = op[b]
          BY <2>0, <3>1, <4>3 DEF Become
        <5> QED
          BY <4>1, <5>1 DEF Accounted
      <4> QED
        BY <4>2, <4>3
    <3>3. /\ schedules' \subseteq schedules /\ exposed \subseteq exposed'
          /\ t = id => t \notin schedules' \/ t \in exposed'
          /\ UNCHANGED <<row, sync>>
      BY <2>8 DEF RemoveSchedule, RemovalFails, tables
    <3> QED
      BY <2>0, <3>2, <3>3, QuietStep DEF MayBeAdded
  <2>9. ASSUME NEW a \in Dashboards, AuditSchedules(a) \/ AuditReadFails(a)
        PROVE  GhostFree(t)'
    <3>1. PICK ids : Become(a, "auditing", ids)
      BY <2>9 DEF AuditSchedules, AuditReadFails
    <3>2. a \in Actors /\ op[a].pc = "idle"
      BY <2>9 DEF AuditSchedules, AuditReadFails, Request, Actors
    <3>3. Accounted(t) => Accounted(t)'
      BY <2>0, <3>1, <3>2, OthersAccount
    <3>4. UNCHANGED <<row, schedules, sync, exposed>>
      BY <2>9 DEF AuditSchedules, AuditReadFails, tables
    <3> QED
      BY <2>0, <3>3, <3>4, QuietStep DEF MayBeAdded
  <2>10. ASSUME NEW a \in Actors, AuditRows(a) PROVE GhostFree(t)'
    <3>1. \A b \in Actors : b # a => op'[b] = op[b]
      BY <2>0, <2>10 DEF AuditRows
    <3>2. Accounted(t) => Accounted(t)'
      BY <2>10, <3>1 DEF AuditRows, Accounted
    <3>3. schedules' \subseteq schedules /\ UNCHANGED <<row, sync, exposed>>
      BY <2>10 DEF AuditRows
    <3> QED
      BY <2>0, <3>2, <3>3, QuietStep DEF MayBeAdded
  <2>11. ASSUME NEW a \in Actors, AuditCommit(a) PROVE GhostFree(t)'
    <3>1. PICK pc : Become(a, pc, op[a].ids)
      BY <2>11 DEF AuditCommit, RemoveRest
    <3>2. Accounted(t) => Accounted(t)'
      BY <2>0, <2>11, <3>1, OthersAccount DEF AuditCommit
    <3>3. UNCHANGED <<schedules, sync>> /\ exposed \subseteq exposed'
      BY <2>11 DEF AuditCommit
    <3>4. CASE t \in op[a].dead
      <4>1. t \in schedules \/ MayBeAdded(t) => t \in exposed'
        BY <2>11, <3>4 DEF AuditCommit
      <4> QED
        BY <3>3, <4>1 DEF GhostFree, MayBeAdded
    <3>5. CASE t \notin op[a].dead
      <4>1. row'[t] = row[t]
        BY <2>11, <3>5 DEF AuditCommit
      <4> QED
        BY <2>0, <3>2, <3>3, <4>1, QuietStep DEF MayBeAdded
    <3> QED
      BY <3>4, <3>5
  <2>12. CASE SyncReadsRows
    <3>1. UNCHANGED <<row, schedules, op, exposed>> /\ sync'.seen = row
      BY <2>12 DEF SyncReadsRows, tables
    <3> QED
      BY <2>0, <3>1 DEF GhostFree, MayBeAdded, Accounted
  <2>13. CASE SyncReadsSchedules
    <3>1. sync'.seen[t] = Wanted(sync.seen[t], t \in schedules)
      BY <2>13 DEF SyncReadsSchedules
    <3>2. MayBeAdded(t)' => MayBeAdded(t)
      BY <3>1 DEF MayBeAdded, Wanted
    <3>3. UNCHANGED <<row, schedules, op, exposed>>
      BY <2>13 DEF SyncReadsSchedules, tables
    <3> QED
      BY <2>0, <3>2, <3>3, QuietStep DEF Accounted
  <2>14. ASSUME NEW s \in Tasks, SyncApplies(s) \/ SyncPassesOver(s) PROVE GhostFree(t)'
    <3>1. /\ sync' = [sync EXCEPT !.seen[s] = "none"]
          /\ UNCHANGED <<row, op, exposed>>
      BY <2>14 DEF SyncApplies, SyncPassesOver, tables
    <3>2. MayBeAdded(t)' => MayBeAdded(t)
      BY <2>0, <3>1 DEF MayBeAdded, Syncs
    <3>3. t \in schedules' => t \in schedules \/ MayBeAdded(t)
      BY <2>14 DEF SyncApplies, SyncPassesOver, tables, MayBeAdded
    <3> QED
      BY <2>0, <3>1, <3>2, <3>3 DEF GhostFree, Accounted
  <2>15. CASE SyncEnds \/ SyncFails
    <3>1. sync' = NoSync /\ UNCHANGED <<row, schedules, op, exposed>>
      BY <2>15 DEF SyncEnds, SyncFails, tables
    <3> QED
      BY <2>0, <3>1, QuietStep DEF MayBeAdded, NoSync, Accounted
  <2>16. ASSUME NEW s \in OneShots, TimeComes(s) \/ Fire(s) PROVE GhostFree(t)'
    <3>1. schedules' \subseteq schedules /\ UNCHANGED <<row, op, sync, exposed>>
      BY <2>16 DEF TimeComes, Fire, tables
    <3> QED
      BY <2>0, <3>1, QuietStep DEF MayBeAdded, Accounted
  <2>17. ASSUME NEW a \in Actors, Lose(a) PROVE GhostFree(t)'
    <3>1. \A b \in Actors : b # a => op'[b] = op[b]
      BY <2>0, <2>17 DEF Lose, Become
    <3>2. Accounted(t) => Accounted(t)' \/ t \in exposed'
      BY <2>17, <3>1 DEF Accounted, Lose, Left
    <3>3. exposed \subseteq exposed' /\ UNCHANGED <<row, schedules, sync>>
      BY <2>17 DEF Lose, tables
    <3> QED
      BY <2>0, <3>2, <3>3, QuietStep DEF MayBeAdded
  <2>18. CASE Crash
    <3>1. \A a \in Actors \ Chats : op'[a] = op[a]
      BY <2>0, <2>18 DEF Crash
    <3>2. \A a \in Chats : op[a].ids \intersect Tasks \subseteq exposed'
      BY <2>18 DEF Crash, Left
    <3>3. Accounted(t) => Accounted(t)' \/ t \in exposed'
      BY <3>1, <3>2 DEF Accounted
    <3>4. exposed \subseteq exposed' /\ sync' = NoSync /\ UNCHANGED <<row, schedules>>
      BY <2>18 DEF Crash, tables
    <3> QED
      BY <2>0, <3>3, <3>4, QuietStep DEF MayBeAdded, NoSync
  <2>19. CASE Restart
    <3>1. /\ t \in schedules' => t \in schedules
          /\ UNCHANGED <<row, op, sync, exposed>>
      BY <2>19, SyncJobIsNoTask DEF Restart
    <3> QED
      BY <2>0, <3>1, QuietStep DEF MayBeAdded, Accounted
  <2>20. CASE UNCHANGED vars
    BY <2>0, <2>20, QuietStep DEF vars, MayBeAdded, Accounted
  <2> QED
    BY <2>1, <2>2, <2>3, <2>4, <2>5, <2>6, <2>7, <2>8, <2>9, <2>10, <2>11, <2>12, <2>13,
       <2>14, <2>15, <2>16, <2>17, <2>18, <2>19, <2>20, <2>21
       DEF Next, ChatRequest, DashboardRequest, ProjectTasks, TestTask, OpStep, SyncStep,
           Actors
<1>3. GhostIInv => NoGhosts
  BY DEF GhostIInv, NoGhosts, Accounted
<1> QED
  BY <1>1, <1>2, <1>3, TypeCorrect, PTL DEF Spec

-----------------------------------------------------------------------------
(* The repair queue.  Two claims are kept apart by the row lock while both *)
(* are open, and by the status processing once one of them is committed: a *)
(* row in an open claim is still claimable, a committed one is not, unless *)
(* its status was set by hand.                                             *)

Claiming(w) == at[w] = "claiming"
Holding(w) == at[w] \in {"claimed", "driving", "releasing"}

\* A row in an open claim is locked and claimable, and in one claim only.
ClaimsAreLocked ==
  /\ \A w \in Workers : Claiming(w) => /\ claimed[w] \in locked
                                       /\ status[claimed[w]] \in Claimable
  /\ \A v, w \in Workers : v # w /\ Claiming(v) /\ Claiming(w) => claimed[v] # claimed[w]

\* The lease.
HeldAreProcessing ==
  \A w \in Workers : Holding(w) /\ claimed[w] \notin edited => status[claimed[w]] = "processing"

QueueInv ==
  /\ QueueTypeOK
  /\ ClaimsAreLocked
  /\ HeldAreProcessing
  /\ NoDoubleClaim

-----------------------------------------------------------------------------
\* No worker holds a ticket at the start.
LEMMA NobodyHoldsAtFirst == QueueInit => QueueInv
BY NoTicketIsNoTicket, MaxFaultsIsNatural
   DEF QueueInit, QueueInv, QueueTypeOK, ClaimsAreLocked, HeldAreProcessing, NoDoubleClaim,
       Statuses, Claimable, WorkerPoints, Claiming, Holding

\* Every step keeps the types.
LEMMA QueueStepsKeepTypes ==
  ASSUME QueueTypeOK, [QueueNext]_queueVars
  PROVE  QueueTypeOK'
<1> USE NoTicketIsNoTicket, MaxFaultsIsNatural
        DEF QueueTypeOK, Statuses, Claimable, WorkerPoints
<1>1. ASSUME NEW t \in Tickets, NEW s \in Claimable, NEW b \in BOOLEAN, CreateTicket(t, s, b)
      PROVE  QueueTypeOK'
  BY <1>1 DEF CreateTicket
<1>2. ASSUME NEW t \in Tickets, NEW s \in {"open", "closed"}, EditTicket(t, s)
      PROVE  QueueTypeOK'
  BY <1>2 DEF EditTicket
<1>3. ASSUME NEW w \in Workers, NEW t \in Tickets, LockOldest(w, t)
      PROVE  QueueTypeOK'
  BY <1>3 DEF LockOldest, FreeClaimable
<1>4. ASSUME NEW w \in Workers, CommitClaim(w)
      PROVE  QueueTypeOK'
  BY <1>4 DEF CommitClaim
<1>5. ASSUME NEW w \in Workers, ClaimFails(w)
      PROVE  QueueTypeOK'
  BY <1>5 DEF ClaimFails, WorkerFault
<1>6. ASSUME NEW w \in Workers, ReadDetail(w)
      PROVE  QueueTypeOK'
  BY <1>6 DEF ReadDetail
<1>7. ASSUME NEW w \in Workers, PipelineReturns(w)
      PROVE  QueueTypeOK'
  BY <1>7 DEF PipelineReturns, End
<1>8. ASSUME NEW w \in Workers, DrivingRaises(w)
      PROVE  QueueTypeOK'
  BY <1>8 DEF DrivingRaises, WorkerFault
<1>9. ASSUME NEW w \in Workers, ReleaseLease(w)
      PROVE  QueueTypeOK'
  BY <1>9 DEF ReleaseLease, End
<1>10. ASSUME NEW w \in Workers, ReleaseFails(w)
       PROVE  QueueTypeOK'
  BY <1>10 DEF ReleaseFails, End, WorkerFault
<1>11. ASSUME WorkerCrash
       PROVE  QueueTypeOK'
  BY <1>11 DEF WorkerCrash, WorkerFault
<1>12. CASE UNCHANGED queueVars
  BY <1>12 DEF queueVars
<1> QED
  BY <1>1, <1>2, <1>3, <1>4, <1>5, <1>6, <1>7, <1>8, <1>9, <1>10, <1>11, <1>12 DEF QueueNext, Tick

\* Every step keeps the claims apart.
LEMMA QueueStepsKeepClaims ==
  ASSUME QueueInv, QueueTypeOK', [QueueNext]_queueVars
  PROVE  ClaimsAreLocked' /\ HeldAreProcessing' /\ NoDoubleClaim'
<1> USE NoTicketIsNoTicket
        DEF QueueInv, QueueTypeOK, Claimable, Claiming, Holding,
            ClaimsAreLocked, HeldAreProcessing, NoDoubleClaim
<1>1. ASSUME NEW t \in Tickets, NEW s \in Claimable, NEW b \in BOOLEAN, CreateTicket(t, s, b)
      PROVE  ClaimsAreLocked' /\ HeldAreProcessing' /\ NoDoubleClaim'
  BY <1>1 DEF CreateTicket
<1>2. ASSUME NEW t \in Tickets, NEW s \in {"open", "closed"}, EditTicket(t, s)
      PROVE  ClaimsAreLocked' /\ HeldAreProcessing' /\ NoDoubleClaim'
  BY <1>2 DEF EditTicket
<1>3. ASSUME NEW w \in Workers, NEW t \in Tickets, LockOldest(w, t)
      PROVE  ClaimsAreLocked' /\ HeldAreProcessing' /\ NoDoubleClaim'
  <2>1. /\ t \notin locked
        /\ status[t] \in Claimable
        /\ at' = [at EXCEPT ![w] = "claiming"]
        /\ claimed' = [claimed EXCEPT ![w] = t]
        /\ locked' = locked \union {t}
        /\ UNCHANGED <<status, edited>>
    BY <1>3 DEF LockOldest, FreeClaimable
  <2>2. \A v \in Workers \ {w} : at'[v] = at[v] /\ claimed'[v] = claimed[v]
    BY <2>1
  <2>3. \A v \in Workers \ {w} : claimed[v] = t => Holding(v) /\ t \in edited
    BY <2>1 DEF WorkerPoints
  <2> QED
    BY <2>1, <2>2, <2>3
<1>4. ASSUME NEW w \in Workers, CommitClaim(w)
      PROVE  ClaimsAreLocked' /\ HeldAreProcessing' /\ NoDoubleClaim'
  <2>1. /\ Claiming(w)
        /\ at' = [at EXCEPT ![w] = "claimed"]
        /\ locked' = locked \ {claimed[w]}
        /\ status' = [status EXCEPT ![claimed[w]] = "processing"]
        /\ UNCHANGED <<claimed, edited>>
    BY <1>4 DEF CommitClaim
  <2>2. claimed[w] \in Tickets
    BY <2>1
  <2>3. \A v \in Workers \ {w} : at'[v] = at[v]
    BY <2>1
  <2>4. ClaimsAreLocked'
    BY <2>1, <2>2, <2>3
  <2>5. HeldAreProcessing'
    BY <2>1, <2>2, <2>3
  <2> QED
    BY <2>1, <2>4, <2>5
<1>5. ASSUME NEW w \in Workers, ClaimFails(w)
      PROVE  ClaimsAreLocked' /\ HeldAreProcessing' /\ NoDoubleClaim'
  BY <1>5 DEF ClaimFails
<1>6. ASSUME NEW w \in Workers, ReadDetail(w)
      PROVE  ClaimsAreLocked' /\ HeldAreProcessing' /\ NoDoubleClaim'
  BY <1>6 DEF ReadDetail
<1>7. ASSUME NEW w \in Workers, PipelineReturns(w)
      PROVE  ClaimsAreLocked' /\ HeldAreProcessing' /\ NoDoubleClaim'
  BY <1>7 DEF PipelineReturns, End
<1>8. ASSUME NEW w \in Workers, DrivingRaises(w)
      PROVE  ClaimsAreLocked' /\ HeldAreProcessing' /\ NoDoubleClaim'
  BY <1>8 DEF DrivingRaises
<1>9. ASSUME NEW w \in Workers, ReleaseLease(w)
      PROVE  ClaimsAreLocked' /\ HeldAreProcessing' /\ NoDoubleClaim'
  BY <1>9 DEF ReleaseLease, End
<1>10. ASSUME NEW w \in Workers, ReleaseFails(w)
       PROVE  ClaimsAreLocked' /\ HeldAreProcessing' /\ NoDoubleClaim'
  BY <1>10 DEF ReleaseFails, End
<1>11. ASSUME WorkerCrash
       PROVE  ClaimsAreLocked' /\ HeldAreProcessing' /\ NoDoubleClaim'
  BY <1>11 DEF WorkerCrash
<1>12. CASE UNCHANGED queueVars
  BY <1>12 DEF queueVars
<1> QED
  BY <1>1, <1>2, <1>3, <1>4, <1>5, <1>6, <1>7, <1>8, <1>9, <1>10, <1>11, <1>12 DEF QueueNext, Tick

-----------------------------------------------------------------------------
\* The inductive invariant holds for any number of workers, tickets and faults.
THEOREM QueueInvariant == QueueSpec => []QueueInv
<1>1. QueueInit => QueueInv
  BY NobodyHoldsAtFirst
<1>2. QueueInv /\ [QueueNext]_queueVars => QueueInv'
  BY QueueStepsKeepTypes, QueueStepsKeepClaims DEF QueueInv
<1> QED
  BY <1>1, <1>2, PTL DEF QueueSpec

\* maintenance.py:368: no two workers drive the pipeline for one ticket.
THEOREM NoTicketIsClaimedTwice == QueueSpec => []NoDoubleClaim
<1>1. QueueInv => NoDoubleClaim
  BY DEF QueueInv
<1> QED
  BY <1>1, QueueInvariant, PTL

-----------------------------------------------------------------------------
(* Both in one system.                                                     *)

\* A behaviour of the composed system is one of each part.
LEMMA UpkeepRunsItsParts == FairUpkeepSpec => Spec /\ QueueSpec
<1>1. UpkeepInit => Init /\ QueueInit
  BY DEF UpkeepInit
<1>2. [UpkeepNext]_upkeepVars => [Next]_vars /\ [QueueNext]_queueVars
  <2>1. CASE Only("tasks") /\ Next
    BY <2>1 DEF Only
  <2>2. CASE Only("queue") /\ QueueNext
    BY <2>2 DEF Only
  <2>3. CASE UNCHANGED upkeepVars
    BY <2>3 DEF upkeepVars
  <2>4. QED
    BY <2>1, <2>2, <2>3 DEF UpkeepNext
<1>3. QED
  BY <1>1, <1>2, PTL DEF FairUpkeepSpec, UpkeepSpec, Spec, QueueSpec

\* Neither kind of upkeep disturbs the guarantee of the other.
THEOREM UpkeepIsSafe == FairUpkeepSpec => [](NoGhosts /\ NoDoubleClaim)
BY UpkeepRunsItsParts, NoGhostsRemain, NoTicketIsClaimedTwice, PTL
===============================================================================
