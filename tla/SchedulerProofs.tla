---------------------------- MODULE SchedulerProofs ----------------------------
(***************************************************************************)
(* Safety of what the scheduler runs and records, for every number of rows *)
(* and overlapping ticks, every cap and any number of faults: the ticks of *)
(* background jobs, then the health records, then both in one system.      *)
(***************************************************************************)
EXTENDS SchedulerMC, FiniteSetTheorems, TLAPS

\* Everything that acts on a row acts on one that was inserted.
Started ==
  /\ \A j \in Jobs : \/ j \in schedules
                     \/ j \in cancelling
                     \/ making[j] # "no"
                     => status[j] # "absent"
  /\ \A t \in Ticks : \/ tick[t].pc # "idle"
                      \/ \E j \in Jobs : maker[j] = t
                      => status[JobOf(t)] # "absent"

\* A tick about to remove the schedule of its job has seen the job end.
RemovalIsFinal ==
  \A t \in Ticks : tick[t].pc = "removing" => status[JobOf(t)] \in Terminal

IInv == TypeOK /\ Started /\ RemovalIsFinal /\ RunningIsScheduled

\* A tick belongs to a row.
LEMMA TicksAreOfJobs == \A t \in Ticks : JobOf(t) \in Jobs
BY DEF Ticks, JobOf

\* Moving a tick keeps its type.
LEMMA BecomeTyped ==
  ASSUME tick \in [Ticks -> TickStates],
         NEW t \in Ticks, NEW pc \in TickPoints, NEW seen \in Nat, NEW outcome \in Outcomes,
         Become(t, pc, seen, outcome)
  PROVE  tick' \in [Ticks -> TickStates]
BY DEF Become, TickStates

\* So do a move that keeps what the tick has seen, and its end.
LEMMA GotoTyped ==
  ASSUME tick \in [Ticks -> TickStates], NEW t \in Ticks, NEW pc \in TickPoints,
         Goto(t, pc) \/ End(t)
  PROVE  tick' \in [Ticks -> TickStates]
<1>1. /\ tick[t].seen \in Nat
      /\ tick[t].outcome \in Outcomes
  BY DEF TickStates
<1>2. CASE Goto(t, pc)
  BY <1>1, <1>2, BecomeTyped DEF Goto
<1>3. CASE End(t)
  <2>1. Become(t, "idle", 0, "observed")
    BY <1>3 DEF End, IdleTick
  <2>2. QED
    BY <2>1, BecomeTyped DEF TickPoints, Outcomes
<1>4. QED
  BY <1>2, <1>3

\* The turn that asked for a row stays in its type.
LEMMA MakerTyped ==
  ASSUME TypeOK, NEW j \in Jobs, NEW pc \in TickPoints, MakerGoesOn(j, pc)
  PROVE  tick' \in [Ticks -> TickStates]
<1>1. CASE maker[j] \in Ticks
  <2>1. Become(maker[j], pc, 0, "observed")
    BY <1>1 DEF MakerGoesOn
  <2>2. QED
    BY <1>1, <2>1, BecomeTyped DEF TypeOK, Outcomes
<1>2. CASE maker[j] \notin Ticks
  BY <1>2 DEF MakerGoesOn, TypeOK
<1>3. QED
  BY <1>1, <1>2

\* The history of a row stays in its type.
LEMMA HistTyped ==
  ASSUME hist \in [Jobs -> [turns : Nat, raised : Nat]], NEW j \in Jobs,
         NoteTurn(j) \/ NoteRaise(j)
  PROVE  hist' \in [Jobs -> [turns : Nat, raised : Nat]]
BY DEF NoteTurn, NoteRaise, Note

\* The counters of a row stay within its caps, and every variable in its range:
\* the type invariant of the module.
THEOREM TypeCorrect == Spec => []TypeOK
<1> USE MaxIterationsIsPositive, MaxFaultsIsPositive, MaxOutagesIsNatural, TicksAreOfJobs
<1>1. Init => TypeOK
  BY DEF Init, TypeOK, Statuses, Terminal, TickStates, TickPoints, IdleTick, Outcomes
<1>2. ASSUME TypeOK, [Next]_vars PROVE TypeOK'
  <2>1. ASSUME NEW j \in Jobs, UserAsks(j)
        PROVE  TypeOK'
    BY <1>2, <2>1 DEF UserAsks, InsertRow, TypeOK, rows, Statuses, Terminal
  <2>2. ASSUME NEW t \in Ticks, NEW j \in Jobs, TurnAsks(t, j)
        PROVE  TypeOK'
    <3>1. JobOf(t) \in Jobs
      BY TicksAreOfJobs
    <3>2. tick' \in [Ticks -> TickStates]
      BY <3>1, <1>2, <2>2, GotoTyped DEF TurnAsks, TickPoints, TypeOK
    <3>3. QED
      BY <3>1, <3>2, <1>2, <2>2 DEF TurnAsks, InsertRow, TypeOK, rows, Statuses, Terminal
  <2>3. ASSUME NEW j \in Jobs, RegisterTick(j)
        PROVE  TypeOK'
    <3>1. tick' \in [Ticks -> TickStates]
      BY <1>2, <2>3, MakerTyped DEF RegisterTick, TickPoints, TypeOK
    <3>2. QED
      BY <3>1, <1>2, <2>3 DEF RegisterTick, TypeOK, rows, Statuses, Terminal
  <2>4. ASSUME NEW j \in Jobs, RegistrationFails(j)
        PROVE  TypeOK'
    BY <1>2, <2>4 DEF RegistrationFails, TypeOK, rows, Statuses, Terminal
  <2>5. ASSUME NEW j \in Jobs, MarkRejected(j)
        PROVE  TypeOK'
    <3>1. tick' \in [Ticks -> TickStates]
      BY <1>2, <2>5, MakerTyped DEF MarkRejected, TickPoints, TypeOK
    <3>2. QED
      BY <3>1, <1>2, <2>5 DEF MarkRejected, TypeOK, rows, Statuses, Terminal
  <2>6. ASSUME NEW j \in Jobs, MarkRejectedFails(j)
        PROVE  TypeOK'
    <3>1. tick' \in [Ticks -> TickStates]
      BY <1>2, <2>6, MakerTyped DEF MarkRejectedFails, TickPoints, TypeOK
    <3>2. QED
      BY <3>1, <1>2, <2>6 DEF MarkRejectedFails, TypeOK, rows, Statuses, Terminal
  <2>7. ASSUME NEW t \in Ticks, Fire(t)
        PROVE  TypeOK'
    <3>1. JobOf(t) \in Jobs
      BY TicksAreOfJobs
    <3>2. tick' \in [Ticks -> TickStates]
      BY <3>1, <1>2, <2>7, GotoTyped DEF Fire, TickPoints, TypeOK
    <3>3. QED
      BY <3>1, <3>2, <1>2, <2>7 DEF Fire, TypeOK, rows, Statuses, Terminal
  <2>8. ASSUME NEW t \in Ticks, LoadStopped(t)
        PROVE  TypeOK'
    <3>1. JobOf(t) \in Jobs
      BY TicksAreOfJobs
    <3>2. tick' \in [Ticks -> TickStates]
      BY <3>1, <1>2, <2>8, GotoTyped DEF LoadStopped, TickPoints, TypeOK
    <3>3. QED
      BY <3>1, <3>2, <1>2, <2>8 DEF LoadStopped, TypeOK, rows, Statuses, Terminal
  <2>9. ASSUME NEW t \in Ticks, LoadRunning(t)
        PROVE  TypeOK'
    <3>1. JobOf(t) \in Jobs
      BY TicksAreOfJobs
    <3>2. tick' \in [Ticks -> TickStates]
      BY <3>1, <1>2, <2>9, BecomeTyped DEF LoadRunning, TickPoints, Outcomes, TypeOK
    <3>3. QED
      BY <3>1, <3>2, <1>2, <2>9 DEF LoadRunning, TypeOK, rows, Statuses, Terminal
  <2>10. ASSUME NEW t \in Ticks, NEW verdict \in Terminal, Finish(t, verdict)
         PROVE  TypeOK'
    <3>1. JobOf(t) \in Jobs
      BY TicksAreOfJobs
    <3>2. tick' \in [Ticks -> TickStates]
      BY <3>1, <1>2, <2>10, GotoTyped DEF Finish, TickPoints, TypeOK
    <3>3. QED
      BY <3>1, <3>2, <1>2, <2>10 DEF Finish, TypeOK, rows, Statuses, Terminal
  <2>11. ASSUME NEW t \in Ticks, Charge(t)
         PROVE  TypeOK'
    <3>1. JobOf(t) \in Jobs
      BY TicksAreOfJobs
    <3>2. tick' \in [Ticks -> TickStates]
      BY <3>1, <1>2, <2>11, BecomeTyped DEF Charge, TickPoints, Outcomes, TypeOK
    <3>3. hist' \in [Jobs -> [turns : Nat, raised : Nat]]
      BY <3>1, <1>2, <2>11, HistTyped DEF Charge, TypeOK
    <3>4. tick[t].seen \in Nat /\ tick[t].seen < MaxIterations
      BY <1>2, <2>11 DEF Charge, AtCap, TypeOK, TickStates
    <3>5. QED
      BY <3>1, <3>2, <3>3, <3>4, <1>2, <2>11 DEF Charge, TypeOK
  <2>12. ASSUME NEW t \in Ticks, NEW outcome \in Outcomes, TurnEnds(t, outcome)
         PROVE  TypeOK'
    <3>1. JobOf(t) \in Jobs
      BY TicksAreOfJobs
    <3>2. tick' \in [Ticks -> TickStates]
      BY <3>1, <1>2, <2>12, BecomeTyped DEF TurnEnds, TickPoints, TypeOK
    <3>3. hist' \in [Jobs -> [turns : Nat, raised : Nat]]
      BY <3>1, <1>2, <2>12, HistTyped DEF TurnEnds, TypeOK
    <3>4. QED
      BY <3>1, <3>2, <3>3, <1>2, <2>12 DEF TurnEnds, TypeOK, rows, Statuses, Terminal
  <2>13. ASSUME NEW t \in Ticks, SettleObserved(t)
         PROVE  TypeOK'
    <3>1. JobOf(t) \in Jobs
      BY TicksAreOfJobs
    <3>2. tick' \in [Ticks -> TickStates]
      BY <3>1, <1>2, <2>13, GotoTyped DEF SettleObserved, TickPoints, TypeOK
    <3>3. QED
      BY <3>1, <3>2, <1>2, <2>13 DEF SettleObserved, TypeOK, rows, Statuses, Terminal
  <2>14. ASSUME NEW t \in Ticks, SettleRaised(t)
         PROVE  TypeOK'
    <3>1. JobOf(t) \in Jobs
      BY TicksAreOfJobs
    <3>2. tick' \in [Ticks -> TickStates]
      BY <3>1, <1>2, <2>14, BecomeTyped DEF SettleRaised, TickPoints, Outcomes, TypeOK
    <3>3. QED
      BY <3>1, <3>2, <1>2, <2>14 DEF SettleRaised, TypeOK, rows, Statuses, Terminal
  <2>15. ASSUME NEW t \in Ticks, RecordFault(t)
         PROVE  TypeOK'
    <3>1. JobOf(t) \in Jobs
      BY TicksAreOfJobs
    <3>2. tick' \in [Ticks -> TickStates]
      BY <3>1, <1>2, <2>15, GotoTyped DEF RecordFault, TickPoints, TypeOK
    <3>3. tick[t].seen \in Nat /\ tick[t].seen + 1 < MaxFaults
      BY <1>2, <2>15 DEF RecordFault, TooManyFaults, TypeOK, TickStates
    <3>4. QED
      BY <3>1, <3>2, <3>3, <1>2, <2>15 DEF RecordFault, TypeOK
  <2>16. ASSUME NEW t \in Ticks, RemoveSchedule(t)
         PROVE  TypeOK'
    <3>1. JobOf(t) \in Jobs
      BY TicksAreOfJobs
    <3>2. tick' \in [Ticks -> TickStates]
      BY <3>1, <1>2, <2>16, GotoTyped DEF RemoveSchedule, TickPoints, TypeOK
    <3>3. QED
      BY <3>1, <3>2, <1>2, <2>16 DEF RemoveSchedule, TypeOK, rows, Statuses, Terminal
  <2>17. ASSUME NEW t \in Ticks, CallFails(t)
         PROVE  TypeOK'
    <3>1. JobOf(t) \in Jobs
      BY TicksAreOfJobs
    <3>2. tick' \in [Ticks -> TickStates]
      BY <3>1, <1>2, <2>17, GotoTyped, BecomeTyped DEF CallFails, TickPoints, Outcomes, TypeOK
    <3>3. hist' \in [Jobs -> [turns : Nat, raised : Nat]]
      BY <3>1, <1>2, <2>17, HistTyped DEF CallFails, TypeOK
    <3>4. QED
      BY <3>1, <3>2, <3>3, <1>2, <2>17 DEF CallFails, TypeOK, rows, Statuses, Terminal
  <2>18. ASSUME NEW j \in Jobs, CancelRead(j)
         PROVE  TypeOK'
    BY <1>2, <2>18 DEF CancelRead, TypeOK, rows, Statuses, Terminal
  <2>19. ASSUME NEW j \in Jobs, CancelWrite(j)
         PROVE  TypeOK'
    BY <1>2, <2>19 DEF CancelWrite, TypeOK, rows, Statuses, Terminal
  <2>20. ASSUME NEW j \in Jobs, Purge(j)
         PROVE  TypeOK'
    BY <1>2, <2>20 DEF Purge, TypeOK, rows
  <2>21. CASE Crash
    <3>1. tick' \in [Ticks -> TickStates]
      BY <2>21 DEF Crash, TickStates, TickPoints, IdleTick, Outcomes
    <3>2. making' \in [Jobs -> {"no", "inserted", "rejected"}]
      BY <2>21 DEF Crash
    <3>3. outages' \in 0 .. MaxOutages
      BY <1>2, <2>21 DEF Crash, TypeOK
    <3>4. QED
      BY <3>1, <3>2, <3>3, <1>2, <2>21 DEF Crash, TypeOK, rows
  <2>22. CASE Restart
    BY <1>2, <2>22 DEF Restart, Orphaned, TypeOK, rows
  <2>23. CASE UNCHANGED vars
    BY <1>2, <2>23 DEF vars, TypeOK
  <2>24. QED
    BY <1>2, <2>1, <2>2, <2>3, <2>4, <2>5, <2>6, <2>7, <2>8, <2>9, <2>10, <2>11, <2>12, <2>13,
       <2>14, <2>15, <2>16, <2>17, <2>18, <2>19, <2>20, <2>21, <2>22, <2>23
       DEF Next, CreateStep, TickStep, CapReached, SettleDone, GiveUp, Terminal
<1>3. QED
  BY <1>1, <1>2, PTL DEF Spec

-----------------------------------------------------------------------------
\* A move is of one tick only.
LEMMA BecomeMoves ==
  ASSUME TypeOK, NEW t \in Ticks, NEW pc, NEW seen, NEW outcome, Become(t, pc, seen, outcome)
  PROVE  tick'[t].pc = pc /\ \A u \in Ticks \ {t} : tick'[u] = tick[u]
BY DEF Become, TypeOK

\* A move that keeps what the tick has seen is of one tick only.
LEMMA GotoMoves ==
  ASSUME TypeOK, NEW t \in Ticks, NEW pc, Goto(t, pc)
  PROVE  tick'[t].pc = pc /\ \A u \in Ticks \ {t} : tick'[u] = tick[u]
BY BecomeMoves DEF Goto

\* The end of a tick is of that tick only.
LEMMA EndMoves ==
  ASSUME TypeOK, NEW t \in Ticks, End(t)
  PROVE  tick'[t].pc = "idle" /\ \A u \in Ticks \ {t} : tick'[u] = tick[u]
BY BecomeMoves DEF End, IdleTick

\* The only tick that creation moves is the one that asked for it.
LEMMA MakerMoves ==
  ASSUME TypeOK, NEW j \in Jobs, NEW pc, MakerGoesOn(j, pc)
  PROVE  \A u \in Ticks : tick'[u] = tick[u] \/ (u = maker[j] /\ tick'[u].pc = pc)
BY BecomeMoves DEF MakerGoesOn

\* The inductive invariant: only rows that exist are acted on, a schedule goes
\* only after its job has ended, and so a running row keeps its schedule.
THEOREM InductiveInvariant == Spec => []IInv
<1> USE TicksAreOfJobs
<1>1. Init => Started /\ RemovalIsFinal /\ RunningIsScheduled
  BY UserIsNoTick DEF Init, Started, RemovalIsFinal, RunningIsScheduled, IdleTick, Ticks
<1>2. ASSUME IInv, TypeOK', [Next]_vars
      PROVE  Started' /\ RemovalIsFinal' /\ RunningIsScheduled'
  <2> USE <1>2 DEF IInv
  <2>1. ASSUME NEW j \in Jobs, UserAsks(j)
        PROVE  Started' /\ RemovalIsFinal' /\ RunningIsScheduled'
    BY <2>1, UserIsNoTick DEF UserAsks, InsertRow, Ticks,
       Started, RemovalIsFinal, RunningIsScheduled, TypeOK, rows, Terminal
  <2>2. ASSUME NEW t \in Ticks, NEW j \in Jobs, TurnAsks(t, j)
        PROVE  Started' /\ RemovalIsFinal' /\ RunningIsScheduled'
    <3>1. /\ tick'[t].pc = "creating"
          /\ \A u \in Ticks \ {t} : tick'[u] = tick[u]
          /\ \A k \in Jobs \ {j} : status'[k] = status[k] /\ maker'[k] = maker[k]
                                  /\ making'[k] = making[k]
          /\ status[j] = "absent" /\ status'[j] = "running" /\ making'[j] = "inserted"
          /\ maker'[j] = t
          /\ status[JobOf(t)] # "absent"
      BY <2>2, GotoMoves DEF TurnAsks, InsertRow, TypeOK, Started
    <3>2. Started'
      BY <2>2, <3>1 DEF TurnAsks, Started
    <3>3. RemovalIsFinal' /\ RunningIsScheduled'
      BY <2>2, <3>1 DEF TurnAsks, RemovalIsFinal, RunningIsScheduled, Terminal
    <3>4. QED
      BY <3>2, <3>3
  <2>3. ASSUME NEW j \in Jobs, RegisterTick(j)
        PROVE  Started' /\ RemovalIsFinal' /\ RunningIsScheduled'
    BY <2>3, MakerMoves DEF RegisterTick,
       Started, RemovalIsFinal, RunningIsScheduled, TypeOK, rows, Terminal
  <2>4. ASSUME NEW j \in Jobs, RegistrationFails(j)
        PROVE  Started' /\ RemovalIsFinal' /\ RunningIsScheduled'
    BY <2>4 DEF RegistrationFails,
       Started, RemovalIsFinal, RunningIsScheduled, TypeOK, rows, Terminal
  <2>5. ASSUME NEW j \in Jobs, MarkRejected(j)
        PROVE  Started' /\ RemovalIsFinal' /\ RunningIsScheduled'
    BY <2>5, MakerMoves DEF MarkRejected,
       Started, RemovalIsFinal, RunningIsScheduled, TypeOK, rows, Terminal
  <2>6. ASSUME NEW j \in Jobs, MarkRejectedFails(j)
        PROVE  Started' /\ RemovalIsFinal' /\ RunningIsScheduled'
    BY <2>6, MakerMoves DEF MarkRejectedFails,
       Started, RemovalIsFinal, RunningIsScheduled, TypeOK, rows, Terminal
  <2>7. ASSUME NEW t \in Ticks, Fire(t)
        PROVE  Started' /\ RemovalIsFinal' /\ RunningIsScheduled'
    <3>1. /\ tick[t].pc = "idle" /\ JobOf(t) \in schedules
          /\ tick'[t].pc \notin {"idle", "removing"}
          /\ \A u \in Ticks \ {t} : tick'[u] = tick[u]
          /\ UNCHANGED <<status, schedules, cancelling, making, maker, up, unscheduled>>
      BY <2>7, GotoMoves DEF Fire, TypeOK, rows
    <3>2. Started'
      BY <3>1 DEF Started
    <3>3. RemovalIsFinal' /\ RunningIsScheduled'
      BY <3>1 DEF RemovalIsFinal, RunningIsScheduled
    <3>4. QED
      BY <3>2, <3>3
  <2>8. ASSUME NEW t \in Ticks, LoadStopped(t)
        PROVE  Started' /\ RemovalIsFinal' /\ RunningIsScheduled'
    BY <2>8, EndMoves DEF LoadStopped,
       Started, RemovalIsFinal, RunningIsScheduled, TypeOK, rows, Terminal
  <2>9. ASSUME NEW t \in Ticks, LoadRunning(t)
        PROVE  Started' /\ RemovalIsFinal' /\ RunningIsScheduled'
    <3>1. /\ tick[t].pc # "idle" /\ tick'[t].pc = "charging"
          /\ \A u \in Ticks \ {t} : tick'[u] = tick[u]
          /\ UNCHANGED <<status, schedules, cancelling, making, maker, up, unscheduled>>
      BY <2>9, BecomeMoves DEF LoadRunning, rows
    <3>2. Started'
      BY <3>1 DEF Started
    <3>3. RemovalIsFinal' /\ RunningIsScheduled'
      BY <3>1 DEF RemovalIsFinal, RunningIsScheduled
    <3>4. QED
      BY <3>2, <3>3
  <2>10. ASSUME NEW t \in Ticks, NEW verdict \in Terminal, Finish(t, verdict), tick[t].pc # "idle"
         PROVE  Started' /\ RemovalIsFinal' /\ RunningIsScheduled'
    BY <2>10, GotoMoves DEF Finish,
       Started, RemovalIsFinal, RunningIsScheduled, TypeOK, rows, Terminal
  <2>11. ASSUME NEW t \in Ticks, Charge(t)
         PROVE  Started' /\ RemovalIsFinal' /\ RunningIsScheduled'
    <3>1. /\ tick[t].pc # "idle" /\ tick'[t].pc = "agent"
          /\ \A u \in Ticks \ {t} : tick'[u] = tick[u]
      BY <2>11, BecomeMoves DEF Charge
    <3>2. QED
      BY <2>11, <3>1 DEF Charge, Started, RemovalIsFinal, RunningIsScheduled
  <2>12. ASSUME NEW t \in Ticks, NEW outcome \in Outcomes, TurnEnds(t, outcome)
         PROVE  Started' /\ RemovalIsFinal' /\ RunningIsScheduled'
    BY <2>12, BecomeMoves DEF TurnEnds,
       Started, RemovalIsFinal, RunningIsScheduled, TypeOK, rows, Terminal
  <2>13. ASSUME NEW t \in Ticks, SettleObserved(t)
         PROVE  Started' /\ RemovalIsFinal' /\ RunningIsScheduled'
    BY <2>13, EndMoves DEF SettleObserved,
       Started, RemovalIsFinal, RunningIsScheduled, TypeOK, rows, Terminal
  <2>14. ASSUME NEW t \in Ticks, SettleRaised(t)
         PROVE  Started' /\ RemovalIsFinal' /\ RunningIsScheduled'
    <3>1. /\ tick[t].pc # "idle" /\ tick'[t].pc = "recording"
          /\ \A u \in Ticks \ {t} : tick'[u] = tick[u]
      BY <2>14, BecomeMoves DEF SettleRaised
    <3>2. QED
      BY <2>14, <3>1 DEF SettleRaised, Started, RemovalIsFinal, RunningIsScheduled, rows
  <2>15. ASSUME NEW t \in Ticks, RecordFault(t)
         PROVE  Started' /\ RemovalIsFinal' /\ RunningIsScheduled'
    BY <2>15, EndMoves DEF RecordFault,
       Started, RemovalIsFinal, RunningIsScheduled, TypeOK, rows, Terminal
  <2>16. ASSUME NEW t \in Ticks, RemoveSchedule(t)
         PROVE  Started' /\ RemovalIsFinal' /\ RunningIsScheduled'
    BY <2>16, EndMoves DEF RemoveSchedule,
       Started, RemovalIsFinal, RunningIsScheduled, TypeOK, rows, Terminal
  <2>17. ASSUME NEW t \in Ticks, CallFails(t)
         PROVE  Started' /\ RemovalIsFinal' /\ RunningIsScheduled'
    BY <2>17, EndMoves, BecomeMoves DEF CallFails,
       Started, RemovalIsFinal, RunningIsScheduled, TypeOK, rows, Terminal
  <2>18. ASSUME NEW j \in Jobs, CancelRead(j)
         PROVE  Started' /\ RemovalIsFinal' /\ RunningIsScheduled'
    BY <2>18 DEF CancelRead,
       Started, RemovalIsFinal, RunningIsScheduled, TypeOK, rows, Terminal
  <2>19. ASSUME NEW j \in Jobs, CancelWrite(j)
         PROVE  Started' /\ RemovalIsFinal' /\ RunningIsScheduled'
    BY <2>19 DEF CancelWrite,
       Started, RemovalIsFinal, RunningIsScheduled, TypeOK, rows, Terminal
  <2>20. ASSUME NEW j \in Jobs, Purge(j)
         PROVE  Started' /\ RemovalIsFinal' /\ RunningIsScheduled'
    BY <2>20 DEF Purge, Started, RemovalIsFinal, RunningIsScheduled, TypeOK, rows
  <2>21. CASE Crash
    BY <2>21 DEF Crash, Started, RemovalIsFinal, RunningIsScheduled, TypeOK, rows, IdleTick
  <2>22. CASE Restart
    BY <2>22 DEF Restart, Orphaned, Started, RemovalIsFinal, RunningIsScheduled, TypeOK, rows
  <2>23. CASE UNCHANGED vars
    BY <2>23 DEF vars, Started, RemovalIsFinal, RunningIsScheduled
  <2>24. QED
    BY <2>1, <2>2, <2>3, <2>4, <2>5, <2>6, <2>7, <2>8, <2>9, <2>10, <2>11, <2>12, <2>13, <2>14,
       <2>15, <2>16, <2>17, <2>18, <2>19, <2>20, <2>21, <2>22, <2>23
       DEF Next, CreateStep, TickStep, CapReached, SettleDone, GiveUp, Terminal
<1>3. QED
  BY <1>1, <1>2, TypeCorrect, PTL DEF Spec, IInv

\* No running job is left without a schedule by creation, by a tick or by
\* recovery, whatever fails and whenever the process stops.
THEOREM RunningJobsAreScheduled == Spec => []RunningIsScheduled
BY InductiveInvariant, PTL DEF IInv

-----------------------------------------------------------------------------
(* The rows implement the contract.                                        *)

phase == [j \in Jobs |-> IF status[j] \in Terminal THEN "stopped" ELSE status[j]]

\* Ending a row that exists is a step of the contract, or none.
LEMMA StopIsContractual ==
  ASSUME TypeOK, NEW j \in Jobs, status[j] # "absent",
         NEW verdict \in Terminal, status' = [status EXCEPT ![j] = verdict]
  PROVE  [Contract!Next]_phase
<1>1. status[j] = "running" \/ status[j] \in Terminal
  BY DEF TypeOK, Statuses
<1>2. CASE status[j] = "running"
  <2>1. /\ phase[j] = "running"
        /\ phase' = [phase EXCEPT ![j] = "stopped"]
    BY <1>2 DEF phase, Terminal, TypeOK
  <2>2. QED
    BY <2>1 DEF Contract!Next, Contract!Stop, phase
<1>3. CASE status[j] \in Terminal
  BY <1>3 DEF phase, TypeOK
<1>4. QED
  BY <1>1, <1>2, <1>3

\* Inserting a row is a step of the contract.
LEMMA InsertIsContractual ==
  ASSUME TypeOK, NEW j \in Jobs, NEW by, InsertRow(j, by)
  PROVE  Contract!Next
<1>1. /\ phase[j] = "absent"
      /\ phase' = [phase EXCEPT ![j] = "running"]
  BY DEF InsertRow, phase, Terminal, TypeOK
<1>2. QED
  BY <1>1 DEF Contract!Next, Contract!Start, phase

\* Every step of the system starts a job, stops one, or changes no phase.
THEOREM JobsImplementContract == Spec => ImplementsContract
<1>1. Init => Contract!Init
  BY DEF Init, Contract!Init, Terminal
<1>2. ASSUME IInv, [Next]_vars PROVE [Contract!Next]_phase
  <2> USE TicksAreOfJobs, <1>2 DEF IInv
  <2>1. ASSUME UNCHANGED status PROVE [Contract!Next]_phase
    BY <2>1 DEF phase
  <2>2. ASSUME NEW j \in Jobs, UserAsks(j) \/ \E t \in Ticks : TurnAsks(t, j)
        PROVE  [Contract!Next]_phase
    BY <2>2, InsertIsContractual DEF UserAsks, TurnAsks
  <2>3. ASSUME NEW j \in Jobs, MarkRejected(j) PROVE [Contract!Next]_phase
    <3>1. status[j] # "absent" /\ status' = [status EXCEPT ![j] = "failed"]
      BY <2>3 DEF MarkRejected, Started
    <3>2. QED
      BY <3>1, StopIsContractual DEF Terminal
  <2>4. ASSUME NEW j \in Jobs, CancelWrite(j) PROVE [Contract!Next]_phase
    <3>1. status[j] # "absent" /\ status' = [status EXCEPT ![j] = "cancelled"]
      BY <2>4 DEF CancelWrite, Started
    <3>2. QED
      BY <3>1, StopIsContractual DEF Terminal
  <2>5. ASSUME NEW t \in Ticks, NEW verdict \in Terminal, tick[t].pc # "idle",
               Finish(t, verdict)
        PROVE  [Contract!Next]_phase
    <3>1. status[JobOf(t)] # "absent" /\ status' = [status EXCEPT ![JobOf(t)] = verdict]
      BY <2>5 DEF Finish, Started
    <3>2. QED
      BY <3>1, StopIsContractual
  <2>6. ASSUME NEW t \in Ticks, CapReached(t) \/ SettleDone(t) \/ GiveUp(t)
        PROVE  [Contract!Next]_phase
    BY <2>5, <2>6 DEF CapReached, SettleDone, GiveUp, Terminal
  <2>7. CASE \E j \in Jobs : RegisterTick(j) \/ RegistrationFails(j)
                             \/ MarkRejectedFails(j) \/ CancelRead(j) \/ Purge(j)
    BY <2>1, <2>7 DEF RegisterTick, RegistrationFails, MarkRejectedFails, CancelRead, Purge, rows
  <2>8. CASE \E t \in Ticks : Fire(t) \/ LoadStopped(t) \/ LoadRunning(t) \/ Charge(t)
    BY <2>1, <2>8 DEF Fire, LoadStopped, LoadRunning, Charge, rows
  <2>9. CASE \E t \in Ticks : \/ \E outcome \in Outcomes : TurnEnds(t, outcome)
                              \/ SettleObserved(t) \/ SettleRaised(t)
                              \/ RecordFault(t) \/ RemoveSchedule(t) \/ CallFails(t)
    BY <2>1, <2>9 DEF TurnEnds, SettleObserved, SettleRaised, RecordFault,
                      RemoveSchedule, CallFails, rows
  <2>10. CASE Crash \/ Restart \/ UNCHANGED vars
    BY <2>1, <2>10 DEF Crash, Restart, vars, rows
  <2>11. QED
    BY <2>2, <2>3, <2>4, <2>6, <2>7, <2>8, <2>9, <2>10 DEF Next, CreateStep, TickStep
<1>3. QED
  BY <1>1, <1>2, InductiveInvariant, PTL DEF Spec, ImplementsContract, Contract!Spec, phase

-----------------------------------------------------------------------------
(* Why a job failed.  A mark of a row, and one a tick is about to write,   *)
(* stands for a fault that a tick has settled; ticks that raised and have  *)
(* not written so are still to settle theirs.  So marks lost to overlapping *)
(* ticks only make the count too small.                                    *)

Raised(state) ==
  \/ state.pc = "recording"
  \/ state.pc = "settling" /\ state.outcome = "raised"

\* Ticks whose turn raised and that have not yet written so.
Raising(j) == {t \in Ticks : JobOf(t) = j /\ Raised(tick[t])}

\* Faults of a row that its marks may stand for.
Settled(j) == hist[j].raised - Cardinality(Raising(j))

FaultsAreReal ==
  /\ \A j \in Jobs : IsFiniteSet(Raising(j)) /\ marks[j] <= Settled(j)
  /\ \A t \in Ticks : tick[t].pc = "recording" => tick[t].seen <= Settled(JobOf(t))

\* No tick of the row has begun and none can.
Quiet(j) ==
  /\ hist[j].turns = 0 /\ j \notin schedules
  /\ \A t \in Ticks : JobOf(t) = j => tick[t].pc = "idle"

\* A row is quiet until it is registered, and the turn that makes it waits.
MakersWait ==
  /\ \A j \in Jobs : making[j] # "no" \/ status[j] = "absent" => Quiet(j)
  /\ \A j \in Jobs : making[j] # "no" => status[j] \in {"running", "cancelled"}
  /\ \A j \in Jobs : making[j] # "no" /\ maker[j] \in Ticks => tick[maker[j]].pc = "creating"
  /\ \A j, k \in Jobs : /\ making[j] # "no" /\ making[k] # "no"
                         /\ maker[j] \in Ticks /\ maker[j] = maker[k] => j = k
  /\ ~up => (\A j \in Jobs : making[j] = "no") /\ (\A t \in Ticks : tick[t].pc = "idle")

FailedIsExplained ==
  \A j \in Jobs : status[j] = "failed" => hist[j].raised >= MaxFaults \/ Quiet(j)

FInv == FaultsAreReal /\ MakersWait /\ FailedIsExplained

\* What the count of faults is made of are numbers.
LEMMA SettledIsNumber ==
  ASSUME TypeOK, NEW j \in Jobs, IsFiniteSet(Raising(j))
  PROVE  /\ Cardinality(Raising(j)) \in Nat /\ hist[j].raised \in Nat /\ hist[j].turns \in Nat
         /\ Settled(j) \in Int /\ Settled(j) <= hist[j].raised
<1>1. Cardinality(Raising(j)) \in Nat /\ hist[j].raised \in Nat /\ hist[j].turns \in Nat
  BY FS_CardinalityType DEF TypeOK
<1>2. QED
  BY <1>1 DEF Settled

\* One tick moves: no settled fault is taken back, and a tick that has written
\* its fault, or dropped it, settles one.
LEMMA SettledGrows ==
  ASSUME TypeOK, \A j \in Jobs : IsFiniteSet(Raising(j)),
         NEW t \in Ticks, NEW state, tick' = [tick EXCEPT ![t] = state],
         \A k \in Jobs : hist'[k].raised \in Nat /\ hist[k].raised <= hist'[k].raised,
         Raised(state) => \/ Raised(tick[t])
                          \/ hist'[JobOf(t)].raised = hist[JobOf(t)].raised + 1
  PROVE  /\ \A j \in Jobs : IsFiniteSet(Raising(j))' /\ Settled(j) <= Settled(j)'
         /\ Raised(tick[t]) /\ ~Raised(state) => Settled(JobOf(t))' >= Settled(JobOf(t)) + 1
<1>1. tick'[t] = state /\ \A u \in Ticks \ {t} : tick'[u] = tick[u]
  BY DEF TypeOK
<1>2. ASSUME NEW j \in Jobs, j # JobOf(t)
      PROVE  Raising(j)' = Raising(j)
  BY <1>1, <1>2 DEF Raising
<1>3. JobOf(t) \in Jobs
  BY TicksAreOfJobs
<1>4. CASE Raised(state)
  <2>1. Raising(JobOf(t))' = Raising(JobOf(t)) \union {t}
    BY <1>1, <1>4 DEF Raising
  <2>2. t \in Raising(JobOf(t)) <=> Raised(tick[t])
    BY DEF Raising
  <2>3. /\ IsFiniteSet(Raising(JobOf(t)))'
        /\ Cardinality(Raising(JobOf(t)))' =
             IF Raised(tick[t]) THEN Cardinality(Raising(JobOf(t)))
                                ELSE Cardinality(Raising(JobOf(t))) + 1
    BY <1>3, <2>1, <2>2, FS_AddElement
  <2>4. Settled(JobOf(t)) <= Settled(JobOf(t))'
    BY <1>3, <1>4, <2>3, SettledIsNumber DEF Settled
  <2>5. QED
    BY <1>2, <1>3, <1>4, <2>3, <2>4, SettledIsNumber DEF Settled
<1>5. CASE ~Raised(state)
  <2>1. Raising(JobOf(t))' = Raising(JobOf(t)) \ {t}
    BY <1>1, <1>5 DEF Raising
  <2>2. t \in Raising(JobOf(t)) <=> Raised(tick[t])
    BY DEF Raising
  <2>3. /\ IsFiniteSet(Raising(JobOf(t)))'
        /\ Cardinality(Raising(JobOf(t)))' =
             IF Raised(tick[t]) THEN Cardinality(Raising(JobOf(t))) - 1
                                ELSE Cardinality(Raising(JobOf(t)))
    BY <1>3, <2>1, <2>2, FS_RemoveElement
  <2>4. /\ Settled(JobOf(t)) <= Settled(JobOf(t))'
        /\ Raised(tick[t]) => Settled(JobOf(t))' >= Settled(JobOf(t)) + 1
    BY <1>3, <2>3, SettledIsNumber DEF Settled
  <2>5. QED
    BY <1>2, <1>3, <2>3, <2>4, SettledIsNumber DEF Settled
<1>6. QED
  BY <1>4, <1>5

\* One tick moves, and a row gets no mark but for a fault it settles.
LEMMA FaultsStayReal ==
  ASSUME TypeOK, TypeOK', FaultsAreReal,
         NEW t \in Ticks, NEW state, tick' = [tick EXCEPT ![t] = state],
         \A k \in Jobs : hist[k].raised <= hist'[k].raised,
         Raised(state) => \/ Raised(tick[t])
                          \/ hist'[JobOf(t)].raised = hist[JobOf(t)].raised + 1,
         state.pc = "recording" => state.seen \in Nat /\ state.seen <= Settled(JobOf(t)),
         \A j \in Jobs : \/ marks'[j] <= marks[j]
                         \/ /\ j = JobOf(t) /\ Raised(tick[t]) /\ ~Raised(state)
                            /\ marks'[j] <= Settled(j) + 1
  PROVE  FaultsAreReal'
<1>1. /\ \A j \in Jobs : IsFiniteSet(Raising(j))' /\ Settled(j) <= Settled(j)'
      /\ Raised(tick[t]) /\ ~Raised(state) => Settled(JobOf(t))' >= Settled(JobOf(t)) + 1
  <2>1. \A k \in Jobs : hist'[k].raised \in Nat
    BY DEF TypeOK
  <2>2. QED
    BY <2>1, SettledGrows DEF FaultsAreReal
<1>2. \A j \in Jobs : /\ Settled(j) \in Int /\ Settled(j)' \in Int
                     /\ marks[j] \in Int /\ marks'[j] \in Int /\ marks[j] <= Settled(j)
  <2>1. ASSUME NEW j \in Jobs PROVE Settled(j)' \in Int
    <3>1. Cardinality(Raising(j))' \in Nat
      BY <1>1, FS_CardinalityType
    <3>2. QED
      BY <3>1 DEF Settled, TypeOK
  <2>2. \A j \in Jobs : Settled(j) \in Int /\ marks[j] <= Settled(j)
    BY SettledIsNumber DEF FaultsAreReal
  <2>3. QED
    BY <2>1, <2>2, MaxFaultsIsPositive DEF TypeOK
<1>3. ASSUME NEW j \in Jobs PROVE marks'[j] <= Settled(j)'
  BY <1>1, <1>2
<1>4. ASSUME NEW u \in Ticks, tick'[u].pc = "recording"
      PROVE  tick'[u].seen <= Settled(JobOf(u))'
  <2>1. JobOf(u) \in Jobs /\ tick'[u].seen \in Nat
    BY TicksAreOfJobs DEF TypeOK, TickStates
  <2>2. tick'[u].seen <= Settled(JobOf(u))
    BY <1>4 DEF TypeOK, FaultsAreReal
  <2>3. QED
    BY <1>1, <1>2, <2>1, <2>2
<1>5. QED
  BY <1>1, <1>3, <1>4 DEF FaultsAreReal

\* A step that moves no tick and writes no mark changes no count of faults.
LEMMA FaultsUntouched ==
  ASSUME FaultsAreReal, UNCHANGED <<marks, tick, hist>>
  PROVE  FaultsAreReal'
BY DEF FaultsAreReal, Settled, Raising

\* The turn that asked for a row goes on: it has raised nothing, and its own
\* row was registered long ago.
LEMMA MakerGoesOnQuietly ==
  ASSUME TypeOK, TypeOK', FInv, NEW j \in Jobs, making[j] # "no",
         NEW pc \in {"settling", "model"}, MakerGoesOn(j, pc),
         making' = [making EXCEPT ![j] = "no"],
         hist' = hist, schedules' \in {schedules, schedules \union {j}},
         maker' = maker, up' = up,
         \A k \in Jobs : marks'[k] <= marks[k]
  PROVE  /\ FaultsAreReal'
         /\ \A k \in Jobs \ {j} : Quiet(k) => Quiet(k)'
         /\ schedules' = schedules => (Quiet(j) => Quiet(j)')
         /\ \A k \in Jobs : making'[k] # "no" /\ maker[k] \in Ticks
                             => tick'[maker[k]].pc = "creating"
         /\ ~up => \A t \in Ticks : tick'[t].pc = "idle"
<1>1. CASE maker[j] \in Ticks
  <2> DEFINE t == maker[j]
             state == [pc |-> pc, seen |-> 0, outcome |-> "observed"]
  <2>1. tick' = [tick EXCEPT ![t] = state] /\ tick[t].pc = "creating"
    BY <1>1 DEF MakerGoesOn, Become, FInv, MakersWait
  <2>2. FaultsAreReal'
    <3>1. ~Raised(state) /\ state.pc # "recording"
      BY DEF Raised
    <3>2. \A k \in Jobs : hist[k].raised <= hist'[k].raised
      BY DEF TypeOK
    <3>3. QED
      BY <1>1, <2>1, <3>1, <3>2, FaultsStayReal DEF FInv
  <2>3. \A k \in Jobs : Quiet(k) => JobOf(t) # k
    BY <1>1, <2>1 DEF Quiet
  <2>4. \A u \in Ticks \ {t} : tick'[u] = tick[u]
    BY <2>1 DEF TypeOK
  <2>5. \A k \in Jobs \ {j} : Quiet(k) => Quiet(k)'
    BY <2>3, <2>4 DEF Quiet
  <2>6. schedules' = schedules => (Quiet(j) => Quiet(j)')
    BY <2>3, <2>4 DEF Quiet
  <2>7. \A k \in Jobs : making'[k] # "no" /\ maker[k] \in Ticks => tick'[maker[k]].pc = "creating"
    BY <1>1, <2>4 DEF FInv, MakersWait, TypeOK
  <2>8. ~up => \A u \in Ticks : tick'[u].pc = "idle"
    BY DEF FInv, MakersWait
  <2>9. QED
    BY <2>2, <2>5, <2>6, <2>7, <2>8
<1>2. CASE maker[j] \notin Ticks
  <2>1. tick' = tick
    BY <1>2 DEF MakerGoesOn
  <2>2. FaultsAreReal'
    <3>1. \A k \in Jobs : Raising(k)' = Raising(k) /\ Settled(k)' = Settled(k)
      BY <2>1 DEF Raising, Settled
    <3>2. ASSUME NEW k \in Jobs PROVE marks'[k] <= Settled(k)'
      <4>1. marks'[k] \in Int /\ marks[k] \in Int /\ Settled(k) \in Int /\ marks[k] <= Settled(k)
        BY SettledIsNumber, MaxFaultsIsPositive DEF TypeOK, FInv, FaultsAreReal
      <4>2. QED
        BY <3>1, <4>1
    <3>3. QED
      BY <2>1, <3>1, <3>2, TicksAreOfJobs DEF FInv, FaultsAreReal
  <2>3. QED
    BY <2>1, <2>2 DEF FInv, MakersWait, Quiet, TypeOK
<1>3. QED
  BY <1>1, <1>2

\* A tick that has work to do moves: its row is not quiet, so what is said of
\* quiet rows stands.
LEMMA TickMovesOn ==
  ASSUME TypeOK, TypeOK', FInv,
         NEW t \in Ticks, NEW state, tick' = [tick EXCEPT ![t] = state],
         ~Quiet(JobOf(t)), tick[t].pc # "creating", up, UNCHANGED <<making, maker, up>>,
         schedules' \subseteq schedules,
         \A k \in Jobs : hist[k].raised <= hist'[k].raised,
         \A k \in Jobs \ {JobOf(t)} : hist'[k] = hist[k] /\ status'[k] = status[k],
         \/ status'[JobOf(t)] = status[JobOf(t)]
         \/ status'[JobOf(t)] \in {"done", "failed"}
            /\ (status'[JobOf(t)] = "failed" => hist[JobOf(t)].raised >= MaxFaults),
         Raised(state) => \/ Raised(tick[t])
                          \/ hist'[JobOf(t)].raised = hist[JobOf(t)].raised + 1,
         state.pc = "recording" => state.seen \in Nat /\ state.seen <= Settled(JobOf(t)),
         \A j \in Jobs : \/ marks'[j] <= marks[j]
                         \/ /\ j = JobOf(t) /\ Raised(tick[t]) /\ ~Raised(state)
                            /\ marks'[j] <= Settled(j) + 1
  PROVE  FInv'
<1>1. FaultsAreReal'
  BY FaultsStayReal DEF FInv
<1>2. /\ \A u \in Ticks \ {t} : tick'[u] = tick[u]
      /\ \A k \in Jobs \ {JobOf(t)} : Quiet(k) => Quiet(k)'
  <2>1. \A u \in Ticks \ {t} : tick'[u] = tick[u]
    BY DEF TypeOK
  <2>2. QED
    BY <2>1 DEF Quiet
<1>3. MakersWait'
  BY <1>2, TicksAreOfJobs DEF FInv, MakersWait
<1>4. ASSUME NEW k \in Jobs, status'[k] = "failed"
      PROVE  hist'[k].raised >= MaxFaults \/ Quiet(k)'
  <2>1. hist[k].raised \in Nat /\ hist'[k].raised \in Nat
    BY DEF TypeOK
  <2>2. CASE k # JobOf(t)
    BY <1>2, <1>4, <2>2 DEF FInv, FailedIsExplained
  <2>3. CASE k = JobOf(t)
    BY <1>4, <2>1, <2>3, MaxFaultsIsPositive DEF FInv, FailedIsExplained
  <2>4. QED
    BY <2>2, <2>3
<1>5. QED
  BY <1>1, <1>3, <1>4 DEF FInv, FailedIsExplained

\* A tick under way has a row that is not quiet, and a bot that is up.
LEMMA TickAtWork ==
  ASSUME TypeOK, MakersWait, NEW t \in Ticks, tick[t].pc # "idle"
  PROVE  ~Quiet(JobOf(t)) /\ up /\ JobOf(t) \in Jobs
BY TicksAreOfJobs DEF Quiet, MakersWait, TypeOK

\* What a job failed of: the inductive invariant.
THEOREM FaultInvariant == Spec => []FInv
<1> USE MaxFaultsIsPositive, TicksAreOfJobs
<1>1. Init => FInv
  <2>1. Init => \A t \in Ticks : ~Raised(tick[t]) /\ tick[t].pc = "idle"
    BY DEF Init, Raised, IdleTick
  <2>2. Init => FaultsAreReal
    <3>1. Init => \A j \in Jobs : Raising(j) = {}
      BY <2>1 DEF Raising
    <3>2. Init => \A j \in Jobs : Cardinality(Raising(j)) = 0 /\ IsFiniteSet(Raising(j))
      BY <3>1, FS_EmptySet
    <3>3. QED
      BY <2>1, <3>2 DEF Init, FaultsAreReal, Settled
  <2>3. Init => MakersWait /\ FailedIsExplained
    BY DEF Init, MakersWait, FailedIsExplained, Quiet, IdleTick
  <2>4. QED
    BY <2>2, <2>3 DEF FInv
<1>2. ASSUME IInv, IInv', FInv, [Next]_vars PROVE FInv'
  <2> USE <1>2
  <2>0. TypeOK /\ TypeOK' /\ Started /\ FaultsAreReal /\ MakersWait /\ FailedIsExplained
    BY DEF IInv, FInv
  <2> USE <2>0
  <2>1. ASSUME NEW j \in Jobs, UserAsks(j) PROVE FInv'
    <3>1. FaultsAreReal'
      BY <2>1, FaultsUntouched DEF UserAsks
    <3>2. MakersWait' /\ FailedIsExplained'
      BY <2>1, UserIsNoTick
         DEF UserAsks, InsertRow, MakersWait, FailedIsExplained, Quiet, TypeOK, Ticks
    <3>3. QED
      BY <3>1, <3>2 DEF FInv
  <2>2. ASSUME NEW t \in Ticks, NEW j \in Jobs, TurnAsks(t, j) PROVE FInv'
    <3> DEFINE state == [pc |-> "creating", seen |-> tick[t].seen, outcome |-> tick[t].outcome]
    <3>1. tick' = [tick EXCEPT ![t] = state] /\ tick[t].pc = "agent" /\ status[j] = "absent"
      BY <2>2 DEF TurnAsks, Goto, Become, InsertRow
    <3>2. FaultsAreReal'
      <4>1. ~Raised(state) /\ state.pc # "recording"
        BY DEF Raised
      <4>2. /\ \A k \in Jobs : hist[k].raised <= hist'[k].raised
            /\ \A k \in Jobs : marks'[k] <= marks[k]
        BY <2>2 DEF TurnAsks, TypeOK
      <4>3. QED
        BY <3>1, <4>1, <4>2, FaultsStayReal
    <3>3. /\ \A u \in Ticks \ {t} : tick'[u] = tick[u]
          /\ tick'[t].pc = "creating" /\ up
      BY <3>1 DEF TypeOK, MakersWait
    <3>4. \A k \in Jobs : Quiet(k) => Quiet(k)'
      BY <2>2, <3>1, <3>3 DEF Quiet, TurnAsks
    <3>5. /\ maker'[j] = t /\ making'[j] = "inserted" /\ up' = up
          /\ \A k \in Jobs \ {j} : /\ maker'[k] = maker[k] /\ making'[k] = making[k]
                                  /\ status'[k] = status[k]
          /\ status'[j] = "running"
      BY <2>2 DEF TurnAsks, InsertRow, TypeOK
    <3>6. MakersWait'
      BY <3>1, <3>3, <3>4, <3>5 DEF MakersWait
    <3>7. FailedIsExplained'
      BY <2>2, <3>4, <3>5 DEF FailedIsExplained, TurnAsks
    <3>8. QED
      BY <3>2, <3>6, <3>7 DEF FInv
  <2>3. ASSUME NEW j \in Jobs, RegisterTick(j) PROVE FInv'
    <3>1. /\ FaultsAreReal'
          /\ \A k \in Jobs \ {j} : Quiet(k) => Quiet(k)'
          /\ \A k \in Jobs : making'[k] # "no" /\ maker[k] \in Ticks
                              => tick'[maker[k]].pc = "creating"
          /\ ~up => \A t \in Ticks : tick'[t].pc = "idle"
      <4>1. \A k \in Jobs : marks'[k] <= marks[k]
        BY <2>3 DEF RegisterTick, TypeOK, rows
      <4>2. QED
        BY <2>3, <4>1, MakerGoesOnQuietly DEF RegisterTick
    <3>2. MakersWait' /\ FailedIsExplained'
      BY <2>3, <3>1 DEF RegisterTick, rows, MakersWait, FailedIsExplained, TypeOK
    <3>3. QED
      BY <3>1, <3>2 DEF FInv
  <2>4. ASSUME NEW j \in Jobs, RegistrationFails(j) PROVE FInv'
    <3>1. FaultsAreReal'
      BY <2>4, FaultsUntouched DEF RegistrationFails, rows
    <3>2. QED
      BY <2>4, <3>1
         DEF RegistrationFails, rows, FInv, MakersWait, FailedIsExplained, Quiet, TypeOK
  <2>5. ASSUME NEW j \in Jobs, MarkRejected(j) \/ MarkRejectedFails(j) PROVE FInv'
    <3>1. /\ FaultsAreReal'
          /\ \A k \in Jobs : Quiet(k) => Quiet(k)'
          /\ \A k \in Jobs : making'[k] # "no" /\ maker[k] \in Ticks
                              => tick'[maker[k]].pc = "creating"
          /\ ~up => \A t \in Ticks : tick'[t].pc = "idle"
      <4>1. \A k \in Jobs : marks'[k] <= marks[k]
        BY <2>5 DEF MarkRejected, MarkRejectedFails, TypeOK, rows
      <4>2. QED
        BY <2>5, <4>1, MakerGoesOnQuietly DEF MarkRejected, MarkRejectedFails
    <3>2. /\ \A k \in Jobs \ {j} : making'[k] = making[k] /\ status'[k] = status[k]
          /\ making'[j] = "no" /\ making[j] # "no" /\ Quiet(j)'
          /\ hist' = hist /\ up' = up /\ maker' = maker
          /\ status'[j] \in {"failed", status[j]}
      BY <2>5, <3>1 DEF MarkRejected, MarkRejectedFails, rows, TypeOK, MakersWait
    <3>3. MakersWait' /\ FailedIsExplained'
      BY <3>1, <3>2 DEF MakersWait, FailedIsExplained
    <3>4. QED
      BY <3>1, <3>3 DEF FInv
  <2>6. ASSUME NEW t \in Ticks, Fire(t) PROVE FInv'
    <3> DEFINE state == [pc |-> "fired", seen |-> tick[t].seen, outcome |-> tick[t].outcome]
    <3>1. tick' = [tick EXCEPT ![t] = state] /\ tick[t].pc = "idle" /\ ~Quiet(JobOf(t))
      BY <2>6 DEF Fire, Goto, Become, Quiet
    <3>2. ~Raised(state) /\ state.pc # "recording"
      BY DEF Raised
    <3>3. \A k \in Jobs : hist[k].raised <= hist'[k].raised /\ marks'[k] <= marks[k]
      BY <2>6 DEF Fire, rows, TypeOK
    <3>4. QED
      BY <2>6, <3>1, <3>2, <3>3, TickMovesOn DEF Fire, rows
  <2>7. ASSUME NEW t \in Ticks, NEW pc \in {"idle", "charging"}, NEW seen, NEW outcome,
               tick[t].pc \notin {"idle", "creating"}, Become(t, pc, seen, outcome),
               UNCHANGED <<status, schedules, making, maker, up, hist>>,
               marks' = marks \/ (/\ Raised(tick[t])
                                  /\ \A j \in Jobs : \/ marks'[j] <= marks[j]
                                                     \/ j = JobOf(t) /\ marks'[j] <= Settled(j) + 1)
        PROVE  FInv'
    <3> DEFINE state == [pc |-> pc, seen |-> seen, outcome |-> outcome]
    <3>1. tick' = [tick EXCEPT ![t] = state]
      BY <2>7 DEF Become
    <3>2. ~Raised(state) /\ state.pc # "recording"
      BY DEF Raised
    <3>3. \A k \in Jobs : hist[k].raised <= hist'[k].raised
      BY <2>7 DEF TypeOK
    <3>4. \A j \in Jobs : \/ marks'[j] <= marks[j]
                          \/ j = JobOf(t) /\ Raised(tick[t]) /\ marks'[j] <= Settled(j) + 1
      BY <2>7, MaxFaultsIsPositive DEF TypeOK
    <3>5. QED
      BY <2>7, <3>1, <3>2, <3>3, <3>4, TickAtWork, TickMovesOn
  <2>8. ASSUME NEW t \in Ticks, LoadStopped(t) \/ LoadRunning(t) \/ SettleObserved(t)
                                \/ RemoveSchedule(t)
        PROVE  FInv'
    <3>1. CASE RemoveSchedule(t)
      <4> DEFINE state == IdleTick
      <4>1. tick' = [tick EXCEPT ![t] = state] /\ tick[t].pc = "removing"
        BY <3>1 DEF RemoveSchedule, End, Become, IdleTick
      <4>2. ~Raised(state) /\ state.pc # "recording"
        BY DEF Raised, IdleTick
      <4>3. \A k \in Jobs : hist[k].raised <= hist'[k].raised /\ marks'[k] <= marks[k]
        BY <3>1 DEF RemoveSchedule, rows, TypeOK
      <4>4. QED
        BY <3>1, <4>1, <4>2, <4>3, TickAtWork, TickMovesOn DEF RemoveSchedule, rows
    <3>2. CASE LoadRunning(t)
      BY <2>7, <3>2 DEF LoadRunning, rows
    <3>3. CASE LoadStopped(t) \/ SettleObserved(t)
      BY <2>7, <3>3 DEF LoadStopped, SettleObserved, End, IdleTick, rows
    <3>4. QED
      BY <2>8, <3>1, <3>2, <3>3
  <2>9. ASSUME NEW t \in Ticks, NEW verdict \in {"done", "failed"},
               tick[t].pc \notin {"idle", "creating"}, Finish(t, verdict),
               verdict = "failed" => hist[JobOf(t)].raised >= MaxFaults
        PROVE  FInv'
    <3> DEFINE state == [pc |-> "removing", seen |-> tick[t].seen, outcome |-> tick[t].outcome]
    <3>1. tick' = [tick EXCEPT ![t] = state]
      BY <2>9 DEF Finish, Goto, Become
    <3>2. ~Raised(state) /\ state.pc # "recording"
      BY DEF Raised
    <3>3. \A k \in Jobs : hist[k].raised <= hist'[k].raised /\ marks'[k] <= marks[k]
      BY <2>9 DEF Finish, TypeOK
    <3>4. /\ \A k \in Jobs \ {JobOf(t)} : status'[k] = status[k]
          /\ status'[JobOf(t)] = verdict
      BY <2>9 DEF Finish, TypeOK
    <3>5. QED
      BY <2>9, <3>1, <3>2, <3>3, <3>4, TickAtWork, TickMovesOn DEF Finish
  <2>10. ASSUME NEW t \in Ticks, CapReached(t) \/ SettleDone(t) PROVE FInv'
    BY <2>9, <2>10 DEF CapReached, SettleDone
  <2>11. ASSUME NEW t \in Ticks, tick[t].pc = "recording"
         PROVE  /\ JobOf(t) \in Jobs /\ tick[t].seen \in Nat /\ hist[JobOf(t)].raised \in Nat
                /\ Settled(JobOf(t)) \in Int /\ tick[t].seen <= Settled(JobOf(t))
                /\ Settled(JobOf(t)) + 1 <= hist[JobOf(t)].raised
    <3>1. t \in Raising(JobOf(t))
      BY <2>11 DEF Raising, Raised
    <3>2. Cardinality(Raising(JobOf(t))) \in Nat /\ Cardinality(Raising(JobOf(t))) # 0
      BY <3>1, FS_EmptySet, FS_CardinalityType DEF FaultsAreReal
    <3>3. QED
      BY <2>11, <3>2 DEF FaultsAreReal, Settled, TypeOK, TickStates
  <2>12. ASSUME NEW t \in Ticks, GiveUp(t) PROVE FInv'
    <3>1. tick[t].pc = "recording" /\ tick[t].seen + 1 >= MaxFaults /\ Finish(t, "failed")
      BY <2>12 DEF GiveUp, TooManyFaults
    <3>2. hist[JobOf(t)].raised >= MaxFaults
      BY <2>11, <3>1
    <3>3. QED
      BY <2>9, <3>1, <3>2
  <2>13. ASSUME NEW t \in Ticks, RecordFault(t) PROVE FInv'
    <3>1. tick[t].pc = "recording" /\ Raised(tick[t])
      BY <2>13 DEF RecordFault, Raised
    <3>2. \A j \in Jobs : \/ marks'[j] <= marks[j]
                          \/ j = JobOf(t) /\ marks'[j] <= Settled(j) + 1
      BY <2>11, <2>13, <3>1 DEF RecordFault, TypeOK
    <3>3. Become(t, "idle", 0, "observed")
      BY <2>13 DEF RecordFault, End, IdleTick
    <3>4. QED
      BY <2>7, <2>13, <3>1, <3>2, <3>3 DEF RecordFault
  <2>14. ASSUME NEW t \in Ticks, Charge(t) PROVE FInv'
    <3> DEFINE state == [pc |-> "agent", seen |-> 0, outcome |-> "observed"]
    <3>1. tick' = [tick EXCEPT ![t] = state] /\ tick[t].pc = "charging"
      BY <2>14 DEF Charge, Become
    <3>2. ~Raised(state) /\ state.pc # "recording"
      BY DEF Raised
    <3>3. /\ \A k \in Jobs : hist[k].raised <= hist'[k].raised /\ marks'[k] <= marks[k]
          /\ \A k \in Jobs \ {JobOf(t)} : hist'[k] = hist[k]
      BY <2>14 DEF Charge, NoteTurn, Note, TypeOK
    <3>4. QED
      BY <2>14, <3>1, <3>2, <3>3, TickAtWork, TickMovesOn DEF Charge
  <2>15. ASSUME NEW t \in Ticks, NEW outcome \in Outcomes, TurnEnds(t, outcome) PROVE FInv'
    <3> DEFINE state == [pc |-> "settling", seen |-> 0, outcome |-> outcome]
    <3>1. tick' = [tick EXCEPT ![t] = state] /\ tick[t].pc \notin {"idle", "creating"}
      BY <2>15 DEF TurnEnds, Become
    <3>2. state.pc # "recording" /\ (Raised(state) => outcome = "raised")
      BY DEF Raised
    <3>3. /\ \A k \in Jobs : hist[k].raised <= hist'[k].raised /\ marks'[k] <= marks[k]
          /\ \A k \in Jobs \ {JobOf(t)} : hist'[k] = hist[k]
          /\ outcome = "raised" => hist'[JobOf(t)].raised = hist[JobOf(t)].raised + 1
      BY <2>15 DEF TurnEnds, NoteRaise, Note, TypeOK, rows
    <3>4. QED
      BY <2>15, <3>1, <3>2, <3>3, TickAtWork, TickMovesOn DEF TurnEnds, rows
  <2>16. ASSUME NEW t \in Ticks, SettleRaised(t) PROVE FInv'
    <3> DEFINE state == [pc |-> "recording", seen |-> marks[JobOf(t)], outcome |-> "raised"]
    <3>1. tick' = [tick EXCEPT ![t] = state] /\ tick[t].pc = "settling" /\ Raised(tick[t])
      BY <2>16 DEF SettleRaised, Become, Raised
    <3>2. state.seen \in Nat /\ state.seen <= Settled(JobOf(t))
      BY DEF FaultsAreReal, TypeOK
    <3>3. \A k \in Jobs : hist[k].raised <= hist'[k].raised /\ marks'[k] <= marks[k]
      BY <2>16 DEF SettleRaised, TypeOK, rows
    <3>4. QED
      BY <2>16, <3>1, <3>2, <3>3, TickAtWork, TickMovesOn DEF SettleRaised, rows
  <2>17. ASSUME NEW t \in Ticks, CallFails(t) PROVE FInv'
    <3>1. CASE tick[t].pc = "settling" /\ tick[t].outcome # "raised"
      <4> DEFINE state == [pc |-> "settling", seen |-> 0, outcome |-> "raised"]
      <4>1. tick' = [tick EXCEPT ![t] = state]
        BY <2>17, <3>1 DEF CallFails, Become
      <4>2. state.pc # "recording"
        OBVIOUS
      <4>3. /\ \A k \in Jobs : hist[k].raised <= hist'[k].raised /\ marks'[k] <= marks[k]
            /\ \A k \in Jobs \ {JobOf(t)} : hist'[k] = hist[k]
            /\ hist'[JobOf(t)].raised = hist[JobOf(t)].raised + 1
        BY <2>17, <3>1 DEF CallFails, NoteRaise, Note, TypeOK, rows
      <4>4. QED
        BY <2>17, <3>1, <4>1, <4>2, <4>3, TickAtWork, TickMovesOn DEF CallFails, rows
    <3>2. CASE ~(tick[t].pc = "settling" /\ tick[t].outcome # "raised")
      BY <2>7, <2>17, <3>2 DEF CallFails, End, IdleTick, rows
    <3>3. QED
      BY <3>1, <3>2
  <2>18. ASSUME NEW j \in Jobs, CancelRead(j) \/ CancelWrite(j) PROVE FInv'
    <3>1. FaultsAreReal'
      BY <2>18, FaultsUntouched DEF CancelRead, CancelWrite, rows
    <3>2. QED
      BY <2>18, <3>1 DEF CancelRead, CancelWrite, rows, FInv, MakersWait, FailedIsExplained,
                         Quiet, TypeOK
  <2>19. ASSUME NEW j \in Jobs, Purge(j) PROVE FInv'
    <3>1. FaultsAreReal'
      BY <2>19, FaultsUntouched DEF Purge, rows
    <3>2. QED
      BY <2>19, <3>1 DEF Purge, rows, FInv, MakersWait, FailedIsExplained, Quiet
  <2>20. CASE Crash
    <3>1. \A j \in Jobs : Raising(j)' = {}
      BY <2>20 DEF Crash, Raising, Raised, IdleTick
    <3>2. ASSUME NEW j \in Jobs PROVE IsFiniteSet(Raising(j))' /\ marks'[j] <= Settled(j)'
      <4>0. IsFiniteSet(Raising(j))' /\ Cardinality(Raising(j))' = 0
        BY <3>1, FS_EmptySet
      <4>1. IsFiniteSet(Raising(j))' /\ Settled(j)' = hist[j].raised
        BY <2>20, <4>0 DEF Crash, Settled, TypeOK
      <4>2. marks'[j] = marks[j] /\ marks[j] \in Int /\ marks[j] <= Settled(j)
        BY <2>20 DEF Crash, rows, TypeOK, FaultsAreReal
      <4>3. QED
        BY <4>1, <4>2, SettledIsNumber DEF FaultsAreReal
    <3>3. FaultsAreReal'
      BY <2>20, <3>2 DEF Crash, FaultsAreReal, IdleTick
    <3>4. MakersWait' /\ FailedIsExplained'
      BY <2>20 DEF Crash, rows, MakersWait, FailedIsExplained, Quiet, IdleTick
    <3>5. QED
      BY <3>3, <3>4 DEF FInv
  <2>21. CASE Restart
    <3>1. FaultsAreReal'
      BY <2>21, FaultsUntouched DEF Restart, rows
    <3>2. QED
      BY <2>21, <3>1 DEF Restart, Orphaned, rows, FInv, MakersWait, FailedIsExplained, Quiet
  <2>22. CASE UNCHANGED vars
    <3>1. FaultsAreReal'
      BY <2>22, FaultsUntouched DEF vars
    <3>2. QED
      BY <2>22, <3>1 DEF vars, rows, FInv, MakersWait, FailedIsExplained, Quiet
  <2>23. QED
    BY <2>1, <2>2, <2>3, <2>4, <2>5, <2>6, <2>8, <2>10, <2>12, <2>13, <2>14, <2>15, <2>16, <2>17,
       <2>18, <2>19, <2>20, <2>21, <2>22 DEF Next, CreateStep, TickStep
<1>3. QED
  BY <1>1, <1>2, InductiveInvariant, PTL DEF Spec

\* No job fails but by MaxFaults raised turns of its own, or before its first
\* turn: overlapping ticks, lost marks and failed calls invent no fault.
THEOREM JobsFailForAReason == Spec => []FailedAfterFaults
<1>1. FInv => FailedAfterFaults
  BY DEF FInv, FailedIsExplained, FailedAfterFaults, Quiet
<1>2. QED
  BY <1>1, FaultInvariant, PTL

-----------------------------------------------------------------------------
(* The health records.  A run that ended adds one to what a record may     *)
(* say; a call under way has yet to use the one its release added.         *)

Failing == {l \in listening : ~l.ok}

\* A listener call is known by the number of its release.
OneCallPerRun ==
  /\ IsFiniteSet(listening)
  /\ \A l \in listening : l.run <= released
  /\ \A l, m \in listening : l.run = m.run => l = m

\* What a record may say while the calls under way have yet to add to it.
Earned(record) ==
  /\ record.runs + Cardinality(listening) <= released
  /\ record.failures + Cardinality(Failing) <= wentWrong
  /\ record.consecutive <= record.failures

\* While no success is blurred, the consecutive failures a record holds and
\* the calls yet to add to it are among the failures in a row; a success under
\* way is alone, and what it will reset was once that many in a row.
InARow(record) == record.consecutive + Cardinality(listening) <= streak
CountsInARow ==
  IF Succeeding = {}
  THEN InARow(health) /\ \A l \in listening : InARow(l.record)
  ELSE (\E s \in listening : listening = {s}) /\ health.consecutive <= longest

HealthInv ==
  /\ HealthTypeOK
  /\ OneCallPerRun
  /\ streak <= released /\ longest <= released /\ streak <= longest
  /\ ~blurred => CountsInARow
  /\ wentWrong <= released
  /\ Earned(health)
  /\ \A l \in listening : Earned(l.record)

\* The sizes the invariant speaks of are numbers.
LEMMA CallsAreCounted ==
  ASSUME IsFiniteSet(listening)
  PROVE  /\ IsFiniteSet(Failing)
         /\ Cardinality(listening) \in Nat /\ Cardinality(Failing) \in Nat
BY FS_Subset, FS_CardinalityType DEF Failing

\* A call that ends makes room for what it adds.
LEMMA CallEnds ==
  ASSUME IsFiniteSet(listening), NEW l \in listening, l.ok \in BOOLEAN,
         listening' = listening \ {l}
  PROVE  /\ IsFiniteSet(listening)'
         /\ Cardinality(listening)' = Cardinality(listening) - 1
         /\ Cardinality(Failing)' = Cardinality(Failing) - (IF l.ok THEN 0 ELSE 1)
<1>1. IsFiniteSet(listening)' /\ Cardinality(listening)' = Cardinality(listening) - 1
  BY FS_RemoveElement
<1>2. Failing' = Failing \ {l}
  BY DEF Failing
<1>3. (l \in Failing) <=> ~l.ok
  BY DEF Failing
<1>4. IsFiniteSet(Failing) /\ Cardinality(Failing) \in Nat
  BY CallsAreCounted
<1>5. Cardinality(Failing)' =
        IF l \in Failing THEN Cardinality(Failing) - 1 ELSE Cardinality(Failing)
  BY <1>2, <1>4, FS_RemoveElement
<1>6. QED
  BY <1>1, <1>3, <1>4, <1>5

\* A call that begins takes up the room its release made.
LEMMA CallBegins ==
  ASSUME IsFiniteSet(listening), NEW l, l \notin listening, l.ok \in BOOLEAN,
         listening' = listening \union {l}
  PROVE  /\ IsFiniteSet(listening)'
         /\ Cardinality(listening)' = Cardinality(listening) + 1
         /\ Cardinality(Failing)' = Cardinality(Failing) + (IF l.ok THEN 0 ELSE 1)
<1>1. IsFiniteSet(listening)' /\ Cardinality(listening)' = Cardinality(listening) + 1
  BY FS_AddElement
<1>2. CASE l.ok
  <2>1. Failing' = Failing
    BY <1>2 DEF Failing
  <2>2. QED
    BY <1>1, <1>2, <2>1, CallsAreCounted
<1>3. CASE ~l.ok
  <2>1. Failing' = Failing \union {l} /\ l \notin Failing
    BY <1>3 DEF Failing
  <2>2. QED
    BY <1>1, <1>3, <2>1, CallsAreCounted, FS_AddElement
<1>4. QED
  BY <1>2, <1>3

\* A call that has read the record is the same call.
LEMMA CallReads ==
  ASSUME IsFiniteSet(listening), NEW l \in listening, NEW m, m \notin listening \ {l},
         m.ok = l.ok, l.ok \in BOOLEAN, listening' = (listening \ {l}) \union {m}
  PROVE  /\ IsFiniteSet(listening)'
         /\ Cardinality(listening)' = Cardinality(listening)
         /\ Cardinality(Failing)' = Cardinality(Failing)
<1> DEFINE rest == listening \ {l}
           failing == Failing \ {l}
<1>1. /\ IsFiniteSet(rest) /\ Cardinality(rest) = Cardinality(listening) - 1
      /\ IsFiniteSet(Failing) /\ Cardinality(Failing) \in Nat /\ Cardinality(listening) \in Nat
  BY CallsAreCounted, FS_RemoveElement
<1>2. IsFiniteSet(listening)' /\ Cardinality(listening)' = Cardinality(listening)
  BY <1>1, FS_AddElement
<1>3. CASE l.ok
  <2>1. Failing' = Failing
    BY <1>3 DEF Failing
  <2>2. QED
    BY <1>2, <2>1
<1>4. CASE ~l.ok
  <2>1. l \in Failing /\ m \notin failing
    BY <1>4 DEF Failing
  <2>3. Failing' = failing \union {m}
    BY <1>4 DEF Failing
  <2>2. IsFiniteSet(failing) /\ Cardinality(failing) = Cardinality(Failing) - 1
    BY <1>1, <2>1, FS_RemoveElement
  <2>4. Cardinality(Failing)' = Cardinality(failing) + 1
    BY <2>1, <2>2, <2>3, FS_AddElement
  <2>5. QED
    BY <1>1, <1>2, <2>2, <2>4
<1>5. QED
  BY <1>3, <1>4

\* What the records are made of are numbers.
LEMMA RecordsAreNumbers ==
  ASSUME HealthTypeOK
  PROVE  /\ health.runs \in Nat /\ health.failures \in Nat /\ health.consecutive \in Nat
         /\ released \in Nat /\ wentWrong \in Nat /\ streak \in Nat /\ longest \in Nat
         /\ \A l \in listening : /\ l.record.runs \in Nat /\ l.record.failures \in Nat
                                 /\ l.record.consecutive \in Nat /\ l.ok \in BOOLEAN
                                 /\ l.record \in Records /\ l.run \in Nat
BY HealthBounds DEF HealthTypeOK, Records, Counts

\* The record says no more than happened: the inductive invariant.  Every run
\* that ended adds one to what a record may say, and a call under way has yet
\* to use the one its release added.
THEOREM HealthInvariant == HealthSpec => []HealthInv
<1> USE HealthBounds
<1>1. HealthInit => HealthInv
  <2> SUFFICES ASSUME HealthInit PROVE HealthInv
    OBVIOUS
  <2>5. blurred \in BOOLEAN
    BY Zenon DEF HealthInit
  <2>1. HealthTypeOK
    BY <2>5 DEF HealthInit, HealthTypeOK, NoRecord, Records, Counts
  <2>2. listening = {} /\ Failing = {} /\ Succeeding = {} /\ Cardinality({}) = 0
    BY FS_EmptySet DEF HealthInit, Failing, Succeeding
  <2>3. OneCallPerRun /\ Earned(health) /\ CountsInARow
    BY <2>2, FS_EmptySet
       DEF HealthInit, OneCallPerRun, Earned, CountsInARow, InARow, NoRecord
  <2>4. QED
    BY <2>1, <2>2, <2>3 DEF HealthInit, HealthInv
<1>2. ASSUME HealthInv, [HealthNext]_healthVars PROVE HealthInv'
  <2> USE <1>2 DEF HealthInv
  <2>0. /\ IsFiniteSet(listening) /\ Cardinality(listening) \in Nat
        /\ Cardinality(Failing) \in Nat
    BY CallsAreCounted DEF OneCallPerRun
  <2>1. CASE StartListening
    BY <2>1 DEF StartListening, outcomes, HealthTypeOK, OneCallPerRun, Earned, Failing,
       CountsInARow, InARow, Succeeding
  <2>2. ASSUME NEW ok \in BOOLEAN, Told(ok), wentWrong' \in {wentWrong, wentWrong + 1},
               ~ok => wentWrong' = wentWrong + 1
        PROVE  HealthInv'
    <3> USE DEF Told
    <3> DEFINE call == [run |-> released + 1, ok |-> ok, at |-> "called", record |-> NoRecord]
    <3>1. Called(ok) = {call}
      BY <2>2, RecordsAreNumbers DEF Called, HealthTypeOK
    <3>2. call \notin listening /\ call.ok = ok
      BY RecordsAreNumbers DEF OneCallPerRun
    <3>3. /\ IsFiniteSet(listening)'
          /\ Cardinality(listening)' = Cardinality(listening) + 1
          /\ Cardinality(Failing)' = Cardinality(Failing) + (IF ok THEN 0 ELSE 1)
      <4>1. listening' = listening \union {call}
        BY <2>2, <3>1
      <4>2. QED
        BY <2>0, <2>2, <3>2, <4>1, CallBegins DEF OneCallPerRun
    <3>12. /\ streak' \in Nat /\ longest' \in Nat
           /\ streak' <= released' /\ longest' <= released' /\ streak' <= longest'
      BY <2>2, RecordsAreNumbers
    <3>4. HealthTypeOK'
      BY <2>2, <3>1, <3>12, RecordsAreNumbers DEF HealthTypeOK, Records, Counts, NoRecord
    <3>13. ~blurred' => CountsInARow'
      <4> SUFFICES ASSUME ~blurred' PROVE CountsInARow'
        OBVIOUS
      <4>1. /\ ~blurred /\ Succeeding = {} /\ CountsInARow
            /\ ok => listening = {}
        BY <2>2
      <4>2. CASE ok
        <5>1. listening' = {call} /\ Succeeding' = {call}
          BY <2>2, <3>1, <3>2, <4>1, <4>2 DEF Succeeding
        <5>2. health.consecutive <= streak
          BY <2>0, <4>1, RecordsAreNumbers DEF CountsInARow, InARow
        <5>3. health'.consecutive <= longest'
          BY <2>2, <4>2, <5>2, RecordsAreNumbers
        <5>4. QED
          BY <5>1, <5>3 DEF CountsInARow
      <4>3. CASE ~ok
        <5>1. Succeeding' = {} /\ streak' = streak + 1
          BY <2>2, <3>1, <4>1, <4>3 DEF Succeeding
        <5>5. InARow(health) /\ \A l \in listening : InARow(l.record)
          BY <4>1 DEF CountsInARow
        <5>6. ASSUME NEW record, record.consecutive \in Nat, InARow(record)
              PROVE  InARow(record)'
          BY <2>0, <3>3, <5>1, <5>6, RecordsAreNumbers DEF InARow
        <5>2. InARow(health)' /\ \A l \in listening : InARow(l.record)'
          <6>1. \A l \in listening : InARow(l.record)'
            BY <5>5, <5>6, RecordsAreNumbers
          <6>2. UNCHANGED health /\ health.consecutive + Cardinality(listening) + 1 <= streak + 1
            BY <2>0, <2>2, <5>5, RecordsAreNumbers DEF InARow
          <6>3. QED
            BY <2>0, <3>3, <4>3, <5>1, <6>1, <6>2, RecordsAreNumbers DEF InARow
        <5>3. InARow(call.record)'
          BY <2>0, <2>2, <3>3, <4>1, <5>1, RecordsAreNumbers DEF CountsInARow, InARow, NoRecord
        <5>4. QED
          BY <2>2, <3>1, <5>1, <5>2, <5>3 DEF CountsInARow
      <4>4. QED
        BY <4>2, <4>3
    <3>5. OneCallPerRun'
      BY <2>2, <3>1, <3>3, RecordsAreNumbers DEF OneCallPerRun
    <3>6. wentWrong' <= released'
      BY <2>2, RecordsAreNumbers
    <3>7. ASSUME NEW record, record.runs \in Nat, record.failures \in Nat, Earned(record)
          PROVE  Earned(record)'
      BY <2>0, <2>2, <3>3, <3>7, RecordsAreNumbers DEF Earned
    <3>8. Earned(health)'
      BY <2>2, <3>7, RecordsAreNumbers DEF Earned
    <3>9. Earned(NoRecord)
      BY <2>0, RecordsAreNumbers DEF Earned, NoRecord
    <3>10. ASSUME NEW l \in listening' PROVE Earned(l.record)'
      <4>1. CASE l \in listening
        BY <3>7, <4>1, RecordsAreNumbers
      <4>2. CASE l = call
        <5>1. NoRecord.runs \in Nat /\ NoRecord.failures \in Nat /\ l.record = NoRecord
          BY <4>2 DEF NoRecord
        <5>2. QED
          BY <3>7, <3>9, <5>1
      <4>3. QED
        BY <2>2, <3>1, <4>1, <4>2
    <3>11. QED
      BY <3>4, <3>5, <3>6, <3>8, <3>10, <3>12, <3>13
  <2>3. ASSUME NEW body \in Bodies, NEW failed \in BOOLEAN, JobReleased(body, failed)
        PROVE  HealthInv'
    BY <2>2, <2>3, RecordsAreNumbers DEF JobReleased, Succeeds
  <2>4. CASE JobMissed
    BY <2>2, <2>4, RecordsAreNumbers DEF JobMissed
  <2>5. ASSUME NEW l \in listening, ReadRecord(l) PROVE HealthInv'
    <3>1. PICK m : /\ m.run = l.run /\ m.ok = l.ok /\ m.at = "read"
                   /\ m.record \in {l.record, health}
                   /\ m \in [run : 1..ReleaseLimit, ok : BOOLEAN,
                             at : {"called", "read"}, record : Records]
                   /\ listening' = (listening \ {l}) \union {m}
      <4>1. CASE listening' = (listening \ {l})
                   \union {[l EXCEPT !.at = "read", !.record = health]}
        BY <4>1 DEF HealthTypeOK
      <4>2. CASE listening' = (listening \ {l}) \union {[l EXCEPT !.at = "read"]}
        BY <4>2 DEF HealthTypeOK
      <4>3. QED
        BY <2>5, <4>1, <4>2 DEF ReadRecord
    <3>2. m \notin listening \ {l}
      BY <3>1 DEF OneCallPerRun
    <3>3. /\ IsFiniteSet(listening)'
          /\ Cardinality(listening)' = Cardinality(listening)
          /\ Cardinality(Failing)' = Cardinality(Failing)
      BY <2>0, <3>1, <3>2, CallReads, RecordsAreNumbers
    <3>4. HealthTypeOK'
      BY <2>5, <3>1 DEF ReadRecord, outcomes, HealthFault, HealthTypeOK
    <3>8. ~blurred' => CountsInARow'
      <4> SUFFICES ASSUME ~blurred' PROVE CountsInARow'
        OBVIOUS
      <4>1. ~blurred /\ CountsInARow /\ UNCHANGED <<health, streak, longest>>
        BY <2>5 DEF ReadRecord, outcomes
      <4>2. CASE Succeeding = {}
        <5>1. Succeeding' = {}
          BY <3>1, <4>2 DEF Succeeding
        <5>2. InARow(m.record)
          BY <3>1, <4>1, <4>2 DEF CountsInARow
        <5>3. QED
          BY <3>1, <3>3, <4>1, <4>2, <5>1, <5>2 DEF CountsInARow, InARow
      <4>3. CASE Succeeding # {}
        <5>1. listening = {l} /\ health.consecutive <= longest
          BY <4>1, <4>3 DEF CountsInARow
        <5>2. l.ok
          BY <4>3, <5>1 DEF Succeeding
        <5>3. listening' = {m} /\ m \in Succeeding'
          BY <3>1, <5>1, <5>2 DEF Succeeding
        <5>4. QED
          BY <4>1, <5>1, <5>3 DEF CountsInARow
      <4>4. QED
        BY <4>2, <4>3
    <3>5. OneCallPerRun'
      BY <2>5, <3>1, <3>3 DEF ReadRecord, outcomes, OneCallPerRun
    <3>6. \A record : Earned(record) => Earned(record)'
      BY <2>5, <3>3 DEF ReadRecord, outcomes, Earned
    <3>7. QED
      BY <2>5, <3>1, <3>4, <3>5, <3>6, <3>8 DEF ReadRecord, outcomes
  <2>6. ASSUME NEW l \in listening, PersistRecord(l) PROVE HealthInv'
    <3>1. /\ IsFiniteSet(listening)'
          /\ Cardinality(listening)' = Cardinality(listening) - 1
          /\ Cardinality(Failing)' = Cardinality(Failing) - (IF l.ok THEN 0 ELSE 1)
          /\ Cardinality(listening)' \in Nat /\ Cardinality(Failing)' \in Nat
      <4>1. listening' = listening \ {l}
        BY <2>6 DEF PersistRecord
      <4>2. IsFiniteSet(listening)'
        BY <2>0, <4>1, FS_RemoveElement
      <4>3. Cardinality(listening)' \in Nat /\ Cardinality(Failing)' \in Nat
        BY <4>2, FS_Subset, FS_CardinalityType DEF Failing
      <4>4. QED
        BY <2>0, <4>1, <4>3, CallEnds, RecordsAreNumbers
    <3>2. Applied(l.record, l.ok) \in Records /\ Earned(Applied(l.record, l.ok))'
      BY <2>0, <2>6, <3>1, RecordsAreNumbers
         DEF PersistRecord, outcomes, Earned, Applied, Records, Counts, HealthTypeOK
    <3>3. ASSUME NEW record, record.runs \in Nat, record.failures \in Nat, Earned(record)
          PROVE  Earned(record)'
      BY <2>0, <2>6, <3>1, <3>3, RecordsAreNumbers DEF PersistRecord, outcomes, Earned
    <3>12. blurred' \in BOOLEAN
      BY <2>6, Zenon DEF PersistRecord
    <3>11. blurred' \in BOOLEAN /\ healthFaults' \in 0..HealthFaults /\ health' \in Records
      BY <2>6, <3>2, <3>12 DEF PersistRecord, HealthFault, HealthTypeOK
    <3>4. HealthTypeOK'
      BY <2>6, <3>11 DEF PersistRecord, outcomes, HealthTypeOK
    <3>5. Earned(health)'
      BY <2>6, <3>2, <3>3, RecordsAreNumbers DEF PersistRecord, outcomes, Earned
    <3>6. \A m \in listening' : Earned(m.record)'
      BY <2>6, <3>3, RecordsAreNumbers DEF PersistRecord, outcomes, Earned
    <3>7. OneCallPerRun' /\ wentWrong' <= released'
      BY <2>6, <3>1 DEF PersistRecord, outcomes, OneCallPerRun
    <3>9. ~blurred' => CountsInARow'
      <4> SUFFICES ASSUME ~blurred' PROVE CountsInARow'
        OBVIOUS
      <4>1. CASE l.ok
        <5>1. listening' = {} /\ health'.consecutive = 0 /\ UNCHANGED <<streak, longest>>
          <6>1. ~blurred => listening = {l}
            BY <2>6, <4>1 DEF CountsInARow, Succeeding
          <6>2. blurred => listening = {l} /\ health' = Applied(l.record, l.ok)
            BY <2>6, <4>1 DEF PersistRecord
          <6>5. ~(blurred' = (blurred \/ l.ok))
            BY <4>1
          <6>3. listening = {l} /\ health' = Applied(l.record, l.ok)
            BY <2>6, <4>1, <6>1, <6>2, <6>5 DEF PersistRecord
          <6>4. QED
            BY <2>6, <4>1, <6>3 DEF PersistRecord, outcomes, Applied
        <5>2. Cardinality(listening)' = 0
          BY <5>1, FS_EmptySet
        <5>3. QED
          BY <5>1, <5>2, RecordsAreNumbers DEF CountsInARow, InARow, Succeeding
      <4>2. CASE ~l.ok
        <5>1. ~blurred /\ CountsInARow /\ UNCHANGED <<streak, longest>>
          BY <2>6, <4>2 DEF PersistRecord, outcomes
        <5>2. Succeeding = {}
          BY <4>2, <5>1 DEF CountsInARow, Succeeding
        <5>3. Succeeding' = {}
          BY <2>6, <5>2 DEF PersistRecord, Succeeding
        <5>4. Cardinality(listening)' = Cardinality(listening) - 1
          BY <3>1, <4>2
        <5>5. InARow(l.record) /\ InARow(health) /\ \A m \in listening : InARow(m.record)
          BY <5>1, <5>2 DEF CountsInARow
        <5>6. \A m \in listening' : InARow(m.record)'
          BY <2>0, <2>6, <5>1, <5>4, <5>5, RecordsAreNumbers DEF PersistRecord, InARow
        <5>7. InARow(health)'
          <6>1. CASE health' = Applied(l.record, l.ok)
            BY <2>0, <4>2, <5>1, <5>4, <5>5, <6>1, RecordsAreNumbers DEF Applied, InARow
          <6>2. CASE UNCHANGED health
            BY <2>0, <5>1, <5>4, <5>5, <6>2, RecordsAreNumbers DEF InARow
          <6>3. QED
            BY <2>6, <6>1, <6>2 DEF PersistRecord
        <5>8. QED
          BY <5>3, <5>6, <5>7 DEF CountsInARow
      <4>3. QED
        BY <4>1, <4>2
    <3>10. QED
      BY <2>6, <3>4, <3>5, <3>6, <3>7, <3>9 DEF PersistRecord, outcomes
  <2>7. CASE RecordExpires
    <3>1. Earned(NoRecord)'
      BY <2>0, <2>7, RecordsAreNumbers DEF RecordExpires, outcomes, Earned, NoRecord, Failing
    <3>2. \A record : Earned(record) => Earned(record)'
      BY <2>7 DEF RecordExpires, outcomes, Earned, Failing
    <3>3. HealthTypeOK' /\ OneCallPerRun'
      BY <2>7, RecordsAreNumbers
         DEF RecordExpires, outcomes, HealthFault, HealthTypeOK, OneCallPerRun, NoRecord, Records, Counts
    <3>4. health'.consecutive = 0 /\ UNCHANGED <<listening, streak, longest, blurred>>
      BY <2>7 DEF RecordExpires, outcomes, NoRecord
    <3>5. CountsInARow => CountsInARow'
      BY <2>0, <3>4, RecordsAreNumbers DEF CountsInARow, InARow, Succeeding
    <3>6. QED
      BY <2>7, <3>1, <3>2, <3>3, <3>4, <3>5 DEF RecordExpires, outcomes
  <2>8. CASE SchedulerEnds
    <3>1. listening' = {} /\ Failing' = {}
      BY <2>8 DEF SchedulerEnds, Failing
    <3>2. Earned(health)'
      BY <2>0, <2>8, <3>1, FS_EmptySet, RecordsAreNumbers DEF SchedulerEnds, outcomes, Earned
    <3>3. HealthTypeOK' /\ OneCallPerRun'
      BY <2>8, <3>1, FS_EmptySet
         DEF SchedulerEnds, outcomes, HealthFault, HealthTypeOK, OneCallPerRun
    <3>4. ~blurred' => CountsInARow'
      <4> SUFFICES ASSUME ~blurred' PROVE CountsInARow'
        OBVIOUS
      <4>1. CountsInARow /\ Succeeding = {} /\ UNCHANGED <<health, streak>>
        BY <2>8 DEF SchedulerEnds, outcomes
      <4>2. health.consecutive <= streak
        BY <2>0, <4>1, RecordsAreNumbers DEF CountsInARow, InARow
      <4>3. Cardinality(listening)' = 0
        BY <3>1, FS_EmptySet
      <4>4. QED
        BY <3>1, <4>1, <4>2, <4>3, RecordsAreNumbers DEF CountsInARow, InARow, Succeeding
    <3>5. QED
      BY <2>8, <3>1, <3>2, <3>3, <3>4 DEF SchedulerEnds, outcomes
  <2>9. ASSUME NEW user \in Users, NEW answer, Heartbeat(user, answer) PROVE HealthInv'
    BY <2>9 DEF Heartbeat, outcomes, HealthTypeOK, OneCallPerRun, Earned, Failing,
       CountsInARow, InARow, Succeeding
  <2>10. CASE UNCHANGED healthVars
    BY <2>10 DEF healthVars, outcomes, HealthTypeOK, OneCallPerRun, Earned, Failing,
       CountsInARow, InARow, Succeeding
  <2>11. QED
    BY <2>1, <2>3, <2>4, <2>5, <2>6, <2>7, <2>8, <2>9, <2>10 DEF HealthNext
<1>3. QED
  BY <1>1, <1>2, PTL DEF HealthSpec

\* No overlap of listeners, failed write or expiry makes the health record
\* count a run or failure that was not; and a job that has not failed AlertAt
\* times in a row degrades the snapshot only after a success that overlapped
\* another call or was not written.
THEOREM HealthNeverAlarmsFalsely == HealthSpec => []NoFalseAlarm
<1>1. HealthInv => NoFalseAlarm
  <2> SUFFICES ASSUME HealthInv PROVE NoFalseAlarm
    OBVIOUS
  <2> USE DEF HealthInv
  <2>1. /\ Cardinality(listening) \in Nat /\ Cardinality(Failing) \in Nat
        /\ AlertAt \in Nat
    BY HealthBounds, CallsAreCounted DEF OneCallPerRun
  <2>2. /\ health.runs <= released
        /\ health.consecutive <= health.failures /\ health.failures <= wentWrong
    BY <2>1, RecordsAreNumbers DEF Earned
  <2>3. ~blurred => health.consecutive <= longest
    BY <2>1, RecordsAreNumbers DEF CountsInARow, InARow
  <2>4. QED
    BY <2>1, <2>2, <2>3, RecordsAreNumbers DEF NoFalseAlarm, Snapshot
<1>2. QED
  BY <1>1, HealthInvariant, PTL

-----------------------------------------------------------------------------
(* Both in one system.                                                     *)

\* A behaviour of the composed system is one of each part.
LEMMA SchedulerRunsItsParts == FairSchedulerSpec => Spec /\ HealthSpec
<1>1. SchedulerInit => Init /\ HealthInit
  BY DEF SchedulerInit
<1>2. [SchedulerNext]_schedulerVars => [Next]_vars /\ [HealthNext]_healthVars
  <2>1. CASE OnlyHalf("jobs") /\ Next
    BY <2>1 DEF OnlyHalf
  <2>2. CASE OnlyHalf("health") /\ HealthNext
    BY <2>2 DEF OnlyHalf
  <2>3. CASE UNCHANGED schedulerVars
    BY <2>3 DEF schedulerVars
  <2>4. QED
    BY <2>1, <2>2, <2>3 DEF SchedulerNext
<1>3. QED
  BY <1>1, <1>2, PTL DEF FairSchedulerSpec, Spec, HealthSpec

\* The type invariant of the composed system.
THEOREM SchedulerIsTyped == FairSchedulerSpec => []SchedulerTypeOK
<1>1. HealthInv => HealthTypeOK
  BY DEF HealthInv
<1>2. QED
  BY <1>1, SchedulerRunsItsParts, TypeCorrect, HealthInvariant, PTL DEF SchedulerTypeOK
===============================================================================
