----------------------------- MODULE RepairQueue -----------------------------
(***************************************************************************)
(* process_repair_queue of src/src/scheduler/maintenance.py: an interval   *)
(* job that claims the oldest auto-applied ticket with SELECT ... FOR      *)
(* UPDATE SKIP LOCKED, commits it as processing, and drives the pipeline   *)
(* outside the transaction.  Ticks overlap when a pipeline run takes       *)
(* longer than the interval.                                               *)
(*                                                                         *)
(* The pipeline is RepairPipeline, of which only two outcomes matter here: *)
(* it returns, whatever it decided, or something around it raises.  It     *)
(* works on a ticket of its own and never on the claimed row.              *)
(***************************************************************************)
EXTENDS Naturals, FiniteSets

CONSTANTS
  Workers,   \* ticks of the worker in flight together
  Tickets,   \* ids of tickets, in the order of their creation
  QueueFaults, \* bound: failed sessions and crashes
  NoTicket   \* what an idle worker holds

ASSUME TicketsAreNumbered == Tickets \subseteq Nat
ASSUME NoTicketIsNoTicket == NoTicket \notin Tickets
ASSUME MaxFaultsIsNatural == QueueFaults \in Nat

VARIABLES
  status,   \* status of each row, "none" before the insert
  auto,     \* auto_applied of each row
  locked,   \* rows locked by an open transaction
  at,       \* how far each worker has come
  claimed,  \* the row each worker holds
  edited,   \* history: rows whose status was set by hand
  queueFaults

queueVars == <<status, auto, locked, at, claimed, edited, queueFaults>>

\* _REPAIR_QUEUE_CLAIMABLE_STATUSES
Claimable == {"open", "debug_analysis_ready"}
Statuses == Claimable \union {"none", "processing", "closed"}
WorkerPoints == {"idle", "claiming", "claimed", "driving", "releasing"}

QueueInit ==
  /\ status = [t \in Tickets |-> "none"]
  /\ auto = [t \in Tickets |-> FALSE]
  /\ locked = {}
  /\ at = [w \in Workers |-> "idle"]
  /\ claimed = [w \in Workers |-> NoTicket]
  /\ edited = {}
  /\ queueFaults = 0

WorkerFault ==
  /\ queueFaults < QueueFaults
  /\ queueFaults' = queueFaults + 1

-----------------------------------------------------------------------------
(* Rows                                                                    *)

\* Rows come in order; those of the pipeline, of the dashboard and of a browser
\* failure wait for a human, an operator may opt a row in.
CreateTicket(t, s, optedIn) ==
  /\ \A u \in Tickets : u < t => status[u] # "none"
  /\ status[t] = "none"
  /\ status' = [status EXCEPT ![t] = s]
  /\ auto' = [auto EXCEPT ![t] = optedIn]
  /\ UNCHANGED <<locked, at, claimed, edited, queueFaults>>

\* PATCH /api/tickets/{id} reopens or closes any row that no transaction holds;
\* bound: once for each row.
EditTicket(t, s) ==
  /\ status[t] # "none" /\ status[t] # s
  /\ t \notin locked \union edited
  /\ status' = [status EXCEPT ![t] = s]
  /\ edited' = edited \union {t}
  /\ UNCHANGED <<auto, locked, at, claimed, queueFaults>>

-----------------------------------------------------------------------------
(* The claim, one statement in one transaction                             *)

\* A claim that forgets the tickets the debugger has analysed.
OpenOnly == {t \in Tickets : status[t] = "open" /\ auto[t] /\ t \notin locked}

\* A claim without FOR UPDATE SKIP LOCKED.
AnyClaimable == {t \in Tickets : status[t] \in Claimable /\ auto[t]}

FreeClaimable == {t \in Tickets : status[t] \in Claimable /\ auto[t] /\ t \notin locked}

LockOldest(w, t) ==
  /\ at[w] = "idle"
  /\ t \in FreeClaimable
  /\ \A u \in FreeClaimable : t <= u
  /\ locked' = locked \union {t}
  /\ at' = [at EXCEPT ![w] = "claiming"]
  /\ claimed' = [claimed EXCEPT ![w] = t]
  /\ UNCHANGED <<status, auto, edited, queueFaults>>

CommitClaim(w) ==
  /\ at[w] = "claiming"
  /\ status' = [status EXCEPT ![claimed[w]] = "processing"]
  /\ locked' = locked \ {claimed[w]}
  /\ at' = [at EXCEPT ![w] = "claimed"]
  /\ UNCHANGED <<auto, claimed, edited, queueFaults>>

\* The transaction fails and is rolled back; the tick reports it and ends.
ClaimFails(w) ==
  /\ at[w] = "claiming"
  /\ WorkerFault
  /\ locked' = locked \ {claimed[w]}
  /\ at' = [at EXCEPT ![w] = "idle"]
  /\ claimed' = [claimed EXCEPT ![w] = NoTicket]
  /\ UNCHANGED <<status, auto, edited>>

-----------------------------------------------------------------------------
(* Driving the claimed ticket                                              *)

ReadDetail(w) ==
  /\ at[w] = "claimed"
  /\ at' = [at EXCEPT ![w] = "driving"]
  /\ UNCHANGED <<status, auto, locked, claimed, edited, queueFaults>>

\* A worker that ends with its ticket.
EndHolding(w) ==
  /\ at' = [at EXCEPT ![w] = "idle"]
  /\ UNCHANGED claimed

End(w) ==
  /\ at' = [at EXCEPT ![w] = "idle"]
  /\ claimed' = [claimed EXCEPT ![w] = NoTicket]

\* The pipeline returns; its outcome goes into the tick's report.
PipelineReturns(w) ==
  /\ at[w] = "driving"
  /\ End(w)
  /\ UNCHANGED <<status, auto, locked, edited, queueFaults>>

\* Reading the row or importing an agent raises.
DrivingRaises(w) ==
  /\ at[w] \in {"claimed", "driving"}
  /\ WorkerFault
  /\ at' = [at EXCEPT ![w] = "releasing"]
  /\ UNCHANGED <<status, auto, locked, claimed, edited>>

\* UPDATE ... WHERE status = 'processing'.
ReleaseLease(w) ==
  /\ at[w] = "releasing"
  /\ claimed[w] \notin locked
  /\ status' = IF status[claimed[w]] = "processing"
                 THEN [status EXCEPT ![claimed[w]] = "open"]
                 ELSE status
  /\ End(w)
  /\ UNCHANGED <<auto, locked, edited, queueFaults>>

ReleaseFails(w) ==
  /\ at[w] = "releasing"
  /\ WorkerFault
  /\ End(w)
  /\ UNCHANGED <<status, auto, locked, edited>>

\* Open transactions roll back; committed rows stay as they are.
WorkerCrash ==
  /\ WorkerFault
  /\ locked' = {}
  /\ at' = [w \in Workers |-> "idle"]
  /\ claimed' = [w \in Workers |-> NoTicket]
  /\ UNCHANGED <<status, auto, edited>>

-----------------------------------------------------------------------------
Tick(w) ==
  \/ \E t \in Tickets : LockOldest(w, t)
  \/ CommitClaim(w) \/ ReadDetail(w) \/ PipelineReturns(w) \/ ReleaseLease(w)

QueueNext ==
  \/ \E t \in Tickets, s \in Claimable, b \in BOOLEAN : CreateTicket(t, s, b)
  \/ \E t \in Tickets, s \in {"open", "closed"} : EditTicket(t, s)
  \/ \E w \in Workers : Tick(w) \/ ClaimFails(w) \/ DrivingRaises(w) \/ ReleaseFails(w)
  \/ WorkerCrash

QueueSpec == QueueInit /\ [][QueueNext]_queueVars

\* APScheduler fires the interval for ever and a run of the pipeline ends.
FairQueueSpec == QueueSpec /\ \A w \in Workers : WF_queueVars(Tick(w))

-----------------------------------------------------------------------------
(* Properties                                                              *)

\* Type invariant.
QueueTypeOK ==
  /\ status \in [Tickets -> Statuses]
  /\ auto \in [Tickets -> BOOLEAN]
  /\ locked \subseteq Tickets
  /\ at \in [Workers -> WorkerPoints]
  /\ claimed \in [Workers -> Tickets \union {NoTicket}]
  /\ \A w \in Workers : at[w] = "idle" <=> claimed[w] = NoTicket
  /\ edited \subseteq Tickets
  /\ queueFaults \in 0 .. QueueFaults

\* maintenance.py:368, "multiple workers ... can't double-claim the same ticket":
\* no two workers hold one ticket, unless its status was set by hand.
NoDoubleClaim ==
  \A v, w \in Workers :
    v # w /\ claimed[v] # NoTicket /\ claimed[v] = claimed[w] => claimed[v] \in edited

\* A ticket an operator opted in is claimed in the end, older tickets that raise
\* and crashes notwithstanding.
ClaimableIsClaimed ==
  \A t \in Tickets :
    status[t] \in Claimable /\ auto[t] ~> ~(status[t] \in Claimable /\ auto[t])
=============================================================================
