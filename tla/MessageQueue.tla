---------------------------- MODULE MessageQueue ----------------------------
(***************************************************************************)
(* _get_user_queue and _process_user_queue of src/src/bot/handlers.py for  *)
(* one user: a dict entry with an asyncio.Queue and the task that works    *)
(* it.  The entry is removed when the queue was idle for                   *)
(* QUEUE_IDLE_TIMEOUT_S, and replaced when its task has ended.             *)
(*                                                                         *)
(* Every queue ever created has a number; current is the one in the dicts. *)
(* The callers and what a turn does are in ChatTurns.                      *)
(***************************************************************************)
EXTENDS Naturals, Sequences

CONSTANTS
  Msgs,       \* messages of the user
  NoMsg,      \* what a worker handles between turns
  MaxQueues,  \* bound: queues created in all
  MaxDeaths   \* bound: workers killed, and crashes

ASSUME NoMsgIsNoMsg == NoMsg \notin Msgs
ASSUME MaxQueuesIsNatural == MaxQueues \in Nat
ASSUME MaxDeathsIsNatural == MaxDeaths \in Nat

Queues == 1 .. MaxQueues

VARIABLES
  current,   \* the queue in _user_queues, 0 if there is no entry
  created,   \* queues created so far
  queue,     \* what each queue holds
  worker,    \* how far the task of each queue has come
  turn,      \* the message each task handles
  accepted,  \* messages put so far
  number,    \* history: the place of each message among them, 0 before the put
  begun,     \* history: messages whose turn has begun
  stranded,  \* history: messages in a queue when it was given up
  deaths

queueVars ==
  <<current, created, queue, worker, turn, accepted, number, begun, stranded, deaths>>

\* "ready" is between two turns, "waiting" suspended in queue.get(), "expiring"
\* cancelled there by the idle timer and not yet resumed.
WorkerStates == {"unborn", "ready", "waiting", "expiring", "handling", "done"}

Members(s) == {s[i] : i \in DOMAIN s}

QueueInit ==
  /\ current = 0
  /\ created = 0
  /\ queue = [q \in Queues |-> <<>>]
  /\ worker = [q \in Queues |-> "unborn"]
  /\ turn = [q \in Queues |-> NoMsg]
  /\ accepted = 0
  /\ number = [m \in Msgs |-> 0]
  /\ begun = {}
  /\ stranded = {}
  /\ deaths = 0

Become(q, state) == worker' = [worker EXCEPT ![q] = state]

-----------------------------------------------------------------------------
(* _get_user_queue, and the put that follows it without a suspension       *)

\* An entry whose task nobody looks at.
NoEntry == current = 0

\* A task between two messages taken for one that has ended.
NoEntryOrBusy == current # 0 => worker[current] \in {"done", "handling"}

NeedsNewQueue == current # 0 => worker[current] = "done"

Accept(m) ==
  /\ number[m] = 0
  /\ accepted' = accepted + 1
  /\ number' = [number EXCEPT ![m] = accepted + 1]
  /\ UNCHANGED <<turn, begun, stranded, deaths>>

PutInNewQueue(m) ==
  /\ NeedsNewQueue
  /\ created < MaxQueues
  /\ created' = created + 1
  /\ current' = created + 1
  /\ queue' = [queue EXCEPT ![created + 1] = <<m>>]
  /\ Become(created + 1, "ready")
  /\ Accept(m)

PutInCurrent(m) ==
  /\ ~NeedsNewQueue
  /\ queue' = [queue EXCEPT ![current] = Append(@, m)]
  /\ Accept(m)
  /\ UNCHANGED <<current, created, worker>>

-----------------------------------------------------------------------------
(* _process_user_queue                                                     *)

\* A queue worked from its end.
LastOf(s) == [message |-> s[Len(s)], rest |-> SubSeq(s, 1, Len(s) - 1)]

FirstOf(s) == [message |-> Head(s), rest |-> Tail(s)]

\* queue.get() does not suspend on a queue that holds a message.
Take(q) ==
  /\ worker[q] \in {"ready", "waiting"}
  /\ queue[q] # <<>>
  /\ LET got == FirstOf(queue[q])
     IN /\ turn' = [turn EXCEPT ![q] = got.message]
        /\ begun' = begun \union {got.message}
        /\ queue' = [queue EXCEPT ![q] = got.rest]
  /\ Become(q, "handling")
  /\ UNCHANGED <<current, created, accepted, number, stranded, deaths>>

Wait(q) ==
  /\ worker[q] = "ready"
  /\ queue[q] = <<>>
  /\ Become(q, "waiting")
  /\ UNCHANGED <<current, created, queue, turn, accepted, number, begun, stranded, deaths>>

\* The handler returned, raised or was cut off after agent_timeout_seconds.
FinishTurn(q) ==
  /\ worker[q] = "handling"
  /\ Become(q, "ready")
  /\ turn' = [turn EXCEPT ![q] = NoMsg]
  /\ UNCHANGED <<current, created, queue, accepted, number, begun, stranded, deaths>>

\* The timer of wait_for cancels the task.  A put of the same iteration of the
\* event loop comes too late to keep it alive, before or after the timer.
IdleTimerFires(q) ==
  /\ worker[q] = "waiting"
  /\ Become(q, "expiring")
  /\ UNCHANGED <<current, created, queue, turn, accepted, number, begun, stranded, deaths>>

\* The task drops the entry and returns, with whatever the queue holds.
Expire(q) ==
  /\ worker[q] = "expiring"
  /\ current' = 0
  /\ Become(q, "done")
  /\ stranded' = stranded \union Members(queue[q])
  /\ UNCHANGED <<created, queue, turn, accepted, number, begun, deaths>>

Death ==
  /\ deaths < MaxDeaths
  /\ deaths' = deaths + 1

\* A CancelledError out of the handler passes both except clauses: the task
\* ends and its entry stays.
HandlerCancelled(q) ==
  /\ worker[q] = "handling"
  /\ Death
  /\ Become(q, "done")
  /\ turn' = [turn EXCEPT ![q] = NoMsg]
  /\ stranded' = stranded \union Members(queue[q])
  /\ UNCHANGED <<current, created, queue, accepted, number, begun>>

\* The bot ends and starts again with empty dicts.
CrashQueues ==
  /\ Death
  /\ current' = 0
  /\ worker' = [q \in Queues |-> IF worker[q] = "unborn" THEN "unborn" ELSE "done"]
  /\ turn' = [q \in Queues |-> NoMsg]
  /\ stranded' = stranded \union UNION {Members(queue[q]) : q \in Queues}
  /\ UNCHANGED <<created, queue, accepted, number, begun>>

-----------------------------------------------------------------------------
Work(q) == Take(q) \/ Wait(q) \/ FinishTurn(q) \/ Expire(q)

QueueNext ==
  \/ \E m \in Msgs : PutInNewQueue(m) \/ PutInCurrent(m)
  \/ \E q \in Queues : Work(q) \/ IdleTimerFires(q) \/ HandlerCancelled(q)
  \/ CrashQueues

QueueSpec == QueueInit /\ [][QueueNext]_queueVars

-----------------------------------------------------------------------------
(* Properties                                                              *)

Accepted == {m \in Msgs : number[m] # 0}

\* Type invariant.
QueueTypeOK ==
  /\ current \in 0 .. created
  /\ created \in 0 .. MaxQueues
  /\ queue \in [Queues -> Seq(Msgs)]
  /\ worker \in [Queues -> WorkerStates]
  /\ turn \in [Queues -> Msgs \union {NoMsg}]
  /\ \A q \in Queues : worker[q] = "handling" <=> turn[q] # NoMsg
  /\ accepted \in Nat
  /\ number \in [Msgs -> 0 .. accepted]
  /\ begun \subseteq Accepted
  /\ stranded \subseteq Accepted
  /\ deaths \in 0 .. MaxDeaths

\* PRD_PersonalAssistant.md:133, "Messages from a single user are processed
\* sequentially": no two tasks are in a turn of one user, whatever queues were
\* given up and replaced.
OneTurnAtATime ==
  \A p, q \in Queues : worker[p] = "handling" /\ worker[q] = "handling" => p = q

\* The turns begin in the order of the puts, over all queues: a message put
\* before another is in its turn or behind it, or was given up with its queue.
TurnsInOrder ==
  [][\A m \in begun' \ begun, n \in Accepted :
       number[n] < number[m] => n \in begun \union stranded]_queueVars

Handled == {turn[q] : q \in {p \in Queues : worker[p] = "handling"}}

\* What waits in the queue of the dicts, if somebody works it.
Waiting == IF current # 0 /\ worker[current] # "done" THEN queue[current] ELSE <<>>

\* Whatever queues and tasks come and go, to the sender they are the one line of
\* module MessageLine: each message waits in it once, is served alone and from the
\* head, and is lost only if it stood there when a queue was given up.
Line == INSTANCE MessageLine
          WITH joined <- Accepted,
               line <- Waiting,
               served <- Handled,
               lost <- stranded
ImplementsLine == Line!Spec

\* A message that was put gets its turn, unless its queue was given up with the
\* message in it: no put goes to a queue nobody works.
AcceptedGetsItsTurn ==
  \A m \in Msgs : (number[m] # 0) ~> (m \in begun \union stranded)
=============================================================================
