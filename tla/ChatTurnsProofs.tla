--------------------------- MODULE ChatTurnsProofs ---------------------------
(***************************************************************************)
(* For any messages and any number of queues: the turns of a user never    *)
(* overlap and begin in the order of the puts, its queues are the one line *)
(* of MessageLine, and no image answers two of the user's messages.        *)
(*                                                                         *)
(* Three are about MessageQueue alone and carry over to ChatTurns,         *)
(* each of whose steps is a step of the queue or leaves it alone.          *)
(***************************************************************************)
EXTENDS ChatTurns, SequenceTheorems, TLAPS

Working(q) == worker[q] \notin {"unborn", "done"}

\* A task that has not ended works the queue in the dicts.
OnlyCurrentWorks == \A q \in Queues : Working(q) => q = current

CreatedInOrder == \A q \in Queues : worker[q] = "unborn" <=> q > created

QueuesHoldAccepted ==
  \A q \in Queues : \A i \in DOMAIN queue[q] : number[queue[q][i]] # 0

\* A worked queue holds its messages in the order of the puts.
QueuesAreSorted ==
  \A q \in Queues : Working(q) =>
    \A i, j \in DOMAIN queue[q] : i < j => number[queue[q][i]] < number[queue[q][j]]

\* What was put and neither begun nor given up is in a queue somebody works.
RestIsQueued ==
  \A m \in Accepted : m \notin begun \union stranded =>
    \E q \in Queues : Working(q) /\ \E i \in DOMAIN queue[q] : queue[q][i] = m

QueueIInv ==
  /\ QueueTypeOK
  /\ OnlyCurrentWorks
  /\ CreatedInOrder
  /\ QueuesHoldAccepted
  /\ QueuesAreSorted
  /\ RestIsQueued

-----------------------------------------------------------------------------
(* The queue                                                               *)

\* No queue exists at the start.
LEMMA QueueInitEstablishes == QueueInit => QueueIInv
<1> SUFFICES ASSUME QueueInit PROVE QueueIInv
  OBVIOUS
<1> USE MaxQueuesIsNatural, MaxDeathsIsNatural, NoMsgIsNoMsg DEF QueueInit, Queues, WorkerStates
<1>1. QueueTypeOK
  BY EmptySeq DEF QueueTypeOK, Accepted
<1>2. OnlyCurrentWorks /\ CreatedInOrder /\ QueuesHoldAccepted /\ QueuesAreSorted
  BY DEF OnlyCurrentWorks, Working, CreatedInOrder, QueuesHoldAccepted, QueuesAreSorted
<1>3. RestIsQueued
  BY DEF RestIsQueued, Accepted
<1> QED
  BY <1>1, <1>2, <1>3 DEF QueueIInv

\* The positions of a queue, and what is at each.
LEMMA QueueEntries ==
  ASSUME QueueTypeOK, NEW q \in Queues
  PROVE  /\ queue[q] \in Seq(Msgs)
         /\ Len(queue[q]) \in Nat
         /\ DOMAIN queue[q] = 1 .. Len(queue[q])
         /\ \A i \in DOMAIN queue[q] : queue[q][i] \in Msgs
<1>1. queue[q] \in Seq(Msgs)
  BY DEF QueueTypeOK
<1> QED
  BY <1>1, LenProperties, ElementOfSeq

\* What a put adds to the numbers.
LEMMA AcceptNumbers ==
  ASSUME QueueTypeOK, NEW m \in Msgs, Accept(m)
  PROVE  /\ accepted' \in Nat
         /\ number' \in [Msgs -> 0 .. accepted']
         /\ number'[m] = accepted + 1
         /\ number[m] = 0
         /\ \A n \in Msgs : n # m => number'[n] = number[n]
         /\ \A n \in Msgs : number[n] <= accepted
         /\ Accepted' = Accepted \union {m}
BY DEF Accept, QueueTypeOK, Accepted

\* A put into a new queue: the queues before it have no worker left.
LEMMA PutInNewQueueStep ==
  ASSUME QueueIInv, NEW m \in Msgs, PutInNewQueue(m)
  PROVE  QueueIInv'
<1> DEFINE new == created + 1
<1> USE MaxQueuesIsNatural, MaxDeathsIsNatural DEF Queues
<1>1. /\ QueueTypeOK /\ OnlyCurrentWorks /\ CreatedInOrder
      /\ QueuesHoldAccepted /\ QueuesAreSorted /\ RestIsQueued
      /\ Accept(m) /\ NeedsNewQueue
  BY DEF QueueIInv, PutInNewQueue
<1>2. /\ new \in Queues
      /\ created' = new /\ current' = new
      /\ queue' = [queue EXCEPT ![new] = <<m>>]
      /\ worker' = [worker EXCEPT ![new] = "ready"]
      /\ UNCHANGED <<turn, begun, stranded, deaths>>
  BY <1>1 DEF PutInNewQueue, Accept, Become, QueueTypeOK
<1>3. \A q \in Queues : ~Working(q)
  BY <1>1 DEF OnlyCurrentWorks, NeedsNewQueue, Working, QueueTypeOK
<1>4. /\ worker[new] = "unborn" /\ turn[new] = NoMsg
      /\ \A q \in Queues : q # new => queue'[q] = queue[q] /\ worker'[q] = worker[q]
      /\ queue'[new] = <<m>> /\ worker'[new] = "ready"
  BY <1>1, <1>2 DEF CreatedInOrder, QueueTypeOK
<1>5. /\ accepted' \in Nat
      /\ number' \in [Msgs -> 0 .. accepted']
      /\ number'[m] = accepted + 1
      /\ \A n \in Msgs : n # m => number'[n] = number[n]
      /\ Accepted' = Accepted \union {m}
  BY <1>1, AcceptNumbers
<1>6. QueueTypeOK'
  <2>1. queue' \in [Queues -> Seq(Msgs)]
    BY <1>1, <1>2 DEF QueueTypeOK
  <2>2. worker' \in [Queues -> WorkerStates]
    BY <1>1, <1>2 DEF QueueTypeOK, WorkerStates
  <2>3. \A q \in Queues : worker'[q] = "handling" <=> turn'[q] # NoMsg
    BY <1>1, <1>2, <1>4 DEF QueueTypeOK
  <2> QED
    BY <1>1, <1>2, <1>5, <2>1, <2>2, <2>3 DEF QueueTypeOK
<1>7. OnlyCurrentWorks' /\ CreatedInOrder'
  BY <1>1, <1>2, <1>3, <1>4 DEF OnlyCurrentWorks, CreatedInOrder, Working, QueueTypeOK
<1>8. QueuesHoldAccepted'
  <2> SUFFICES ASSUME NEW q \in Queues, NEW i \in DOMAIN queue'[q]
               PROVE  number'[queue'[q][i]] # 0
    BY DEF QueuesHoldAccepted
  <2>1. CASE q = new
    BY <2>1, <1>1, <1>4, <1>5 DEF QueueTypeOK
  <2>2. CASE q # new
    <3>1. queue[q][i] \in Msgs /\ number[queue[q][i]] # 0
      BY <2>2, <1>1, <1>4, QueueEntries DEF QueuesHoldAccepted
    <3>2. queue'[q][i] = queue[q][i] /\ accepted \in Nat
      BY <2>2, <1>1, <1>4 DEF QueueTypeOK
    <3>3. number'[queue[q][i]] # 0
      BY <3>1, <3>2, <1>5
    <3> QED
      BY <3>2, <3>3
  <2> QED
    BY <2>1, <2>2
<1>9. QueuesAreSorted'
  BY <1>3, <1>4 DEF QueuesAreSorted, Working
<1>10. RestIsQueued'
  <2> SUFFICES ASSUME NEW n \in Accepted', n \notin begun' \union stranded'
               PROVE  \E q \in Queues : Working(q)' /\ \E i \in DOMAIN queue'[q] : queue'[q][i] = n
    BY DEF RestIsQueued
  <2>1. n = m
    BY <1>1, <1>2, <1>3, <1>5 DEF RestIsQueued
  <2> QED
    BY <2>1, <1>2, <1>4 DEF Working
<1> QED
  BY <1>6, <1>7, <1>8, <1>9, <1>10 DEF QueueIInv

\* A put into the queue that is worked already.
LEMMA PutInCurrentStep ==
  ASSUME QueueIInv, NEW m \in Msgs, PutInCurrent(m)
  PROVE  QueueIInv'
<1> USE MaxQueuesIsNatural, MaxDeathsIsNatural DEF Queues
<1>1. /\ QueueTypeOK /\ OnlyCurrentWorks /\ CreatedInOrder
      /\ QueuesHoldAccepted /\ QueuesAreSorted /\ RestIsQueued
      /\ Accept(m) /\ ~NeedsNewQueue
  BY DEF QueueIInv, PutInCurrent
<1>2. /\ current \in Queues /\ current <= created
      /\ queue' = [queue EXCEPT ![current] = Append(queue[current], m)]
      /\ UNCHANGED <<current, created, worker, turn, begun, stranded, deaths>>
  BY <1>1 DEF PutInCurrent, Accept, NeedsNewQueue, QueueTypeOK
<1>3. Working(current)
  BY <1>1, <1>2 DEF CreatedInOrder, NeedsNewQueue, Working, QueueTypeOK
<1>4. /\ accepted \in Nat /\ accepted' = accepted + 1
      /\ number' \in [Msgs -> 0 .. accepted']
      /\ number'[m] = accepted + 1 /\ number[m] = 0
      /\ \A n \in Msgs : n # m => number'[n] = number[n]
      /\ \A n \in Msgs : number[n] \in Nat /\ number[n] <= accepted
      /\ Accepted' = Accepted \union {m}
  <2>1. accepted \in Nat /\ accepted' = accepted + 1 /\ \A n \in Msgs : number[n] \in Nat
    BY <1>1 DEF Accept, QueueTypeOK
  <2> QED
    BY <1>1, <2>1, AcceptNumbers
<1>5. /\ queue'[current] \in Seq(Msgs)
      /\ Len(queue[current]) \in Nat
      /\ DOMAIN queue[current] = 1 .. Len(queue[current])
      /\ DOMAIN queue'[current] = 1 .. Len(queue[current]) + 1
      /\ \A i \in DOMAIN queue[current] : /\ queue[current][i] \in Msgs
                                         /\ queue'[current][i] = queue[current][i]
      /\ queue'[current][Len(queue[current]) + 1] = m
  <2>1. queue'[current] = Append(queue[current], m)
    BY <1>1, <1>2 DEF QueueTypeOK
  <2>2. queue[current] \in Seq(Msgs)
    BY <1>1, <1>2, QueueEntries
  <2> QED
    BY <2>1, <2>2, <1>1, <1>2, QueueEntries, AppendProperties, LenProperties
<1>6. \A q \in Queues : q # current => queue'[q] = queue[q]
  BY <1>1, <1>2 DEF QueueTypeOK
<1>7. \A q \in Queues : \A i \in DOMAIN queue[q] :
        /\ queue[q][i] \in Msgs /\ queue[q][i] # m
        /\ number'[queue[q][i]] = number[queue[q][i]]
        /\ number[queue[q][i]] # 0
  BY <1>1, <1>4, QueueEntries DEF QueuesHoldAccepted
<1>8. QueueTypeOK'
  <2>1. queue' \in [Queues -> Seq(Msgs)]
    BY <1>1, <1>2, <1>5, <1>6 DEF QueueTypeOK
  <2> QED
    BY <1>1, <1>2, <1>4, <2>1 DEF QueueTypeOK
<1>9. OnlyCurrentWorks' /\ CreatedInOrder'
  BY <1>1, <1>2 DEF OnlyCurrentWorks, CreatedInOrder, Working
<1>10. QueuesHoldAccepted'
  <2> SUFFICES ASSUME NEW q \in Queues, NEW i \in DOMAIN queue'[q]
               PROVE  number'[queue'[q][i]] # 0
    BY DEF QueuesHoldAccepted
  <2>1. CASE q = current /\ i = Len(queue[current]) + 1
    BY <2>1, <1>4, <1>5
  <2>2. CASE q = current /\ i # Len(queue[current]) + 1
    BY <2>2, <1>5, <1>7
  <2>3. CASE q # current
    BY <2>3, <1>6, <1>7
  <2> QED
    BY <2>1, <2>2, <2>3
<1>11. QueuesAreSorted'
  <2> SUFFICES ASSUME NEW q \in Queues, Working(q)',
                      NEW i \in DOMAIN queue'[q], NEW j \in DOMAIN queue'[q], i < j
               PROVE  number'[queue'[q][i]] < number'[queue'[q][j]]
    BY DEF QueuesAreSorted
  <2>1. q = current
    BY <1>1, <1>2 DEF OnlyCurrentWorks, Working
  <2>2. i \in DOMAIN queue[current] /\ queue'[q][i] = queue[current][i]
    BY <2>1, <1>5
  <2>3. number'[queue'[q][i]] = number[queue[current][i]]
    BY <2>1, <2>2, <1>2, <1>7
  <2>4. CASE j = Len(queue[current]) + 1
    BY <2>1, <2>2, <2>3, <2>4, <1>2, <1>4, <1>5
  <2>5. CASE j # Len(queue[current]) + 1
    <3>1. j \in DOMAIN queue[current] /\ queue'[q][j] = queue[current][j]
      BY <2>1, <2>5, <1>5
    <3>2. number[queue[current][i]] < number[queue[current][j]]
      BY <3>1, <2>2, <1>1, <1>2, <1>3 DEF QueuesAreSorted
    <3> QED
      BY <3>1, <3>2, <2>1, <2>3, <1>2, <1>7
  <2> QED
    BY <2>4, <2>5
<1>12. RestIsQueued'
  <2> SUFFICES ASSUME NEW n \in Accepted', n \notin begun' \union stranded'
               PROVE  \E q \in Queues : Working(q)' /\ \E i \in DOMAIN queue'[q] : queue'[q][i] = n
    BY DEF RestIsQueued
  <2>1. CASE n = m
    BY <2>1, <1>2, <1>3, <1>5 DEF Working
  <2>2. CASE n # m
    <3>1. n \in Accepted /\ n \notin begun \union stranded
      BY <2>2, <1>2, <1>4
    <3>2. PICK q \in Queues : Working(q) /\ \E i \in DOMAIN queue[q] : queue[q][i] = n
      BY <3>1, <1>1 DEF RestIsQueued
    <3>3. q = current
      BY <3>2, <1>1 DEF OnlyCurrentWorks
    <3> QED
      BY <3>2, <3>3, <1>2, <1>5 DEF Working
  <2> QED
    BY <2>1, <2>2
<1> QED
  BY <1>8, <1>9, <1>10, <1>11, <1>12 DEF QueueIInv

\* The oldest message leaves its queue for its turn.
LEMMA TakeStep ==
  ASSUME QueueIInv, NEW q \in Queues, Take(q)
  PROVE  /\ QueueIInv'
         /\ begun' = begun \union {queue[q][1]}
         /\ Working(q) /\ queue[q] # <<>>
<1> USE MaxQueuesIsNatural, MaxDeathsIsNatural DEF Queues
<1>1. /\ QueueTypeOK /\ OnlyCurrentWorks /\ CreatedInOrder
      /\ QueuesHoldAccepted /\ QueuesAreSorted /\ RestIsQueued
  BY DEF QueueIInv
<1>2. /\ worker[q] \in {"ready", "waiting"} /\ queue[q] # <<>>
      /\ turn' = [turn EXCEPT ![q] = Head(queue[q])]
      /\ begun' = begun \union {Head(queue[q])}
      /\ queue' = [queue EXCEPT ![q] = Tail(queue[q])]
      /\ worker' = [worker EXCEPT ![q] = "handling"]
      /\ UNCHANGED <<current, created, accepted, number, stranded, deaths>>
  BY DEF Take, FirstOf, Become
<1>3. /\ queue[q] \in Seq(Msgs)
      /\ Len(queue[q]) \in Nat
      /\ DOMAIN queue[q] = 1 .. Len(queue[q])
      /\ \A i \in DOMAIN queue[q] : queue[q][i] \in Msgs
  BY <1>1, QueueEntries
<1>4. /\ Len(queue[q]) > 0
      /\ Head(queue[q]) = queue[q][1]
      /\ Tail(queue[q]) \in Seq(Msgs)
      /\ DOMAIN Tail(queue[q]) = 1 .. Len(queue[q]) - 1
      /\ \A i \in 1 .. Len(queue[q]) - 1 : Tail(queue[q])[i] = queue[q][i + 1]
  <2>1. Len(Tail(queue[q])) = Len(queue[q]) - 1 /\ Tail(queue[q]) \in Seq(Msgs)
    BY <1>2, <1>3, HeadTailProperties
  <2>2. DOMAIN Tail(queue[q]) = 1 .. Len(Tail(queue[q]))
    BY <2>1, LenProperties
  <2>3. \A i \in 1 .. Len(Tail(queue[q])) : Tail(queue[q])[i] = queue[q][i + 1]
    BY <1>2, <1>3, HeadTailProperties
  <2>4. Head(queue[q]) = queue[q][1] /\ Len(queue[q]) > 0
    BY <1>2, <1>3, HeadTailProperties, EmptySeq
  <2> QED
    BY <2>1, <2>2, <2>3, <2>4
<1>5. /\ queue'[q] = Tail(queue[q]) /\ worker'[q] = "handling"
      /\ \A p \in Queues : p # q => queue'[p] = queue[p] /\ worker'[p] = worker[p]
  BY <1>1, <1>2 DEF QueueTypeOK
<1>6. queue[q][1] \in Msgs /\ number[queue[q][1]] # 0
  BY <1>1, <1>3, <1>4 DEF QueuesHoldAccepted
<1>7. \A p \in Queues : Working(p)' <=> Working(p)
  BY <1>2, <1>5 DEF Working
<1>8. QueueTypeOK'
  <2>1. queue' \in [Queues -> Seq(Msgs)]
    BY <1>1, <1>2, <1>4 DEF QueueTypeOK
  <2>2. worker' \in [Queues -> WorkerStates] /\ turn' \in [Queues -> Msgs \union {NoMsg}]
    BY <1>1, <1>2, <1>4, <1>6 DEF QueueTypeOK, WorkerStates
  <2>3. \A p \in Queues : worker'[p] = "handling" <=> turn'[p] # NoMsg
    BY <1>1, <1>2, <1>4, <1>5, <1>6, NoMsgIsNoMsg DEF QueueTypeOK
  <2>4. begun' \subseteq Accepted' /\ stranded' \subseteq Accepted'
    BY <1>1, <1>2, <1>4, <1>6 DEF QueueTypeOK, Accepted
  <2> QED
    BY <1>1, <1>2, <2>1, <2>2, <2>3, <2>4 DEF QueueTypeOK
<1>9. OnlyCurrentWorks' /\ CreatedInOrder'
  <2>1. OnlyCurrentWorks'
    BY <1>1, <1>2, <1>7 DEF OnlyCurrentWorks
  <2>2. CreatedInOrder'
    BY <1>1, <1>2, <1>5 DEF CreatedInOrder
  <2> QED
    BY <2>1, <2>2
<1>10. \A p \in Queues : \A i \in DOMAIN queue'[p] :
         IF p = q THEN i + 1 \in DOMAIN queue[q] /\ queue'[p][i] = queue[q][i + 1]
                  ELSE i \in DOMAIN queue[p] /\ queue'[p][i] = queue[p][i]
  <2> SUFFICES ASSUME NEW p \in Queues, NEW i \in DOMAIN queue'[p]
               PROVE  IF p = q THEN i + 1 \in DOMAIN queue[q] /\ queue'[p][i] = queue[q][i + 1]
                               ELSE i \in DOMAIN queue[p] /\ queue'[p][i] = queue[p][i]
    OBVIOUS
  <2>1. CASE p = q
    <3>1. i \in 1 .. Len(queue[q]) - 1
      BY <2>1, <1>4, <1>5
    <3> QED
      BY <2>1, <3>1, <1>3, <1>4, <1>5
  <2>2. CASE p # q
    BY <2>2, <1>5
  <2> QED
    BY <2>1, <2>2
<1>11. QueuesHoldAccepted'
  BY <1>1, <1>2, <1>10 DEF QueuesHoldAccepted
<1>12. QueuesAreSorted'
  <2> SUFFICES ASSUME NEW p \in Queues, Working(p)',
                      NEW i \in DOMAIN queue'[p], NEW j \in DOMAIN queue'[p], i < j
               PROVE  number[queue'[p][i]] < number[queue'[p][j]]
    BY <1>2 DEF QueuesAreSorted
  <2>1. p = q
    BY <1>1, <1>2, <1>7 DEF OnlyCurrentWorks, Working
  <2>2. i + 1 < j + 1
    BY <2>1, <1>4, <1>5
  <2> QED
    BY <2>1, <2>2, <1>1, <1>7, <1>10 DEF QueuesAreSorted
<1>13. RestIsQueued'
  <2> SUFFICES ASSUME NEW n \in Accepted', n \notin begun' \union stranded'
               PROVE  \E p \in Queues : Working(p)' /\ \E i \in DOMAIN queue'[p] : queue'[p][i] = n
    BY DEF RestIsQueued
  <2>1. n \in Accepted /\ n \notin begun \union stranded /\ n # queue[q][1]
    BY <1>2, <1>4 DEF Accepted
  <2>2. PICK p \in Queues : Working(p) /\ \E i \in DOMAIN queue[p] : queue[p][i] = n
    BY <2>1, <1>1 DEF RestIsQueued
  <2>3. p = q
    BY <2>2, <1>1, <1>2 DEF OnlyCurrentWorks, Working
  <2>4. PICK i \in DOMAIN queue[q] : queue[q][i] = n
    BY <2>2, <2>3
  <2>5. i - 1 \in DOMAIN queue'[q] /\ queue'[q][i - 1] = n
    BY <2>1, <2>4, <1>3, <1>4, <1>5
  <2> QED
    BY <2>2, <2>3, <2>5, <1>7
<1> QED
  BY <1>2, <1>4, <1>8, <1>9, <1>11, <1>12, <1>13 DEF QueueIInv, Working

\* Steps of a task that leave the queues and the numbers alone.
LEMMA QuietStep ==
  ASSUME QueueIInv, NEW q \in Queues,
         Wait(q) \/ FinishTurn(q) \/ IdleTimerFires(q)
  PROVE  QueueIInv'
<1> USE DEF Queues
<1>1. /\ QueueTypeOK /\ OnlyCurrentWorks /\ CreatedInOrder
      /\ QueuesHoldAccepted /\ QueuesAreSorted /\ RestIsQueued
  BY DEF QueueIInv
<1>2. UNCHANGED <<current, created, queue, accepted, number, begun, stranded, deaths>>
  BY DEF Wait, FinishTurn, IdleTimerFires
<1>3. /\ worker' \in [Queues -> WorkerStates]
      /\ turn' \in [Queues -> Msgs \union {NoMsg}]
      /\ \A p \in Queues : worker'[p] = "handling" <=> turn'[p] # NoMsg
      /\ \A p \in Queues : /\ Working(p)' <=> Working(p)
                           /\ worker'[p] = "unborn" <=> worker[p] = "unborn"
  BY <1>1 DEF QueueTypeOK, WorkerStates, Wait, FinishTurn, IdleTimerFires, Become, Working
<1>4. QueueTypeOK'
  BY <1>1, <1>2, <1>3 DEF QueueTypeOK, Accepted
<1>5. OnlyCurrentWorks' /\ CreatedInOrder'
  BY <1>1, <1>2, <1>3 DEF OnlyCurrentWorks, CreatedInOrder
<1>6. QueuesHoldAccepted'
  BY <1>1, <1>2 DEF QueuesHoldAccepted
<1>7. QueuesAreSorted'
  BY <1>1, <1>2, <1>3 DEF QueuesAreSorted
<1>8. RestIsQueued'
  BY <1>1, <1>2, <1>3 DEF RestIsQueued, Accepted
<1> QED
  BY <1>4, <1>5, <1>6, <1>7, <1>8 DEF QueueIInv

\* What happens to the queue in the dicts is that nobody works it any more, and
\* what is in it is given up.
LEMMA GiveUpStep ==
  ASSUME QueueIInv,
         (\E q \in Queues : Expire(q) \/ HandlerCancelled(q)) \/ CrashQueues
  PROVE  QueueIInv'
<1> USE MaxDeathsIsNatural DEF Queues
<1>1. /\ QueueTypeOK /\ OnlyCurrentWorks /\ CreatedInOrder
      /\ QueuesHoldAccepted /\ QueuesAreSorted /\ RestIsQueued
  BY DEF QueueIInv
<1>2. /\ UNCHANGED <<created, queue, accepted, number, begun>>
      /\ current' \in {0, current}
      /\ deaths' \in 0 .. MaxDeaths
  BY <1>1 DEF Expire, HandlerCancelled, CrashQueues, Death, QueueTypeOK
<1> DEFINE TypedWorkers ==
             /\ worker' \in [Queues -> WorkerStates]
             /\ turn' \in [Queues -> Msgs \union {NoMsg}]
             /\ \A p \in Queues : worker'[p] = "handling" <=> turn'[p] # NoMsg
             /\ \A p \in Queues : worker'[p] = "unborn" <=> worker[p] = "unborn"
<1>typed. TypedWorkers
  <2>1. CASE CrashQueues
    BY <2>1, <1>1 DEF CrashQueues, QueueTypeOK, WorkerStates
  <2>2. ASSUME NEW q \in Queues, Expire(q) PROVE TypedWorkers
    BY <2>2, <1>1 DEF Expire, Become, QueueTypeOK, WorkerStates
  <2>3. ASSUME NEW q \in Queues, HandlerCancelled(q) PROVE TypedWorkers
    BY <2>3, <1>1 DEF HandlerCancelled, Become, QueueTypeOK, WorkerStates
  <2> QED
    BY <2>1, <2>2, <2>3
<1>3. \A p \in Queues : ~Working(p)'
  <2>1. CASE CrashQueues
    BY <2>1 DEF CrashQueues, Working
  <2>2. ASSUME NEW q \in Queues, Expire(q) \/ HandlerCancelled(q)
        PROVE  \A p \in Queues : ~Working(p)'
    <3>1. worker' = [worker EXCEPT ![q] = "done"] /\ Working(q)
      BY <2>2 DEF Expire, HandlerCancelled, Become, Working
    <3>2. \A p \in Queues : p # q => ~Working(p)
      BY <3>1, <1>1 DEF OnlyCurrentWorks
    <3>3. \A p \in Queues : worker'[p] = IF p = q THEN "done" ELSE worker[p]
      BY <3>1, <1>1 DEF QueueTypeOK
    <3> QED
      BY <3>2, <3>3 DEF Working
  <2> QED
    BY <2>1, <2>2
<1>4. /\ stranded \subseteq stranded' /\ stranded' \subseteq Accepted
      /\ \A p \in Queues : Working(p) => Members(queue[p]) \subseteq stranded'
  <2>1. \A p \in Queues : Members(queue[p]) \subseteq Accepted
    BY <1>1, QueueEntries DEF QueuesHoldAccepted, Members, Accepted
  <2>2. CASE CrashQueues
    BY <2>1, <2>2, <1>1 DEF CrashQueues, QueueTypeOK
  <2>3. ASSUME NEW q \in Queues, Expire(q) \/ HandlerCancelled(q)
        PROVE  /\ stranded' = stranded \union Members(queue[q])
               /\ Working(q)
    BY <2>3 DEF Expire, HandlerCancelled, Working
  <2> QED
    BY <2>1, <2>2, <2>3, <1>1 DEF QueueTypeOK, OnlyCurrentWorks
<1>5. QueueTypeOK'
  BY <1>1, <1>2, <1>4, <1>typed DEF QueueTypeOK, Accepted
<1>6. OnlyCurrentWorks' /\ QueuesAreSorted'
  BY <1>3 DEF OnlyCurrentWorks, QueuesAreSorted
<1>7. CreatedInOrder' /\ QueuesHoldAccepted'
  BY <1>1, <1>2, <1>typed DEF CreatedInOrder, QueuesHoldAccepted
<1>8. RestIsQueued'
  BY <1>1, <1>2, <1>4 DEF RestIsQueued, Accepted, Members
<1> QED
  BY <1>5, <1>6, <1>7, <1>8 DEF QueueIInv

\* Every step of the queue keeps the invariant.
LEMMA QueueStepsKeep ==
  ASSUME QueueIInv, [QueueNext]_queueVars
  PROVE  QueueIInv'
<1>1. CASE UNCHANGED queueVars
  BY <1>1 DEF queueVars, QueueIInv, QueueTypeOK, OnlyCurrentWorks, CreatedInOrder,
     QueuesHoldAccepted, QueuesAreSorted, RestIsQueued, Working, Accepted
<1> QED
  BY <1>1, PutInNewQueueStep, PutInCurrentStep, TakeStep, QuietStep, GiveUpStep
     DEF QueueNext, Work

\* A turn begins for the message all others before which have begun or were
\* given up.
LEMMA BeginsInOrder ==
  ASSUME QueueIInv, [QueueNext]_queueVars,
         NEW m \in begun' \ begun, NEW n \in Accepted, number[n] < number[m]
  PROVE  n \in begun \union stranded
<1>1. PICK q \in Queues : Take(q)
  BY DEF QueueNext, Work, queueVars, PutInNewQueue, PutInCurrent, Accept, Wait,
         FinishTurn, IdleTimerFires, Expire, HandlerCancelled, CrashQueues
<1>2. m = queue[q][1] /\ Working(q) /\ queue[q] # <<>>
  BY <1>1, TakeStep
<1>3. /\ QueueTypeOK /\ OnlyCurrentWorks /\ QueuesAreSorted /\ RestIsQueued
  BY DEF QueueIInv
<1> SUFFICES ASSUME n \notin begun \union stranded PROVE FALSE
  OBVIOUS
<1>4. PICK p \in Queues : Working(p) /\ \E i \in DOMAIN queue[p] : queue[p][i] = n
  BY <1>3 DEF RestIsQueued
<1>5. p = q
  BY <1>2, <1>3, <1>4 DEF OnlyCurrentWorks
<1>6. PICK i \in DOMAIN queue[q] : queue[q][i] = n
  BY <1>4, <1>5
<1>7. DOMAIN queue[q] = 1 .. Len(queue[q]) /\ Len(queue[q]) \in Nat
  BY <1>3, QueueEntries
<1>8. CASE i = 1
  BY <1>2, <1>6, <1>8, <1>3 DEF QueueTypeOK, Accepted
<1>9. CASE i # 1
  <2>1. 1 \in DOMAIN queue[q] /\ 1 < i
    BY <1>6, <1>7, <1>9
  <2>2. number[m] < number[n]
    BY <2>1, <1>2, <1>3, <1>6 DEF QueuesAreSorted
  <2>3. number[m] \in Nat /\ number[n] \in Nat
    BY <2>1, <1>2, <1>3, QueueEntries DEF QueueTypeOK, Accepted
  <2> QED
    BY <2>2, <2>3
<1> QED
  BY <1>8, <1>9

-----------------------------------------------------------------------------
(* The chat: every step of it is one of the queue                          *)

\* What the rest of a message's way does to the queue.
LEMMA ChatStepsAreQueueSteps ==
  [Next]_vars => [QueueNext]_queueVars
BY DEF Next, vars, QueueNext, Work, Arrive, Intake, Refuse, Admit, Fetched, FetchFails,
       ToWizard, NoWizard, Enqueue, QueueStep, TurnStep, BeginTurn, ReadImage, PassImage,
       Analysed, Retry, Answer, TurnFails, TurnCancelled, WindowSlides, TickReads,
       TickDeletes, TickFails, SessionEnds, Crash

\* The queue invariant holds of the chat.
THEOREM QueueInvariant == Spec => []QueueIInv
<1>1. Init => QueueIInv
  BY QueueInitEstablishes DEF Init
<1>2. QueueIInv /\ [Next]_vars => QueueIInv'
  BY ChatStepsAreQueueSteps, QueueStepsKeep
<1> QED
  BY <1>1, <1>2, PTL DEF Spec

\* AD-6: no two turns of a user overlap, whatever queues were given up and
\* replaced.
THEOREM TurnsNeverOverlap == Spec => []OneTurnAtATime
<1>1. QueueIInv => OneTurnAtATime
  BY DEF QueueIInv, OnlyCurrentWorks, Working, OneTurnAtATime
<1> QED
  BY <1>1, QueueInvariant, PTL

\* The turns of a user begin in the order of the puts, over all queues.
THEOREM TurnsBeginInOrder == Spec => TurnsInOrder
<1>1. QueueIInv /\ [Next]_vars =>
        [\A m \in begun' \ begun, n \in Accepted :
           number[n] < number[m] => n \in begun \union stranded]_queueVars
  BY ChatStepsAreQueueSteps, BeginsInOrder
<1> QED
  BY <1>1, QueueInvariant, PTL DEF Spec, TurnsInOrder

-----------------------------------------------------------------------------
(* The line: what is in a queue that nobody works was given up with it, so *)
(* a crash gives up nothing but the line.                                  *)

RestIsGivenUp == \A q \in Queues : Working(q) \/ Members(queue[q]) \subseteq stranded

LineIInv == QueueIInv /\ RestIsGivenUp

\* The queue of the dicts is worked unless a put would replace it.
LEMMA CurrentIsWorked ==
  ASSUME QueueIInv
  PROVE  /\ NeedsNewQueue \/ (current \in Queues /\ Working(current))
         /\ Waiting = IF NeedsNewQueue THEN <<>> ELSE queue[current]
<1>1. QueueTypeOK /\ CreatedInOrder /\ MaxQueues \in Nat
  BY MaxQueuesIsNatural DEF QueueIInv
<1>2. Waiting = IF NeedsNewQueue THEN <<>> ELSE queue[current]
  BY DEF Waiting, NeedsNewQueue
<1>3. ASSUME ~NeedsNewQueue
      PROVE  current \in Queues /\ Working(current)
  <2>1. current \in Queues /\ ~(current > created) /\ worker[current] # "done"
    BY <1>1, <1>3 DEF NeedsNewQueue, QueueTypeOK, Queues
  <2> QED
    BY <2>1, <1>1 DEF CreatedInOrder, Working
<1> QED
  BY <1>2, <1>3

\* Who works is in the dicts: its queue is the line.
LEMMA WorkedIsTheLine ==
  ASSUME QueueIInv, NEW q \in Queues, Working(q)
  PROVE  /\ q = current /\ Waiting = queue[q]
         /\ Handled = IF worker[q] = "handling" THEN {turn[q]} ELSE {}
         /\ \A p \in Queues : p # q => ~Working(p)
<1>1. OnlyCurrentWorks
  BY DEF QueueIInv
<1>2. q = current /\ \A p \in Queues : p # q => ~Working(p)
  BY <1>1 DEF OnlyCurrentWorks
<1>3. current # 0 /\ worker[current] # "done"
  BY <1>2 DEF Queues, Working
<1>4. Handled = IF worker[q] = "handling" THEN {turn[q]} ELSE {}
  <2>1. \A p \in Queues : worker[p] = "handling" => p = q
    BY <1>2 DEF Working
  <2> QED
    BY <2>1 DEF Handled
<1> QED
  BY <1>2, <1>3, <1>4 DEF Waiting

\* Where nobody works, nobody waits or is served.
LEMMA NobodyWorks ==
  ASSUME QueueTypeOK, CreatedInOrder, \A q \in Queues : ~Working(q)
  PROVE  Waiting = <<>> /\ Handled = {}
<1>1. Handled = {}
  BY DEF Handled, Working
<1>2. CASE current = 0
  BY <1>1, <1>2 DEF Waiting
<1>3. CASE current # 0
  <2>1. current \in Queues /\ ~(current > created)
    BY <1>3, MaxQueuesIsNatural DEF QueueTypeOK, Queues
  <2>2. worker[current] = "done"
    BY <2>1 DEF CreatedInOrder, Working
  <2> QED
    BY <1>1, <2>2 DEF Waiting
<1> QED
  BY <1>2, <1>3

\* Puts go to a queue somebody works, and whoever gives a queue up gives up what
\* it holds.
LEMMA RestStaysGivenUp ==
  ASSUME LineIInv, [QueueNext]_queueVars
  PROVE  RestIsGivenUp'
<1>1. /\ QueueIInv /\ RestIsGivenUp /\ QueueTypeOK /\ CreatedInOrder
      /\ worker \in [Queues -> WorkerStates] /\ queue \in [Queues -> Seq(Msgs)]
  BY DEF LineIInv, QueueIInv, QueueTypeOK
<1>2. ASSUME NEW m \in Msgs, PutInNewQueue(m)
      PROVE  RestIsGivenUp'
  <2>1. /\ created + 1 \in Queues /\ stranded' = stranded
        /\ worker' = [worker EXCEPT ![created + 1] = "ready"]
        /\ queue' = [queue EXCEPT ![created + 1] = <<m>>]
    BY <1>1, <1>2, MaxQueuesIsNatural DEF PutInNewQueue, Accept, Become, QueueTypeOK, Queues
  <2>2. \A q \in Queues : q # created + 1 => worker'[q] = worker[q] /\ queue'[q] = queue[q]
    BY <2>1, <1>1
  <2>3. worker'[created + 1] = "ready"
    BY <2>1, <1>1
  <2> QED
    BY <2>1, <2>2, <2>3, <1>1 DEF RestIsGivenUp, Working, Members
<1>3. ASSUME NEW m \in Msgs, PutInCurrent(m)
      PROVE  RestIsGivenUp'
  <2>1. /\ Working(current) /\ UNCHANGED <<worker, stranded>>
        /\ queue' = [queue EXCEPT ![current] = Append(queue[current], m)]
    BY <1>1, <1>3, CurrentIsWorked DEF PutInCurrent, Accept
  <2>2. \A q \in Queues : q # current => queue'[q] = queue[q]
    BY <2>1, <1>1
  <2> QED
    BY <2>1, <2>2, <1>1 DEF RestIsGivenUp, Working, Members
<1>4. ASSUME NEW q \in Queues, Take(q)
      PROVE  RestIsGivenUp'
  <2>1. /\ worker' = [worker EXCEPT ![q] = "handling"] /\ stranded' = stranded
        /\ \E rest : queue' = [queue EXCEPT ![q] = rest]
    BY <1>4 DEF Take, Become
  <2>2. /\ worker'[q] = "handling"
        /\ \A p \in Queues : p # q => worker'[p] = worker[p] /\ queue'[p] = queue[p]
    BY <2>1, <1>1
  <2> QED
    BY <2>1, <2>2, <1>1 DEF RestIsGivenUp, Working, Members
<1>5. ASSUME NEW q \in Queues, Wait(q) \/ FinishTurn(q) \/ IdleTimerFires(q)
      PROVE  RestIsGivenUp'
  <2>1. /\ UNCHANGED <<queue, stranded>>
        /\ \E state \in {"ready", "waiting", "expiring"} : worker' = [worker EXCEPT ![q] = state]
    BY <1>5 DEF Wait, FinishTurn, IdleTimerFires, Become
  <2>2. /\ worker'[q] \in {"ready", "waiting", "expiring"}
        /\ \A p \in Queues : p # q => worker'[p] = worker[p]
    BY <2>1, <1>1
  <2> QED
    BY <2>1, <2>2, <1>1 DEF RestIsGivenUp, Working, Members
<1>6. ASSUME NEW q \in Queues, Expire(q) \/ HandlerCancelled(q)
      PROVE  RestIsGivenUp'
  <2>1. /\ queue' = queue /\ stranded' = stranded \union Members(queue[q])
        /\ worker' = [worker EXCEPT ![q] = "done"]
    BY <1>6 DEF Expire, HandlerCancelled, Become
  <2>2. \A p \in Queues : p # q => worker'[p] = worker[p]
    BY <2>1, <1>1
  <2> QED
    BY <2>1, <2>2, <1>1 DEF RestIsGivenUp, Working, Members
<1>7. CASE CrashQueues
  <2>1. queue' = queue /\ stranded' = stranded \union UNION {Members(queue[q]) : q \in Queues}
    BY <1>7 DEF CrashQueues
  <2> QED
    BY <2>1 DEF RestIsGivenUp, Members
<1>8. CASE UNCHANGED queueVars
  BY <1>8, <1>1 DEF queueVars, RestIsGivenUp, Working, Members
<1> QED
  BY <1>2, <1>3, <1>4, <1>5, <1>6, <1>7, <1>8 DEF QueueNext, Work

\* A put joins the line at its end.
LEMMA PutJoins ==
  ASSUME QueueIInv, NEW m \in Msgs, PutInNewQueue(m) \/ PutInCurrent(m)
  PROVE  Line!Join(m)
<1>1. /\ QueueTypeOK /\ CreatedInOrder /\ Accept(m)
      /\ worker \in [Queues -> WorkerStates] /\ queue \in [Queues -> Seq(Msgs)]
      /\ created \in Nat
  BY MaxQueuesIsNatural DEF QueueIInv, QueueTypeOK, PutInNewQueue, PutInCurrent
<1>2. /\ m \notin Accepted /\ Accepted' = Accepted \union {m}
      /\ UNCHANGED <<turn, stranded>>
  BY <1>1, AcceptNumbers DEF Accepted, Accept
<1>3. CASE PutInNewQueue(m)
  <2> DEFINE new == created + 1
  <2>1. /\ new \in Queues /\ current' = new /\ worker[new] = "unborn"
        /\ worker' = [worker EXCEPT ![new] = "ready"]
        /\ queue' = [queue EXCEPT ![new] = <<m>>]
    BY <1>1, <1>3, MaxQueuesIsNatural
       DEF PutInNewQueue, Become, QueueTypeOK, Queues, CreatedInOrder
  <2>2. Waiting = <<>>
    BY <1>3, CurrentIsWorked DEF PutInNewQueue
  <2>3. /\ queue'[new] = <<m>> /\ worker'[new] = "ready" /\ new # 0
        /\ \A q \in Queues : worker'[q] = "handling" <=> worker[q] = "handling"
    BY <2>1, <1>1
  <2>4. Waiting' = Append(Waiting, m)
    <3>1. Waiting' = <<m>>
      BY <2>1, <2>3 DEF Waiting
    <3>2. Append(<<>>, m) = <<m>>
      OBVIOUS
    <3> QED
      BY <3>1, <3>2, <2>2
  <2>5. Handled' = Handled
    BY <2>3, <1>2 DEF Handled
  <2> QED
    BY <2>4, <2>5, <1>2 DEF Line!Join
<1>4. CASE PutInCurrent(m)
  <2>1. /\ current \in Queues /\ Waiting = queue[current] /\ ~NeedsNewQueue
        /\ queue' = [queue EXCEPT ![current] = Append(queue[current], m)]
        /\ UNCHANGED <<current, worker>>
    BY <1>4, CurrentIsWorked DEF PutInCurrent
  <2>2. queue'[current] = Append(Waiting, m)
    BY <2>1, <1>1
  <2>3. Waiting' = Append(Waiting, m)
    BY <2>1, <2>2 DEF Waiting, NeedsNewQueue
  <2>4. Handled' = Handled
    BY <2>1, <1>2 DEF Handled
  <2> QED
    BY <2>3, <2>4, <1>2 DEF Line!Join
<1> QED
  BY <1>3, <1>4

\* A turn begins at the head of the line when nobody is served.
LEMMA TakeServes ==
  ASSUME QueueIInv, QueueIInv', NEW q \in Queues, Take(q)
  PROVE  Line!Serve
<1>1. /\ worker[q] \in {"ready", "waiting"} /\ queue[q] # <<>>
      /\ turn' = [turn EXCEPT ![q] = Head(queue[q])]
      /\ queue' = [queue EXCEPT ![q] = Tail(queue[q])]
      /\ worker' = [worker EXCEPT ![q] = "handling"]
      /\ UNCHANGED <<number, stranded>>
  BY DEF Take, FirstOf, Become
<1>2. /\ turn'[q] = Head(queue[q]) /\ queue'[q] = Tail(queue[q])
      /\ worker'[q] = "handling"
  BY <1>1 DEF QueueIInv, QueueTypeOK
<1>3. Working(q) /\ Working(q)'
  BY <1>1, <1>2 DEF Working
<1>4. Waiting = queue[q] /\ Handled = {}
  BY <1>1, <1>3, WorkedIsTheLine
<1>5. Waiting' = Tail(queue[q]) /\ Handled' = {Head(queue[q])}
  <2>1. OnlyCurrentWorks' /\ q = current' /\ q # 0
    BY <1>3 DEF QueueIInv, OnlyCurrentWorks, Queues
  <2>2. \A p \in Queues : worker'[p] = "handling" => p = q
    BY <2>1 DEF OnlyCurrentWorks, Working
  <2>3. Handled' = {Head(queue[q])}
    BY <2>2, <1>2 DEF Handled
  <2> QED
    BY <2>1, <2>3, <1>2 DEF Waiting
<1> QED
  BY <1>1, <1>4, <1>5 DEF Line!Serve, Accepted

\* A turn that ends leaves the line as it is; a task that waits changes nothing.
LEMMA QuietStepsServe ==
  ASSUME QueueIInv, QueueIInv', NEW q \in Queues,
         Wait(q) \/ FinishTurn(q) \/ IdleTimerFires(q)
  PROVE  Line!Finish \/ UNCHANGED Line!lineVars
<1>1. UNCHANGED <<queue, number, stranded>> /\ Accepted' = Accepted
  BY DEF Wait, FinishTurn, IdleTimerFires, Accepted
<1>2. /\ Working(q) /\ Working(q)' /\ worker'[q] # "handling"
      /\ worker[q] = "handling" <=> FinishTurn(q)
  BY DEF Wait, FinishTurn, IdleTimerFires, Become, Working, QueueIInv, QueueTypeOK
<1>3. Waiting' = Waiting /\ Handled' = {}
  <2>1. Waiting = queue[q]
    BY <1>2, WorkedIsTheLine
  <2>2. OnlyCurrentWorks' /\ q = current' /\ q # 0
    BY <1>2 DEF QueueIInv, OnlyCurrentWorks, Queues
  <2>3. Waiting' = queue[q]
    BY <2>2, <1>1, <1>2 DEF Waiting, Working
  <2>4. \A p \in Queues : worker'[p] # "handling"
    BY <2>2, <1>2 DEF OnlyCurrentWorks, Working
  <2> QED
    BY <2>1, <2>3, <2>4 DEF Handled
<1>4. Handled = IF FinishTurn(q) THEN {turn[q]} ELSE {}
  BY <1>2, WorkedIsTheLine
<1> QED
  BY <1>1, <1>3, <1>4 DEF Line!Finish, Line!lineVars

\* What is given up is the line, and whoever is served.
LEMMA EndsGiveUp ==
  ASSUME LineIInv, QueueIInv',
         (\E q \in Queues : Expire(q) \/ HandlerCancelled(q)) \/ CrashQueues
  PROVE  Line!GiveUp
<1>1. /\ QueueIInv /\ RestIsGivenUp /\ QueueTypeOK' /\ CreatedInOrder'
      /\ worker \in [Queues -> WorkerStates]
  BY DEF LineIInv, QueueIInv, QueueTypeOK
<1>2. UNCHANGED <<queue, number>> /\ Accepted' = Accepted
  BY DEF Expire, HandlerCancelled, CrashQueues, Accepted
<1>3. \A p \in Queues : worker'[p] \in {"unborn", "done"}
  <2>1. CASE CrashQueues
    BY <2>1 DEF CrashQueues
  <2>2. ASSUME NEW q \in Queues, Expire(q) \/ HandlerCancelled(q)
        PROVE  \A p \in Queues : worker'[p] \in {"unborn", "done"}
    <3>1. worker' = [worker EXCEPT ![q] = "done"] /\ Working(q)
      BY <2>2 DEF Expire, HandlerCancelled, Become, Working
    <3>2. \A p \in Queues : p # q => worker[p] \in {"unborn", "done"}
      BY <3>1, <1>1, WorkedIsTheLine DEF Working
    <3>3. \A p \in Queues : worker'[p] = IF p = q THEN "done" ELSE worker[p]
      BY <3>1, <1>1
    <3> QED
      BY <3>2, <3>3
  <2> QED
    BY <2>1, <2>2
<1>4. Waiting' = <<>> /\ Handled' = {}
  <2>1. Handled' = {}
    BY <1>3 DEF Handled
  <2>2. CASE current' = 0
    BY <2>1, <2>2 DEF Waiting
  <2>3. CASE current' # 0
    <3>1. current' \in Queues /\ ~(current' > created')
      BY <2>3, <1>1, MaxQueuesIsNatural DEF QueueTypeOK, Queues
    <3>2. worker'[current'] = "done"
      BY <3>1, <1>1, <1>3 DEF CreatedInOrder
    <3> QED
      BY <2>1, <3>2 DEF Waiting
  <2> QED
    BY <2>2, <2>3
<1>5. stranded' = stranded \union Members(Waiting)
  <2>1. ASSUME NEW q \in Queues, Expire(q) \/ HandlerCancelled(q)
        PROVE  stranded' = stranded \union Members(Waiting)
    <3>1. Working(q) /\ stranded' = stranded \union Members(queue[q])
      BY <2>1 DEF Expire, HandlerCancelled, Working
    <3> QED
      BY <3>1, <1>1, WorkedIsTheLine
  <2>2. CASE CrashQueues
    <3>1. stranded' = stranded \union UNION {Members(queue[q]) : q \in Queues}
      BY <2>2 DEF CrashQueues
    <3>2. CASE \E q \in Queues : Working(q)
      <4>1. PICK q \in Queues : Working(q)
        BY <3>2
      <4>2. /\ Waiting = queue[q]
            /\ \A p \in Queues : p # q => Members(queue[p]) \subseteq stranded
        BY <4>1, <1>1, WorkedIsTheLine DEF RestIsGivenUp
      <4> QED
        BY <3>1, <4>2
    <3>3. CASE \A q \in Queues : ~Working(q)
      <4>1. Waiting = <<>>
        BY <3>3, <1>1, NobodyWorks DEF QueueIInv
      <4>2. Members(Waiting) = {}
        BY <4>1 DEF Members
      <4> QED
        BY <3>1, <3>3, <4>2, <1>1 DEF RestIsGivenUp
    <3> QED
      BY <3>2, <3>3
  <2> QED
    BY <2>1, <2>2
<1> QED
  BY <1>2, <1>4, <1>5 DEF Line!GiveUp, Members

\* Every step of the queues is a step of the line, or none.
LEMMA QueueStepsAreTheLines ==
  ASSUME LineIInv, QueueIInv', [QueueNext]_queueVars
  PROVE  [Line!Next]_(Line!lineVars)
<1>1. QueueIInv
  BY DEF LineIInv
<1>2. ASSUME NEW m \in Msgs, PutInNewQueue(m) \/ PutInCurrent(m)
      PROVE  Line!Next
  BY <1>1, <1>2, PutJoins DEF Line!Next
<1>3. ASSUME NEW q \in Queues, Take(q)
      PROVE  Line!Next
  BY <1>1, <1>3, TakeServes DEF Line!Next
<1>4. ASSUME NEW q \in Queues, Wait(q) \/ FinishTurn(q) \/ IdleTimerFires(q)
      PROVE  [Line!Next]_(Line!lineVars)
  BY <1>1, <1>4, QuietStepsServe DEF Line!Next
<1>5. CASE (\E q \in Queues : Expire(q) \/ HandlerCancelled(q)) \/ CrashQueues
  BY <1>5, EndsGiveUp DEF Line!Next
<1>6. CASE UNCHANGED queueVars
  BY <1>6 DEF queueVars, Line!lineVars, Accepted, Waiting, Handled
<1> QED
  BY <1>2, <1>3, <1>4, <1>5, <1>6 DEF QueueNext, Work

\* Whatever queues and tasks come and go, to the sender of the messages they are
\* one line, served one at a time from its head.
THEOREM QueuesImplementALine == Spec => ImplementsLine
<1>1. Init => Line!Init
  <2>1. ASSUME Init PROVE Line!Init
    <3>1. /\ current = 0 /\ stranded = {} /\ number = [m \in Msgs |-> 0]
          /\ \A q \in Queues : worker[q] = "unborn"
      BY <2>1 DEF Init, QueueInit
    <3> QED
      BY <3>1 DEF Line!Init, Accepted, Waiting, Handled
  <2> QED
    BY <2>1
<1>2. Init => RestIsGivenUp
  BY DEF Init, QueueInit, RestIsGivenUp, Members
<1>3. QueueIInv /\ RestIsGivenUp /\ [Next]_vars => RestIsGivenUp'
  BY ChatStepsAreQueueSteps, RestStaysGivenUp DEF LineIInv
<1>4. QueueIInv /\ QueueIInv' /\ RestIsGivenUp /\ [Next]_vars => [Line!Next]_(Line!lineVars)
  BY ChatStepsAreQueueSteps, QueueStepsAreTheLines DEF LineIInv
<1> QED
  BY <1>1, <1>2, <1>3, <1>4, QueueInvariant, PTL DEF Spec, ImplementsLine, Line!Spec

-----------------------------------------------------------------------------
(* Who waits in a queue that is worked                                     *)

Waits(m) == \E q \in Queues : Working(q) /\ \E i \in DOMAIN queue[q] : queue[q][i] = m

\* A put adds its message to those that wait.
LEMMA PutWaits ==
  ASSUME QueueIInv, NEW m \in Msgs, PutInNewQueue(m) \/ PutInCurrent(m),
         NEW n \in Msgs, Waits(n)'
  PROVE  n = m \/ Waits(n)
<1> USE DEF Queues
<1>1. QueueTypeOK /\ MaxQueues \in Nat
  BY MaxQueuesIsNatural DEF QueueIInv
<1>2. PICK q \in Queues : Working(q)' /\ \E i \in DOMAIN queue'[q] : queue'[q][i] = n
  BY DEF Waits
<1>3. CASE PutInNewQueue(m)
  <2>1. CASE q = created + 1
    <3>1. queue'[q] = <<m>>
      BY <2>1, <1>1, <1>3 DEF PutInNewQueue, QueueTypeOK
    <3>2. DOMAIN <<m>> = {1} /\ <<m>>[1] = m
      OBVIOUS
    <3>3. PICK i \in DOMAIN queue'[q] : queue'[q][i] = n
      BY <1>2
    <3> QED
      BY <3>1, <3>2, <3>3
  <2>2. CASE q # created + 1
    BY <2>2, <1>1, <1>2, <1>3 DEF PutInNewQueue, Become, QueueTypeOK, Waits, Working
  <2> QED
    BY <2>1, <2>2
<1>4. CASE PutInCurrent(m)
  <2>1. Working(q)
    BY <1>2, <1>4 DEF PutInCurrent, Working
  <2>2. CASE q = current
    <3>1. queue'[q] = Append(queue[q], m) /\ queue[q] \in Seq(Msgs)
      BY <2>2, <1>1, <1>4 DEF PutInCurrent, QueueTypeOK
    <3>2. /\ Len(queue[q]) \in Nat /\ DOMAIN queue[q] = 1 .. Len(queue[q])
          /\ DOMAIN queue'[q] = 1 .. Len(queue[q]) + 1
          /\ \A i \in 1 .. Len(queue[q]) : queue'[q][i] = queue[q][i]
          /\ queue'[q][Len(queue[q]) + 1] = m
      BY <3>1, AppendProperties, LenProperties
    <3>3. PICK i \in DOMAIN queue'[q] : queue'[q][i] = n
      BY <1>2
    <3>4. CASE i = Len(queue[q]) + 1
      BY <3>2, <3>3, <3>4
    <3>5. CASE i # Len(queue[q]) + 1
      <4>1. i \in DOMAIN queue[q] /\ queue[q][i] = n
        BY <3>2, <3>3, <3>5
      <4> QED
        BY <4>1, <2>1 DEF Waits
    <3> QED
      BY <3>4, <3>5
  <2>3. CASE q # current
    BY <2>1, <2>3, <1>1, <1>2, <1>4 DEF PutInCurrent, QueueTypeOK, Waits
  <2> QED
    BY <2>2, <2>3
<1> QED
  BY <1>3, <1>4

\* A turn is of a message that waited and does no longer.
LEMMA TakeWaits ==
  ASSUME QueueIInv, NEW q \in Queues, Take(q)
  PROVE  /\ turn'[q] \in Msgs /\ Waits(turn'[q])
         /\ \A n \in Msgs : Waits(n)' => Waits(n) /\ n # turn'[q]
<1>1. QueueTypeOK /\ OnlyCurrentWorks /\ QueuesAreSorted
  BY DEF QueueIInv
<1>2. /\ worker[q] \in {"ready", "waiting"} /\ queue[q] # <<>>
      /\ turn' = [turn EXCEPT ![q] = Head(queue[q])]
      /\ queue' = [queue EXCEPT ![q] = Tail(queue[q])]
      /\ worker' = [worker EXCEPT ![q] = "handling"]
  BY DEF Take, FirstOf, Become
<1>3. /\ queue[q] \in Seq(Msgs) /\ Len(queue[q]) \in Nat
      /\ DOMAIN queue[q] = 1 .. Len(queue[q])
      /\ \A i \in DOMAIN queue[q] : queue[q][i] \in Msgs
  BY <1>1, QueueEntries
<1>4. /\ Len(queue[q]) > 0 /\ turn'[q] = queue[q][1]
      /\ queue'[q] = Tail(queue[q])
      /\ DOMAIN queue'[q] = 1 .. Len(queue[q]) - 1
      /\ \A i \in 1 .. Len(queue[q]) - 1 : queue'[q][i] = queue[q][i + 1]
  <2>1. /\ Len(Tail(queue[q])) = Len(queue[q]) - 1 /\ Tail(queue[q]) \in Seq(Msgs)
        /\ queue'[q] = Tail(queue[q]) /\ turn'[q] = Head(queue[q])
    BY <1>1, <1>2, <1>3, HeadTailProperties DEF QueueTypeOK
  <2>2. DOMAIN Tail(queue[q]) = 1 .. Len(Tail(queue[q]))
    BY <2>1, LenProperties
  <2>3. \A i \in 1 .. Len(Tail(queue[q])) : Tail(queue[q])[i] = queue[q][i + 1]
    BY <1>2, <1>3, HeadTailProperties
  <2>4. Head(queue[q]) = queue[q][1] /\ Len(queue[q]) > 0
    BY <1>2, <1>3, HeadTailProperties, EmptySeq
  <2> QED
    BY <2>1, <2>2, <2>3, <2>4
<1>5. turn'[q] \in Msgs /\ Waits(turn'[q])
  BY <1>2, <1>3, <1>4 DEF Waits, Working
<1>6. ASSUME NEW n \in Msgs, Waits(n)'
      PROVE  Waits(n) /\ n # turn'[q]
  <2>1. PICK p \in Queues : Working(p)' /\ \E i \in DOMAIN queue'[p] : queue'[p][i] = n
    BY <1>6 DEF Waits
  <2>2. p = q
    BY <2>1, <1>1, <1>2 DEF OnlyCurrentWorks, Working, QueueTypeOK
  <2>3. PICK i \in 1 .. Len(queue[q]) - 1 : queue[q][i + 1] = n
    BY <2>1, <2>2, <1>4
  <2>4. 1 \in DOMAIN queue[q] /\ i + 1 \in DOMAIN queue[q] /\ 1 < i + 1
    BY <1>3, <2>3
  <2>5. number[queue[q][1]] < number[n] /\ number[n] \in Nat
    <3>1. Working(q) /\ n \in Msgs /\ number \in [Msgs -> 0 .. accepted]
      BY <1>1, <1>2 DEF Working, QueueTypeOK
    <3>2. number[queue[q][1]] < number[queue[q][i + 1]]
      BY <3>1, <2>4, <1>1 DEF QueuesAreSorted
    <3> QED
      BY <3>1, <3>2, <2>3
  <2> QED
    BY <2>3, <2>4, <2>5, <1>2, <1>4 DEF Waits, Working
<1> QED
  BY <1>5, <1>6

\* Nothing else makes a message wait.
LEMMA NobodyElseWaits ==
  ASSUME QueueIInv, NEW q \in Queues,
         \/ UNCHANGED queueVars
         \/ Wait(q) \/ FinishTurn(q) \/ IdleTimerFires(q)
         \/ Expire(q) \/ HandlerCancelled(q),
         NEW n \in Msgs, Waits(n)'
  PROVE  Waits(n)
<1>1. queue' = queue
  BY DEF queueVars, Wait, FinishTurn, IdleTimerFires, Expire, HandlerCancelled
<1>2. \/ worker' = worker
      \/ /\ worker[q] \in {"ready", "waiting", "expiring", "handling"}
         /\ \E state \in WorkerStates : worker' = [worker EXCEPT ![q] = state]
  BY DEF queueVars, Wait, FinishTurn, IdleTimerFires, Expire, HandlerCancelled, Become,
         WorkerStates
<1>3. worker \in [Queues -> WorkerStates]
  BY DEF QueueIInv, QueueTypeOK
<1>4. \A p \in Queues : Working(p)' => Working(p)
  BY <1>2, <1>3 DEF Working, WorkerStates
<1> QED
  BY <1>1, <1>4 DEF Waits

-----------------------------------------------------------------------------
(* The image                                                               *)

NotFetched == {"none", "screened", "fetching"}

\* A message whose photo is in the session, or was, is not fetched again.
ImagesWereFetched ==
  \A m \in Msgs :
    /\ image # NoImage => stage[image] \notin NotFetched
    /\ seen[m] # NoImage => stage[seen[m]] \notin NotFetched

SeenInTheTurn ==
  \A m \in Msgs : seen[m] # NoImage => stage[m] \in {"analysing", "replying", "answered"}

\* The image of an analysis that came to its end is not in the session.
AnalysedIsGone ==
  \A m \in Msgs :
    stage[m] \in {"replying", "answered"} /\ seen[m] # NoImage => seen[m] # image

OneReader == \A m, n \in Msgs : m # n /\ seen[m] # NoImage => seen[m] # seen[n]

\* A task handles a message that is in its turn.
TurnsAreBegun == \A q \in Queues : turn[q] # NoMsg => stage[turn[q]] \in TurnStages

WaitingAreQueued == \A m \in Msgs : Waits(m) => stage[m] = "queued"

ImageIInv ==
  /\ TypeOK
  /\ WaitingAreQueued
  /\ TurnsAreBegun
  /\ ImagesWereFetched
  /\ SeenInTheTurn
  /\ AnalysedIsGone
  /\ OneReader

\* Nothing is in the session at the start, as far as this user goes.
LEMMA ImageInitEstablishes == Init => ImageIInv
<1> SUFFICES ASSUME Init PROVE ImageIInv
  OBVIOUS
<1>1. QueueTypeOK
  BY QueueInitEstablishes DEF Init, QueueIInv
<1>2. TypeOK
  <2>1. /\ stage = [m \in Msgs |-> "none"] /\ seen = [m \in Msgs |-> NoImage]
        /\ recent = 0 /\ image = NoImage /\ ticking = FALSE
    BY DEF Init
  <2>2. stage \in [Msgs -> Stages] /\ \A m \in Msgs : stage[m] \notin TurnStages
    BY <2>1 DEF Stages, TurnStages
  <2>3. recent \in 0 .. RateLimit
    BY <2>1, RateLimitIsNatural
  <2>4. seen \in [Msgs -> Msgs \union {NoImage}] /\ image \in Msgs \union {NoImage}
    BY <2>1
  <2> QED
    BY <1>1, <2>1, <2>2, <2>3, <2>4 DEF TypeOK
<1>3. ImagesWereFetched /\ SeenInTheTurn /\ AnalysedIsGone /\ OneReader
  BY DEF Init, ImagesWereFetched, SeenInTheTurn, AnalysedIsGone, OneReader
<1>4. WaitingAreQueued /\ TurnsAreBegun
  BY DEF Init, QueueInit, WaitingAreQueued, Waits, Working, TurnsAreBegun
<1> QED
  BY <1>2, <1>3, <1>4 DEF ImageIInv

\* A message moves on in front of the queue.
LEMMA IntakeStep ==
  ASSUME ImageIInv, QueueIInv, QueueTypeOK', NEW m \in Msgs, Arrive(m) \/ Intake(m)
  PROVE  ImageIInv'
<1> USE DEF Stages, IntakeStages, TurnStages, Ends
<1>1. /\ TypeOK /\ WaitingAreQueued /\ TurnsAreBegun
      /\ ImagesWereFetched /\ SeenInTheTurn /\ AnalysedIsGone /\ OneReader
  BY DEF ImageIInv
<1> DEFINE Moves ==
      /\ stage[m] \in {"none", "ready"} \union IntakeStages
      /\ \E s \in IntakeStages \union {"queued", "refused", "wizard"} :
           /\ stage' = [stage EXCEPT ![m] = s]
           /\ s \in NotFetched => stage[m] \in NotFetched
      /\ recent' \in 0 .. RateLimit
      /\ \/ image' = image
         \/ image' = m /\ stage[m] = "fetching" /\ stage'[m] = "ready"
      /\ UNCHANGED <<turn, seen, ticking>>
<1>2. Moves
  <2>1. stage[m] \in {"none", "ready"} \union IntakeStages /\ recent \in 0 .. RateLimit
    BY <1>1 DEF TypeOK, Arrive, Intake, Refuse, Admit, Fetched, FetchFails, ToWizard,
           NoWizard, Enqueue
  <2>2. CASE Arrive(m)
    BY <2>1, <2>2 DEF Arrive, Reach, queueVars, NotFetched
  <2>3. CASE Refuse(m) \/ FetchFails(m) \/ ToWizard(m) \/ NoWizard(m)
    BY <2>1, <2>3 DEF Refuse, FetchFails, ToWizard, NoWizard, Reach, queueVars, NotFetched
  <2>4. CASE Admit(m)
    <3>1. recent' \in 0 .. RateLimit
      BY <2>1, <2>4, RateLimitIsNatural DEF Admit, WithinLimit
    <3>2. \E s \in {"routed", "fetching"} : stage' = [stage EXCEPT ![m] = s]
      BY <2>4 DEF Admit, Reach
    <3> QED
      BY <2>1, <2>4, <3>1, <3>2 DEF Admit, queueVars, NotFetched
  <2>5. CASE Fetched(m)
    BY <2>1, <2>5, <1>1 DEF Fetched, Reach, queueVars, NotFetched, TypeOK
  <2>6. CASE Enqueue(m)
    BY <2>1, <2>6 DEF Enqueue, PutInNewQueue, PutInCurrent, Accept, Reach, NotFetched
  <2> QED
    BY <2>2, <2>3, <2>4, <2>5, <2>6 DEF Intake
<1>3. /\ \A n \in Msgs : n # m => stage'[n] = stage[n]
      /\ stage'[m] \in IntakeStages \union {"queued", "refused", "wizard"}
      /\ stage'[m] \in NotFetched => stage[m] \in NotFetched
      /\ stage' \in [Msgs -> Stages]
  BY <1>1, <1>2 DEF TypeOK
<1>4. TypeOK'
  BY <1>1, <1>2, <1>3 DEF TypeOK
<1>5. ImagesWereFetched'
  BY <1>1, <1>2, <1>3 DEF ImagesWereFetched, NotFetched, TypeOK
<1>6. SeenInTheTurn'
  BY <1>1, <1>2, <1>3 DEF SeenInTheTurn, TypeOK
<1>7. AnalysedIsGone'
  BY <1>1, <1>2, <1>3 DEF AnalysedIsGone, ImagesWereFetched, NotFetched, TypeOK
<1>8. OneReader'
  BY <1>1, <1>2 DEF OneReader
<1>9. WaitingAreQueued'
  <2>1. CASE Enqueue(m)
    BY <2>1, <1>1, <1>3, PutWaits DEF WaitingAreQueued, Enqueue, Reach, TypeOK
  <2>2. CASE UNCHANGED queueVars
    <3>1. \A n \in Msgs : Waits(n)' <=> Waits(n)
      BY <2>2 DEF Waits, Working, queueVars
    <3> QED
      BY <3>1, <1>1, <1>2, <1>3 DEF WaitingAreQueued
  <2> QED
    BY <2>1, <2>2 DEF Arrive, Intake, Refuse, Admit, Fetched, FetchFails, ToWizard, NoWizard
<1>10. TurnsAreBegun'
  <2>1. turn' = turn /\ stage[m] \notin TurnStages
    BY <1>2
  <2>2. \A q \in Queues : turn[q] \in Msgs \union {NoMsg}
    BY <1>1 DEF TypeOK, QueueTypeOK
  <2> QED
    BY <1>1, <1>3, <2>1, <2>2 DEF TurnsAreBegun
<1> QED
  BY <1>4, <1>5, <1>6, <1>7, <1>8, <1>9, <1>10 DEF ImageIInv

\* A turn moves on: while it reads an image no other turn runs, and no ended
\* one has read that image.
LEMMA TurnMovesOn ==
  ASSUME ImageIInv, OneTurnAtATime, NEW q \in Queues,
         ReadImage(q) \/ PassImage(q) \/ Analysed(q) \/ Retry(q)
  PROVE  ImageIInv'
<1> USE DEF Stages, IntakeStages, TurnStages, Ends
<1>1. /\ TypeOK /\ WaitingAreQueued /\ TurnsAreBegun
      /\ ImagesWereFetched /\ SeenInTheTurn /\ AnalysedIsGone /\ OneReader
  BY DEF ImageIInv
<1> DEFINE m == turn[q]
<1>2. /\ m \in Msgs /\ worker[q] = "handling"
      /\ stage[m] \in TurnStages
      /\ UNCHANGED <<queueVars, recent, ticking>>
  BY <1>1 DEF TypeOK, QueueTypeOK, ReadImage, PassImage, Analysed, Retry
<1>3. /\ stage' \in [Msgs -> Stages]
      /\ stage'[m] \in TurnStages
      /\ \A n \in Msgs : n # m => stage'[n] = stage[n]
  BY <1>1, <1>2 DEF TypeOK, ReadImage, PassImage, Analysed, Retry, Reach
<1>4. /\ image' \in Msgs \union {NoImage} /\ image' \in {image, NoImage}
      /\ seen' \in [Msgs -> Msgs \union {NoImage}]
      /\ \A n \in Msgs : n # m => seen'[n] = seen[n]
      /\ seen'[m] \in {seen[m], image}
  BY <1>1, <1>2 DEF TypeOK, ReadImage, PassImage, Analysed, AfterAnalysis, Retry
<1>5. \A n \in Msgs : n # m => stage[n] \notin TurnStages
  <2> SUFFICES ASSUME NEW n \in Msgs, stage[n] \in TurnStages PROVE n = m
    OBVIOUS
  <2>1. PICK p \in Queues : turn[p] = n
    BY <1>1 DEF TypeOK
  <2>2. worker[p] = "handling"
    BY <2>1, <1>1, NoMsgIsNoMsg DEF TypeOK, QueueTypeOK
  <2> QED
    BY <2>1, <2>2, <1>2 DEF OneTurnAtATime
<1>6. TypeOK'
  <2>1. QueueTypeOK'
    BY <1>1, <1>2 DEF TypeOK, QueueTypeOK, queueVars, Accepted
  <2> QED
    BY <2>1, <1>1, <1>2, <1>3, <1>4 DEF TypeOK, queueVars
<1>7. ImagesWereFetched'
  BY <1>1, <1>2, <1>3, <1>4 DEF ImagesWereFetched, NotFetched, TypeOK
<1>8. SeenInTheTurn'
  <2>1. seen'[m] # NoImage => stage'[m] \in {"analysing", "replying", "answered"}
    BY <1>1, <1>2 DEF SeenInTheTurn, TypeOK, ReadImage, PassImage, Analysed, Retry, Reach
  <2> QED
    BY <2>1, <1>1, <1>3, <1>4 DEF SeenInTheTurn
<1>9. AnalysedIsGone'
  <2>1. stage'[m] \in {"replying", "answered"} /\ seen'[m] # NoImage => seen'[m] # image'
    BY <1>1, <1>2, <1>4 DEF AnalysedIsGone, SeenInTheTurn, TypeOK, ReadImage, PassImage, Analysed,
                      AfterAnalysis, Retry, Reach
  <2> QED
    BY <2>1, <1>1, <1>3, <1>4, NoImageIsNoImage DEF AnalysedIsGone, TypeOK
<1>10. OneReader'
  <2>1. CASE seen'[m] = seen[m]
    BY <2>1, <1>1, <1>4 DEF OneReader
  <2>2. CASE seen'[m] # seen[m]
    <3>1. \A n \in Msgs : n # m /\ seen[n] # NoImage => stage[n] = "answered"
      BY <1>1, <1>5 DEF SeenInTheTurn
    <3>2. \A n \in Msgs : n # m /\ seen[n] # NoImage => seen[n] # image
      BY <3>1, <1>1 DEF AnalysedIsGone
    <3> QED
      BY <2>2, <3>2, <1>1, <1>2, <1>4 DEF OneReader
  <2> QED
    BY <2>1, <2>2
<1>11. WaitingAreQueued'
  <2>1. \A n \in Msgs : Waits(n)' <=> Waits(n)
    BY <1>2 DEF Waits, Working, queueVars
  <2> QED
    BY <2>1, <1>1, <1>2, <1>3 DEF WaitingAreQueued
<1>12. TurnsAreBegun'
  <2>1. turn' = turn /\ turn \in [Queues -> Msgs \union {NoMsg}]
    BY <1>1, <1>2 DEF TypeOK, QueueTypeOK, queueVars
  <2> QED
    BY <2>1, <1>1, <1>3 DEF TurnsAreBegun
<1> QED
  BY <1>6, <1>7, <1>8, <1>9, <1>10, <1>11, <1>12 DEF ImageIInv

\* A turn begins with nothing seen.
LEMMA TurnBegins ==
  ASSUME ImageIInv, QueueIInv, QueueTypeOK', NEW q \in Queues, BeginTurn(q)
  PROVE  ImageIInv'
<1> USE DEF Stages, IntakeStages, TurnStages, Ends
<1>1. /\ TypeOK /\ WaitingAreQueued /\ TurnsAreBegun
      /\ ImagesWereFetched /\ SeenInTheTurn /\ AnalysedIsGone /\ OneReader
  BY DEF ImageIInv
<1> DEFINE m == turn'[q]
<1>2. /\ m \in Msgs /\ stage[m] = "queued"
      /\ \A n \in Msgs : Waits(n)' => Waits(n) /\ n # m
  BY <1>1, TakeWaits DEF BeginTurn, WaitingAreQueued
<1>3. /\ stage' = [stage EXCEPT ![m] = "begun"]
      /\ UNCHANGED <<recent, image, seen, ticking>>
      /\ turn[q] = NoMsg
      /\ \A p \in Queues : p # q => turn'[p] = turn[p]
  BY <1>1 DEF BeginTurn, Reach, Take, TypeOK, QueueTypeOK
<1>4. /\ stage' \in [Msgs -> Stages]
      /\ stage'[m] = "begun" /\ \A n \in Msgs : n # m => stage'[n] = stage[n]
  BY <1>1, <1>2, <1>3 DEF TypeOK
<1>5. TypeOK'
  BY <1>1, <1>2, <1>3, <1>4, NoMsgIsNoMsg DEF TypeOK
<1>6. seen[m] = NoImage
  BY <1>1, <1>2 DEF SeenInTheTurn
<1>7. ImagesWereFetched' /\ SeenInTheTurn' /\ AnalysedIsGone' /\ OneReader'
  BY <1>1, <1>2, <1>3, <1>4, <1>6
     DEF ImagesWereFetched, SeenInTheTurn, AnalysedIsGone, OneReader, NotFetched
<1>8. WaitingAreQueued'
  BY <1>1, <1>2, <1>4 DEF WaitingAreQueued
<1>9. TurnsAreBegun'
  <2>1. turn \in [Queues -> Msgs \union {NoMsg}]
    BY <1>1 DEF TypeOK, QueueTypeOK
  <2> QED
    BY <2>1, <1>1, <1>2, <1>3, <1>4 DEF TurnsAreBegun
<1> QED
  BY <1>5, <1>7, <1>8, <1>9 DEF ImageIInv

\* A turn ends, with an answer or with nothing seen.
LEMMA TurnEnds ==
  ASSUME ImageIInv, QueueIInv, QueueTypeOK', NEW q \in Queues,
         Answer(q) \/ TurnFails(q) \/ TurnCancelled(q)
  PROVE  ImageIInv'
<1> USE DEF Stages, IntakeStages, TurnStages, Ends
<1>1. /\ TypeOK /\ WaitingAreQueued /\ TurnsAreBegun
      /\ ImagesWereFetched /\ SeenInTheTurn /\ AnalysedIsGone /\ OneReader
  BY DEF ImageIInv
<1> DEFINE m == turn[q]
<1>2. /\ FinishTurn(q) \/ HandlerCancelled(q)
      /\ UNCHANGED <<recent, image, ticking>>
      /\ \/ /\ stage[m] \in {"replying", "rereading"}
            /\ stage' = [stage EXCEPT ![m] = "answered"] /\ seen' = seen
         \/ /\ stage' = [stage EXCEPT ![m] = "failed"]
            /\ seen' = [seen EXCEPT ![m] = NoImage]
  BY DEF Answer, TurnFails, TurnCancelled, Reach
<1>3. /\ m \in Msgs
      /\ \A p \in Queues : p # q => turn'[p] = turn[p]
  BY <1>1, <1>2 DEF FinishTurn, HandlerCancelled, TypeOK, QueueTypeOK
<1>4. /\ stage' \in [Msgs -> Stages] /\ seen' \in [Msgs -> Msgs \union {NoImage}]
      /\ stage'[m] \in {"answered", "failed"}
      /\ \A n \in Msgs : n # m => stage'[n] = stage[n] /\ seen'[n] = seen[n]
      /\ \/ seen'[m] = NoImage
         \/ /\ seen'[m] = seen[m] /\ stage'[m] = "answered"
            /\ stage[m] \in {"replying", "rereading"}
  BY <1>1, <1>2, <1>3 DEF TypeOK
<1>5. TypeOK'
  BY <1>1, <1>2, <1>3, <1>4 DEF TypeOK
<1>6. ImagesWereFetched' /\ SeenInTheTurn'
  BY <1>1, <1>2, <1>3, <1>4 DEF ImagesWereFetched, SeenInTheTurn, NotFetched, TypeOK
<1>7. AnalysedIsGone'
  BY <1>1, <1>2, <1>4 DEF AnalysedIsGone, SeenInTheTurn
<1>8. OneReader'
  BY <1>1, <1>2, <1>4 DEF OneReader
<1>9. worker[q] = "handling" /\ m # NoMsg
  BY <1>1, <1>2 DEF FinishTurn, HandlerCancelled, TypeOK, QueueTypeOK
<1>10. stage[m] \in TurnStages
  BY <1>1, <1>9 DEF TurnsAreBegun
<1>11. WaitingAreQueued'
  <2>1. \A n \in Msgs : Waits(n)' => Waits(n)
    BY <1>2, NobodyElseWaits
  <2> QED
    BY <2>1, <1>1, <1>4, <1>10 DEF WaitingAreQueued
<1>12. TurnsAreBegun'
  <2>1. ASSUME NEW p \in Queues, p # q
        PROVE  turn[p] = NoMsg
    BY <2>1, <1>1, <1>9 DEF QueueIInv, OnlyCurrentWorks, Working, TypeOK, QueueTypeOK
  <2>2. turn'[q] = NoMsg
    BY <1>1, <1>2 DEF FinishTurn, HandlerCancelled, TypeOK, QueueTypeOK
  <2> QED
    BY <2>1, <2>2, <1>3 DEF TurnsAreBegun
<1> QED
  BY <1>5, <1>6, <1>7, <1>8, <1>11, <1>12 DEF ImageIInv

\* What happens beside the turns puts no image into the session and nothing
\* into a turn.
LEMMA OtherStepsKeepImages ==
  ASSUME ImageIInv, QueueIInv, QueueTypeOK',
         \/ UNCHANGED vars
         \/ \E q \in Queues : QueueStep(q) \/ (IdleTimerFires(q) /\ UNCHANGED chatVars)
         \/ WindowSlides \/ TickReads \/ TickDeletes \/ TickFails \/ SessionEnds
  PROVE  ImageIInv'
<1> USE DEF Stages, IntakeStages, TurnStages, Ends
<1>1. /\ TypeOK /\ WaitingAreQueued /\ TurnsAreBegun
      /\ ImagesWereFetched /\ SeenInTheTurn /\ AnalysedIsGone /\ OneReader
  BY DEF ImageIInv
<1>2. /\ UNCHANGED <<stage, seen>> /\ image' \in {image, NoImage}
      /\ recent' \in 0 .. RateLimit /\ ticking' \in BOOLEAN
  <2>1. recent \in 0 .. RateLimit /\ ticking \in BOOLEAN
    BY <1>1 DEF TypeOK
  <2>2. /\ UNCHANGED <<stage, seen>> /\ image' \in {image, NoImage}
    BY DEF vars, chatVars, QueueStep, WindowSlides, TickReads, TickDeletes, TickFails,
           AfterAnalysis, SessionEnds
  <2>3. ticking' \in {ticking, TRUE, FALSE}
    BY DEF vars, chatVars, QueueStep, WindowSlides, TickReads, TickDeletes, TickFails,
           SessionEnds
  <2>4. recent' = recent \/ (recent > 0 /\ recent' = recent - 1)
    BY DEF vars, chatVars, QueueStep, WindowSlides, TickReads, TickDeletes, TickFails,
           SessionEnds
  <2>5. recent' \in 0 .. RateLimit
    BY <2>1, <2>4, RateLimitIsNatural
  <2> QED
    BY <2>1, <2>2, <2>3, <2>5
<1>3. turn' = turn
  BY DEF vars, queueVars, QueueStep, Wait, Expire, IdleTimerFires, WindowSlides, TickReads,
         TickDeletes, TickFails, SessionEnds
<1>4. \A n \in Msgs : Waits(n)' => Waits(n)
  <2>1. CASE UNCHANGED queueVars
    BY <2>1 DEF Waits, Working, queueVars
  <2>2. CASE \E q \in Queues : Wait(q) \/ Expire(q) \/ IdleTimerFires(q)
    BY <2>2, NobodyElseWaits
  <2> QED
    BY <2>1, <2>2 DEF vars, QueueStep, WindowSlides, TickReads, TickDeletes, TickFails,
                      SessionEnds
<1>5. TypeOK'
  BY <1>1, <1>2, <1>3 DEF TypeOK
<1>6. ImagesWereFetched' /\ SeenInTheTurn' /\ AnalysedIsGone' /\ OneReader'
  BY <1>1, <1>2 DEF ImagesWereFetched, SeenInTheTurn, AnalysedIsGone, OneReader, NotFetched
<1>7. WaitingAreQueued' /\ TurnsAreBegun'
  BY <1>1, <1>2, <1>3, <1>4 DEF WaitingAreQueued, TurnsAreBegun
<1> QED
  BY <1>5, <1>6, <1>7 DEF ImageIInv

\* A crash leaves the image and loses the turns.
LEMMA CrashKeepsImages ==
  ASSUME ImageIInv, QueueTypeOK', Crash
  PROVE  ImageIInv'
<1> USE DEF Stages, IntakeStages, TurnStages, Ends
<1>1. /\ TypeOK /\ WaitingAreQueued /\ TurnsAreBegun
      /\ ImagesWereFetched /\ SeenInTheTurn /\ AnalysedIsGone /\ OneReader
  BY DEF ImageIInv
<1>2. /\ \A m \in Msgs : stage'[m] = IF stage[m] \in Ends \union {"none"}
                                    THEN stage[m] ELSE "lost"
      /\ \A m \in Msgs : seen'[m] = IF stage[m] = "answered" THEN seen[m] ELSE NoImage
      /\ stage' \in [Msgs -> Stages] /\ seen' \in [Msgs -> Msgs \union {NoImage}]
      /\ recent' = 0 /\ ticking' = FALSE /\ image' = image
  BY <1>1 DEF Crash, TypeOK
<1>3. /\ \A q \in Queues : worker'[q] \in {"unborn", "done"} /\ turn'[q] = NoMsg
  BY DEF Crash, CrashQueues
<1>4. TypeOK'
  <2>1. \A m \in Msgs : stage'[m] \notin TurnStages
    BY <1>1, <1>2 DEF TypeOK
  <2>2. recent' = 0 /\ ticking' \in BOOLEAN
    BY <1>2
  <2>4. recent' \in 0 .. RateLimit
    BY <2>2, RateLimitIsNatural
  <2>3. image' \in Msgs \union {NoImage}
    BY <1>1, <1>2 DEF TypeOK
  <2> QED
    BY <1>2, <2>1, <2>2, <2>3, <2>4 DEF TypeOK
<1>5. ImagesWereFetched'
  BY <1>1, <1>2 DEF ImagesWereFetched, NotFetched, TypeOK
<1>6. SeenInTheTurn' /\ AnalysedIsGone' /\ OneReader'
  BY <1>1, <1>2 DEF SeenInTheTurn, AnalysedIsGone, OneReader
<1>7. WaitingAreQueued' /\ TurnsAreBegun'
  BY <1>3 DEF WaitingAreQueued, Waits, Working, TurnsAreBegun
<1> QED
  BY <1>4, <1>5, <1>6, <1>7 DEF ImageIInv

\* Every step keeps the image invariant.
LEMMA ImageStepsKeep ==
  ASSUME ImageIInv, QueueIInv, QueueTypeOK', [Next]_vars
  PROVE  ImageIInv'
<1>1. OneTurnAtATime
  BY DEF QueueIInv, OnlyCurrentWorks, Working, OneTurnAtATime
<1>2. ASSUME NEW m \in Msgs, Arrive(m) \/ Intake(m)
      PROVE  ImageIInv'
  BY <1>2, IntakeStep
<1>3. ASSUME NEW q \in Queues, TurnStep(q) \/ TurnCancelled(q)
      PROVE  ImageIInv'
  BY <1>3, <1>1, TurnBegins, TurnMovesOn, TurnEnds DEF TurnStep
<1>4. CASE Crash
  BY <1>4, CrashKeepsImages
<1> QED
  BY <1>2, <1>3, <1>4, OtherStepsKeepImages DEF Next

\* The image invariant holds of the chat.
THEOREM ImageInvariant == Spec => []ImageIInv
<1>1. Init => ImageIInv
  BY ImageInitEstablishes
<1>2. ImageIInv /\ QueueIInv /\ QueueIInv' /\ [Next]_vars => ImageIInv'
  BY ImageStepsKeep DEF QueueIInv
<1> QED
  BY <1>1, <1>2, QueueInvariant, PTL DEF Spec

\* Type correctness of the chat and its queue.
THEOREM ChatIsTyped == Spec => []TypeOK
<1>1. ImageIInv => TypeOK
  BY DEF ImageIInv
<1> QED
  BY <1>1, ImageInvariant, PTL

\* An image is what one answered message of the user is about at most, however
\* uploads, turns, time-outs, expiries and crashes interleave.
THEOREM ImagesAreConsumedOnce == Spec => []ConsumedOnce
<1>1. ImageIInv => ConsumedOnce
  BY DEF ImageIInv, OneReader, ConsumedOnce
<1> QED
  BY <1>1, ImageInvariant, PTL
=============================================================================
