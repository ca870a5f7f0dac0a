----------------------------- MODULE TurnsProofs ------------------------------
(***************************************************************************)
(* What the turns of the agent leave behind, for any constants: the        *)
(* session, the reviews, the routes of a turn, the persona, charges and    *)
(* caps, memory and the interview, each with its inductive invariant; at   *)
(* the end, with the jobs of SchedulerProofs, the parts of TurnsMC as one  *)
(* system.                                                                 *)
(***************************************************************************)
EXTENDS TurnsMC, SchedulerProofs, FiniteSetTheorems, SequenceTheorems, WellFoundedInduction,
        TLAPS

-----------------------------------------------------------------------------
(* Numbers                                                                 *)


\* Every set on which a relation is well founded has a minimal element.
LEMMA MinimalElement ==
  ASSUME NEW N, NEW R, IsWellFoundedOn(R, N)
  PROVE  \A S \in SUBSET N : S # {} => \E i \in S : \A k \in S : <<k, i>> \notin R
BY WFMin

\* A set of numbers has a least one.
LEMMA LeastNumber ==
  ASSUME NEW S, S \subseteq Nat, S # {}
  PROVE  \E i \in S : \A k \in S : i <= k
<1> DEFINE R == {pair \in Nat \X Nat : pair[1] < pair[2]}
<1>1. IsWellFoundedOn(R, Nat)
  BY NatLessThanWellFounded DEF OpToRel
<1>2. PICK i \in S : \A k \in S : <<k, i>> \notin R
  <2> HIDE DEF R
  <2>1. \A T \in SUBSET Nat : T # {} => \E i \in T : \A k \in T : <<k, i>> \notin R
    BY <1>1, MinimalElement, Zenon
  <2>2. QED
    BY <2>1, Zenon
<1>3. ASSUME NEW k \in S
      PROVE  i <= k
  <2>1. k \in Nat /\ i \in Nat
    OBVIOUS
  <2>2. <<k, i>> \in Nat \X Nat => ~ (k < i)
    BY <1>2
  <2>3. QED
    BY <2>1, <2>2
<1>4. QED
  BY <1>3

\* A bounded set of numbers has a greatest one.
LEMMA GreatestNumber ==
  ASSUME NEW S, S \subseteq Nat, S # {}, NEW n \in Nat, \A k \in S : k <= n
  PROVE  Max(S) \in S /\ \A k \in S : k <= Max(S)
<1> DEFINE bounds == {b \in Nat : \A k \in S : k <= b}
<1>1. PICK b \in bounds : \A c \in bounds : b <= c
  <2>1. bounds \subseteq Nat /\ bounds # {}
    BY Zenon
  <2> HIDE DEF bounds
  <2> QED
    BY <2>1, LeastNumber
<1>2. b \in S
  <2> SUFFICES ASSUME b \notin S PROVE FALSE
    OBVIOUS
  <2>1. \A k \in S : k < b
    OBVIOUS
  <2>2. b \in Nat \ {0}
    <3>1. PICK k \in S : TRUE
      OBVIOUS
    <3> QED
      BY <2>1, <3>1
  <2>3. b - 1 \in bounds
    BY <2>1, <2>2
  <2> QED
    BY <1>1, <2>2, <2>3
<1>3. \E k \in S : \A j \in S : k >= j
  BY <1>1, <1>2
<1>4. Max(S) \in S /\ \A j \in S : Max(S) >= j
  BY <1>3 DEF Max
<1> QED
  BY <1>4

-----------------------------------------------------------------------------
(* The session                                                             *)

\* What the argument needs of the types.
SessionTyped ==
  /\ conv \in Seq(Turns) /\ Len(conv) <= pushed
  /\ pushed \in 0..TurnLimit
  /\ adding \in [ConvWriters -> AddStates]
  /\ archiving \in ArchiveStates

\* Turns on record elsewhere than in the session.
OnRecord == (UNION compacting) \union remembered \union deadLetters \union excused

ReadIsOnRecord == \A w \in ConvWriters : adding[w].at = "read" => adding[w].old \subseteq OnRecord

\* A call nobody overlapped trims what it read.
ReadIsOldest ==
  \A w \in ConvWriters :
    adding[w].at = "read" /\ w \notin overlapped => Oldest(adding[w].overflow) = adding[w].old

ArchivedIsRemembered == archiving.at = "clearing" => archiving.read \subseteq remembered

CInv ==
  /\ SessionTyped
  /\ ReadIsOnRecord
  /\ ReadIsOldest
  /\ ArchivedIsRemembered
  /\ ConvAccounted

-----------------------------------------------------------------------------
\* The property, by what is on record.
LEMMA AccountedOnRecord == ConvAccounted <=> \A t \in 1..pushed : t \in Range(conv) \union OnRecord
BY DEF ConvAccounted, Accounted, OnRecord

\* A prefix and the rest hold all there is.
LEMMA SplitSession ==
  ASSUME conv \in Seq(Turns), NEW n \in Nat
  PROVE  /\ SubSeq(conv, n + 1, Len(conv)) \in Seq(Turns)
         /\ Range(conv) \subseteq Oldest(n) \union Range(SubSeq(conv, n + 1, Len(conv)))
<1> DEFINE m == IF n < Len(conv) THEN n ELSE Len(conv)
           head == SubSeq(conv, 1, m)
           rest == SubSeq(conv, n + 1, Len(conv))
<1>1. Len(conv) \in Nat /\ m \in 0..Len(conv)
  OBVIOUS
<1>2. rest \in Seq(Turns)
  BY <1>1
<1>3. ASSUME NEW i \in 1..Len(conv) PROVE conv[i] \in Range(head) \union Range(rest)
  <2>1. CASE i <= n
    <3>1. i \in DOMAIN head /\ head[i] = conv[i]
      BY <1>1, <2>1
    <3> QED
      BY <3>1 DEF Range
  <2>2. CASE i > n
    <3>1. i - n \in DOMAIN rest /\ rest[i - n] = conv[i]
      BY <1>1, <2>2
    <3> QED
      BY <3>1 DEF Range
  <2> QED
    BY <2>1, <2>2
<1>4. Range(conv) \subseteq Range(head) \union Range(rest)
  <2>1. DOMAIN conv = 1..Len(conv)
    OBVIOUS
  <2> HIDE DEF head, rest
  <2>2. ASSUME NEW x \in Range(conv) PROVE x \in Range(head) \union Range(rest)
    <3>1. PICK i \in 1..Len(conv) : x = conv[i]
      BY <2>1 DEF Range
    <3> QED
      BY <1>3, <3>1
  <2> QED
    BY <2>2
<1>5. Range(head) = Oldest(n)
  BY Zenon DEF Oldest
<1> QED
  BY <1>2, <1>4, <1>5, Zenon

\* A pushed turn joins the turns of the session.
LEMMA PushedIsThere ==
  ASSUME conv \in Seq(Turns), NEW t \in Turns
  PROVE  Append(conv, t) \in Seq(Turns) /\ Range(conv) \union {t} \subseteq Range(Append(conv, t))
<1>1. /\ Append(conv, t) \in Seq(Turns) /\ Append(conv, t)[Len(conv) + 1] = t
      /\ Len(conv) + 1 \in DOMAIN Append(conv, t)
      /\ \A i \in DOMAIN conv : i \in DOMAIN Append(conv, t) /\ Append(conv, t)[i] = conv[i]
  OBVIOUS
<1> QED
  BY <1>1 DEF Range

\* An empty session has no turn.
LEMMA EmptySession == Range(<<>>) = {}
BY DEF Range

\* Prefixes hold turns, and lists do not grow by trimming.
LEMMA OldestAreTurns ==
  ASSUME conv \in Seq(Turns), NEW n \in Nat
  PROVE  /\ Oldest(n) \subseteq Turns
         /\ Len(SubSeq(conv, n + 1, Len(conv))) <= Len(conv)
<1>1. Len(SubSeq(conv, n + 1, Len(conv))) <= Len(conv)
  OBVIOUS
<1>2. SubSeq(conv, 1, IF n < Len(conv) THEN n ELSE Len(conv)) \in Seq(Turns)
  OBVIOUS
<1>3. ASSUME NEW s \in Seq(Turns) PROVE Range(s) \subseteq Turns
  BY <1>3 DEF Range
<1> QED
  BY <1>1, <1>2, <1>3 DEF Oldest

\* A call that rests, and an archive that rests.
LEMMA RestingCalls == NotAdding \in AddStates /\ NotArchiving \in ArchiveStates
BY TurnLimitIsNatural DEF NotAdding, NotArchiving, AddStates, ArchiveStates

\* A session starts empty.
LEMMA InitEstablishes == ConvInit => CInv
<1> SUFFICES ASSUME ConvInit PROVE CInv
  OBVIOUS
<1>1. SessionTyped
  BY TurnLimitIsNatural, RestingCalls DEF ConvInit, SessionTyped
<1>2. ReadIsOnRecord /\ ReadIsOldest /\ ArchivedIsRemembered
  BY DEF ConvInit, ReadIsOnRecord, ReadIsOldest, ArchivedIsRemembered, NotAdding, NotArchiving
<1>3. ConvAccounted
  BY DEF ConvInit, ConvAccounted
<1> QED
  BY <1>1, <1>2, <1>3 DEF CInv

\* What the steps of a call do to it.
LEMMA PushEffect ==
  ASSUME SessionTyped, NEW w \in ConvWriters, PushTurn(w)
  PROVE  /\ adding' \in [ConvWriters -> AddStates] /\ adding'[w].at = "pushed"
         /\ \A v \in ConvWriters \ {w} : adding'[v] = adding[v]
         /\ pushed' = pushed + 1 /\ pushed' \in Turns
         /\ conv' \in Seq(Turns) /\ Len(conv') = Len(conv) + 1
         /\ Range(conv) \union {pushed'} \subseteq Range(conv')
<1>1. [NotAdding EXCEPT !.at = "pushed"] \in AddStates
  BY RestingCalls DEF AddStates
<1>2. pushed' = pushed + 1 /\ pushed' \in Turns /\ conv' = Append(conv, pushed')
  BY TurnLimitIsNatural DEF PushTurn, SessionTyped, Turns
<1>3. /\ adding' \in [ConvWriters -> AddStates] /\ adding'[w].at = "pushed"
      /\ \A v \in ConvWriters \ {w} : adding'[v] = adding[v]
  BY <1>1 DEF PushTurn, SessionTyped, NotAdding
<1>4. Len(conv') = Len(conv) + 1
  BY <1>2 DEF SessionTyped
<1> QED
  BY <1>2, <1>3, <1>4, PushedIsThere DEF SessionTyped

\* A call that finds nothing to trim ends; another keeps how much is beyond the limit.
LEMMA MeasureEffect ==
  ASSUME SessionTyped, NEW w \in ConvWriters, MeasureSession(w)
  PROVE  /\ adding' \in [ConvWriters -> AddStates] /\ adding'[w].at \in {"over", "idle"}
         /\ \A v \in ConvWriters \ {w} : adding'[v] = adding[v]
<1>1. Len(conv) > MaxTurns => Len(conv) - MaxTurns \in 0..TurnLimit
  BY TurnLimitIsNatural, MaxTurnsIsPositive DEF SessionTyped
<1>2. CASE Len(conv) > MaxTurns
  <2>1. [adding[w] EXCEPT !.at = "over", !.overflow = Len(conv) - MaxTurns] \in AddStates
    BY <1>1, <1>2 DEF SessionTyped, AddStates
  <2> QED
    BY <1>2, <2>1 DEF MeasureSession, SessionTyped, AddStates
<1>3. CASE ~(Len(conv) > MaxTurns)
  BY <1>3, RestingCalls DEF MeasureSession, SessionTyped, NotAdding
<1> QED
  BY <1>2, <1>3

\* A read takes the oldest turns, and the compaction of them is under way.
LEMMA ReadEffect ==
  ASSUME SessionTyped, NEW w \in ConvWriters, ReadOldTurns(w)
  PROVE  /\ adding' \in [ConvWriters -> AddStates] /\ adding'[w].at = "read"
         /\ adding'[w].old = Oldest(adding[w].overflow)
         /\ adding'[w].overflow = adding[w].overflow
         /\ \A v \in ConvWriters \ {w} : adding'[v] = adding[v]
<1> DEFINE old == Oldest(adding[w].overflow)
           next == [adding[w] EXCEPT !.at = "read", !.old = old]
<1>1. adding[w] \in AddStates /\ adding[w].overflow \in Nat
  BY TurnLimitIsNatural DEF SessionTyped, AddStates
<1>2. old \subseteq Turns
  BY <1>1, OldestAreTurns DEF SessionTyped
<1>3. adding' = [adding EXCEPT ![w] = next]
  BY DEF ReadOldTurns
<1> HIDE DEF old
<1>4. /\ next \in AddStates /\ next.at = "read" /\ next.old = old
      /\ next.overflow = adding[w].overflow
  BY <1>1, <1>2 DEF AddStates
<1> HIDE DEF next
<1>5. /\ adding' \in [ConvWriters -> AddStates] /\ adding'[w] = next
      /\ \A v \in ConvWriters \ {w} : adding'[v] = adding[v]
  BY <1>3, <1>4 DEF SessionTyped
<1> USE DEF old
<1> QED
  BY <1>4, <1>5

\* A trim takes the oldest turns, and leaves the rest in the session.
LEMMA TrimEffect ==
  ASSUME SessionTyped, NEW w \in ConvWriters, TrimSession(w)
  PROVE  /\ adding' \in [ConvWriters -> AddStates] /\ adding'[w].at = "idle"
         /\ \A v \in ConvWriters \ {w} : adding'[v] = adding[v]
         /\ conv' \in Seq(Turns) /\ Len(conv') <= Len(conv)
         /\ Range(conv) \subseteq Oldest(adding[w].overflow) \union Range(conv')
<1>1. adding[w].overflow \in Nat
  BY TurnLimitIsNatural DEF SessionTyped, AddStates
<1>2. conv' = SubSeq(conv, adding[w].overflow + 1, Len(conv))
  BY DEF TrimSession
<1>3. /\ adding' \in [ConvWriters -> AddStates] /\ adding'[w].at = "idle"
      /\ \A v \in ConvWriters \ {w} : adding'[v] = adding[v]
  BY RestingCalls DEF TrimSession, SessionTyped, NotAdding
<1> QED
  BY <1>1, <1>2, <1>3, SplitSession, OldestAreTurns DEF SessionTyped

\* Every step keeps the types.
LEMMA StepsKeepSession ==
  ASSUME SessionTyped, [ConvNext]_convVars
  PROVE  SessionTyped'
<1>a. /\ conv \in Seq(Turns) /\ Len(conv) \in Nat /\ Len(conv) <= pushed /\ pushed \in Nat
      /\ pushed <= TurnLimit
  BY TurnLimitIsNatural DEF SessionTyped
<1>1. ASSUME NEW w \in ConvWriters, PushTurn(w) PROVE SessionTyped'
  <2>1. archiving' = archiving
    BY <1>1 DEF PushTurn
  <2> QED
    BY <1>1, <1>a, <2>1, PushEffect, TurnLimitIsNatural DEF SessionTyped, Turns
<1>2. ASSUME NEW w \in ConvWriters, MeasureSession(w) PROVE SessionTyped'
  <2>1. UNCHANGED <<conv, pushed, archiving>>
    BY <1>2 DEF MeasureSession
  <2> QED
    BY <1>2, <2>1, MeasureEffect DEF SessionTyped
<1>3. ASSUME NEW w \in ConvWriters, ReadOldTurns(w) PROVE SessionTyped'
  <2>1. UNCHANGED <<conv, pushed, archiving>>
    BY <1>3 DEF ReadOldTurns
  <2> QED
    BY <1>3, <2>1, ReadEffect DEF SessionTyped
<1>4. ASSUME NEW w \in ConvWriters, TrimSession(w) PROVE SessionTyped'
  <2>1. UNCHANGED <<pushed, archiving>>
    BY <1>4 DEF TrimSession
  <2>2. /\ adding' \in [ConvWriters -> AddStates]
        /\ conv' \in Seq(Turns) /\ Len(conv') <= Len(conv)
    BY <1>4, TrimEffect
  <2> QED
    BY <1>a, <2>1, <2>2 DEF SessionTyped
<1>5. ASSUME NEW old \in compacting,
             CompactionSkips(old) \/ CompactionSaves(old) \/ CompactionFails(old)
      PROVE  SessionTyped'
  BY <1>5 DEF CompactionSkips, CompactionSaves, CompactionFails, SessionTyped
<1>6. CASE BeginArchive
  <2>1. archiving' = [at |-> "summarising", read |-> Range(conv)] /\ Range(conv) \subseteq Turns
    BY <1>6, <1>a DEF BeginArchive, Range
  <2> QED
    BY <1>6, <2>1 DEF BeginArchive, SessionTyped, ArchiveStates
<1>7. CASE ArchiveStored
  BY <1>7 DEF ArchiveStored, SessionTyped, ArchiveStates
<1>8. CASE ArchiveClears
  <2>1. conv' = <<>> /\ archiving' = NotArchiving /\ UNCHANGED <<pushed, adding>>
    BY <1>8 DEF ArchiveClears
  <2> QED
    BY <1>a, <2>1, RestingCalls DEF SessionTyped
<1>9. CASE ArchiveFails
  BY <1>9, RestingCalls DEF ArchiveFails, SessionTyped
<1>10. CASE SessionExpires
  <2>1. conv' = <<>> /\ UNCHANGED <<pushed, adding, archiving>>
    BY <1>10 DEF SessionExpires
  <2> QED
    BY <1>a, <2>1 DEF SessionTyped
<1>11. CASE ConvCrash
  BY <1>11, RestingCalls DEF ConvCrash, SessionTyped
<1>12. CASE UNCHANGED convVars
  BY <1>12 DEF convVars, SessionTyped
<1> QED
  BY <1>1, <1>2, <1>3, <1>4, <1>5, <1>6, <1>7, <1>8, <1>9, <1>10, <1>11, <1>12 DEF ConvNext

\* What is on record stays so.
LEMMA RecordsStay ==
  ASSUME CInv, [ConvNext]_convVars
  PROVE  OnRecord \subseteq OnRecord'
<1> USE DEF OnRecord
<1>1. ASSUME NEW w \in ConvWriters,
             PushTurn(w) \/ MeasureSession(w) \/ ReadOldTurns(w) \/ TrimSession(w)
      PROVE  OnRecord \subseteq OnRecord'
  <2>1. /\ compacting \subseteq compacting' /\ remembered' = remembered
        /\ deadLetters' = deadLetters /\ excused \subseteq excused'
    BY <1>1 DEF PushTurn, MeasureSession, ReadOldTurns, TrimSession
  <2> QED
    BY <2>1
<1>2. ASSUME NEW old \in compacting,
             CompactionSkips(old) \/ CompactionSaves(old) \/ CompactionFails(old)
      PROVE  OnRecord \subseteq OnRecord'
  <2>1. /\ compacting' = compacting \ {old}
        /\ old \subseteq remembered' \union deadLetters' \union excused'
        /\ remembered \subseteq remembered' /\ deadLetters \subseteq deadLetters'
        /\ excused \subseteq excused'
    BY <1>2 DEF CompactionSkips, CompactionSaves, CompactionFails
  <2> QED
    BY <2>1
<1>3. CASE BeginArchive \/ ArchiveStored \/ ArchiveClears \/ ArchiveFails \/ SessionExpires
  <2>1. /\ compacting' = compacting /\ remembered \subseteq remembered'
        /\ deadLetters' = deadLetters /\ excused \subseteq excused'
    BY <1>3 DEF BeginArchive, ArchiveStored, ArchiveClears, ArchiveFails, SessionExpires
  <2> QED
    BY <2>1
<1>4. CASE ConvCrash
  BY <1>4 DEF ConvCrash
<1>5. CASE UNCHANGED convVars
  BY <1>5 DEF convVars
<1> QED
  BY <1>1, <1>2, <1>3, <1>4, <1>5 DEF ConvNext

\* Every step keeps what a call has read on record, and what it will trim.
LEMMA StepsKeepReads ==
  ASSUME CInv, [ConvNext]_convVars
  PROVE  ReadIsOnRecord' /\ ReadIsOldest'
<1>a. SessionTyped /\ ReadIsOnRecord /\ ReadIsOldest /\ OnRecord \subseteq OnRecord'
  BY RecordsStay DEF CInv
<1>b. \A v \in ConvWriters : adding[v].at = "read" => v \in Adders
  BY DEF Adders
<1>c. ASSUME conv' = conv PROVE \A n : Oldest(n)' = Oldest(n)
  BY <1>c DEF Oldest
<1> DEFINE Kept == ReadIsOnRecord' /\ ReadIsOldest'
<1>d. ASSUME NEW w \in ConvWriters, adding'[w].at # "read",
             \A v \in ConvWriters \ {w} : adding'[v] = adding[v],
             \/ conv' = conv /\ overlapped \ {w} \subseteq overlapped'
             \/ Adders \ {w} \subseteq overlapped'
      PROVE  Kept
  <2>1. ASSUME NEW v \in ConvWriters, adding'[v].at = "read"
        PROVE  /\ v # w /\ adding'[v] = adding[v] /\ v \in Adders
               /\ adding[v].old \subseteq OnRecord'
    BY <1>a, <1>b, <1>d, <2>1 DEF ReadIsOnRecord
  <2>2. ReadIsOnRecord'
    BY <2>1 DEF ReadIsOnRecord
  <2>3. ASSUME NEW v \in ConvWriters, adding'[v].at = "read", v \notin overlapped'
        PROVE  Oldest(adding[v].overflow)' = adding'[v].old
    <3>1. conv' = conv /\ v \notin overlapped /\ adding'[v] = adding[v]
      BY <1>d, <2>1, <2>3
    <3>2. Oldest(adding[v].overflow) = adding[v].old
      BY <1>a, <2>3, <3>1 DEF ReadIsOldest
    <3> QED
      BY <3>1, <3>2 DEF Oldest
  <2> QED
    BY <2>2, <2>3 DEF ReadIsOldest
<1>e. ASSUME UNCHANGED <<conv, adding, overlapped>> PROVE Kept
  BY <1>a, <1>e DEF ReadIsOnRecord, ReadIsOldest, Oldest
<1>1. ASSUME NEW w \in ConvWriters, PushTurn(w) PROVE Kept
  <2>1. Adders \subseteq overlapped'
    BY <1>1 DEF PushTurn
  <2> QED
    BY <1>1, <1>a, <1>d, <2>1, PushEffect
<1>2. ASSUME NEW w \in ConvWriters, MeasureSession(w) PROVE Kept
  <2>1. conv' = conv /\ overlapped \ {w} \subseteq overlapped'
    BY <1>2 DEF MeasureSession
  <2> QED
    BY <1>2, <1>a, <1>d, <2>1, MeasureEffect
<1>3. ASSUME NEW w \in ConvWriters, ReadOldTurns(w) PROVE Kept
  <2>1. conv' = conv /\ overlapped' = overlapped /\ Oldest(adding[w].overflow) \in compacting'
    BY <1>3 DEF ReadOldTurns
  <2>2. /\ adding'[w].old = Oldest(adding[w].overflow)
        /\ adding'[w].overflow = adding[w].overflow
        /\ \A v \in ConvWriters \ {w} : adding'[v] = adding[v]
    BY <1>3, <1>a, ReadEffect
  <2>3. ReadIsOnRecord'
    <3>1. adding'[w].old \subseteq OnRecord'
      BY <2>1, <2>2 DEF OnRecord
    <3> QED
      BY <1>a, <2>2, <3>1 DEF ReadIsOnRecord
  <2>4. ReadIsOldest'
    <3>1. \A v \in ConvWriters \ {w} : adding'[v].at = "read" /\ v \notin overlapped' =>
            Oldest(adding[v].overflow) = adding[v].old /\ adding'[v] = adding[v]
      BY <1>a, <2>1, <2>2 DEF ReadIsOldest
    <3>2. Oldest(adding[w].overflow)' = adding'[w].old
      BY <2>1, <2>2 DEF Oldest
    <3>3. \A v \in ConvWriters \ {w} : adding'[v].at = "read" /\ v \notin overlapped' =>
            Oldest(adding[v].overflow)' = adding'[v].old
      BY <2>1, <3>1 DEF Oldest
    <3> QED
      BY <3>2, <3>3 DEF ReadIsOldest
  <2> QED
    BY <2>3, <2>4
<1>4. ASSUME NEW w \in ConvWriters, TrimSession(w) PROVE Kept
  <2>1. overlapped' = Adders \ {w}
    BY <1>4 DEF TrimSession
  <2> QED
    BY <1>4, <1>a, <1>d, <2>1, TrimEffect
<1>5. ASSUME NEW old \in compacting,
             CompactionSkips(old) \/ CompactionSaves(old) \/ CompactionFails(old)
      PROVE  Kept
  BY <1>5, <1>e DEF CompactionSkips, CompactionSaves, CompactionFails
<1>6. CASE BeginArchive \/ ArchiveStored \/ ArchiveFails
  BY <1>6, <1>e DEF BeginArchive, ArchiveStored, ArchiveFails
<1>7. CASE ArchiveClears
  <2>1. adding' = adding /\ overlapped' = Adders
    BY <1>7 DEF ArchiveClears
  <2> QED
    BY <1>a, <1>b, <2>1 DEF ReadIsOnRecord, ReadIsOldest
<1>8. CASE SessionExpires
  <2>1. adding' = adding /\ \A v \in ConvWriters : adding[v].at = "idle"
    BY <1>8 DEF SessionExpires
  <2> QED
    BY <2>1 DEF ReadIsOnRecord, ReadIsOldest
<1>9. CASE ConvCrash
  <2>1. \A v \in ConvWriters : adding'[v].at = "idle"
    BY <1>9 DEF ConvCrash, NotAdding
  <2> QED
    BY <2>1 DEF ReadIsOnRecord, ReadIsOldest
<1>10. CASE UNCHANGED convVars
  BY <1>10, <1>e DEF convVars
<1> QED
  BY <1>1, <1>2, <1>3, <1>4, <1>5, <1>6, <1>7, <1>8, <1>9, <1>10 DEF ConvNext

\* Every step keeps every turn accounted for.
LEMMA StepsKeepAccounts ==
  ASSUME CInv, [ConvNext]_convVars
  PROVE  ConvAccounted' /\ ArchivedIsRemembered'
<1>a. /\ SessionTyped /\ ReadIsOnRecord /\ ReadIsOldest /\ ArchivedIsRemembered
      /\ OnRecord \subseteq OnRecord'
      /\ \A t \in 1..pushed : t \in Range(conv) \union OnRecord
  BY RecordsStay, AccountedOnRecord DEF CInv
<1>b. ASSUME pushed' = pushed, Range(conv) \subseteq Range(conv') \union OnRecord'
      PROVE  ConvAccounted'
  <2>1. \A t \in 1..pushed' : t \in Range(conv') \union OnRecord'
    BY <1>a, <1>b
  <2> QED
    BY <2>1 DEF ConvAccounted, Accounted, OnRecord
<1> DEFINE Kept == ConvAccounted' /\ ArchivedIsRemembered'
<1>1. ASSUME NEW w \in ConvWriters, PushTurn(w) PROVE Kept
  <2>1. pushed' = pushed + 1 /\ Range(conv) \union {pushed'} \subseteq Range(conv')
    BY <1>1, <1>a, PushEffect
  <2>2. \A t \in 1..pushed' : t \in 1..pushed \/ t = pushed'
    BY <1>a, <2>1 DEF SessionTyped
  <2>3. \A t \in 1..pushed' : t \in Range(conv') \union OnRecord'
    BY <1>a, <2>1, <2>2
  <2>4. UNCHANGED <<remembered, archiving>>
    BY <1>1 DEF PushTurn
  <2> QED
    BY <1>a, <2>3, <2>4 DEF ConvAccounted, Accounted, OnRecord, ArchivedIsRemembered
<1>2. ASSUME NEW w \in ConvWriters, MeasureSession(w) \/ ReadOldTurns(w) PROVE Kept
  <2>1. UNCHANGED <<conv, pushed, remembered, archiving>>
    BY <1>2 DEF MeasureSession, ReadOldTurns
  <2> QED
    BY <1>a, <1>b, <2>1 DEF ArchivedIsRemembered
<1>3. ASSUME NEW w \in ConvWriters, TrimSession(w) PROVE Kept
  <2>1. /\ adding[w].at = "read" /\ UNCHANGED <<pushed, remembered, archiving>>
        /\ w \in overlapped =>
             excused' = excused \union (Oldest(adding[w].overflow) \ adding[w].old)
    BY <1>3 DEF TrimSession
  <2>2. adding[w].old \subseteq OnRecord'
    BY <1>a, <2>1 DEF ReadIsOnRecord
  <2>3. Oldest(adding[w].overflow) \subseteq OnRecord'
    <3>1. CASE w \in overlapped
      BY <2>1, <2>2, <3>1 DEF OnRecord
    <3>2. CASE w \notin overlapped
      BY <1>a, <2>1, <2>2, <3>2 DEF ReadIsOldest
    <3> QED
      BY <3>1, <3>2
  <2>4. Range(conv) \subseteq Oldest(adding[w].overflow) \union Range(conv')
    BY <1>3, <1>a, TrimEffect
  <2> QED
    BY <1>a, <1>b, <2>1, <2>3, <2>4 DEF ArchivedIsRemembered
<1>4. ASSUME NEW old \in compacting,
             CompactionSkips(old) \/ CompactionSaves(old) \/ CompactionFails(old)
      PROVE  Kept
  <2>1. UNCHANGED <<conv, pushed, archiving>> /\ remembered \subseteq remembered'
    BY <1>4 DEF CompactionSkips, CompactionSaves, CompactionFails
  <2> QED
    BY <1>a, <1>b, <2>1 DEF ArchivedIsRemembered
<1>5. CASE BeginArchive \/ ArchiveFails
  <2>1. UNCHANGED <<conv, pushed, remembered>> /\ archiving'.at # "clearing"
    BY <1>5 DEF BeginArchive, ArchiveFails, NotArchiving
  <2> QED
    BY <1>b, <2>1 DEF ArchivedIsRemembered
<1>6. CASE ArchiveStored
  <2>1. UNCHANGED <<conv, pushed>> /\ remembered' = remembered \union archiving.read
    BY <1>6 DEF ArchiveStored
  <2>2. archiving'.read = archiving.read
    BY <1>6, <1>a DEF ArchiveStored, SessionTyped, ArchiveStates
  <2> QED
    BY <1>b, <2>1, <2>2 DEF ArchivedIsRemembered
<1>7. CASE ArchiveClears
  <2>1. /\ archiving.at = "clearing" /\ archiving' = NotArchiving
        /\ UNCHANGED <<pushed, remembered>>
        /\ excused' = excused \union (Range(conv) \ archiving.read)
    BY <1>7 DEF ArchiveClears
  <2>2. Range(conv) \subseteq OnRecord'
    BY <1>a, <2>1 DEF ArchivedIsRemembered, OnRecord
  <2> QED
    BY <1>b, <2>1, <2>2 DEF ArchivedIsRemembered, NotArchiving
<1>8. CASE SessionExpires
  <2>1. UNCHANGED <<pushed, remembered, archiving>> /\ excused' = excused \union Range(conv)
    BY <1>8 DEF SessionExpires
  <2> QED
    BY <1>a, <1>b, <2>1 DEF ArchivedIsRemembered, OnRecord
<1>9. CASE ConvCrash
  <2>1. UNCHANGED <<conv, pushed>> /\ archiving' = NotArchiving
    BY <1>9 DEF ConvCrash
  <2> QED
    BY <1>b, <2>1 DEF ArchivedIsRemembered, NotArchiving
<1>10. CASE UNCHANGED convVars
  <2>1. UNCHANGED <<conv, pushed, remembered, archiving>>
    BY <1>10 DEF convVars
  <2> QED
    BY <1>a, <1>b, <2>1 DEF ArchivedIsRemembered
<1> QED
  BY <1>1, <1>2, <1>3, <1>4, <1>5, <1>6, <1>7, <1>8, <1>9, <1>10 DEF ConvNext

-----------------------------------------------------------------------------
\* No turn is lost without a known cause, for any number of writers, turns and limits.
THEOREM NoTurnIsLost == ConvSpec => []ConvAccounted
<1>1. CInv /\ [ConvNext]_convVars => CInv'
  BY StepsKeepSession, StepsKeepReads, StepsKeepAccounts DEF CInv
<1>2. CInv => ConvAccounted
  BY DEF CInv
<1> QED
  BY <1>1, <1>2, InitEstablishes, PTL DEF ConvSpec

\* The sets of turns hold turns: each grows by what was read of the list or was there.
LEMMA StepsKeepTurns ==
  ASSUME ConvTypeOK, SessionTyped, SessionTyped', [ConvNext]_convVars
  PROVE  ConvTypeOK'
<1>1. /\ conv \in Seq(Turns) /\ Range(conv) \subseteq Turns
      /\ overlapped \subseteq ConvWriters /\ compacting \subseteq SUBSET Turns
      /\ remembered \subseteq Turns /\ deadLetters \subseteq Turns /\ excused \subseteq Turns
      /\ convFaults \in 0..ConvFaults /\ archiving.read \subseteq Turns
      /\ Adders \subseteq ConvWriters
  <2>1. ASSUME NEW s \in Seq(Turns) PROVE Range(s) \subseteq Turns
    BY <2>1 DEF Range
  <2> QED
    BY <2>1 DEF ConvTypeOK, ArchiveStates, Adders
<1>2. ASSUME NEW w \in ConvWriters
      PROVE  Oldest(adding[w].overflow) \subseteq Turns
  <2>1. adding[w].overflow \in Nat
    BY TurnLimitIsNatural DEF ConvTypeOK, AddStates
  <2> QED
    BY <1>1, <2>1, OldestAreTurns
<1>3. ConvFault => convFaults' \in 0..ConvFaults
  BY <1>1, ConvFaultsIsNatural DEF ConvFault
<1> DEFINE Kept == /\ overlapped' \subseteq ConvWriters /\ compacting' \subseteq SUBSET Turns
                   /\ remembered' \subseteq Turns /\ deadLetters' \subseteq Turns
                   /\ excused' \subseteq Turns /\ convFaults' \in 0..ConvFaults
<1>4. ASSUME NEW w \in ConvWriters, PushTurn(w) \/ MeasureSession(w) PROVE Kept
  BY <1>1, <1>4 DEF PushTurn, MeasureSession
<1>5. ASSUME NEW w \in ConvWriters, ReadOldTurns(w) PROVE Kept
  BY <1>1, <1>2, <1>5 DEF ReadOldTurns
<1>6. ASSUME NEW w \in ConvWriters, TrimSession(w) PROVE Kept
  <2>1. /\ overlapped' = Adders \ {w} /\ UNCHANGED <<compacting, remembered, deadLetters, convFaults>>
        /\ \/ excused' = excused
           \/ excused' = excused \union (Oldest(adding[w].overflow) \ adding[w].old)
    BY <1>6 DEF TrimSession
  <2> QED
    BY <1>1, <1>2, <2>1
<1>7. ASSUME NEW old \in compacting, CompactionSkips(old) \/ CompactionSaves(old) PROVE Kept
  BY <1>1, <1>7 DEF CompactionSkips, CompactionSaves
<1>8. ASSUME NEW old \in compacting, CompactionFails(old) PROVE Kept
  BY <1>1, <1>3, <1>8 DEF CompactionFails
<1>9. ASSUME BeginArchive \/ ArchiveStored \/ ArchiveClears PROVE Kept
  BY <1>1, <1>9 DEF BeginArchive, ArchiveStored, ArchiveClears
<1>10. ASSUME ArchiveFails \/ SessionExpires PROVE Kept
  BY <1>1, <1>3, <1>10 DEF ArchiveFails, SessionExpires
<1>11. ASSUME ConvCrash PROVE Kept
  BY <1>1, <1>3, <1>11 DEF ConvCrash
<1>12. ASSUME UNCHANGED convVars PROVE Kept
  BY <1>1, <1>12 DEF convVars
<1>13. Kept
  BY <1>4, <1>5, <1>6, <1>7, <1>8, <1>9, <1>10, <1>11, <1>12 DEF ConvNext
<1> QED
  BY <1>13 DEF SessionTyped, ConvTypeOK

\* A session of any number of writers stays typed.
THEOREM SessionsAreTyped == ConvSpec => []ConvTypeOK
<1>1. ConvInit => SessionTyped /\ ConvTypeOK
  <2>1. ConvInit => SessionTyped
    BY InitEstablishes DEF CInv
  <2>2. ConvInit => convFaults \in 0..ConvFaults
    BY ConvFaultsIsNatural DEF ConvInit
  <2>3. ConvInit /\ SessionTyped /\ convFaults \in 0..ConvFaults => ConvTypeOK
    BY DEF ConvInit, SessionTyped, ConvTypeOK
  <2> QED
    BY <2>1, <2>2, <2>3
<1>2. (SessionTyped /\ ConvTypeOK) /\ [ConvNext]_convVars => (SessionTyped /\ ConvTypeOK)'
  BY StepsKeepSession, StepsKeepTurns
<1> QED
  BY <1>1, <1>2, PTL DEF ConvSpec

-----------------------------------------------------------------------------
(* The review of turns                                                     *)

\* A review that has its score is of a turn that was scored.
ReviewsAreOfTurns == \A r \in Reviews : review[r].at = "scored" => review[r].turn \in 1..scored

\* A workflow that has a file is marked, or its mark is known to have failed.
FilesAreMarked ==
  \A w \in Workflows :
    skillFile[SlugOf[w]].of = {w} => workflow[w].promoted \/ SlugOf[w] \in unmarked

ReviewInv == ReviewTypeOK /\ ReviewsAreOfTurns /\ LowTurnsAreReviewed /\ FilesAreMarked

\* The longer queue holds the new turn, and loses at most its head.
LEMMA LongerQueue ==
  ASSUME NEW S, NEW q \in Seq(S), NEW t \in S
  PROVE  /\ Append(q, t) \in Seq(S) /\ Len(Append(q, t)) = Len(q) + 1
         /\ Range(Append(q, t)) = Range(q) \union {t}
         /\ Head(Append(q, t)) \in S
         /\ Tail(Append(q, t)) \in Seq(S) /\ Len(Tail(Append(q, t))) = Len(q)
         /\ Range(Append(q, t)) \subseteq Range(Tail(Append(q, t))) \union {Head(Append(q, t))}
<1> DEFINE l == Append(q, t)
<1>1. /\ l \in Seq(S) /\ Len(l) = Len(q) + 1
      /\ \A i \in 1..Len(q) : l[i] = q[i]
      /\ l[Len(q) + 1] = t
      /\ Len(q) \in Nat /\ DOMAIN q = 1..Len(q) /\ DOMAIN l = 1..Len(q) + 1
  BY AppendProperties, LenProperties
<1>2. Range(l) = Range(q) \union {t}
  <2>1. ASSUME NEW i \in DOMAIN l PROVE l[i] \in Range(q) \union {t}
    BY <1>1 DEF Range
  <2>2. ASSUME NEW i \in DOMAIN q PROVE q[i] \in Range(l)
    <3>1. i \in DOMAIN l /\ l[i] = q[i]
      BY <1>1
    <3> QED
      BY <3>1 DEF Range
  <2>3. t \in Range(l)
    <3>1. Len(q) + 1 \in DOMAIN l
      BY <1>1
    <3> QED
      BY <1>1, <3>1 DEF Range
  <2> QED
    BY <2>1, <2>2, <2>3 DEF Range
<1>3. l # <<>>
  BY <1>1
<1>4. /\ Head(l) = l[1] /\ Head(l) \in S
      /\ Tail(l) \in Seq(S) /\ Len(Tail(l)) = Len(q)
      /\ \A i \in 1..Len(q) : Tail(l)[i] = l[i + 1]
  BY <1>1, <1>3, HeadTailProperties
<1>5. ASSUME NEW i \in DOMAIN l PROVE l[i] \in Range(Tail(l)) \union {Head(l)}
  <2>1. CASE i = 1
    BY <1>4, <2>1
  <2>2. CASE i # 1
    <3>1. i - 1 \in 1..Len(q) /\ (i - 1) + 1 = i
      BY <1>1, <2>2
    <3>2. Tail(l)[i - 1] = l[i]
      BY <1>4, <3>1
    <3>3. i - 1 \in DOMAIN Tail(l)
      BY <1>4, <3>1, LenProperties
    <3> QED
      BY <3>2, <3>3 DEF Range
  <2> QED
    BY <2>1, <2>2
<1> QED
  BY <1>1, <1>2, <1>4, <1>5 DEF Range

\* What has a slug.
LEMMA SlugsOfWorkflows == \A w \in Workflows : SlugOf[w] \in Slugs
BY DEF Slugs

\* What a review may be.
ReviewRecords ==
  [at : {"idle", "scored", "counting", "gathering", "clearing", "proposing"},
   turn : 0..ReviewLimit, score : {"low", "fair"}, drained : Seq(1..ReviewLimit)]

\* A step that gives one review a turn's record, or none.
LEMMA OneReviewMoves ==
  ASSUME ReviewInv, NEW r \in Reviews, NEW x \in ReviewRecords,
         review' = [review EXCEPT ![r] = x], scored' \in scored..ReviewLimit,
         x.at = "scored" => x.turn \in 1..scored'
  PROVE  review' \in [Reviews -> ReviewRecords] /\ ReviewsAreOfTurns'
<1>1. review' \in [Reviews -> ReviewRecords]
  BY DEF ReviewInv, ReviewTypeOK, ReviewRecords
<1>2. ASSUME NEW q \in Reviews, review'[q].at = "scored" PROVE review'[q].turn \in 1..scored'
  <2>1. CASE q = r
    <3>1. review'[q] = x
      BY <2>1 DEF ReviewInv, ReviewTypeOK
    <3> QED
      BY <1>2, <3>1
  <2>2. CASE q # r
    <3>1. review'[q] = review[q]
      BY <2>2 DEF ReviewInv, ReviewTypeOK
    <3>2. review[q].turn \in 1..scored /\ scored \in Nat
      BY <1>2, <3>1 DEF ReviewInv, ReviewTypeOK, ReviewsAreOfTurns
    <3> QED
      BY <3>1, <3>2
  <2> QED
    BY <2>1, <2>2
<1> QED
  BY <1>1, <1>2 DEF ReviewsAreOfTurns

\* A review starts with nothing done.
LEMMA IdleReview == ReviewIdle \in ReviewRecords /\ ReviewIdle.at = "idle"
<1>1. <<>> \in Seq(1..ReviewLimit)
  OBVIOUS
<1> QED
  BY <1>1, ReviewLimitIsNatural DEF ReviewIdle, ReviewRecords

\* Learning a workflow keeps the files marked.
LEMMA LearningMarks ==
  ASSUME ReviewInv, NEW w \in Workflows, NEW marked \in BOOLEAN, Learn(w, marked)
  PROVE  /\ workflow' \in [Workflows -> [seen : Nat, promoted : BOOLEAN]]
         /\ skillFile' \in [Slugs -> [of : SUBSET Workflows, edited : BOOLEAN]]
         /\ unmarked' \subseteq Slugs
         /\ FilesAreMarked'
<1> DEFINE x == [seen |-> SeenNow(w), promoted |-> workflow[w].promoted \/ (Promotes(w) /\ marked)]
<1>1. /\ workflow \in [Workflows -> [seen : Nat, promoted : BOOLEAN]]
      /\ skillFile \in [Slugs -> [of : SUBSET Workflows, edited : BOOLEAN]]
      /\ unmarked \subseteq Slugs
  BY DEF ReviewInv, ReviewTypeOK
<1>2. workflow' = [workflow EXCEPT ![w] = x]
  BY DEF Learn
<1>3. x.seen \in Nat
  BY <1>1 DEF SeenNow
<1>4. Promotes(w) \in BOOLEAN
  BY DEF Promotes
<1>5. workflow' \in [Workflows -> [seen : Nat, promoted : BOOLEAN]]
  <2>1. x \in [seen : Nat, promoted : BOOLEAN]
    BY <1>1, <1>3, <1>4
  <2> HIDE DEF x
  <2> QED
    BY <1>1, <1>2, <2>1
<1>6. SlugOf[w] \in Slugs
  BY SlugsOfWorkflows
<1>7. skillFile' \in [Slugs -> [of : SUBSET Workflows, edited : BOOLEAN]]
  <2>1. [of |-> {w}, edited |-> FALSE] \in [of : SUBSET Workflows, edited : BOOLEAN]
    OBVIOUS
  <2> QED
    BY <1>1, <1>6, <2>1 DEF Learn
<1>8. unmarked' \subseteq Slugs /\ unmarked \subseteq unmarked'
  BY <1>1, <1>6 DEF Learn
<1>9. ASSUME NEW v \in Workflows, skillFile'[SlugOf[v]].of = {v}
      PROVE  workflow'[v].promoted \/ SlugOf[v] \in unmarked'
  <2>1. CASE Promotes(w) /\ SlugOf[v] = SlugOf[w]
    <3>1. skillFile'[SlugOf[w]] = [of |-> {w}, edited |-> FALSE]
      BY <1>1, <1>6, <2>1 DEF Learn
    <3>2. v = w
      BY <1>9, <2>1, <3>1
    <3>3. CASE marked
      BY <1>1, <1>2, <2>1, <3>2, <3>3
    <3>4. CASE ~marked
      BY <2>1, <3>2, <3>4 DEF Learn
    <3> QED
      BY <3>3, <3>4
  <2>2. CASE ~(Promotes(w) /\ SlugOf[v] = SlugOf[w])
    <3>1. skillFile'[SlugOf[v]] = skillFile[SlugOf[v]]
      BY <1>1, <1>6, <2>2, SlugsOfWorkflows DEF Learn
    <3>2. workflow[v].promoted \/ SlugOf[v] \in unmarked
      BY <1>9, <3>1 DEF ReviewInv, FilesAreMarked
    <3>3. workflow[v].promoted => workflow'[v].promoted
      BY <1>1, <1>2
    <3> QED
      BY <1>8, <3>2, <3>3
  <2> QED
    BY <2>1, <2>2
<1> QED
  BY <1>5, <1>7, <1>8, <1>9 DEF FilesAreMarked

\* So does learning it apart, or losing its memory.
LEMMA LosingMarks ==
  ASSUME ReviewInv, NEW w \in Workflows, NEW row \in [seen : Nat, promoted : BOOLEAN],
         workflow' = [workflow EXCEPT ![w] = row], UNCHANGED skillFile,
         \/ unmarked' = unmarked \union {SlugOf[w]}
         \/ unmarked' = unmarked /\ ~workflow[w].promoted
  PROVE  /\ workflow' \in [Workflows -> [seen : Nat, promoted : BOOLEAN]]
         /\ skillFile' \in [Slugs -> [of : SUBSET Workflows, edited : BOOLEAN]]
         /\ unmarked' \subseteq Slugs
         /\ FilesAreMarked'
<1>1. /\ workflow \in [Workflows -> [seen : Nat, promoted : BOOLEAN]]
      /\ skillFile \in [Slugs -> [of : SUBSET Workflows, edited : BOOLEAN]]
      /\ unmarked \subseteq Slugs
  BY DEF ReviewInv, ReviewTypeOK
<1>2. SlugOf[w] \in Slugs
  BY SlugsOfWorkflows
<1>3. ASSUME NEW v \in Workflows, skillFile'[SlugOf[v]].of = {v}
      PROVE  workflow'[v].promoted \/ SlugOf[v] \in unmarked'
  <2>1. workflow[v].promoted \/ SlugOf[v] \in unmarked
    BY <1>3 DEF ReviewInv, FilesAreMarked
  <2>2. CASE v = w
    BY <2>1, <2>2
  <2>3. CASE v # w
    <3>1. workflow'[v] = workflow[v]
      BY <1>1, <2>3
    <3> QED
      BY <2>1, <3>1
  <2> QED
    BY <2>2, <2>3
<1> QED
  BY <1>1, <1>2, <1>3 DEF FilesAreMarked

\* A low turn that was queued is in the queue, was given to a review or was given up for
\* a known cause, and no file of a workflow is without a mark (_run_reflector_background,
\* maybe_run_meta_reflector, maybe_crystallize_workflow).
THEOREM ReviewInvariant == ReviewSpec => []ReviewInv
<1>1. ReviewInit => ReviewInv
  <2> SUFFICES ASSUME ReviewInit PROVE ReviewInv
    OBVIOUS
  <2>1. \A r \in Reviews : review[r] = ReviewIdle
    BY DEF ReviewInit
  <2>2. review \in [Reviews -> ReviewRecords]
    BY IdleReview DEF ReviewInit
  <2>3. lowQueue \in Seq(1..ReviewLimit) /\ Len(lowQueue) <= RefinementMax
    BY RefinementMaxIsPositive DEF ReviewInit
  <2>4. skillFile \in [Slugs -> [of : SUBSET Workflows, edited : BOOLEAN]]
    BY DEF ReviewInit, NoSkill
  <2>5. workflow \in [Workflows -> [seen : Nat, promoted : BOOLEAN]]
    BY DEF ReviewInit, Unseen
  <2>6. ReviewTypeOK
    <3>1. /\ reviewCount = 0 /\ scored = 0 /\ proposals = FALSE
          /\ queued = {} /\ read = {} /\ forfeited = {} /\ unmarked = {}
      BY DEF ReviewInit
    <3>2. reviewCount \in Nat /\ scored \in 0..ReviewLimit
      BY <3>1, ReviewLimitIsNatural
    <3>4. proposals \in BOOLEAN
      BY Zenon DEF ReviewInit
    <3>3. /\ queued \subseteq 1..ReviewLimit /\ read \subseteq 1..ReviewLimit
          /\ forfeited \subseteq 1..ReviewLimit /\ unmarked \subseteq Slugs
      BY <3>1
    <3> QED
      BY <2>2, <2>3, <2>4, <2>5, <3>2, <3>3, <3>4 DEF ReviewTypeOK, ReviewRecords
  <2>7. FilesAreMarked
    BY SlugsOfWorkflows DEF ReviewInit, FilesAreMarked, NoSkill
  <2> QED
    BY <2>1, <2>6, <2>7, IdleReview DEF ReviewInv, ReviewsAreOfTurns, LowTurnsAreReviewed, ReviewInit
<1>2. ReviewInv /\ [ReviewNext]_reviewVars => ReviewInv'
  <2> SUFFICES ASSUME ReviewInv, [ReviewNext]_reviewVars PROVE ReviewInv'
    OBVIOUS
  <2> USE ReviewLimitIsNatural
  <2>t. /\ reviewCount \in Nat /\ scored \in 0..ReviewLimit
        /\ lowQueue \in Seq(1..ReviewLimit) /\ Len(lowQueue) <= RefinementMax
        /\ review \in [Reviews -> ReviewRecords]
        /\ queued \subseteq 1..ReviewLimit /\ read \subseteq 1..ReviewLimit
        /\ forfeited \subseteq 1..ReviewLimit
    BY DEF ReviewInv, ReviewTypeOK, ReviewRecords
  <2>1. ASSUME NEW r \in Reviews, Reflect(r) PROVE ReviewInv'
    <3>1. PICK said \in {"low", "fair"}, promised \in BOOLEAN :
            review' = [review EXCEPT ![r] = [ReviewIdle EXCEPT !.at = "scored", !.turn = scored',
                                                         !.score = Verdict(said, promised)]]
      BY <2>1 DEF Reflect
    <3> DEFINE x == [ReviewIdle EXCEPT !.at = "scored", !.turn = scored',
                                       !.score = Verdict(said, promised)]
    <3>2. scored' \in scored..ReviewLimit /\ scored' \in 1..scored'
      BY <2>1, <2>t DEF Reflect
    <3>3. x \in ReviewRecords /\ x.turn = scored'
      <4>1. scored' \in 0..ReviewLimit /\ Verdict(said, promised) \in {"low", "fair"}
        BY <2>t, <3>2 DEF Verdict
      <4> QED
        BY <4>1, IdleReview DEF ReviewRecords, ReviewIdle
    <3> HIDE DEF x
    <3>4. review' \in [Reviews -> ReviewRecords] /\ ReviewsAreOfTurns'
      BY <3>1, <3>2, <3>3, OneReviewMoves DEF x
    <3>5. /\ workflow' \in [Workflows -> [seen : Nat, promoted : BOOLEAN]]
          /\ skillFile' \in [Slugs -> [of : SUBSET Workflows, edited : BOOLEAN]]
          /\ unmarked' \subseteq Slugs
          /\ FilesAreMarked'
      <4>1. CASE \E w \in Workflows, marked \in BOOLEAN : Learn(w, marked)
        BY <4>1, LearningMarks
      <4>2. CASE \E w \in Workflows : LearnApart(w)
        <5>1. [seen |-> 1, promoted |-> FALSE] \in [seen : Nat, promoted : BOOLEAN]
          OBVIOUS
        <5> QED
          BY <4>2, <5>1, LosingMarks DEF LearnApart
      <4>3. CASE UNCHANGED <<workflow, skillFile, unmarked>>
        BY <4>3 DEF ReviewInv, ReviewTypeOK, FilesAreMarked
      <4> QED
        BY <2>1, <4>1, <4>2, <4>3 DEF Reflect
    <3>6. UNCHANGED <<reviewCount, lowQueue, proposals, queued, read, forfeited>>
      BY <2>1 DEF Reflect
    <3>7. LowTurnsAreReviewed'
      BY <3>6 DEF ReviewInv, LowTurnsAreReviewed
    <3>8. ReviewTypeOK'
      BY <2>t, <3>2, <3>4, <3>5, <3>6 DEF ReviewInv, ReviewTypeOK, ReviewRecords
    <3> QED
      BY <3>4, <3>5, <3>7, <3>8 DEF ReviewInv
  <2>2. ASSUME NEW r \in Reviews, QueueLowTurn(r) PROVE ReviewInv'
    <3> DEFINE t == review[r].turn
               longer == Append(lowQueue, t)
               x == [ReviewIdle EXCEPT !.at = "counting"]
    <3>1. t \in 1..scored /\ t \in 1..ReviewLimit
      BY <2>2, <2>t DEF QueueLowTurn, ReviewInv, ReviewsAreOfTurns
    <3>2. /\ longer \in Seq(1..ReviewLimit) /\ Len(longer) = Len(lowQueue) + 1
          /\ Range(longer) = Range(lowQueue) \union {t}
          /\ Head(longer) \in 1..ReviewLimit
          /\ Tail(longer) \in Seq(1..ReviewLimit) /\ Len(Tail(longer)) = Len(lowQueue)
          /\ Range(longer) \subseteq Range(Tail(longer)) \union {Head(longer)}
      BY <2>t, <3>1, LongerQueue
    <3>3. review' = [review EXCEPT ![r] = x] /\ UNCHANGED scored
      BY <2>2, <2>t DEF QueueLowTurn
    <3>4. x \in ReviewRecords /\ x.at = "counting"
      BY IdleReview DEF ReviewRecords, ReviewIdle
    <3>5. \/ UNCHANGED <<lowQueue, queued, forfeited>>
          \/ /\ Overfull(longer) /\ lowQueue' = Tail(longer)
             /\ queued' = queued \union {t} /\ forfeited' = forfeited \union {Head(longer)}
          \/ /\ ~Overfull(longer) /\ lowQueue' = longer
             /\ queued' = queued \union {t} /\ forfeited' = forfeited
      BY <2>2 DEF QueueLowTurn
    <3> HIDE DEF longer, x
    <3>6. review' \in [Reviews -> ReviewRecords] /\ ReviewsAreOfTurns'
      <4>1. scored' \in scored..ReviewLimit /\ (x.at = "scored" => x.turn \in 1..scored')
        BY <2>t, <3>3, <3>4
      <4> QED
        BY <3>3, <3>4, <4>1, OneReviewMoves
    <3> HIDE DEF t
    <3>7. LowTurnsAreReviewed'
      <4>1. UNCHANGED read
        BY <2>2 DEF QueueLowTurn
      <4> QED
        BY <3>2, <3>5, <4>1 DEF ReviewInv, LowTurnsAreReviewed
    <3>8. /\ lowQueue' \in Seq(1..ReviewLimit) /\ Len(lowQueue') <= RefinementMax
          /\ queued' \subseteq 1..ReviewLimit /\ forfeited' \subseteq 1..ReviewLimit
      <4>1. ~Overfull(longer) => Len(longer) <= RefinementMax
        BY <2>t, <3>2, RefinementMaxIsPositive, LenProperties DEF Overfull
      <4> QED
        BY <2>t, <3>1, <3>2, <3>5, <4>1
    <3>9. UNCHANGED <<reviewCount, proposals, workflow, skillFile, scored, read, unmarked>>
      BY <2>2 DEF QueueLowTurn
    <3>10. ReviewTypeOK' /\ FilesAreMarked'
      BY <2>t, <3>6, <3>8, <3>9 DEF ReviewInv, ReviewTypeOK, ReviewRecords, FilesAreMarked
    <3> QED
      BY <3>6, <3>7, <3>10 DEF ReviewInv
  <2>3. ASSUME NEW r \in Reviews, CountReview(r) PROVE ReviewInv'
    <3>1. PICK x \in {[review[r] EXCEPT !.at = "gathering"], ReviewIdle} :
            review' = [review EXCEPT ![r] = x]
      BY <2>3, <2>t DEF CountReview
    <3>2. x \in ReviewRecords /\ x.at # "scored"
      BY <2>t, <3>1, IdleReview DEF ReviewRecords
    <3>4. /\ UNCHANGED <<lowQueue, proposals, workflow, skillFile, scored, queued, read, forfeited, unmarked>>
          /\ reviewCount' \in Nat
      BY <2>3, <2>t DEF CountReview
    <3>5. review' \in [Reviews -> ReviewRecords] /\ ReviewsAreOfTurns'
      <4>1. scored' \in scored..ReviewLimit /\ (x.at = "scored" => x.turn \in 1..scored')
        BY <2>t, <3>2, <3>4
      <4> QED
        BY <3>1, <3>2, <4>1, OneReviewMoves
    <3> QED
      BY <2>t, <3>4, <3>5 DEF ReviewInv, ReviewTypeOK, ReviewRecords, FilesAreMarked, LowTurnsAreReviewed
  <2>4. ASSUME NEW r \in Reviews, ReadLowQueue(r) PROVE ReviewInv'
    <3> DEFINE x == [review[r] EXCEPT !.at = "clearing", !.drained = lowQueue]
    <3>1. review' = [review EXCEPT ![r] = x]
      BY <2>4, <2>t DEF ReadLowQueue
    <3>2. x \in ReviewRecords /\ x.at # "scored"
      BY <2>t DEF ReviewRecords
    <3>4. UNCHANGED <<reviewCount, lowQueue, proposals, workflow, skillFile, scored, queued, read,
                      forfeited, unmarked>>
      BY <2>4 DEF ReadLowQueue
    <3> HIDE DEF x
    <3>5. review' \in [Reviews -> ReviewRecords] /\ ReviewsAreOfTurns'
      <4>1. scored' \in scored..ReviewLimit /\ (x.at = "scored" => x.turn \in 1..scored')
        BY <2>t, <3>2, <3>4
      <4> QED
        BY <3>1, <3>2, <4>1, OneReviewMoves
    <3> QED
      BY <2>t, <3>4, <3>5 DEF ReviewInv, ReviewTypeOK, ReviewRecords, FilesAreMarked, LowTurnsAreReviewed
  <2>5. ASSUME NEW r \in Reviews, ClearLowQueue(r) PROVE ReviewInv'
    <3> DEFINE x == [ReviewIdle EXCEPT !.at = "proposing"]
    <3>1. review' = [review EXCEPT ![r] = x]
      BY <2>5, <2>t DEF ClearLowQueue
    <3>2. x \in ReviewRecords /\ x.at # "scored"
      BY IdleReview DEF ReviewRecords, ReviewIdle
    <3>4. /\ UNCHANGED <<reviewCount, proposals, workflow, skillFile, scored, queued, unmarked>>
          /\ lowQueue' = <<>> /\ read' = read \union Range(review[r].drained)
          /\ forfeited' = forfeited \union (Range(lowQueue) \ Range(review[r].drained))
      BY <2>5 DEF ClearLowQueue
    <3> HIDE DEF x
    <3>5. review' \in [Reviews -> ReviewRecords] /\ ReviewsAreOfTurns'
      <4>1. scored' \in scored..ReviewLimit /\ (x.at = "scored" => x.turn \in 1..scored')
        BY <2>t, <3>2, <3>4
      <4> QED
        BY <3>1, <3>2, <4>1, OneReviewMoves
    <3>6. LowTurnsAreReviewed'
      BY <3>4 DEF ReviewInv, LowTurnsAreReviewed
    <3>7. /\ lowQueue' \in Seq(1..ReviewLimit) /\ Len(lowQueue') <= RefinementMax
          /\ read' \subseteq 1..ReviewLimit /\ forfeited' \subseteq 1..ReviewLimit
      <4>1. review[r].drained \in Seq(1..ReviewLimit)
        BY <2>t DEF ReviewRecords
      <4>2. Range(lowQueue) \subseteq 1..ReviewLimit /\ Range(review[r].drained) \subseteq 1..ReviewLimit
        BY <2>t, <4>1, LenProperties, ElementOfSeq DEF Range
      <4>3. <<>> \in Seq(1..ReviewLimit) /\ Len(<<>>) <= RefinementMax
        BY RefinementMaxIsPositive
      <4> QED
        BY <2>t, <3>4, <4>2, <4>3
    <3> QED
      BY <2>t, <3>4, <3>5, <3>6, <3>7 DEF ReviewInv, ReviewTypeOK, ReviewRecords, FilesAreMarked
  <2>6. ASSUME NEW r \in Reviews, Propose(r) \/ ReviewDies(r) PROVE ReviewInv'
    <3>1. /\ review' = [review EXCEPT ![r] = ReviewIdle] /\ proposals' \in BOOLEAN
          /\ UNCHANGED <<reviewCount, lowQueue, workflow, skillFile, scored, queued, read, forfeited, unmarked>>
      BY <2>6 DEF Propose, ReviewDies, ReviewInv, ReviewTypeOK
    <3>2. review' \in [Reviews -> ReviewRecords] /\ ReviewsAreOfTurns'
      <4>1. scored' \in scored..ReviewLimit
        BY <2>t, <3>1
      <4> QED
        BY <3>1, <4>1, IdleReview, OneReviewMoves
    <3> QED
      BY <2>t, <3>1, <3>2 DEF ReviewInv, ReviewTypeOK, ReviewRecords, FilesAreMarked, LowTurnsAreReviewed
  <2>7. ASSUME NEW s \in Slugs, EditSkill(s) PROVE ReviewInv'
    <3>1. /\ skillFile' = [skillFile EXCEPT ![s].edited = TRUE]
          /\ UNCHANGED <<reviewCount, lowQueue, review, proposals, workflow, scored, queued, read,
                         forfeited, unmarked>>
      BY <2>7 DEF EditSkill
    <3>2. /\ skillFile' \in [Slugs -> [of : SUBSET Workflows, edited : BOOLEAN]]
          /\ \A z \in Slugs : skillFile'[z].of = skillFile[z].of
      BY <3>1 DEF ReviewInv, ReviewTypeOK
    <3>3. FilesAreMarked'
      BY <3>1, <3>2, SlugsOfWorkflows DEF ReviewInv, FilesAreMarked
    <3> QED
      BY <3>1, <3>2, <3>3 DEF ReviewInv, ReviewTypeOK, ReviewsAreOfTurns, LowTurnsAreReviewed
  <2>8. ASSUME NEW w \in Workflows, ForgetWorkflow(w) PROVE ReviewInv'
    <3>1. /\ workflow' = [workflow EXCEPT ![w] = Unseen]
          /\ \/ unmarked' = unmarked \union {SlugOf[w]}
             \/ unmarked' = unmarked /\ ~workflow[w].promoted
          /\ UNCHANGED <<reviewCount, lowQueue, review, proposals, skillFile, scored, queued, read,
                         forfeited>>
      BY <2>8 DEF ForgetWorkflow
    <3>2. Unseen \in [seen : Nat, promoted : BOOLEAN]
      BY DEF Unseen
    <3>3. /\ workflow' \in [Workflows -> [seen : Nat, promoted : BOOLEAN]]
          /\ unmarked' \subseteq Slugs /\ FilesAreMarked'
      BY <3>1, <3>2, LosingMarks
    <3> QED
      BY <3>1, <3>3 DEF ReviewInv, ReviewTypeOK, ReviewsAreOfTurns, LowTurnsAreReviewed
  <2>9. CASE UNCHANGED reviewVars
    BY <2>9 DEF reviewVars, ReviewInv, ReviewTypeOK, ReviewsAreOfTurns, LowTurnsAreReviewed, FilesAreMarked
  <2> QED
    BY <2>1, <2>2, <2>3, <2>4, <2>5, <2>6, <2>7, <2>8, <2>9 DEF ReviewNext
<1> QED
  BY <1>1, <1>2, PTL DEF ReviewSpec

\* None of the turns the reflector scored low is forgotten: the queue, a review or a known
\* cause has it (record_skill_refinement_request, drain_skill_refinement_queue).
THEOREM LowTurnsFindReviews == ReviewSpec => []LowTurnsAreReviewed
<1>1. ReviewInv => LowTurnsAreReviewed
  BY DEF ReviewInv
<1> QED
  BY <1>1, ReviewInvariant, PTL

\* A skill the user edited keeps its workflow's text as long as the mark of the promotion
\* can be found: it was written, its memory was not deleted and has no unmarked one beside
\* it (maybe_crystallize_workflow, add_memory).
THEOREM EditedSkillsSurvive == ReviewSpec => EditsSurvive
<1> DEFINE Survives == \A s \in Slugs :
              /\ skillFile[s].edited
              /\ s \notin unmarked
              /\ skillFile'[s] # skillFile[s]
              => skillFile'[s].of # skillFile[s].of
<1>1. ReviewInv /\ [ReviewNext]_reviewVars => [Survives]_reviewVars
  <2> SUFFICES ASSUME ReviewInv, ReviewNext, NEW s \in Slugs, skillFile[s].edited, s \notin unmarked,
                      skillFile'[s] # skillFile[s]
               PROVE  skillFile'[s].of # skillFile[s].of
    OBVIOUS
  <2>1. skillFile \in [Slugs -> [of : SUBSET Workflows, edited : BOOLEAN]]
    BY DEF ReviewInv, ReviewTypeOK
  <2>2. CASE \E r \in Reviews : Reflect(r)
    <3>1. PICK w \in Workflows, marked \in BOOLEAN : Learn(w, marked)
      BY <2>2 DEF Reflect, LearnApart
    <3>2. Promotes(w) /\ SlugOf[w] = s
      BY <2>1, <3>1, SlugsOfWorkflows DEF Learn
    <3>3. skillFile'[s].of = {w}
      BY <2>1, <3>1, <3>2 DEF Learn
    <3>4. skillFile[s].of # {w}
      BY <3>2 DEF ReviewInv, FilesAreMarked, Promotes
    <3> QED
      BY <3>3, <3>4
  <2>3. CASE \E r \in Reviews : QueueLowTurn(r) \/ CountReview(r) \/ ReadLowQueue(r) \/ ClearLowQueue(r)
                                \/ Propose(r) \/ ReviewDies(r)
    BY <2>3 DEF QueueLowTurn, CountReview, ReadLowQueue, ClearLowQueue, Propose, ReviewDies
  <2>4. CASE \E z \in Slugs : EditSkill(z)
    BY <2>1, <2>4 DEF EditSkill
  <2>5. CASE \E w \in Workflows : ForgetWorkflow(w)
    BY <2>5 DEF ForgetWorkflow
  <2> QED
    BY <2>2, <2>3, <2>4, <2>5 DEF ReviewNext
<1> QED
  BY <1>1, ReviewInvariant, PTL DEF ReviewSpec, EditsSurvive

-----------------------------------------------------------------------------
(* The routes of a turn                                                    *)

TurnRecords ==
  [at : {"idle", "routing", "working", "rerouting", "checking", "recording", "remembering",
         "posting", "returning", "clearing", "done", "failed", "stale"},
   left : SUBSET Routes, route : Routes, work : Nat, made : BOOLEAN, rerouted : BOOLEAN,
   retried : BOOLEAN, got : SUBSET AllTurns]
SpokenCounts == [asked : Nat, answered : Nat]

\* What the stage of a turn says of its route and of its images.
RouteFits(t, w) ==
  /\ w.at = "idle" => w = NotBegun
  /\ w.at # "idle" => "agent" \in w.left
  /\ w.at \in {"rerouting", "checking", "posting"} => w.route = "agent"
  /\ w.at = "remembering" => w.route # "agent"
  /\ w.at \in {"routing", "working", "stale"} => ~w.rerouted /\ ~w.made
  /\ w.at = "rerouting" => ~w.rerouted
  /\ w.rerouted => w.route = "agent"
  /\ w.made => w.route \in {"agent", "draw"}
  /\ w.at \in {"recording", "remembering"} /\ w.route = "draw" => w.made
  /\ w.at = "clearing" => t \in OwnerTurns

\* The questions a turn has in the conversation.
AskedFits(w, asked) ==
  /\ w.at = "idle" => asked = 0
  /\ w.at = "stale" => asked = 1 /\ w.retried
  /\ w.at \notin {"idle", "stale", "failed"} => asked = IF w.retried THEN 2 ELSE 1

\* Its copies in the agents' session, once it is all there.
CopiesOf(w) == IF w.route \in {"fix_it", "repair"} \/ w.rerouted THEN 2 ELSE 1

\* Its work, its answers and its copies: what comes after the answer adds the last copy.
WorkFits(w, answered, copies, lost) ==
  /\ w.at \in {"idle", "stale", "routing", "working"} =>
       w.work = 0 /\ answered = 0 /\ (copies = 0 \/ lost)
  /\ w.at \in {"rerouting", "checking", "recording", "remembering", "posting", "returning",
               "clearing", "done"} => w.work = IF w.rerouted THEN 2 ELSE 1
  /\ w.at \in {"rerouting", "checking", "recording"} => answered = 0
  /\ w.at \in {"remembering", "posting", "returning", "clearing", "done"} => answered = 1
  /\ w.at \in {"rerouting", "checking", "posting", "returning", "clearing", "done"} =>
       copies = CopiesOf(w) \/ lost
  /\ w.at \in {"recording", "remembering"} =>
       copies + (IF w.route = "agent" THEN 0 ELSE 1) = CopiesOf(w) \/ lost

\* The image field as a turn of the user finds it that nothing disturbed.
ImagesFit(t, w, field) ==
  /\ w.at \in {"routing", "working", "rerouting", "checking", "posting"} => field = {}
  /\ w.at \in {"recording", "remembering"} => field = IF w.route = "draw" THEN {t} ELSE {}
  /\ w.at = "returning" => field = IF w.made THEN {t} ELSE {}
  /\ w.at \in {"clearing", "done"} => w.got = IF w.made THEN {t} ELSE {}

\* The user's turns come one after another.
OwnersInOrder ==
  \A t, u \in OwnerTurns : u < t /\ turn[t].at # "idle" => turn[u].at \in {"done", "failed"}

RouteInv ==
  /\ RouteTypeOK
  /\ OwnersInOrder
  /\ \A t \in AllTurns :
       /\ RouteFits(t, turn[t])
       /\ AskedFits(turn[t], spoken[t].asked)
       /\ t \notin redone => WorkFits(turn[t], spoken[t].answered, inSession[t], t \in forgotten)
       /\ t \in OwnerTurns \ disturbed => ImagesFit(t, turn[t], imageField)

\* The types, by turn.
LEMMA RouteTypes ==
  RouteTypeOK <=>
    /\ turn \in [AllTurns -> TurnRecords] /\ spoken \in [AllTurns -> SpokenCounts]
    /\ inSession \in [AllTurns -> Nat] /\ toolError \in BOOLEAN
    /\ imageField \in SUBSET AllTurns /\ Cardinality(imageField) <= 1
    /\ routeFaults \in 0..RouteFaults
    /\ redone \subseteq AllTurns /\ forgotten \subseteq AllTurns /\ disturbed \subseteq AllTurns
BY DEF RouteTypeOK, TurnRecords, SpokenCounts

\* A field with one turn's images, or none.
LEMMA ImageFields ==
  ASSUME NEW t \in AllTurns
  PROVE  /\ {} \in SUBSET AllTurns /\ Cardinality({}) <= 1
         /\ {t} \in SUBSET AllTurns /\ Cardinality({t}) <= 1
<1>1. Cardinality({}) = 0
  BY FS_EmptySet
<1>2. Cardinality({t}) = 1
  BY FS_Singleton
<1> QED
  BY <1>1, <1>2

\* Whatever one turn does: it fits afterwards, and so do the others.
LEMMA TurnStep ==
  ASSUME RouteInv, NEW t \in AllTurns, NEW x \in TurnRecords, turn' = [turn EXCEPT ![t] = x],
         NEW p \in SpokenCounts, spoken' = [spoken EXCEPT ![t] = p],
         NEW k \in Nat, inSession' \in [AllTurns -> Nat], inSession'[t] = k,
         \A u \in AllTurns : u # t => \/ inSession'[u] = inSession[u]
                                      \/ u \in forgotten'
                                      \/ turn[u].at = "idle" /\ inSession'[u] = 0,
         toolError' \in BOOLEAN, routeFaults' \in 0..RouteFaults,
         imageField' \in SUBSET AllTurns, Cardinality(imageField') <= 1,
         redone \subseteq redone', redone' \subseteq AllTurns,
         forgotten \subseteq forgotten', forgotten' \subseteq AllTurns,
         disturbed \subseteq disturbed', disturbed' \subseteq AllTurns,
         RouteFits(t, x), AskedFits(x, p.asked),
         t \notin redone' => WorkFits(x, p.answered, k, t \in forgotten'),
         t \in OwnerTurns \ disturbed' => ImagesFit(t, x, imageField'),
         \A u \in OwnerTurns \ disturbed' :
           u # t => imageField' = imageField \/ turn[u].at \in {"idle", "done", "failed"},
         turn[t].at \notin {"done", "failed"},
         t \in OwnerTurns /\ turn[t].at = "idle" =>
           \A u \in 1..(t - 1) : turn[u].at \in {"done", "failed"}
  PROVE  RouteInv'
<1>0. turn \in [AllTurns -> TurnRecords] /\ spoken \in [AllTurns -> SpokenCounts]
  BY RouteTypes DEF RouteInv
<1>1. RouteTypeOK'
  <2>1. turn' \in [AllTurns -> TurnRecords] /\ spoken' \in [AllTurns -> SpokenCounts]
    BY <1>0
  <2> QED
    BY <2>1 DEF RouteTypeOK, TurnRecords, SpokenCounts
<1>2. turn'[t] = x /\ spoken'[t] = p /\ \A u \in AllTurns : u # t => turn'[u] = turn[u] /\ spoken'[u] = spoken[u]
  BY <1>0
<1>3. OwnersInOrder'
  <2> SUFFICES ASSUME NEW a \in OwnerTurns, NEW b \in OwnerTurns, b < a, turn'[a].at # "idle"
               PROVE  turn'[b].at \in {"done", "failed"}
    BY DEF OwnersInOrder
  <2>0. /\ a \in AllTurns /\ b \in AllTurns /\ a # b /\ b \in 1..(a - 1)
        /\ (turn[a].at # "idle" => turn[b].at \in {"done", "failed"})
    BY MessagesIsNatural DEF OwnerTurns, AllTurns, RouteInv, OwnersInOrder
  <2>1. turn[b].at \in {"done", "failed"}
    <3>1. CASE a = t /\ turn[t].at = "idle"
      BY <2>0, <3>1
    <3>2. CASE a = t /\ turn[t].at # "idle"
      BY <2>0, <3>2
    <3>3. CASE a # t
      BY <1>2, <2>0, <3>3
    <3> QED
      BY <3>1, <3>2, <3>3
  <2> QED
    BY <1>2, <2>0, <2>1
<1>4. ASSUME NEW u \in AllTurns
      PROVE  /\ RouteFits(u, turn'[u])
             /\ AskedFits(turn'[u], spoken'[u].asked)
             /\ u \notin redone' => WorkFits(turn'[u], spoken'[u].answered, inSession'[u], u \in forgotten')
             /\ u \in OwnerTurns \ disturbed' => ImagesFit(u, turn'[u], imageField')
  <2>1. CASE u = t
    BY <1>2, <2>1
  <2>2. CASE u # t
    <3> DEFINE w == turn[u]
               s == spoken[u]
    <3>1. turn'[u] = w /\ spoken'[u] = s
      BY <1>2, <2>2
    <3>2. RouteFits(u, w) /\ AskedFits(w, s.asked)
      BY DEF RouteInv
    <3>3. u \notin redone' => WorkFits(w, s.answered, inSession[u], u \in forgotten)
      BY DEF RouteInv
    <3>4. u \in OwnerTurns \ disturbed' => ImagesFit(u, w, imageField)
      BY DEF RouteInv
    <3>5. u \notin redone' => WorkFits(w, s.answered, inSession'[u], u \in forgotten')
      <4> SUFFICES ASSUME u \notin redone'
                   PROVE  WorkFits(w, s.answered, inSession'[u], u \in forgotten')
        OBVIOUS
      <4>1. u \in forgotten => u \in forgotten'
        OBVIOUS
      <4>2. \/ inSession'[u] = inSession[u] \/ u \in forgotten'
            \/ w.at = "idle" /\ inSession'[u] = 0
        BY <2>2
      <4> HIDE DEF w, s
      <4> QED
        BY <3>3, <4>1, <4>2 DEF WorkFits
    <3>6. u \in OwnerTurns \ disturbed' => ImagesFit(u, w, imageField')
      <4>1. u \in OwnerTurns \ disturbed' => imageField' = imageField \/ w.at \in {"idle", "done", "failed"}
        BY <2>2
      <4> HIDE DEF w
      <4> QED
        BY <3>4, <4>1 DEF ImagesFit
    <3> QED
      BY <3>1, <3>2, <3>5, <3>6
  <2> QED
    BY <2>1, <2>2
<1> QED
  BY <1>1, <1>3, <1>4 DEF RouteInv

\* A step that leaves the records, the images and the histories alone.
LEMMA QuietTurn ==
  ASSUME RouteInv, NEW t \in AllTurns, NEW x \in TurnRecords, turn' = [turn EXCEPT ![t] = x],
         UNCHANGED <<spoken, inSession, imageField, redone, forgotten, disturbed>>,
         toolError' \in BOOLEAN, routeFaults' \in 0..RouteFaults,
         RouteFits(t, x), AskedFits(x, spoken[t].asked),
         t \notin redone => WorkFits(x, spoken[t].answered, inSession[t], t \in forgotten),
         t \in OwnerTurns \ disturbed => ImagesFit(t, x, imageField),
         turn[t].at \notin {"idle", "done", "failed"}
  PROVE  RouteInv'
<1>1. /\ spoken \in [AllTurns -> SpokenCounts] /\ inSession \in [AllTurns -> Nat]
      /\ imageField \in SUBSET AllTurns /\ Cardinality(imageField) <= 1
      /\ redone \subseteq AllTurns /\ forgotten \subseteq AllTurns /\ disturbed \subseteq AllTurns
  BY RouteTypes DEF RouteInv
<1>2. spoken' = [spoken EXCEPT ![t] = spoken[t]] /\ spoken[t] \in SpokenCounts
  BY <1>1
<1>3. inSession' = inSession /\ inSession[t] \in Nat
  BY <1>1
<1>4. /\ imageField' = imageField /\ redone' = redone /\ forgotten' = forgotten
      /\ disturbed' = disturbed
  OBVIOUS
<1> QED
  BY <1>1, <1>2, <1>3, <1>4, TurnStep

\* What is known of the turn that moves.
LEMMA TurnKnown ==
  ASSUME RouteInv, NEW t \in AllTurns
  PROVE  /\ turn \in [AllTurns -> TurnRecords] /\ spoken \in [AllTurns -> SpokenCounts]
         /\ inSession \in [AllTurns -> Nat] /\ toolError \in BOOLEAN
         /\ imageField \in SUBSET AllTurns /\ Cardinality(imageField) <= 1
         /\ routeFaults \in 0..RouteFaults
         /\ redone \subseteq AllTurns /\ forgotten \subseteq AllTurns /\ disturbed \subseteq AllTurns
         /\ turn[t] \in TurnRecords /\ spoken[t] \in SpokenCounts /\ inSession[t] \in Nat
         /\ RouteFits(t, turn[t])
         /\ AskedFits(turn[t], spoken[t].asked)
         /\ t \notin redone => WorkFits(turn[t], spoken[t].answered, inSession[t], t \in forgotten)
         /\ t \in OwnerTurns \ disturbed => ImagesFit(t, turn[t], imageField)
BY RouteTypes DEF RouteInv

\* A fault is counted, up to the bound.
LEMMA RouteFaultsCounted ==
  ASSUME RouteInv PROVE /\ RouteFault => routeFaults' \in 0..RouteFaults
                        /\ routeFaults' = routeFaults => routeFaults' \in 0..RouteFaults
BY RouteTypes, RouteFaultsIsNatural DEF RouteInv, RouteFault

\* The place of each route is a number.
LEMMA PlacesAreNumbers == \A r \in Routes : Place[r] \in Nat
BY DEF Routes, Place

\* The routes left have a first one.
LEMMA FirstRoute ==
  ASSUME NEW open \in SUBSET Routes, "agent" \in open
  PROVE  (CHOOSE r \in open : \A s \in open : Place[r] <= Place[s]) \in open
<1> DEFINE places == {Place[r] : r \in open}
<1>1. places \subseteq Nat
  BY PlacesAreNumbers
<1>2. places # {}
  BY Zenon
<1>3. \E n \in places : \A m \in places : n <= m
  <2> HIDE DEF places
  <2> QED
    BY <1>1, <1>2, LeastNumber
<1>4. \E r \in open : \A s \in open : Place[r] <= Place[s]
  BY <1>3
<1> QED
  BY <1>4

\* A turn that goes on, and one that did its work.
LEMMA TurnsGoOn ==
  ASSUME NEW w \in TurnRecords,
         NEW s \in {"rerouting", "checking", "recording", "remembering", "posting", "returning",
                    "clearing", "done", "failed", "stale"},
         NEW made \in BOOLEAN
  PROVE  /\ [w EXCEPT !.at = s] \in TurnRecords
         /\ [w EXCEPT !.at = s, !.work = @ + 1] \in TurnRecords
         /\ [w EXCEPT !.at = s, !.work = @ + 1, !.made = made] \in TurnRecords
         /\ [w EXCEPT !.at = s, !.work = @ + 1, !.rerouted = TRUE] \in TurnRecords
<1>1. w.work + 1 \in Nat
  BY DEF TurnRecords
<1> QED
  BY <1>1 DEF TurnRecords

\* The turn takes the first route, or begins to work on an answer.
LEMMA RoutingSteps ==
  ASSUME RouteInv, NEW t \in AllTurns, TakeRoute(t) PROVE RouteInv'
<1> DEFINE open == IF toolError THEN turn[t].left ELSE turn[t].left \ {"fix_it"}
           first == CHOOSE r \in open : \A s \in open : Place[r] <= Place[s]
<1>k. /\ turn \in [AllTurns -> TurnRecords] /\ turn[t] \in TurnRecords
      /\ RouteFits(t, turn[t])
      /\ AskedFits(turn[t], spoken[t].asked)
      /\ t \notin redone => WorkFits(turn[t], spoken[t].answered, inSession[t], t \in forgotten)
      /\ t \in OwnerTurns \ disturbed => ImagesFit(t, turn[t], imageField)
      /\ toolError \in BOOLEAN /\ routeFaults \in 0..RouteFaults
  BY TurnKnown
<1>1. /\ turn[t].at = "routing"
      /\ turn' = [turn EXCEPT ![t].at = "working", ![t].route = first, ![t].left = open]
      /\ UNCHANGED <<spoken, inSession, toolError, imageField, routeFaults, redone, forgotten,
                     disturbed>>
  BY DEF TakeRoute
<1>2. open \in SUBSET Routes /\ "agent" \in open
  BY <1>k, <1>1 DEF RouteFits, TurnRecords
<1>3. first \in open
  BY <1>2, FirstRoute
<1> HIDE DEF open, first
<1>4. PICK x : x = [turn[t] EXCEPT !.at = "working", !.route = first, !.left = open]
  OBVIOUS
<1>5. turn' = [turn EXCEPT ![t] = x]
  BY <1>k, <1>1, <1>4
<1>6. x \in TurnRecords
  BY <1>k, <1>2, <1>3, <1>4 DEF TurnRecords
<1>7. RouteFits(t, x) /\ AskedFits(x, spoken[t].asked)
  BY <1>k, <1>1, <1>2, <1>4 DEF RouteFits, AskedFits, TurnRecords
<1>8. t \notin redone => WorkFits(x, spoken[t].answered, inSession[t], t \in forgotten)
  BY <1>k, <1>1, <1>4 DEF WorkFits, TurnRecords
<1>9. t \in OwnerTurns \ disturbed => ImagesFit(t, x, imageField)
  BY <1>k, <1>1, <1>4 DEF ImagesFit, TurnRecords
<1> QED
  BY <1>k, <1>1, <1>5, <1>6, <1>7, <1>8, <1>9, QuietTurn

\* The routes that answer at once and keep no copy.
LEMMA AnswerSteps ==
  ASSUME RouteInv, NEW t \in AllTurns, AnswerDirectly(t) \/ CreateWatch(t) \/ FanOut(t)
  PROVE  RouteInv'
<1>k. /\ turn \in [AllTurns -> TurnRecords] /\ turn[t] \in TurnRecords
      /\ RouteFits(t, turn[t])
      /\ AskedFits(turn[t], spoken[t].asked)
      /\ t \notin redone => WorkFits(turn[t], spoken[t].answered, inSession[t], t \in forgotten)
      /\ t \in OwnerTurns \ disturbed => ImagesFit(t, turn[t], imageField)
      /\ toolError \in BOOLEAN /\ routeFaults \in 0..RouteFaults /\ inSession[t] \in Nat
  BY TurnKnown
<1>1. /\ turn[t].at = "working" /\ turn[t].route \in {"pending", "google", "watch", "fan_out"}
      /\ turn' = [turn EXCEPT ![t].at = "recording", ![t].work = @ + 1]
      /\ UNCHANGED <<spoken, inSession, toolError, imageField, routeFaults, redone, forgotten,
                     disturbed>>
  BY DEF AnswerDirectly, CreateWatch, FanOut, Works
<1>4. PICK x : x = [turn[t] EXCEPT !.at = "recording", !.work = @ + 1]
  OBVIOUS
<1>5. turn' = [turn EXCEPT ![t] = x]
  BY <1>k, <1>1, <1>4
<1>6. x \in TurnRecords
  BY <1>k, <1>4, TurnsGoOn
<1>7. RouteFits(t, x) /\ AskedFits(x, spoken[t].asked)
  BY <1>k, <1>1, <1>4 DEF RouteFits, AskedFits, TurnRecords
<1>8. t \notin redone => WorkFits(x, spoken[t].answered, inSession[t], t \in forgotten)
  BY <1>k, <1>1, <1>4 DEF WorkFits, RouteFits, CopiesOf, TurnRecords
<1>9. t \in OwnerTurns \ disturbed => ImagesFit(t, x, imageField)
  BY <1>k, <1>1, <1>4 DEF ImagesFit, TurnRecords
<1> QED
  BY <1>k, <1>1, <1>5, <1>6, <1>7, <1>8, <1>9, QuietTurn

\* The routes that save a copy, or two, in the agents' session.
LEMMA SavingSteps ==
  ASSUME RouteInv, NEW t \in AllTurns, RepairDirectly(t) \/ RunAgent(t) \/ RerouteToRepair(t)
  PROVE  RouteInv'
<1>k. /\ turn \in [AllTurns -> TurnRecords] /\ spoken \in [AllTurns -> SpokenCounts]
      /\ inSession \in [AllTurns -> Nat] /\ toolError \in BOOLEAN
      /\ imageField \in SUBSET AllTurns /\ Cardinality(imageField) <= 1
      /\ routeFaults \in 0..RouteFaults
      /\ redone \subseteq AllTurns /\ forgotten \subseteq AllTurns /\ disturbed \subseteq AllTurns
      /\ turn[t] \in TurnRecords /\ spoken[t] \in SpokenCounts /\ inSession[t] \in Nat
      /\ RouteFits(t, turn[t])
      /\ AskedFits(turn[t], spoken[t].asked)
      /\ t \notin redone => WorkFits(turn[t], spoken[t].answered, inSession[t], t \in forgotten)
      /\ t \in OwnerTurns \ disturbed => ImagesFit(t, turn[t], imageField)
  BY TurnKnown
<1>1. /\ inSession' = [inSession EXCEPT ![t] = @ + 1]
      /\ UNCHANGED <<spoken, toolError, imageField, routeFaults, redone, forgotten, disturbed>>
  BY DEF RepairDirectly, RunAgent, RerouteToRepair
<1>2. PICK x : /\ turn' = [turn EXCEPT ![t] = x]
               /\ \/ /\ turn[t].at = "working" /\ turn[t].route \in {"fix_it", "repair"}
                     /\ x = [turn[t] EXCEPT !.at = "recording", !.work = @ + 1]
                  \/ /\ turn[t].at = "working" /\ turn[t].route = "agent"
                     /\ \E s \in {"rerouting", "checking"}, image \in BOOLEAN :
                          x = [turn[t] EXCEPT !.at = s, !.work = @ + 1, !.made = image]
                  \/ /\ turn[t].at = "rerouting"
                     /\ x = [turn[t] EXCEPT !.at = "checking", !.work = @ + 1, !.rerouted = TRUE]
  <2>1. CASE RepairDirectly(t)
    BY <1>k, <2>1 DEF RepairDirectly, Works
  <2>2. CASE RunAgent(t)
    <3>1. PICK s \in {"rerouting", "checking"}, image \in BOOLEAN :
            turn' = [turn EXCEPT ![t].at = s, ![t].work = @ + 1, ![t].made = image]
      BY <2>2 DEF RunAgent
    <3>2. turn' = [turn EXCEPT ![t] = [turn[t] EXCEPT !.at = s, !.work = @ + 1, !.made = image]]
      BY <1>k, <3>1
    <3> QED
      BY <2>2, <3>2 DEF RunAgent
  <2>3. CASE RerouteToRepair(t)
    BY <1>k, <2>3 DEF RerouteToRepair
  <2> QED
    BY <2>1, <2>2, <2>3
<1>3. /\ x \in TurnRecords
      /\ RouteFits(t, x) /\ AskedFits(x, spoken[t].asked)
      /\ t \notin redone => WorkFits(x, spoken[t].answered, inSession[t] + 1, t \in forgotten)
      /\ t \in OwnerTurns \ disturbed => ImagesFit(t, x, imageField)
  <2>1. CASE /\ turn[t].at = "working" /\ turn[t].route \in {"fix_it", "repair"}
             /\ x = [turn[t] EXCEPT !.at = "recording", !.work = @ + 1]
    <3>1. x \in TurnRecords
      BY <1>k, <2>1, TurnsGoOn
    <3>2. RouteFits(t, x) /\ AskedFits(x, spoken[t].asked)
      BY <1>k, <2>1 DEF RouteFits, AskedFits, TurnRecords
    <3>3. t \notin redone => WorkFits(x, spoken[t].answered, inSession[t] + 1, t \in forgotten)
      BY <1>k, <2>1 DEF WorkFits, RouteFits, CopiesOf, TurnRecords
    <3>4. t \in OwnerTurns \ disturbed => ImagesFit(t, x, imageField)
      BY <1>k, <2>1 DEF ImagesFit, TurnRecords
    <3> QED
      BY <3>1, <3>2, <3>3, <3>4
  <2>2. CASE /\ turn[t].at = "working" /\ turn[t].route = "agent"
             /\ \E s \in {"rerouting", "checking"}, image \in BOOLEAN :
                  x = [turn[t] EXCEPT !.at = s, !.work = @ + 1, !.made = image]
    <3>0. PICK s \in {"rerouting", "checking"}, image \in BOOLEAN :
            x = [turn[t] EXCEPT !.at = s, !.work = @ + 1, !.made = image]
      BY <2>2
    <3>1. x \in TurnRecords
      BY <1>k, <2>2, <3>0, TurnsGoOn
    <3>2. RouteFits(t, x) /\ AskedFits(x, spoken[t].asked)
      BY <1>k, <2>2, <3>0 DEF RouteFits, AskedFits, TurnRecords
    <3>3. t \notin redone => WorkFits(x, spoken[t].answered, inSession[t] + 1, t \in forgotten)
      BY <1>k, <2>2, <3>0 DEF WorkFits, RouteFits, CopiesOf, TurnRecords
    <3>4. t \in OwnerTurns \ disturbed => ImagesFit(t, x, imageField)
      BY <1>k, <2>2, <3>0 DEF ImagesFit, TurnRecords
    <3> QED
      BY <3>1, <3>2, <3>3, <3>4
  <2>3. CASE /\ turn[t].at = "rerouting"
             /\ x = [turn[t] EXCEPT !.at = "checking", !.work = @ + 1, !.rerouted = TRUE]
    <3>1. x \in TurnRecords
      BY <1>k, <2>3, TurnsGoOn
    <3>2. RouteFits(t, x) /\ AskedFits(x, spoken[t].asked)
      BY <1>k, <2>3 DEF RouteFits, AskedFits, TurnRecords
    <3>3. t \notin redone => WorkFits(x, spoken[t].answered, inSession[t] + 1, t \in forgotten)
      BY <1>k, <2>3 DEF WorkFits, RouteFits, CopiesOf, TurnRecords
    <3>4. t \in OwnerTurns \ disturbed => ImagesFit(t, x, imageField)
      BY <1>k, <2>3 DEF ImagesFit, TurnRecords
    <3> QED
      BY <3>1, <3>2, <3>3, <3>4
  <2> QED
    BY <1>2, <2>1, <2>2, <2>3
<1>4. /\ inSession' \in [AllTurns -> Nat] /\ inSession'[t] = inSession[t] + 1 /\ inSession[t] + 1 \in Nat
      /\ \A u \in AllTurns : u # t => inSession'[u] = inSession[u]
  BY <1>k, <1>1
<1>5. spoken' = [spoken EXCEPT ![t] = spoken[t]]
  BY <1>k, <1>1
<1>6. turn[t].at \notin {"idle", "done", "failed"}
  BY <1>2
<1>7. /\ toolError' \in BOOLEAN /\ imageField' = imageField /\ routeFaults' \in 0..RouteFaults
      /\ redone' = redone /\ forgotten' = forgotten /\ disturbed' = disturbed
  BY <1>k, <1>1
<1> QED
  BY <1>k, <1>2, <1>3, <1>4, <1>5, <1>6, <1>7, TurnStep

\* An answer is looked at for an error, a call fails, or the turn takes too long.
LEMMA PlainSteps ==
  ASSUME RouteInv, NEW t \in AllTurns, CheckForToolError(t) \/ RouteFails(t) \/ TimeOut(t)
  PROVE  RouteInv'
<1>k. /\ turn \in [AllTurns -> TurnRecords] /\ turn[t] \in TurnRecords
      /\ RouteFits(t, turn[t])
      /\ AskedFits(turn[t], spoken[t].asked)
      /\ t \notin redone => WorkFits(turn[t], spoken[t].answered, inSession[t], t \in forgotten)
      /\ t \in OwnerTurns \ disturbed => ImagesFit(t, turn[t], imageField)
      /\ toolError \in BOOLEAN /\ routeFaults \in 0..RouteFaults /\ inSession[t] \in Nat
  BY TurnKnown
<1>1. /\ UNCHANGED <<spoken, inSession, imageField, redone, forgotten, disturbed>>
      /\ toolError' \in BOOLEAN /\ routeFaults' \in 0..RouteFaults
  <2>1. CASE CheckForToolError(t)
    <3>1. PICK said \in BOOLEAN : toolError' = (toolError \/ said)
      BY <2>1 DEF CheckForToolError
    <3>2. toolError' \in BOOLEAN
      BY <3>1
    <3> QED
      BY <1>k, <2>1, <3>2 DEF CheckForToolError
  <2>2. CASE RouteFails(t)
    BY <1>k, <2>2, RouteFaultsCounted DEF RouteFails
  <2>3. CASE TimeOut(t)
    BY <1>k, <2>3, RouteFaultsCounted DEF TimeOut
  <2> QED
    BY <2>1, <2>2, <2>3
<1>2. PICK x : /\ turn' = [turn EXCEPT ![t] = x]
               /\ \/ /\ turn[t].at = "checking" /\ x = [turn[t] EXCEPT !.at = "recording"]
                  \/ /\ turn[t].at \in {"working", "rerouting", "checking"}
                     /\ turn[t].route \in Guarded
                     /\ x = [turn[t] EXCEPT !.at = "routing", !.left = @ \ {turn[t].route}]
                  \/ /\ turn[t].at \notin {"idle", "done", "failed"}
                     /\ x = [turn[t] EXCEPT !.at = "failed"]
  <2>1. CASE CheckForToolError(t)
    BY <1>k, <2>1 DEF CheckForToolError, At
  <2>2. CASE RouteFails(t)
    <3>1. turn[t].at \in {"working", "rerouting", "checking"}
      BY <2>2 DEF RouteFails
    <3>2. CASE turn[t].route \in Guarded
      <4>1. turn' = [turn EXCEPT ![t].at = "routing", ![t].left = @ \ {turn[t].route}]
        BY <2>2, <3>2 DEF RouteFails, Raises
      <4>2. turn' = [turn EXCEPT ![t] = [turn[t] EXCEPT !.at = "routing", !.left = @ \ {turn[t].route}]]
        BY <1>k, <4>1
      <4> QED
        BY <3>1, <3>2, <4>2
    <3>3. CASE turn[t].route \notin Guarded
      <4>1. turn' = [turn EXCEPT ![t] = [turn[t] EXCEPT !.at = "failed"]]
        BY <1>k, <2>2, <3>3 DEF RouteFails, Raises
      <4> QED
        BY <3>1, <4>1
    <3> QED
      BY <3>2, <3>3
  <2>3. CASE TimeOut(t)
    <3>1. turn' = [turn EXCEPT ![t] = [turn[t] EXCEPT !.at = "failed"]]
      BY <1>k, <2>3 DEF TimeOut, At
    <3> QED
      BY <2>3, <3>1 DEF TimeOut, UnderWay
  <2> QED
    BY <2>1, <2>2, <2>3
<1>3. /\ x \in TurnRecords
      /\ RouteFits(t, x) /\ AskedFits(x, spoken[t].asked)
      /\ t \notin redone => WorkFits(x, spoken[t].answered, inSession[t], t \in forgotten)
      /\ t \in OwnerTurns \ disturbed => ImagesFit(t, x, imageField)
  <2>1. CASE turn[t].at = "checking" /\ x = [turn[t] EXCEPT !.at = "recording"]
    <3>1. x \in TurnRecords
      BY <1>k, <2>1, TurnsGoOn
    <3>2. RouteFits(t, x) /\ AskedFits(x, spoken[t].asked)
      BY <1>k, <2>1 DEF RouteFits, AskedFits, TurnRecords
    <3>3. t \notin redone => WorkFits(x, spoken[t].answered, inSession[t], t \in forgotten)
      BY <1>k, <2>1 DEF WorkFits, RouteFits, CopiesOf, TurnRecords
    <3>4. t \in OwnerTurns \ disturbed => ImagesFit(t, x, imageField)
      BY <1>k, <2>1 DEF ImagesFit, RouteFits, TurnRecords
    <3> QED
      BY <3>1, <3>2, <3>3, <3>4
  <2>2. CASE /\ turn[t].at \in {"working", "rerouting", "checking"}
             /\ turn[t].route \in Guarded
             /\ x = [turn[t] EXCEPT !.at = "routing", !.left = @ \ {turn[t].route}]
    <3>0. turn[t].at = "working"
      BY <1>k, <2>2 DEF RouteFits, Guarded
    <3>1. x \in TurnRecords
      BY <1>k, <2>2 DEF TurnRecords
    <3>2. RouteFits(t, x) /\ AskedFits(x, spoken[t].asked)
      BY <1>k, <2>2, <3>0 DEF RouteFits, AskedFits, TurnRecords, Guarded
    <3>3. t \notin redone => WorkFits(x, spoken[t].answered, inSession[t], t \in forgotten)
      BY <1>k, <2>2, <3>0 DEF WorkFits, TurnRecords
    <3>4. t \in OwnerTurns \ disturbed => ImagesFit(t, x, imageField)
      BY <1>k, <2>2, <3>0 DEF ImagesFit, TurnRecords
    <3> QED
      BY <3>1, <3>2, <3>3, <3>4
  <2>3. CASE /\ turn[t].at \notin {"idle", "done", "failed"}
             /\ x = [turn[t] EXCEPT !.at = "failed"]
    <3>1. x \in TurnRecords
      BY <1>k, <2>3, TurnsGoOn
    <3>2. RouteFits(t, x) /\ AskedFits(x, spoken[t].asked)
      BY <1>k, <2>3 DEF RouteFits, AskedFits, TurnRecords
    <3>3. t \notin redone => WorkFits(x, spoken[t].answered, inSession[t], t \in forgotten)
      BY <1>k, <2>3 DEF WorkFits, TurnRecords
    <3>4. t \in OwnerTurns \ disturbed => ImagesFit(t, x, imageField)
      BY <1>k, <2>3 DEF ImagesFit, TurnRecords
    <3> QED
      BY <3>1, <3>2, <3>3, <3>4
  <2> QED
    BY <1>2, <2>1, <2>2, <2>3
<1>4. turn[t].at \notin {"idle", "done", "failed"}
  BY <1>2
<1> QED
  BY <1>1, <1>2, <1>3, <1>4, QuietTurn

\* Other turns of the user are at rest when the field is cleared by one of them.
LEMMA OthersRest ==
  ASSUME RouteInv, NEW t \in OwnerTurns, NEW u \in OwnerTurns, u # t,
         turn[t].at \notin {"done", "failed"},
         turn[t].at = "idle" => \A v \in 1..(t - 1) : turn[v].at \in {"done", "failed"}
  PROVE  turn[u].at \in {"idle", "done", "failed"}
<1>1. t \in Nat /\ u \in Nat
  BY MessagesIsNatural DEF OwnerTurns
<1>2. CASE u < t
  <2>1. CASE turn[t].at = "idle"
    BY <1>1, <1>2, <2>1, MessagesIsNatural DEF OwnerTurns
  <2>2. CASE turn[t].at # "idle"
    BY <1>2, <2>2 DEF RouteInv, OwnersInOrder
  <2> QED
    BY <2>1, <2>2
<1>3. CASE t < u
  BY <1>3 DEF RouteInv, OwnersInOrder
<1> QED
  BY <1>1, <1>2, <1>3

\* A turn begins, for the first time or once more.
LEMMA BeginStep ==
  ASSUME RouteInv, NEW t \in AllTurns, BeginRouted(t) PROVE RouteInv'
<1>k. /\ turn \in [AllTurns -> TurnRecords] /\ spoken \in [AllTurns -> SpokenCounts]
      /\ inSession \in [AllTurns -> Nat] /\ toolError \in BOOLEAN
      /\ imageField \in SUBSET AllTurns /\ Cardinality(imageField) <= 1
      /\ routeFaults \in 0..RouteFaults
      /\ redone \subseteq AllTurns /\ forgotten \subseteq AllTurns /\ disturbed \subseteq AllTurns
      /\ turn[t] \in TurnRecords /\ spoken[t] \in SpokenCounts /\ inSession[t] \in Nat
      /\ RouteFits(t, turn[t])
      /\ AskedFits(turn[t], spoken[t].asked)
      /\ t \notin redone => WorkFits(turn[t], spoken[t].answered, inSession[t], t \in forgotten)
  BY TurnKnown
<1>1. /\ turn[t].at \in {"idle", "stale"}
      /\ t \in OwnerTurns => \A u \in 1..(t - 1) : turn[u].at \in {"done", "failed"}
      /\ spoken' = [spoken EXCEPT ![t].asked = @ + 1]
      /\ UNCHANGED <<inSession, toolError, redone, forgotten>>
  BY DEF BeginRouted
<1>2. PICK left : /\ left \in (IF turn[t].at = "stale" THEN {turn[t].left} ELSE Readings)
                  /\ turn' = [turn EXCEPT ![t].at = "routing", ![t].left = left \union {"agent"}]
  BY DEF BeginRouted
<1>3. left \union {"agent"} \subseteq Routes
  <2>1. "agent" \in Routes
    BY DEF Routes, Place
  <2>2. left \subseteq Routes
    BY <1>k, <1>2, ReadingsAreRoutes DEF TurnRecords
  <2> QED
    BY <2>1, <2>2
<1>4. PICK x : x = [turn[t] EXCEPT !.at = "routing", !.left = left \union {"agent"}]
  OBVIOUS
<1>5. turn' = [turn EXCEPT ![t] = x] /\ x \in TurnRecords
  BY <1>k, <1>2, <1>3, <1>4 DEF TurnRecords
<1>6. PICK p : p = [spoken[t] EXCEPT !.asked = @ + 1]
  OBVIOUS
<1>7. spoken' = [spoken EXCEPT ![t] = p] /\ p \in SpokenCounts
  BY <1>k, <1>1, <1>6 DEF SpokenCounts
<1>8. RouteFits(t, x)
  BY <1>k, <1>1, <1>4 DEF RouteFits, TurnRecords, NotBegun
<1>9. AskedFits(x, p.asked)
  BY <1>k, <1>1, <1>4, <1>6 DEF RouteFits, AskedFits, TurnRecords, SpokenCounts, NotBegun
<1>10. t \notin redone => WorkFits(x, p.answered, inSession[t], t \in forgotten)
  BY <1>k, <1>1, <1>4, <1>6 DEF WorkFits, TurnRecords, SpokenCounts
<1>11. /\ imageField' \in SUBSET AllTurns /\ Cardinality(imageField') <= 1
       /\ routeFaults' \in 0..RouteFaults
       /\ disturbed \subseteq disturbed' /\ disturbed' \subseteq AllTurns
       /\ t \in OwnerTurns \ disturbed' => ImagesFit(t, x, imageField')
       /\ \A u \in OwnerTurns \ disturbed' :
            u # t => imageField' = imageField \/ turn[u].at \in {"idle", "done", "failed"}
  <2>1. CASE imageField' = ClearsStale(t) /\ NoRouteFault /\ UNCHANGED disturbed
    <3>1. CASE t \in OwnerTurns
      <4>1. imageField' = {}
        BY <2>1, <3>1 DEF ClearsStale
      <4>2. ImagesFit(t, x, imageField')
        BY <1>k, <1>4, <4>1 DEF ImagesFit, TurnRecords
      <4>3. turn[t].at \notin {"done", "failed"}
        BY <1>1
      <4>4. \A u \in OwnerTurns : u # t => turn[u].at \in {"idle", "done", "failed"}
        BY <1>1, <3>1, <4>3, OthersRest
      <4>5. imageField' \in SUBSET AllTurns /\ Cardinality(imageField') <= 1
        BY <4>1, ImageFields
      <4> QED
        BY <1>k, <2>1, <4>2, <4>4, <4>5 DEF NoRouteFault
    <3>2. CASE t \notin OwnerTurns
      BY <1>k, <2>1, <3>2 DEF ClearsStale, NoRouteFault
    <3> QED
      BY <3>1, <3>2
  <2>2. CASE /\ t \in OwnerTurns /\ RouteFault /\ disturbed' = disturbed \union {t}
             /\ UNCHANGED imageField
    BY <1>k, <2>2, RouteFaultsCounted
  <2> QED
    BY <2>1, <2>2 DEF BeginRouted
<1>12. /\ inSession' = inSession /\ toolError' \in BOOLEAN /\ redone' = redone
       /\ forgotten' = forgotten /\ turn[t].at \notin {"done", "failed"}
  BY <1>k, <1>1
<1> QED
  BY <1>k, <1>1, <1>5, <1>7, <1>8, <1>9, <1>10, <1>11, <1>12, TurnStep

\* A turn puts its images into the field.
LEMMA DrawStep ==
  ASSUME RouteInv, NEW t \in AllTurns, DrawDirectly(t) PROVE RouteInv'
<1>k. /\ turn \in [AllTurns -> TurnRecords] /\ spoken \in [AllTurns -> SpokenCounts]
      /\ inSession \in [AllTurns -> Nat] /\ toolError \in BOOLEAN
      /\ routeFaults \in 0..RouteFaults
      /\ redone \subseteq AllTurns /\ forgotten \subseteq AllTurns /\ disturbed \subseteq AllTurns
      /\ turn[t] \in TurnRecords /\ spoken[t] \in SpokenCounts /\ inSession[t] \in Nat
      /\ RouteFits(t, turn[t])
      /\ AskedFits(turn[t], spoken[t].asked)
      /\ t \notin redone => WorkFits(turn[t], spoken[t].answered, inSession[t], t \in forgotten)
  BY TurnKnown
<1>1. /\ turn[t].at = "working" /\ turn[t].route = "draw"
      /\ turn' = [turn EXCEPT ![t].at = "recording", ![t].work = @ + 1, ![t].made = TRUE]
      /\ UNCHANGED <<spoken, inSession, toolError, routeFaults, redone, forgotten>>
      /\ imageField' = {t}
      /\ disturbed' = disturbed \union {u \in OwnerTurns \intersect UnderWay : u # t}
  BY DEF DrawDirectly, PutImages
<1>2. PICK x : x = [turn[t] EXCEPT !.at = "recording", !.work = @ + 1, !.made = TRUE]
  OBVIOUS
<1>3. turn' = [turn EXCEPT ![t] = x] /\ x \in TurnRecords
  BY <1>k, <1>1, <1>2, TurnsGoOn
<1>4. RouteFits(t, x) /\ AskedFits(x, spoken[t].asked)
  BY <1>k, <1>1, <1>2 DEF RouteFits, AskedFits, TurnRecords
<1>5. t \notin redone => WorkFits(x, spoken[t].answered, inSession[t], t \in forgotten)
  BY <1>k, <1>1, <1>2 DEF WorkFits, RouteFits, CopiesOf, TurnRecords
<1>6. ImagesFit(t, x, {t})
  BY <1>k, <1>1, <1>2 DEF ImagesFit, TurnRecords
<1>7. imageField' \in SUBSET AllTurns /\ Cardinality(imageField') <= 1
  BY <1>1, ImageFields
<1>8. \A u \in OwnerTurns \ disturbed' : u # t => turn[u].at \in {"idle", "done", "failed"}
  BY <1>1 DEF UnderWay, AllTurns
<1>9. /\ spoken' = [spoken EXCEPT ![t] = spoken[t]] /\ inSession' = inSession
      /\ disturbed \subseteq disturbed' /\ disturbed' \subseteq AllTurns
  BY <1>k, <1>1 DEF UnderWay
<1>10. /\ toolError' \in BOOLEAN /\ routeFaults' \in 0..RouteFaults /\ redone' = redone
       /\ forgotten' = forgotten /\ turn[t].at \notin {"idle", "done", "failed"}
  BY <1>k, <1>1
<1>11. t \in OwnerTurns \ disturbed' => ImagesFit(t, x, imageField')
  BY <1>1, <1>6
<1> QED
  BY <1>k, <1>3, <1>4, <1>5, <1>7, <1>8, <1>9, <1>10, <1>11, TurnStep

\* The agents' session is cleared, and the turn is to begin once more.
LEMMA RetryStep ==
  ASSUME RouteInv, NEW t \in AllTurns, ClearAndRetry(t) PROVE RouteInv'
<1>k. /\ turn \in [AllTurns -> TurnRecords] /\ spoken \in [AllTurns -> SpokenCounts]
      /\ inSession \in [AllTurns -> Nat] /\ toolError \in BOOLEAN
      /\ imageField \in SUBSET AllTurns /\ Cardinality(imageField) <= 1
      /\ redone \subseteq AllTurns /\ forgotten \subseteq AllTurns /\ disturbed \subseteq AllTurns
      /\ turn[t] \in TurnRecords /\ spoken[t] \in SpokenCounts
      /\ RouteFits(t, turn[t])
      /\ AskedFits(turn[t], spoken[t].asked)
      /\ t \notin redone => WorkFits(turn[t], spoken[t].answered, inSession[t], t \in forgotten)
      /\ t \in OwnerTurns \ disturbed => ImagesFit(t, turn[t], imageField)
  BY TurnKnown
<1>1. /\ turn[t].at = "working" /\ ~turn[t].retried
      /\ turn' = [turn EXCEPT ![t].at = "stale", ![t].retried = TRUE]
      /\ inSession' = [u \in AllTurns |-> 0]
      /\ forgotten' = forgotten \union {u \in AllTurns \ {t} : turn[u].at # "idle"}
      /\ UNCHANGED <<spoken, toolError, imageField, redone, disturbed>>
      /\ routeFaults' \in 0..RouteFaults
  BY RouteFaultsCounted DEF ClearAndRetry
<1>2. PICK x : x = [turn[t] EXCEPT !.at = "stale", !.retried = TRUE]
  OBVIOUS
<1>3. turn' = [turn EXCEPT ![t] = x] /\ x \in TurnRecords
  BY <1>k, <1>1, <1>2 DEF TurnRecords
<1>4. RouteFits(t, x) /\ AskedFits(x, spoken[t].asked)
  BY <1>k, <1>1, <1>2 DEF RouteFits, AskedFits, TurnRecords
<1>5. t \notin redone => WorkFits(x, spoken[t].answered, 0, t \in forgotten')
  BY <1>k, <1>1, <1>2 DEF WorkFits, TurnRecords
<1>6. t \in OwnerTurns \ disturbed => ImagesFit(t, x, imageField)
  BY <1>k, <1>1, <1>2 DEF ImagesFit, TurnRecords
<1>7. /\ inSession' \in [AllTurns -> Nat] /\ inSession'[t] = 0
      /\ \A u \in AllTurns : u # t => \/ inSession'[u] = inSession[u]
                                      \/ u \in forgotten'
                                      \/ turn[u].at = "idle" /\ inSession'[u] = 0
      /\ forgotten \subseteq forgotten' /\ forgotten' \subseteq AllTurns
  BY <1>k, <1>1
<1>8. spoken' = [spoken EXCEPT ![t] = spoken[t]]
  BY <1>k, <1>1
<1>9. /\ toolError' \in BOOLEAN /\ routeFaults' \in 0..RouteFaults
      /\ imageField' = imageField /\ redone' = redone /\ disturbed' = disturbed
      /\ turn[t].at \notin {"idle", "done", "failed"}
  BY <1>k, <1>1
<1>10. /\ imageField' \in SUBSET AllTurns /\ Cardinality(imageField') <= 1
       /\ redone \subseteq redone' /\ redone' \subseteq AllTurns
       /\ disturbed \subseteq disturbed' /\ disturbed' \subseteq AllTurns
  BY <1>k, <1>9
<1>11. /\ t \notin redone' => WorkFits(x, spoken[t].answered, 0, t \in forgotten')
       /\ t \in OwnerTurns \ disturbed' => ImagesFit(t, x, imageField')
  BY <1>5, <1>6, <1>9
<1> QED
  BY <1>k, <1>3, <1>4, <1>7, <1>8, <1>9, <1>10, <1>11, TurnStep

\* The answer is said, or its record fails.
LEMMA SayingSteps ==
  ASSUME RouteInv, NEW t \in AllTurns, SayAnswer(t) \/ SayFails(t) PROVE RouteInv'
<1>k. /\ turn \in [AllTurns -> TurnRecords] /\ spoken \in [AllTurns -> SpokenCounts]
      /\ inSession \in [AllTurns -> Nat] /\ toolError \in BOOLEAN
      /\ imageField \in SUBSET AllTurns /\ Cardinality(imageField) <= 1
      /\ routeFaults \in 0..RouteFaults
      /\ redone \subseteq AllTurns /\ forgotten \subseteq AllTurns /\ disturbed \subseteq AllTurns
      /\ turn[t] \in TurnRecords /\ spoken[t] \in SpokenCounts /\ inSession[t] \in Nat
      /\ RouteFits(t, turn[t])
      /\ AskedFits(turn[t], spoken[t].asked)
      /\ t \notin redone => WorkFits(turn[t], spoken[t].answered, inSession[t], t \in forgotten)
      /\ t \in OwnerTurns \ disturbed => ImagesFit(t, turn[t], imageField)
  BY TurnKnown
<1>1. /\ turn[t].at = "recording"
      /\ UNCHANGED <<inSession, toolError, imageField, forgotten, disturbed>>
      /\ redone \subseteq redone' /\ redone' \subseteq AllTurns
      /\ routeFaults' \in 0..RouteFaults
  <2>1. CASE SayAnswer(t)
    BY <1>k, <2>1 DEF SayAnswer
  <2>2. CASE SayFails(t)
    BY <1>k, <2>2, RouteFaultsCounted DEF SayFails
  <2> QED
    BY <2>1, <2>2
<1>2. PICK posted \in {0, 1} : spoken' = [spoken EXCEPT ![t].answered = @ + posted]
                               /\ (SayAnswer(t) => posted = 1)
  <2>1. CASE SayAnswer(t)
    BY <2>1 DEF SayAnswer
  <2>2. CASE ~SayAnswer(t)
    BY <2>2 DEF SayFails
  <2> QED
    BY <2>1, <2>2
<1>3. PICK p : p = [spoken[t] EXCEPT !.answered = @ + posted]
  OBVIOUS
<1>4. spoken' = [spoken EXCEPT ![t] = p] /\ p \in SpokenCounts /\ p.asked = spoken[t].asked
  <2>1. spoken[t].answered + posted \in Nat
    BY <1>k DEF SpokenCounts
  <2> QED
    BY <1>k, <1>2, <1>3, <2>1 DEF SpokenCounts
<1>5. PICK x : /\ turn' = [turn EXCEPT ![t] = x] /\ x \in TurnRecords
               /\ RouteFits(t, x) /\ AskedFits(x, p.asked)
               /\ t \notin redone' => WorkFits(x, p.answered, inSession[t], t \in forgotten)
               /\ t \in OwnerTurns \ disturbed => ImagesFit(t, x, imageField)
  <2>1. CASE SayAnswer(t)
    <3>0. PICK x : /\ turn' = [turn EXCEPT ![t] = x]
                   /\ x = [turn[t] EXCEPT !.at = IF turn[t].route = "agent" THEN "posting" ELSE "remembering"]
      BY <1>k, <2>1 DEF SayAnswer, At
    <3>1. x \in TurnRecords
      BY <1>k, <3>0, TurnsGoOn
    <3>2. RouteFits(t, x) /\ AskedFits(x, p.asked)
      BY <1>k, <1>1, <1>4, <3>0 DEF RouteFits, AskedFits, TurnRecords
    <3>3. p.answered = spoken[t].answered + 1
      BY <1>k, <1>2, <1>3, <2>1 DEF SpokenCounts
    <3>4. t \notin redone => WorkFits(x, p.answered, inSession[t], t \in forgotten)
      BY <1>k, <1>1, <3>0, <3>3 DEF WorkFits, CopiesOf, TurnRecords
    <3>5. t \in OwnerTurns \ disturbed => ImagesFit(t, x, imageField)
      BY <1>k, <1>1, <3>0 DEF ImagesFit, TurnRecords
    <3> QED
      BY <1>1, <3>0, <3>1, <3>2, <3>4, <3>5
  <2>2. CASE SayFails(t)
    <3>1. t \in redone'
      BY <2>2 DEF SayFails
    <3>2. CASE turn[t].route \in Guarded
      <4>1. turn' = [turn EXCEPT ![t].at = "routing", ![t].left = @ \ {turn[t].route}]
        BY <2>2, <3>2 DEF SayFails, Raises
      <4>2. PICK x : x = [turn[t] EXCEPT !.at = "routing", !.left = @ \ {turn[t].route}]
        OBVIOUS
      <4>3. turn' = [turn EXCEPT ![t] = x] /\ x \in TurnRecords
        BY <1>k, <4>1, <4>2 DEF TurnRecords
      <4>4. RouteFits(t, x) /\ AskedFits(x, p.asked)
        BY <1>k, <1>1, <1>4, <3>2, <4>2 DEF RouteFits, AskedFits, TurnRecords, Guarded
      <4>5. t \in OwnerTurns \ disturbed => ImagesFit(t, x, imageField)
        BY <1>k, <1>1, <3>2, <4>2 DEF ImagesFit, TurnRecords, Guarded
      <4> QED
        BY <3>1, <4>3, <4>4, <4>5
    <3>3. CASE turn[t].route \notin Guarded
      <4>1. PICK x : turn' = [turn EXCEPT ![t] = x] /\ x = [turn[t] EXCEPT !.at = "failed"]
        BY <1>k, <2>2, <3>3 DEF SayFails, Raises
      <4>2. x \in TurnRecords
        BY <1>k, <4>1, TurnsGoOn
      <4>3. RouteFits(t, x) /\ AskedFits(x, p.asked)
        BY <1>k, <1>1, <1>4, <4>1 DEF RouteFits, AskedFits, TurnRecords
      <4>4. t \in OwnerTurns \ disturbed => ImagesFit(t, x, imageField)
        BY <1>k, <1>1, <4>1 DEF ImagesFit, TurnRecords
      <4> QED
        BY <3>1, <4>1, <4>2, <4>3, <4>4
    <3> QED
      BY <3>2, <3>3
  <2> QED
    BY <2>1, <2>2
<1>6. /\ inSession' = inSession /\ toolError' \in BOOLEAN /\ imageField' = imageField
      /\ forgotten' = forgotten /\ disturbed' = disturbed
      /\ turn[t].at \notin {"idle", "done", "failed"}
  BY <1>k, <1>1
<1> QED
  BY <1>k, <1>1, <1>4, <1>5, <1>6, TurnStep

\* The last copy in the agents' session.
LEMMA RememberingSteps ==
  ASSUME RouteInv, NEW t \in AllTurns, Remember(t) \/ RememberFails(t) PROVE RouteInv'
<1>k. /\ turn \in [AllTurns -> TurnRecords] /\ spoken \in [AllTurns -> SpokenCounts]
      /\ inSession \in [AllTurns -> Nat] /\ toolError \in BOOLEAN
      /\ imageField \in SUBSET AllTurns /\ Cardinality(imageField) <= 1
      /\ routeFaults \in 0..RouteFaults
      /\ redone \subseteq AllTurns /\ forgotten \subseteq AllTurns /\ disturbed \subseteq AllTurns
      /\ turn[t] \in TurnRecords /\ spoken[t] \in SpokenCounts /\ inSession[t] \in Nat
      /\ RouteFits(t, turn[t])
      /\ AskedFits(turn[t], spoken[t].asked)
      /\ t \notin redone => WorkFits(turn[t], spoken[t].answered, inSession[t], t \in forgotten)
      /\ t \in OwnerTurns \ disturbed => ImagesFit(t, turn[t], imageField)
  BY TurnKnown
<1>1. /\ turn[t].at = "remembering"
      /\ UNCHANGED <<spoken, toolError, imageField, redone, disturbed>>
      /\ routeFaults' \in 0..RouteFaults
  <2>1. CASE Remember(t)
    BY <1>k, <2>1 DEF Remember
  <2>2. CASE RememberFails(t)
    BY <2>2, RouteFaultsCounted DEF RememberFails
  <2> QED
    BY <2>1, <2>2
<1>2. PICK x : turn' = [turn EXCEPT ![t] = x] /\ x = [turn[t] EXCEPT !.at = "returning"]
  BY <1>k DEF Remember, RememberFails, At
<1>3. x \in TurnRecords
  BY <1>k, <1>2, TurnsGoOn
<1>4. RouteFits(t, x) /\ AskedFits(x, spoken[t].asked)
  BY <1>k, <1>1, <1>2 DEF RouteFits, AskedFits, TurnRecords
<1>5. t \in OwnerTurns \ disturbed => ImagesFit(t, x, imageField)
  BY <1>k, <1>1, <1>2 DEF ImagesFit, RouteFits, TurnRecords
<1>6. PICK k \in Nat : /\ inSession' = [inSession EXCEPT ![t] = k]
                       /\ \/ k = inSession[t] + 1 /\ forgotten' = forgotten
                          \/ forgotten' = forgotten \union {t}
  <2>1. CASE Remember(t)
    <3>1. inSession' = [inSession EXCEPT ![t] = inSession[t] + 1] /\ forgotten' = forgotten
      BY <2>1 DEF Remember
    <3>2. inSession[t] + 1 \in Nat
      BY <1>k
    <3> QED
      BY <3>1, <3>2
  <2>2. CASE RememberFails(t)
    <3>1. inSession' = [inSession EXCEPT ![t] = inSession[t]] /\ forgotten' = forgotten \union {t}
      BY <1>k, <2>2 DEF RememberFails
    <3> QED
      BY <1>k, <3>1
  <2> QED
    BY <2>1, <2>2
<1>7. t \notin redone => WorkFits(x, spoken[t].answered, k, t \in forgotten')
  <2> SUFFICES ASSUME t \notin redone PROVE WorkFits(x, spoken[t].answered, k, t \in forgotten')
    OBVIOUS
  <2>1. CASE k = inSession[t] + 1 /\ forgotten' = forgotten
    BY <1>k, <1>1, <1>2, <2>1 DEF WorkFits, RouteFits, CopiesOf, TurnRecords
  <2>2. CASE t \in forgotten'
    BY <1>k, <1>1, <1>2, <2>2 DEF WorkFits, TurnRecords
  <2> QED
    BY <1>6, <2>1, <2>2
<1>8. /\ inSession' \in [AllTurns -> Nat] /\ inSession'[t] = k
      /\ \A u \in AllTurns : u # t => inSession'[u] = inSession[u]
      /\ forgotten \subseteq forgotten' /\ forgotten' \subseteq AllTurns
  BY <1>k, <1>6
<1>9. spoken' = [spoken EXCEPT ![t] = spoken[t]]
  BY <1>k, <1>1
<1>10. /\ toolError' \in BOOLEAN /\ routeFaults' \in 0..RouteFaults
       /\ imageField' = imageField /\ redone' = redone /\ disturbed' = disturbed
       /\ turn[t].at \notin {"idle", "done", "failed"}
  BY <1>k, <1>1
<1>11. /\ imageField' \in SUBSET AllTurns /\ Cardinality(imageField') <= 1
       /\ redone \subseteq redone' /\ redone' \subseteq AllTurns
       /\ disturbed \subseteq disturbed' /\ disturbed' \subseteq AllTurns
  BY <1>k, <1>10
<1>12. /\ t \notin redone' => WorkFits(x, spoken[t].answered, k, t \in forgotten')
       /\ t \in OwnerTurns \ disturbed' => ImagesFit(t, x, imageField')
  BY <1>5, <1>7, <1>10
<1> QED
  BY <1>k, <1>2, <1>3, <1>4, <1>6, <1>8, <1>9, <1>10, <1>11, <1>12, TurnStep

\* A step of the last stages: it changes the turn, the field and the history of the field.
LEMMA FieldStep ==
  ASSUME RouteInv, NEW t \in AllTurns, NEW x \in TurnRecords, turn' = [turn EXCEPT ![t] = x],
         UNCHANGED <<spoken, inSession, toolError, redone, forgotten>>,
         routeFaults' \in 0..RouteFaults,
         imageField' \in SUBSET AllTurns, Cardinality(imageField') <= 1,
         disturbed \subseteq disturbed', disturbed' \subseteq AllTurns,
         RouteFits(t, x),
         AskedFits(turn[t], spoken[t].asked) => AskedFits(x, spoken[t].asked),
         WorkFits(turn[t], spoken[t].answered, inSession[t], t \in forgotten) =>
           WorkFits(x, spoken[t].answered, inSession[t], t \in forgotten),
         t \in OwnerTurns \ disturbed' => ImagesFit(t, x, imageField'),
         \A u \in OwnerTurns \ disturbed' :
           u # t => imageField' = imageField \/ turn[u].at \in {"idle", "done", "failed"},
         turn[t].at \notin {"idle", "done", "failed"}
  PROVE  RouteInv'
<1>k. /\ spoken \in [AllTurns -> SpokenCounts]
      /\ inSession \in [AllTurns -> Nat] /\ toolError \in BOOLEAN
      /\ redone \subseteq AllTurns /\ forgotten \subseteq AllTurns
      /\ spoken[t] \in SpokenCounts /\ inSession[t] \in Nat
      /\ AskedFits(turn[t], spoken[t].asked)
      /\ t \notin redone => WorkFits(turn[t], spoken[t].answered, inSession[t], t \in forgotten)
  BY TurnKnown
<1>1. /\ spoken' = [spoken EXCEPT ![t] = spoken[t]] /\ inSession' = inSession
      /\ toolError' \in BOOLEAN /\ redone' = redone /\ forgotten' = forgotten
  BY <1>k
<1> QED
  BY <1>k, <1>1, TurnStep

\* The agent's images go into the field.
LEMMA PostStep ==
  ASSUME RouteInv, NEW t \in AllTurns, PostImages(t) PROVE RouteInv'
<1>k. /\ turn \in [AllTurns -> TurnRecords] /\ turn[t] \in TurnRecords
      /\ imageField \in SUBSET AllTurns /\ Cardinality(imageField) <= 1
      /\ routeFaults \in 0..RouteFaults /\ disturbed \subseteq AllTurns
      /\ RouteFits(t, turn[t])
      /\ t \in OwnerTurns \ disturbed => ImagesFit(t, turn[t], imageField)
  BY TurnKnown
<1>1. turn[t].at = "posting" /\ UNCHANGED <<spoken, inSession, toolError, redone, forgotten>>
  BY DEF PostImages
<1>2. PICK x : turn' = [turn EXCEPT ![t] = x] /\ x = [turn[t] EXCEPT !.at = "returning"]
  BY <1>k DEF PostImages, At
<1>3. x \in TurnRecords
  BY <1>k, <1>2, TurnsGoOn
<1>4. /\ RouteFits(t, x)
      /\ AskedFits(turn[t], spoken[t].asked) => AskedFits(x, spoken[t].asked)
      /\ WorkFits(turn[t], spoken[t].answered, inSession[t], t \in forgotten) =>
           WorkFits(x, spoken[t].answered, inSession[t], t \in forgotten)
  BY <1>k, <1>1, <1>2 DEF RouteFits, AskedFits, WorkFits, CopiesOf, TurnRecords
<1>5. /\ imageField' \in SUBSET AllTurns /\ Cardinality(imageField') <= 1
      /\ routeFaults' \in 0..RouteFaults
      /\ disturbed \subseteq disturbed' /\ disturbed' \subseteq AllTurns
      /\ t \in OwnerTurns \ disturbed' => ImagesFit(t, x, imageField')
      /\ \A u \in OwnerTurns \ disturbed' :
           u # t => imageField' = imageField \/ turn[u].at \in {"idle", "done", "failed"}
  <2>1. CASE ~turn[t].made /\ NoRouteFault /\ UNCHANGED <<imageField, disturbed>>
    <3>1. t \in OwnerTurns \ disturbed => ImagesFit(t, x, imageField)
      BY <1>k, <1>1, <1>2, <2>1 DEF ImagesFit, TurnRecords
    <3> QED
      BY <1>k, <2>1, <3>1 DEF NoRouteFault
  <2>2. CASE turn[t].made /\ NoRouteFault /\ PutImages(t, {t})
    <3>1. /\ imageField' = {t} /\ routeFaults' = routeFaults
          /\ disturbed' = disturbed \union {u \in OwnerTurns \intersect UnderWay : u # t}
      BY <2>2 DEF PutImages, NoRouteFault
    <3>2. ImagesFit(t, x, {t})
      BY <1>k, <1>1, <1>2, <2>2 DEF ImagesFit, TurnRecords
    <3>3. \A u \in OwnerTurns \ disturbed' : u # t => turn[u].at \in {"idle", "done", "failed"}
      BY <3>1 DEF UnderWay, AllTurns
    <3>4. disturbed \subseteq disturbed' /\ disturbed' \subseteq AllTurns
      BY <1>k, <3>1 DEF UnderWay
    <3>5. imageField' \in SUBSET AllTurns /\ Cardinality(imageField') <= 1
      BY <3>1, ImageFields
    <3> QED
      BY <1>k, <3>1, <3>2, <3>3, <3>4, <3>5
  <2>3. CASE turn[t].made /\ RouteFault /\ disturbed' = disturbed \union {t} /\ UNCHANGED imageField
    BY <1>k, <2>3, RouteFaultsCounted
  <2> QED
    BY <2>1, <2>2, <2>3 DEF PostImages
<1> QED
  BY <1>1, <1>2, <1>3, <1>4, <1>5, FieldStep

\* The turn returns its answer, with what the field holds.
LEMMA ReturnStep ==
  ASSUME RouteInv, NEW t \in AllTurns, Return(t) PROVE RouteInv'
<1>k. /\ turn \in [AllTurns -> TurnRecords] /\ turn[t] \in TurnRecords
      /\ imageField \in SUBSET AllTurns /\ Cardinality(imageField) <= 1
      /\ routeFaults \in 0..RouteFaults /\ disturbed \subseteq AllTurns
      /\ RouteFits(t, turn[t])
      /\ t \in OwnerTurns \ disturbed => ImagesFit(t, turn[t], imageField)
  BY TurnKnown
<1>1. /\ turn[t].at = "returning"
      /\ UNCHANGED <<spoken, inSession, toolError, imageField, redone, forgotten>>
  BY DEF Return
<1>2. PICK x : /\ turn' = [turn EXCEPT ![t] = x]
               /\ \/ /\ t \in JobTurns /\ x = [turn[t] EXCEPT !.at = "done"]
                     /\ NoRouteFault /\ UNCHANGED disturbed
                  \/ /\ t \in OwnerTurns
                     /\ \E s \in {"clearing", "done"} :
                          x = [turn[t] EXCEPT !.at = s, !.got = imageField]
                     /\ NoRouteFault /\ UNCHANGED disturbed
                  \/ /\ t \in OwnerTurns /\ x = [turn[t] EXCEPT !.at = "done"]
                     /\ RouteFault /\ disturbed' = disturbed \union {t}
  <2>1. CASE t \in JobTurns /\ At(t, "done") /\ NoRouteFault /\ UNCHANGED disturbed
    BY <1>k, <2>1 DEF At
  <2>2. CASE /\ t \in OwnerTurns
             /\ turn' = [turn EXCEPT ![t].at = IF imageField = {} THEN "done" ELSE "clearing",
                                     ![t].got = imageField]
             /\ NoRouteFault /\ UNCHANGED disturbed
    <3>1. PICK s \in {"clearing", "done"} : s = IF imageField = {} THEN "done" ELSE "clearing"
      OBVIOUS
    <3>2. turn' = [turn EXCEPT ![t].at = s, ![t].got = imageField]
      BY <2>2, <3>1
    <3>3. turn' = [turn EXCEPT ![t] = [turn[t] EXCEPT !.at = s, !.got = imageField]]
      BY <1>k, <3>2
    <3> QED
      BY <2>2, <3>3
  <2>3. CASE t \in OwnerTurns /\ At(t, "done") /\ RouteFault /\ disturbed' = disturbed \union {t}
    BY <1>k, <2>3 DEF At
  <2> QED
    BY <2>1, <2>2, <2>3 DEF Return
<1>3. /\ x \in TurnRecords /\ x.at \in {"clearing", "done"} /\ x.left = turn[t].left
      /\ x.route = turn[t].route /\ x.work = turn[t].work /\ x.made = turn[t].made
      /\ x.rerouted = turn[t].rerouted /\ x.retried = turn[t].retried
  BY <1>k, <1>2 DEF TurnRecords
<1>4. /\ RouteFits(t, x)
      /\ AskedFits(turn[t], spoken[t].asked) => AskedFits(x, spoken[t].asked)
      /\ WorkFits(turn[t], spoken[t].answered, inSession[t], t \in forgotten) =>
           WorkFits(x, spoken[t].answered, inSession[t], t \in forgotten)
  <2>0. x.at = "clearing" => t \in OwnerTurns
    BY <1>k, <1>2 DEF TurnRecords
  <2>1. RouteFits(t, x)
    BY <1>k, <1>1, <1>3, <2>0 DEF RouteFits
  <2>2. AskedFits(turn[t], spoken[t].asked) => AskedFits(x, spoken[t].asked)
    BY <1>1, <1>3 DEF AskedFits
  <2>3. WorkFits(turn[t], spoken[t].answered, inSession[t], t \in forgotten) =>
          WorkFits(x, spoken[t].answered, inSession[t], t \in forgotten)
    BY <1>1, <1>3 DEF WorkFits, CopiesOf
  <2> QED
    BY <2>1, <2>2, <2>3
<1>5. /\ routeFaults' \in 0..RouteFaults
      /\ disturbed \subseteq disturbed' /\ disturbed' \subseteq AllTurns
      /\ t \in OwnerTurns \ disturbed' => ImagesFit(t, x, imageField)
  <2>1. CASE /\ t \in JobTurns /\ x = [turn[t] EXCEPT !.at = "done"]
             /\ NoRouteFault /\ UNCHANGED disturbed
    BY <1>k, <2>1, JobsSendNoMessages DEF NoRouteFault
  <2>2. CASE /\ t \in OwnerTurns
             /\ \E s \in {"clearing", "done"} :
                  x = [turn[t] EXCEPT !.at = s, !.got = imageField]
             /\ NoRouteFault /\ UNCHANGED disturbed
    <3>1. x.got = imageField
      BY <1>k, <2>2 DEF TurnRecords
    <3>2. t \in OwnerTurns \ disturbed => ImagesFit(t, x, imageField)
      BY <1>k, <1>1, <1>3, <3>1 DEF ImagesFit
    <3> QED
      BY <1>k, <2>2, <3>2 DEF NoRouteFault
  <2>3. CASE /\ t \in OwnerTurns /\ x = [turn[t] EXCEPT !.at = "done"]
             /\ RouteFault /\ disturbed' = disturbed \union {t}
    BY <1>k, <2>3, RouteFaultsCounted
  <2> QED
    BY <1>2, <2>1, <2>2, <2>3
<1>6. imageField' = imageField
  BY <1>1
<1> QED
  BY <1>k, <1>1, <1>2, <1>3, <1>4, <1>5, <1>6, FieldStep

\* What was read is deleted.
LEMMA ClearStep ==
  ASSUME RouteInv, NEW t \in AllTurns, ClearImages(t) PROVE RouteInv'
<1>k. /\ turn \in [AllTurns -> TurnRecords] /\ turn[t] \in TurnRecords
      /\ imageField \in SUBSET AllTurns /\ Cardinality(imageField) <= 1
      /\ routeFaults \in 0..RouteFaults /\ disturbed \subseteq AllTurns
      /\ RouteFits(t, turn[t])
      /\ t \in OwnerTurns \ disturbed => ImagesFit(t, turn[t], imageField)
  BY TurnKnown
<1>1. /\ turn[t].at = "clearing"
      /\ UNCHANGED <<spoken, inSession, toolError, redone, forgotten, disturbed>>
  BY DEF ClearImages
<1>2. PICK x : turn' = [turn EXCEPT ![t] = x] /\ x = [turn[t] EXCEPT !.at = "done"]
  BY <1>k DEF ClearImages, At
<1>3. x \in TurnRecords
  BY <1>k, <1>2, TurnsGoOn
<1>4. /\ RouteFits(t, x)
      /\ AskedFits(turn[t], spoken[t].asked) => AskedFits(x, spoken[t].asked)
      /\ WorkFits(turn[t], spoken[t].answered, inSession[t], t \in forgotten) =>
           WorkFits(x, spoken[t].answered, inSession[t], t \in forgotten)
  BY <1>k, <1>1, <1>2 DEF RouteFits, AskedFits, WorkFits, CopiesOf, TurnRecords
<1>5. t \in OwnerTurns \ disturbed => ImagesFit(t, x, imageField')
  BY <1>k, <1>1, <1>2 DEF ImagesFit, TurnRecords
<1>6. /\ imageField' \in {imageField, {}} /\ routeFaults' \in 0..RouteFaults
  BY <1>k, RouteFaultsCounted DEF ClearImages, NoRouteFault
<1>7. imageField' \in SUBSET AllTurns /\ Cardinality(imageField') <= 1
  BY <1>k, <1>6, ImageFields
<1>8. \A u \in OwnerTurns : u # t => turn[u].at \in {"idle", "done", "failed"}
  <2>1. t \in OwnerTurns
    BY <1>k, <1>1 DEF RouteFits
  <2> QED
    BY <1>1, <2>1, OthersRest
<1> QED
  BY <1>k, <1>1, <1>2, <1>3, <1>4, <1>5, <1>6, <1>7, <1>8, FieldStep

\* Whatever the route and whatever runs beside it, a turn's stage tells what it did, what
\* is on record of it and what its image field holds (run_orchestrator,
\* run_orchestrator_result).
THEOREM RouteInvariant == RouteSpec => []RouteInv
<1>1. RouteInit => RouteInv
  <2> SUFFICES ASSUME RouteInit PROVE RouteInv
    OBVIOUS
  <2>1. NotBegun \in TurnRecords
    BY DEF NotBegun, TurnRecords, Routes, Place
  <2>2. \A t \in AllTurns : turn[t] = NotBegun /\ spoken[t] = [asked |-> 0, answered |-> 0] /\ inSession[t] = 0
    BY DEF RouteInit
  <2>3. turn \in [AllTurns -> TurnRecords] /\ spoken \in [AllTurns -> SpokenCounts] /\ inSession \in [AllTurns -> Nat]
    BY <2>1 DEF RouteInit, SpokenCounts
  <2>4. imageField \in SUBSET AllTurns /\ Cardinality(imageField) <= 1
    <3>1. Cardinality({}) = 0
      BY FS_EmptySet
    <3> QED
      BY <3>1 DEF RouteInit
  <2>5. toolError \in BOOLEAN
    BY Zenon DEF RouteInit
  <2>6. /\ routeFaults \in 0..RouteFaults
        /\ redone \subseteq AllTurns /\ forgotten \subseteq AllTurns /\ disturbed \subseteq AllTurns
    BY RouteFaultsIsNatural DEF RouteInit
  <2>7. RouteTypeOK
    BY <2>3, <2>4, <2>5, <2>6, RouteTypes
  <2>8. OwnersInOrder
    BY <2>2 DEF OwnersInOrder, OwnerTurns, AllTurns, NotBegun
  <2>9. ASSUME NEW t \in AllTurns
        PROVE  /\ RouteFits(t, turn[t]) /\ AskedFits(turn[t], spoken[t].asked)
               /\ WorkFits(turn[t], spoken[t].answered, inSession[t], t \in forgotten)
               /\ ImagesFit(t, turn[t], imageField)
    BY <2>2 DEF RouteFits, AskedFits, WorkFits, ImagesFit, NotBegun
  <2> QED
    BY <2>7, <2>8, <2>9 DEF RouteInv
<1>2. RouteInv /\ [RouteNext]_routeVars => RouteInv'
  <2> SUFFICES ASSUME RouteInv, [RouteNext]_routeVars PROVE RouteInv'
    OBVIOUS
  <2>1. ASSUME NEW t \in AllTurns, RouteStep(t) PROVE RouteInv'
    <3>1. CASE BeginRouted(t) \/ TakeRoute(t)
      BY <3>1, BeginStep, RoutingSteps
    <3>2. CASE AnswerDirectly(t) \/ DrawDirectly(t) \/ CreateWatch(t) \/ FanOut(t)
      BY <3>2, AnswerSteps, DrawStep
    <3>3. CASE RepairDirectly(t) \/ RunAgent(t) \/ RerouteToRepair(t)
      BY <3>3, SavingSteps
    <3>4. CASE CheckForToolError(t) \/ RouteFails(t) \/ TimeOut(t)
      BY <3>4, PlainSteps
    <3>5. CASE ClearAndRetry(t)
      BY <3>5, RetryStep
    <3>6. CASE SayAnswer(t) \/ SayFails(t) \/ Remember(t) \/ RememberFails(t)
      BY <3>6, SayingSteps, RememberingSteps
    <3>7. CASE PostImages(t) \/ Return(t) \/ ClearImages(t)
      BY <3>7, PostStep, ReturnStep, ClearStep
    <3> QED
      BY <2>1, <3>1, <3>2, <3>3, <3>4, <3>5, <3>6, <3>7 DEF RouteStep
  <2>2. CASE UNCHANGED routeVars
    <3>1. /\ turn' = turn /\ spoken' = spoken /\ inSession' = inSession /\ toolError' = toolError
          /\ imageField' = imageField /\ routeFaults' = routeFaults /\ redone' = redone
          /\ forgotten' = forgotten /\ disturbed' = disturbed
      BY <2>2 DEF routeVars
    <3>2. RouteTypeOK' /\ OwnersInOrder'
      BY <3>1 DEF RouteInv, RouteTypeOK, OwnersInOrder
    <3> QED
      BY <3>1, <3>2 DEF RouteInv
  <2> QED
    BY <2>1, <2>2 DEF RouteNext
<1> QED
  BY <1>1, <1>2, PTL DEF RouteSpec

\* An answered turn did its work once and is on record once (SayAnswer, Remember and the
\* routes of run_orchestrator).
THEOREM AnswersStayOnRecord == RouteSpec => []AnswersAreOnRecord
<1>1. RouteInv => AnswersAreOnRecord
  <2> SUFFICES ASSUME RouteInv, NEW t \in AllTurns, turn[t].at = "done"
               PROVE  /\ t \notin redone =>
                           /\ turn[t].work = IF turn[t].rerouted THEN 2 ELSE 1
                           /\ spoken[t].answered = 1
                           /\ inSession[t] = Copies(t) \/ t \in forgotten
                      /\ spoken[t].asked = IF turn[t].retried THEN 2 ELSE 1
    BY DEF AnswersAreOnRecord
  <2>1. /\ AskedFits(turn[t], spoken[t].asked)
        /\ t \notin redone => WorkFits(turn[t], spoken[t].answered, inSession[t], t \in forgotten)
    BY TurnKnown
  <2> QED
    BY <2>1 DEF AskedFits, WorkFits, CopiesOf, Copies
<1> QED
  BY <1>1, RouteInvariant, PTL

\* The user gets the images of a turn with its answer and no others
\* (pending_image_attachments of run_orchestrator_result).
THEOREM ImagesStayWithTheirTurn == RouteSpec => []ImagesGoWithTheirTurn
<1>1. RouteInv => ImagesGoWithTheirTurn
  <2> SUFFICES ASSUME RouteInv, NEW t \in OwnerTurns, turn[t].at = "done", t \notin disturbed
               PROVE  turn[t].got = (IF turn[t].made THEN {t} ELSE {})
    BY DEF ImagesGoWithTheirTurn
  <2>1. ImagesFit(t, turn[t], imageField)
    BY TurnKnown DEF AllTurns
  <2> QED
    BY <2>1 DEF ImagesFit
<1> QED
  BY <1>1, RouteInvariant, PTL

-----------------------------------------------------------------------------
(* The versions of the persona                                             *)

Storing(w) == persona[w].at \in InStore

\* The newest row is the active one, and holds all that was not overwritten.
NewestIsActive ==
  versions # {} => \E a \in versions :
    /\ Active = {a}
    /\ \A u \in versions : u.number <= a.number /\ u.holds \subseteq a.holds \union overwritten

\* One writer stores, and sees the rows as they are; who has read and was not overtaken
\* holds what is active.
StoresAreAlone ==
  /\ \A w, o \in PersonaWriters : Storing(w) /\ Storing(o) => w = o
  /\ \A w \in PersonaWriters :
       /\ Storing(w) => /\ persona[w].targets = {v.id : v \in Active}
                        /\ persona[w].base \subseteq persona[w].holds
       /\ persona[w].at = "numbered" => persona[w].number = LastNumber + 1
       /\ persona[w].at # "idle" /\ ~persona[w].stale /\ persona[w].by # "dashboard" =>
            persona[w].base = Held

PersonaInv ==
  /\ PersonaTypeOK
  /\ IsFiniteSet(versions) /\ \E n \in Nat : \A v \in versions : v.number <= n
  /\ ~crossed => /\ NewestIsActive
                 /\ \A v, u \in versions : v.number = u.number => v = u
                 /\ StoresAreAlone

WriterRecords ==
  [at : {"idle", "thinking"} \union InStore,
   by : {"command", "dashboard", "interview", "curator"},
   base : SUBSET Changes, holds : SUBSET Changes, stale : BOOLEAN,
   targets : SUBSET Nat, number : Nat, left : 0..2]

\* The last number is one, and no row has a greater.
LEMMA LastNumberIsGreatest ==
  ASSUME PersonaInv
  PROVE  LastNumber \in Nat /\ \A v \in versions : v.number <= LastNumber
<1> DEFINE numbers == {v.number : v \in versions}
<1>1. numbers \subseteq Nat
  BY DEF PersonaInv, PersonaTypeOK, Rows
<1>2. PICK n \in Nat : \A k \in numbers : k <= n
  BY DEF PersonaInv
<1>3. CASE versions = {}
  BY <1>3 DEF LastNumber
<1>4. CASE versions # {}
  <2>1. numbers # {}
    BY <1>4
  <2>2. Max(numbers) \in numbers /\ \A k \in numbers : k <= Max(numbers)
    <3> HIDE DEF numbers
    <3> QED
      BY <1>1, <1>2, <2>1, GreatestNumber
  <2>3. LastNumber = Max(numbers)
    BY <1>4 DEF LastNumber
  <2> HIDE DEF LastNumber
  <2>4. LastNumber \in Nat /\ \A k \in numbers : k <= LastNumber
    BY <1>1, <2>2, <2>3
  <2> QED
    BY <2>4
<1> QED
  BY <1>3, <1>4

\* What is held is made of changes.
LEMMA HeldIsOfChanges ==
  ASSUME PersonaTypeOK PROVE Held \subseteq Changes /\ {v.id : v \in Active} \subseteq Nat
BY DEF PersonaTypeOK, Rows, Held, Active

\* A writer that rests, or has failed.
LEMMA RestingWriter == NoWriter \in WriterRecords /\ NoWriter.at = "idle" /\ "idle" \notin InStore
BY ChangeLimitIsNatural DEF NoWriter, WriterRecords, InStore

\* The types, by writer.
LEMMA PersonaTypes ==
  PersonaTypeOK <=>
    /\ versions \subseteq Rows /\ persona \in [PersonaWriters -> WriterRecords]
    /\ changes \in 0..ChangeLimit /\ crossed \in BOOLEAN /\ overwritten \subseteq Changes
BY DEF PersonaTypeOK, WriterRecords

\* A step of one writer that stores no row.
LEMMA WriterStep ==
  ASSUME PersonaInv, NEW w \in PersonaWriters, NEW x \in WriterRecords,
         persona' = [persona EXCEPT ![w] = x], UNCHANGED <<versions, overwritten>>,
         changes' \in 0..ChangeLimit, crossed' \in BOOLEAN, crossed => crossed',
         ~crossed' /\ x.at \in InStore => /\ \A o \in PersonaWriters : Storing(o) => o = w
                                          /\ x.targets = {v.id : v \in Active}
                                          /\ x.base \subseteq x.holds,
         ~crossed' /\ x.at = "numbered" => x.number = LastNumber + 1,
         ~crossed' /\ x.at # "idle" /\ ~x.stale /\ x.by # "dashboard" => x.base = Held
  PROVE  PersonaInv'
<1>t. persona \in [PersonaWriters -> WriterRecords]
  BY PersonaTypes DEF PersonaInv
<1>1. persona'[w] = x /\ \A o \in PersonaWriters : o # w => persona'[o] = persona[o]
  BY <1>t
<1>2. PersonaTypeOK'
  <2>1. persona' \in [PersonaWriters -> WriterRecords]
    BY <1>t
  <2>2. versions' \subseteq Rows /\ overwritten' \subseteq Changes
    BY DEF PersonaInv, PersonaTypeOK
  <2> QED
    BY <2>1, <2>2 DEF PersonaTypeOK, WriterRecords
<1>3. /\ versions' = versions /\ overwritten' = overwritten /\ Active' = Active /\ Held' = Held
      /\ LastNumber' = LastNumber
  BY DEF Active, Held, LastNumber
<1>4. IsFiniteSet(versions') /\ \E n \in Nat : \A v \in versions' : v.number <= n
  BY <1>3 DEF PersonaInv
<1>5. ASSUME ~crossed'
      PROVE  /\ NewestIsActive'
             /\ \A v, u \in versions' : v.number = u.number => v = u
             /\ StoresAreAlone'
  <2>0. ~crossed /\ NewestIsActive /\ StoresAreAlone /\ \A v, u \in versions : v.number = u.number => v = u
    BY <1>5 DEF PersonaInv
  <2>1. NewestIsActive'
    BY <1>3, <2>0 DEF NewestIsActive
  <2>2. ASSUME NEW a \in PersonaWriters, NEW o \in PersonaWriters,
               persona'[a].at \in InStore, persona'[o].at \in InStore
        PROVE  a = o
    BY <1>1, <1>5, <2>0, <2>2 DEF StoresAreAlone, Storing
  <2>3. ASSUME NEW a \in PersonaWriters
        PROVE  /\ persona'[a].at \in InStore =>
                    /\ persona'[a].targets = {v.id : v \in Active}
                    /\ persona'[a].base \subseteq persona'[a].holds
               /\ persona'[a].at = "numbered" => persona'[a].number = LastNumber + 1
               /\ persona'[a].at # "idle" /\ ~persona'[a].stale /\ persona'[a].by # "dashboard" =>
                    persona'[a].base = Held
    <3>1. CASE a = w
      BY <1>1, <1>5, <3>1
    <3>2. CASE a # w
      BY <1>1, <2>0, <3>2 DEF StoresAreAlone, Storing
    <3> QED
      BY <3>1, <3>2
  <2>4. StoresAreAlone'
    <3>1. \A a, o \in PersonaWriters : Storing(a)' /\ Storing(o)' => a = o
      BY <2>2 DEF Storing, InStore
    <3>2. \A a \in PersonaWriters : Storing(a)' =>
            persona'[a].targets = {v.id : v \in Active'} /\ persona'[a].base \subseteq persona'[a].holds
      BY <1>3, <2>3 DEF Storing, InStore
    <3> QED
      BY <1>3, <2>3, <3>1, <3>2 DEF StoresAreAlone
  <2> QED
    BY <1>3, <2>0, <2>1, <2>4
<1> QED
  BY <1>2, <1>4, <1>5 DEF PersonaInv

\* Reading the active persona, and giving up.
LEMMA ReadingSteps ==
  ASSUME PersonaInv, NEW w \in PersonaWriters,
         \/ ReadForCommand(w) \/ ReadForInterview(w) \/ DashboardStores(w) \/ StoreFails(w)
         \/ \E n \in 0..2 : ReadForCuration(w, n)
  PROVE  PersonaInv'
<1>t. /\ changes \in 0..ChangeLimit /\ crossed \in BOOLEAN
      /\ Held \in SUBSET Changes
  BY HeldIsOfChanges DEF PersonaInv, PersonaTypeOK
<1>1. PICK x \in WriterRecords :
        /\ persona' = [persona EXCEPT ![w] = x] /\ x.at \in {"idle", "thinking"}
        /\ x.at = "thinking" /\ x.by # "dashboard" => x.base = Held
  <2>1. CASE ReadForCommand(w)
    <3>1. [NoWriter EXCEPT !.at = "thinking", !.base = Held] \in WriterRecords
      BY <1>t, RestingWriter DEF WriterRecords
    <3> QED
      BY <2>1, <3>1 DEF ReadForCommand, NoWriter
  <2>2. CASE ReadForInterview(w)
    <3>1. [NoWriter EXCEPT !.at = "thinking", !.by = "interview", !.base = Held] \in WriterRecords
      BY <1>t, RestingWriter DEF WriterRecords
    <3> QED
      BY <2>2, <3>1 DEF ReadForInterview, NoWriter
  <2>3. CASE DashboardStores(w)
    <3>1. [NoWriter EXCEPT !.at = "thinking", !.by = "dashboard"] \in WriterRecords
      BY RestingWriter DEF WriterRecords
    <3> QED
      BY <2>3, <3>1 DEF DashboardStores, NoWriter
  <2>4. CASE StoreFails(w)
    BY <2>4, RestingWriter DEF StoreFails
  <2>5. ASSUME NEW n \in 0..2, ReadForCuration(w, n)
        PROVE  \E x \in WriterRecords :
                 /\ persona' = [persona EXCEPT ![w] = x] /\ x.at \in {"idle", "thinking"}
                 /\ x.at = "thinking" /\ x.by # "dashboard" => x.base = Held
    <3>1. [NoWriter EXCEPT !.at = "thinking", !.by = "curator", !.base = Held, !.left = n] \in WriterRecords
      BY <1>t, RestingWriter DEF WriterRecords
    <3> QED
      BY <2>5, <3>1 DEF ReadForCuration, NoWriter
  <2> QED
    BY <2>1, <2>2, <2>3, <2>4, <2>5
<1>2. UNCHANGED <<versions, changes, crossed, overwritten>>
  BY DEF ReadForCommand, ReadForInterview, DashboardStores, StoreFails, ReadForCuration
<1>3. x.at \notin InStore /\ x.at # "numbered"
  BY <1>1 DEF InStore
<1> QED
  BY <1>t, <1>1, <1>2, <1>3, WriterStep

\* The transaction up to its commit.
LEMMA StoringSteps ==
  ASSUME PersonaInv, NEW w \in PersonaWriters,
         BeginStore(w) \/ DeactivateOld(w) \/ ReadLastNumber(w)
  PROVE  PersonaInv'
<1>t. /\ persona \in [PersonaWriters -> WriterRecords] /\ persona[w] \in WriterRecords
      /\ changes \in 0..ChangeLimit /\ crossed \in BOOLEAN
      /\ Held \in SUBSET Changes /\ {v.id : v \in Active} \in SUBSET Nat
      /\ ~crossed => StoresAreAlone
      /\ LastNumber \in Nat
  BY HeldIsOfChanges, PersonaTypes, LastNumberIsGreatest DEF PersonaInv
<1>1. CASE BeginStore(w)
  <2>1. /\ persona[w].at = "thinking" /\ changes' = changes + 1 /\ changes < ChangeLimit
        /\ UNCHANGED <<versions, overwritten>>
        /\ persona' = [persona EXCEPT ![w].at = "updating",
                                      ![w].holds = persona[w].base \union {changes'},
                                      ![w].targets = {v.id : v \in Active}]
        /\ crossed' = (crossed \/ \E o \in PersonaWriters : persona[o].at \in InStore)
    BY <1>1 DEF BeginStore
  <2>2. PICK x : x = [persona[w] EXCEPT !.at = "updating", !.holds = persona[w].base \union {changes'},
                                        !.targets = {v.id : v \in Active}]
    OBVIOUS
  <2>3. changes' \in 0..ChangeLimit /\ changes' \in Changes
    BY <1>t, <2>1, ChangeLimitIsNatural DEF Changes
  <2>4. x \in WriterRecords
    BY <1>t, <2>2, <2>3 DEF WriterRecords, InStore
  <2>5. persona' = [persona EXCEPT ![w] = x]
    BY <1>t, <2>1, <2>2
  <2>6. /\ x.at = "updating" /\ x.targets = {v.id : v \in Active} /\ x.base \subseteq x.holds
        /\ x.base = persona[w].base /\ x.stale = persona[w].stale /\ x.by = persona[w].by
    BY <1>t, <2>2 DEF WriterRecords
  <2>7. crossed' \in BOOLEAN /\ (crossed => crossed')
    BY <1>t, <2>1
  <2>8. ~crossed' => ~crossed /\ \A o \in PersonaWriters : ~Storing(o)
    BY <2>1 DEF Storing
  <2>9. ~crossed' /\ ~x.stale /\ x.by # "dashboard" => x.base = Held
    BY <1>t, <2>1, <2>6, <2>8 DEF StoresAreAlone
  <2> QED
    BY <2>1, <2>3, <2>4, <2>5, <2>6, <2>7, <2>8, <2>9, WriterStep
<1>2. CASE DeactivateOld(w)
  <2>1. /\ persona[w].at = "updating" /\ UNCHANGED <<versions, changes, crossed, overwritten>>
        /\ persona' = [persona EXCEPT ![w].at = "locked"]
    BY <1>2 DEF DeactivateOld
  <2>2. PICK x : x = [persona[w] EXCEPT !.at = "locked"]
    OBVIOUS
  <2>3. persona' = [persona EXCEPT ![w] = x] /\ x \in WriterRecords
    BY <1>t, <2>1, <2>2 DEF WriterRecords, InStore
  <2>4. /\ x.at = "locked" /\ x.targets = persona[w].targets /\ x.holds = persona[w].holds
        /\ x.base = persona[w].base /\ x.stale = persona[w].stale /\ x.by = persona[w].by
    BY <1>t, <2>2 DEF WriterRecords
  <2>5. Storing(w)
    BY <2>1 DEF Storing, InStore
  <2>6. ~crossed => /\ \A o \in PersonaWriters : Storing(o) => o = w
                    /\ x.targets = {v.id : v \in Active} /\ x.base \subseteq x.holds
                    /\ ~x.stale /\ x.by # "dashboard" => x.base = Held
    BY <1>t, <2>1, <2>4, <2>5 DEF StoresAreAlone
  <2> QED
    BY <1>t, <2>1, <2>3, <2>4, <2>6, WriterStep
<1>3. CASE ReadLastNumber(w)
  <2>1. /\ persona[w].at = "locked" /\ UNCHANGED <<versions, changes, crossed, overwritten>>
        /\ persona' = [persona EXCEPT ![w].at = "numbered", ![w].number = LastNumber + 1]
    BY <1>3 DEF ReadLastNumber
  <2>2. PICK x : x = [persona[w] EXCEPT !.at = "numbered", !.number = LastNumber + 1]
    OBVIOUS
  <2>3. persona' = [persona EXCEPT ![w] = x] /\ x \in WriterRecords
    <3>1. LastNumber + 1 \in Nat
      BY <1>t
    <3> QED
      BY <1>t, <2>1, <2>2, <3>1 DEF WriterRecords, InStore
  <2>4. /\ x.at = "numbered" /\ x.targets = persona[w].targets /\ x.holds = persona[w].holds
        /\ x.base = persona[w].base /\ x.stale = persona[w].stale /\ x.by = persona[w].by
        /\ x.number = LastNumber + 1
    BY <1>t, <2>2 DEF WriterRecords
  <2>5. Storing(w)
    BY <2>1 DEF Storing, InStore
  <2>6. ~crossed => /\ \A o \in PersonaWriters : Storing(o) => o = w
                    /\ x.targets = {v.id : v \in Active} /\ x.base \subseteq x.holds
                    /\ ~x.stale /\ x.by # "dashboard" => x.base = Held
    BY <1>t, <2>1, <2>4, <2>5 DEF StoresAreAlone
  <2>7. changes' = changes /\ changes' \in 0..ChangeLimit /\ crossed' = crossed /\ crossed' \in BOOLEAN
    BY <1>t, <2>1
  <2>8. ~crossed' /\ x.at \in InStore => /\ \A o \in PersonaWriters : Storing(o) => o = w
                                         /\ x.targets = {v.id : v \in Active}
                                         /\ x.base \subseteq x.holds
    BY <2>6, <2>7
  <2>9. /\ ~crossed' /\ x.at = "numbered" => x.number = LastNumber + 1
        /\ ~crossed' /\ x.at # "idle" /\ ~x.stale /\ x.by # "dashboard" => x.base = Held
    BY <2>4, <2>6, <2>7
  <2>10. UNCHANGED <<versions, overwritten>> /\ (crossed => crossed')
    BY <2>1
  <2> QED
    BY <2>3, <2>7, <2>8, <2>9, <2>10, WriterStep
<1> QED
  BY <1>1, <1>2, <1>3

\* The rows a commit leaves: those there were, and the new one.
LEMMA CommittedRows ==
  ASSUME PersonaInv, NEW w \in PersonaWriters, CommitVersion(w)
  PROVE  LET old(v) == IF v.id \in persona[w].targets THEN [v EXCEPT !.active = FALSE] ELSE v
         IN  \E n \in Rows :
               /\ n.number = persona[w].number /\ n.holds = persona[w].holds /\ n.active
               /\ versions' = {old(v) : v \in versions} \union {n}
               /\ versions' \subseteq Rows
               /\ IsFiniteSet(versions') /\ \E k \in Nat : \A v \in versions' : v.number <= k
<1> DEFINE me == persona[w]
           old(v) == IF v.id \in me.targets THEN [v EXCEPT !.active = FALSE] ELSE v
           kept == {old(v) : v \in versions}
<1>t. /\ persona[w] \in WriterRecords /\ versions \subseteq Rows /\ IsFiniteSet(versions)
      /\ Cardinality(versions) \in Nat
  BY PersonaTypes, FS_CardinalityType DEF PersonaInv
<1>1. PICK n : n = [number |-> me.number, holds |-> me.holds, active |-> TRUE,
                    id |-> Cardinality(versions) + 1]
  OBVIOUS
<1>2. n \in Rows /\ n.number = me.number /\ n.holds = me.holds /\ n.active
  <2>1. Cardinality(versions) + 1 \in Nat /\ me.number \in Nat /\ me.holds \in SUBSET Changes
    BY <1>t DEF WriterRecords
  <2> QED
    BY <1>1, <2>1 DEF Rows
<1>3. versions' = kept \union {n}
  BY <1>1 DEF CommitVersion
<1>4. ASSUME NEW v \in versions PROVE old(v) \in Rows /\ old(v).number = v.number
  BY <1>t DEF Rows
<1>5. kept \subseteq Rows
  BY <1>4
<1>6. IsFiniteSet(kept)
  <2> DEFINE f == [v \in versions |-> old(v)]
  <2>1. f \in Surjection(versions, kept)
    BY DEF Surjection
  <2> HIDE DEF f, kept
  <2> QED
    BY <1>t, <2>1, FS_Surjection
<1>7. IsFiniteSet(versions')
  <2> HIDE DEF kept
  <2> QED
    BY <1>3, <1>6, FS_AddElement
<1>8. \E k \in Nat : \A v \in versions' : v.number <= k
  <2>1. PICK j \in Nat : \A v \in versions : v.number <= j
    BY DEF PersonaInv
  <2>2. PICK k \in Nat : k >= j /\ k >= n.number
    <3>1. n.number \in Nat
      BY <1>2 DEF Rows
    <3>2. j + n.number \in Nat /\ j + n.number >= j /\ j + n.number >= n.number
      BY <3>1
    <3> QED
      BY <3>2
  <2>3. ASSUME NEW v \in versions PROVE old(v).number <= k
    <3>1. v.number \in Nat /\ v.number <= j
      BY <1>t, <2>1 DEF Rows
    <3>2. v.number <= k
      BY <2>2, <3>1
    <3> QED
      BY <1>4, <3>2
  <2> QED
    BY <1>3, <2>2, <2>3
<1> QED
  BY <1>2, <1>3, <1>5, <1>7, <1>8

\* What a commit that nobody crossed makes of the rows.
LEMMA CommitKeepsRows ==
  ASSUME PersonaInv, NEW w \in PersonaWriters, CommitVersion(w), ~crossed
  PROVE  NewestIsActive' /\ \A v, u \in versions' : v.number = u.number => v = u
<1> DEFINE me == persona[w]
           old(v) == IF v.id \in me.targets THEN [v EXCEPT !.active = FALSE] ELSE v
           rest(v) == [v EXCEPT !.active = FALSE]
<1>t. persona[w] \in WriterRecords /\ versions \subseteq Rows
  BY PersonaTypes DEF PersonaInv
<1>1. PICK n \in Rows : /\ n.number = me.number /\ n.holds = me.holds /\ n.active
                        /\ versions' = {old(v) : v \in versions} \union {n}
  BY CommittedRows
<1>2. /\ me.at = "numbered" /\ Storing(w)
      /\ overwritten' = overwritten \union
           IF me.stale \/ me.by = "dashboard" THEN Replaced(w) \ me.holds ELSE {}
  BY DEF CommitVersion, Storing, InStore
<1>3. /\ me.targets = {v.id : v \in Active} /\ me.base \subseteq me.holds
      /\ me.number = LastNumber + 1
      /\ ~me.stale /\ me.by # "dashboard" => me.base = Held
  BY <1>2 DEF PersonaInv, StoresAreAlone
<1>4. LastNumber \in Nat /\ \A v \in versions : v.number \in Nat /\ v.number < me.number
  <2>1. \A v \in versions : v.number \in Nat
    BY <1>t DEF Rows
  <2> QED
    BY <1>3, <2>1, LastNumberIsGreatest
<1>5. ASSUME NEW v \in versions
      PROVE  /\ old(v) = rest(v) /\ rest(v).number = v.number /\ rest(v).holds = v.holds
             /\ ~rest(v).active
  <2>0. v \in Rows
    BY <1>t
  <2>1. CASE v.active
    <3>1. v.id \in me.targets
      BY <1>3, <2>1 DEF Active
    <3> QED
      BY <2>0, <3>1 DEF Rows
  <2>2. CASE ~v.active
    <3>1. rest(v) = v
      BY <2>0, <2>2 DEF Rows
    <3> QED
      BY <2>0, <2>2, <3>1
  <2> QED
    BY <2>1, <2>2
<1>6. Active' = {n}
  <2>1. ASSUME NEW u \in versions', u.active PROVE u = n
    BY <1>1, <1>5, <2>1
  <2> QED
    BY <1>1, <2>1 DEF Active
<1>7. ASSUME NEW v \in versions PROVE v.holds \subseteq me.holds \union overwritten'
  <2>1. PICK a \in versions : Active = {a} /\ v.holds \subseteq a.holds \union overwritten
    BY <1>7 DEF PersonaInv, NewestIsActive
  <2>2. Held = a.holds
    BY <2>1 DEF Held
  <2>3. Replaced(w) = a.holds
    <3>1. {u \in Active : u.id \in me.targets} = {a}
      BY <1>3, <2>1
    <3> QED
      BY <3>1 DEF Replaced
  <2>4. a.holds \subseteq me.holds \union overwritten'
    BY <1>2, <1>3, <2>2, <2>3
  <2> QED
    BY <1>2, <2>1, <2>4
<1>8. ASSUME NEW u \in versions'
      PROVE  u.number <= n.number /\ u.holds \subseteq n.holds \union overwritten'
  <2>1. CASE u = n
    BY <2>1 DEF Rows
  <2>2. CASE u # n
    <3>1. PICK v \in versions : u = old(v)
      BY <1>1, <2>2
    <3>2. u.number = v.number /\ u.holds = v.holds
      BY <1>5, <3>1
    <3>3. v.number < me.number /\ v.number \in Nat /\ me.number \in Nat
      BY <1>3, <1>4
    <3> QED
      BY <1>1, <1>7, <3>2, <3>3
  <2> QED
    BY <2>1, <2>2
<1>9. NewestIsActive'
  BY <1>1, <1>6, <1>8 DEF NewestIsActive
<1>10. ASSUME NEW v \in versions', NEW u \in versions', v.number = u.number PROVE v = u
  <2>0. ASSUME NEW z \in versions', z # n
        PROVE  \E y \in versions : z = rest(y) /\ z.number = y.number /\ z.number # n.number
    <3>1. PICK y \in versions : z = old(y)
      BY <1>1, <2>0
    <3>2. z = rest(y) /\ z.number = y.number
      BY <1>5, <3>1
    <3>3. y.number \in Nat /\ y.number < me.number /\ me.number \in Nat /\ n.number = me.number
      BY <1>1, <1>3, <1>4
    <3>4. y.number # n.number
      BY <3>3
    <3> QED
      BY <3>2, <3>4
  <2>2. CASE v = n \/ u = n
    BY <1>10, <2>0, <2>2
  <2>3. CASE v # n /\ u # n
    <3>0. PICK x \in versions : v = rest(x) /\ v.number = x.number
      BY <2>0, <2>3
    <3>1. PICK y \in versions : u = rest(y) /\ u.number = y.number
      BY <2>0, <2>3
    <3>2. x.number = y.number
      BY <1>10, <3>0, <3>1
    <3>3. x = y
      BY <3>2 DEF PersonaInv
    <3> QED
      BY <3>0, <3>1, <3>3
  <2> QED
    BY <2>2, <2>3
<1> QED
  BY <1>9, <1>10

\* The commit: who has read by then is overtaken.
LEMMA CommitStep ==
  ASSUME PersonaInv, NEW w \in PersonaWriters, CommitVersion(w) PROVE PersonaInv'
<1>t. /\ persona \in [PersonaWriters -> WriterRecords] /\ versions \subseteq Rows
      /\ changes \in 0..ChangeLimit /\ crossed \in BOOLEAN /\ overwritten \subseteq Changes
  BY PersonaTypes DEF PersonaInv
<1>1. /\ persona' = [v \in PersonaWriters |->
           IF v # w THEN [persona[v] EXCEPT !.stale = @ \/ persona[v].at # "idle"]
           ELSE IF persona[w].left = 0 THEN NoWriter
           ELSE [persona[w] EXCEPT !.at = "thinking", !.left = @ - 1, !.stale = TRUE]]
      /\ UNCHANGED <<changes, crossed>> /\ persona[w].at = "numbered"
  BY DEF CommitVersion
<1>2. ASSUME NEW o \in PersonaWriters
      PROVE  /\ persona'[o] \in WriterRecords
             /\ persona'[o].at \notin {"idle", "thinking"} => o # w /\ persona[o].at = persona'[o].at
             /\ persona'[o].at # "idle" => persona'[o].stale
  <2>1. CASE o # w
    <3>0. PICK late \in BOOLEAN : late = (persona[o].stale \/ persona[o].at # "idle")
      BY Zenon
    <3>1. PICK x : x = [persona[o] EXCEPT !.stale = late] /\ persona'[o] = x
      BY <1>1, <2>1, <3>0
    <3>2. persona[o].at # "idle" => late
      BY <3>0
    <3>3. x \in WriterRecords
      BY <1>t, <3>1, <3>2 DEF WriterRecords
    <3>4. x.at = persona[o].at /\ (x.at # "idle" => x.stale)
      BY <1>t, <3>1, <3>2 DEF WriterRecords
    <3> QED
      BY <2>1, <3>1, <3>3, <3>4
  <2>2. CASE o = w /\ persona[w].left = 0
    BY <1>1, <2>2, RestingWriter
  <2>3. CASE o = w /\ persona[w].left # 0
    <3>2. PICK l \in 0..2 : l = persona[w].left - 1
      BY <1>t, <2>3 DEF WriterRecords
    <3>1. PICK x : /\ x = [persona[w] EXCEPT !.at = "thinking", !.left = l, !.stale = TRUE]
                   /\ persona'[o] = x
      BY <1>1, <2>3, <3>2
    <3>3. x \in WriterRecords
      <4>1. PICK y : y = [persona[w] EXCEPT !.at = "thinking", !.left = l]
        OBVIOUS
      <4>2. y \in WriterRecords
        BY <1>t, <3>2, <4>1 DEF WriterRecords
      <4>3. x = [y EXCEPT !.stale = TRUE]
        BY <1>t, <3>1, <4>1 DEF WriterRecords
      <4>4. TRUE \in BOOLEAN
        OBVIOUS
      <4> QED
        BY <4>2, <4>3, <4>4 DEF WriterRecords
    <3>4. x.at = "thinking"
      BY <1>t, <3>1 DEF WriterRecords
    <3>5. x.stale = TRUE
      BY <1>t, <3>1 DEF WriterRecords
    <3> QED
      BY <2>3, <3>1, <3>3, <3>4, <3>5
  <2> QED
    BY <2>1, <2>2, <2>3
<1>3. /\ versions' \subseteq Rows /\ IsFiniteSet(versions')
      /\ \E k \in Nat : \A v \in versions' : v.number <= k
  BY CommittedRows
<1>4. overwritten' \subseteq Changes
  <2>1. Replaced(w) \subseteq Changes
    BY <1>t DEF Replaced, Active, Rows
  <2> QED
    BY <1>t, <2>1 DEF CommitVersion
<1>5. PersonaTypeOK'
  <2>1. persona' \in [PersonaWriters -> WriterRecords]
    BY <1>1, <1>2
  <2> QED
    BY <1>t, <1>1, <1>3, <1>4, <2>1 DEF PersonaTypeOK, WriterRecords
<1>6. ~crossed' => StoresAreAlone'
  <2> SUFFICES ASSUME ~crossed PROVE StoresAreAlone'
    BY <1>1
  <2>1. ASSUME NEW o \in PersonaWriters PROVE persona'[o].at \notin InStore
    <3> SUFFICES ASSUME persona'[o].at \in InStore PROVE FALSE
      OBVIOUS
    <3>1. o # w /\ Storing(o)
      BY <1>2 DEF Storing, InStore
    <3>2. Storing(w)
      BY <1>1 DEF Storing, InStore
    <3> QED
      BY <3>1, <3>2 DEF PersonaInv, StoresAreAlone
  <2>2. \A o \in PersonaWriters : ~Storing(o)' /\ persona'[o].at # "numbered"
    BY <2>1 DEF Storing, InStore
  <2> QED
    BY <1>2, <2>2 DEF StoresAreAlone
<1>7. ~crossed' => NewestIsActive' /\ \A v, u \in versions' : v.number = u.number => v = u
  BY <1>1, CommitKeepsRows
<1> QED
  BY <1>3, <1>5, <1>6, <1>7 DEF PersonaInv

\* Unless two transactions crossed, the newest version is the one active, and a writer's
\* transaction sees the rows as its commit will find them (create_persona_version).
THEOREM PersonaInvariant == PersonaSpec => []PersonaInv
<1>1. PersonaInit => PersonaInv
  <2> SUFFICES ASSUME PersonaInit PROVE PersonaInv
    OBVIOUS
  <2>1. \A w \in PersonaWriters : persona[w] = NoWriter
    BY DEF PersonaInit
  <2>2. persona \in [PersonaWriters -> WriterRecords]
    BY RestingWriter DEF PersonaInit
  <2>3. PersonaTypeOK
    <3>1. changes \in 0..ChangeLimit
      BY ChangeLimitIsNatural DEF PersonaInit
    <3>2. crossed \in BOOLEAN
      BY Zenon DEF PersonaInit
    <3> QED
      BY <2>2, <3>1, <3>2 DEF PersonaInit, PersonaTypeOK, WriterRecords
  <2>4. IsFiniteSet(versions) /\ \E n \in Nat : \A v \in versions : v.number <= n
    BY FS_EmptySet DEF PersonaInit
  <2>5. NewestIsActive /\ \A v, u \in versions : v.number = u.number => v = u
    BY DEF PersonaInit, NewestIsActive
  <2>6. StoresAreAlone
    BY <2>1, RestingWriter DEF StoresAreAlone, Storing
  <2> QED
    BY <2>3, <2>4, <2>5, <2>6 DEF PersonaInv
<1>2. PersonaInv /\ [PersonaNext]_personaVars => PersonaInv'
  <2> SUFFICES ASSUME PersonaInv, [PersonaNext]_personaVars PROVE PersonaInv'
    OBVIOUS
  <2>1. CASE PersonaNext
    BY <2>1, ReadingSteps, StoringSteps, CommitStep DEF PersonaNext
  <2>2. CASE UNCHANGED personaVars
    <3>1. /\ versions' = versions /\ persona' = persona /\ changes' = changes
          /\ crossed' = crossed /\ overwritten' = overwritten
      BY <2>2 DEF personaVars
    <3>2. PersonaTypeOK' /\ NewestIsActive' = NewestIsActive /\ StoresAreAlone' = StoresAreAlone
      BY <3>1 DEF PersonaInv, PersonaTypeOK, NewestIsActive, StoresAreAlone, Storing, Active, Held,
                  LastNumber
    <3> QED
      BY <3>1, <3>2 DEF PersonaInv
  <2> QED
    BY <2>1, <2>2
<1> QED
  BY <1>1, <1>2, PTL DEF PersonaSpec

\* One persona is active, no number is given twice and no change is dropped but for a known
\* cause (create_persona_version, update_persona_field, run_weekly_curation).
THEOREM OnePersonaKeepsItsChanges == PersonaSpec => []OnePersonaWithItsChanges
<1>1. PersonaInv => OnePersonaWithItsChanges
  <2> SUFFICES ASSUME PersonaInv, ~crossed PROVE OnePersonaWithItsChanges
    BY DEF OnePersonaWithItsChanges
  <2>1. versions # {} => Cardinality(Active) = 1
    <3> SUFFICES ASSUME versions # {} PROVE Cardinality(Active) = 1
      OBVIOUS
    <3>1. PICK a : Active = {a}
      BY DEF PersonaInv, NewestIsActive
    <3>2. Cardinality({a}) = 1
      BY FS_Singleton
    <3> QED
      BY <3>1, <3>2
  <2>2. ASSUME NEW v \in Active, NEW u \in versions
        PROVE  u.number <= v.number /\ u.holds \subseteq v.holds \union overwritten
    BY DEF PersonaInv, NewestIsActive
  <2>3. \A v, u \in versions : v.number = u.number => v = u
    BY DEF PersonaInv
  <2> QED
    BY <2>1, <2>2, <2>3 DEF OnePersonaWithItsChanges
<1> QED
  BY <1>1, PersonaInvariant, PTL

-----------------------------------------------------------------------------
(* Charges and caps                                                        *)

Charges == [Days -> [CostProviders -> Nat]]
CallRecords == [at : {"idle", "paying", "counting", "updating", "inserting"}, day : Days]

\* Calls asked for and not answered, answered and not counted, and not yet in a row.
Paying == {c \in ImageCalls : call[c].at = "paying"}
Counting == {c \in ImageCalls : call[c].at = "counting"}
Owing == {c \in Calls : call[c].at \in {"updating", "inserting"}} \union Counting

BilledToday == billed[today]["openrouter"]
CountedToday == counter[today]["openrouter"]
LostToday == uncounted[today]["openrouter"]

\* What is paid for is counted, lost or about to be counted; the cap was asked for what is
\* being paid for.
CapsHold ==
  /\ BilledToday <= CountedToday + LostToday + Cardinality(Counting)
  /\ BilledToday + Cardinality(Paying) + 1 <= DailyCap + Cardinality(ImageCalls) + LostToday
  /\ \A d \in Days : d > today => billed[d]["openrouter"] = 0
  /\ \A d \in Days : d < today =>
       billed[d]["openrouter"] + 1 <=
         DailyCap + Cardinality(ImageCalls) + uncounted[d]["openrouter"]

\* Every charge of a row was paid for by a call of its own.
RowsHold ==
  /\ \A d \in Days \ ledgerRows : ledger[d] = 0
  /\ IsFiniteSet(RowUnits) /\ IsFiniteSet(PaidUnits)
  /\ Cardinality(RowUnits) + Cardinality(Owing) <= Cardinality(PaidUnits)

SpendInv == SpendTypeOK /\ CapsHold /\ RowsHold

\* One more of something.
LEMMA UnitsGrow ==
  ASSUME NEW D, NEW f \in [D -> Nat], NEW d \in D, NEW g \in [D -> Nat], g[d] = f[d] + 1,
         \A x \in D : x # d => g[x] = f[x], IsFiniteSet(Units(f))
  PROVE  IsFiniteSet(Units(g)) /\ Cardinality(Units(g)) = Cardinality(Units(f)) + 1
<1> DEFINE n == <<d, f[d] + 1>>
<1>1. DOMAIN f = D /\ DOMAIN g = D /\ f[d] \in Nat /\ g[d] = f[d] + 1
      /\ \A x \in D : x # d => g[x] = f[x]
  OBVIOUS
<1>2. \A u : u \in Units(f) <=> \E x \in D : \E i \in 1..f[x] : u = <<x, i>>
  BY <1>1 DEF Units
<1>3. \A u : u \in Units(g) <=> \E x \in D : \E i \in 1..g[x] : u = <<x, i>>
  BY <1>1 DEF Units
<1>4. 1..g[d] = 1..f[d] \union {f[d] + 1} /\ f[d] + 1 \notin 1..f[d]
  <2>1. \A k \in Nat : 1..(k + 1) = 1..k \union {k + 1} /\ k + 1 \notin 1..k
    OBVIOUS
  <2> QED
    BY <1>1, <2>1
<1>5. ASSUME NEW u \in Units(g) PROVE u \in Units(f) \union {n}
  <2>0. PICK x \in D : \E i \in 1..g[x] : u = <<x, i>>
    BY <1>3
  <2>1. PICK i \in 1..g[x] : u = <<x, i>>
    BY <2>0
  <2>2. CASE x = d
    BY <1>2, <1>4, <2>1, <2>2
  <2>3. CASE x # d
    BY <1>1, <1>2, <2>1, <2>3
  <2> QED
    BY <2>2, <2>3
<1>6. ASSUME NEW u \in Units(f) PROVE u \in Units(g)
  <2>0. PICK x \in D : \E i \in 1..f[x] : u = <<x, i>>
    BY <1>2
  <2>1. PICK i \in 1..f[x] : u = <<x, i>>
    BY <2>0
  <2>2. i \in 1..g[x]
    BY <1>1, <1>4
  <2> QED
    BY <1>3, <2>1, <2>2
<1>7. n \in Units(g)
  BY <1>1, <1>3, <1>4
<1>8. n \notin Units(f)
  BY <1>2, <1>4
<1>9. Units(g) = Units(f) \union {n}
  BY <1>5, <1>6, <1>7
<1> HIDE DEF n
<1>10. IsFiniteSet(Units(f) \union {n})
  BY FS_AddElement
<1>11. Cardinality(Units(f) \union {n}) = Cardinality(Units(f)) + 1
  BY <1>8, FS_AddElement
<1> QED
  BY <1>9, <1>10, <1>11

\* One more on a day for a provider.
LEMMA BumpIsOneMore ==
  ASSUME NEW counts \in Charges, NEW d \in Days, NEW p \in CostProviders
  PROVE  /\ Bump(counts, d, p) \in Charges
         /\ Bump(counts, d, p)[d][p] = counts[d][p] + 1
         /\ \A e \in Days, q \in CostProviders :
              e # d \/ q # p => Bump(counts, d, p)[e][q] = counts[e][q]
<1>1. counts[d] \in [CostProviders -> Nat] /\ counts[d][p] + 1 \in Nat
  BY DEF Charges
<1> QED
  BY <1>1 DEF Bump, Charges

\* A count that grew, or did not, for one provider is what it was for every other.
LEMMA BumpSparesOthers ==
  ASSUME NEW counts \in Charges, NEW now, NEW day \in Days, NEW p \in CostProviders,
         now = counts \/ now = Bump(counts, day, p),
         NEW q \in CostProviders, q # p
  PROVE  \A d \in Days : now[d][q] = counts[d][q]
<1>1. \A d \in Days : Bump(counts, day, p)[d][q] = counts[d][q]
  BY BumpIsOneMore
<1> QED
  BY <1>1

\* What moving a call does to the sets it may be in.
LEMMA CallMoved ==
  ASSUME SpendTypeOK, NEW c \in Calls, NEW x \in CallRecords, call' = [call EXCEPT ![c] = x]
  PROVE  /\ Paying' = IF c \in ImageCalls /\ x.at = "paying" THEN Paying \union {c} ELSE Paying \ {c}
         /\ Counting' = IF c \in ImageCalls /\ x.at = "counting" THEN Counting \union {c} ELSE Counting \ {c}
         /\ Owing' = IF x.at \in {"updating", "inserting"} \/ (c \in ImageCalls /\ x.at = "counting")
                     THEN Owing \union {c} ELSE Owing \ {c}
<1>1. call'[c] = x /\ \A o \in Calls : o # c => call'[o] = call[o]
  BY DEF SpendTypeOK
<1>2. ImageCalls \subseteq Calls
  BY DEF Calls
<1>3. Paying' = IF c \in ImageCalls /\ x.at = "paying" THEN Paying \union {c} ELSE Paying \ {c}
  BY <1>1, <1>2 DEF Paying
<1>4. Counting' = IF c \in ImageCalls /\ x.at = "counting" THEN Counting \union {c} ELSE Counting \ {c}
  BY <1>1, <1>2 DEF Counting
<1> QED
  BY <1>1, <1>2, <1>3, <1>4 DEF Owing, Counting

\* A call is paying, or counting, or neither.
LEMMA CallsCounted ==
  SpendTypeOK =>
    /\ IsFiniteSet(ImageCalls) /\ IsFiniteSet(Paying) /\ IsFiniteSet(Counting) /\ IsFiniteSet(Owing)
    /\ Cardinality(ImageCalls) \in Nat /\ Cardinality(Paying) \in Nat
    /\ Cardinality(Counting) \in Nat /\ Cardinality(Owing) \in Nat
    /\ Cardinality(Paying) + Cardinality(Counting) <= Cardinality(ImageCalls)
    /\ \A c \in ImageCalls : call[c].at = "idle" =>
         Cardinality(Paying) + Cardinality(Counting) + 1 <= Cardinality(ImageCalls)
<1> SUFFICES ASSUME SpendTypeOK
             PROVE  /\ IsFiniteSet(ImageCalls) /\ IsFiniteSet(Paying) /\ IsFiniteSet(Counting) /\ IsFiniteSet(Owing)
                    /\ Cardinality(ImageCalls) \in Nat /\ Cardinality(Paying) \in Nat
                    /\ Cardinality(Counting) \in Nat /\ Cardinality(Owing) \in Nat
                    /\ Cardinality(Paying) + Cardinality(Counting) <= Cardinality(ImageCalls)
                    /\ \A c \in ImageCalls : call[c].at = "idle" =>
                         Cardinality(Paying) + Cardinality(Counting) + 1 <= Cardinality(ImageCalls)
  OBVIOUS
<1>1. IsFiniteSet(ImageCalls) /\ IsFiniteSet(Calls)
  BY CallsAreFinite, FS_Union DEF Calls
<1>2. Paying \in SUBSET ImageCalls /\ Counting \in SUBSET ImageCalls /\ Owing \in SUBSET Calls
  BY DEF Paying, Counting, Owing, Calls
<1>3. IsFiniteSet(Paying) /\ IsFiniteSet(Counting) /\ IsFiniteSet(Owing)
  BY <1>1, <1>2, FS_Subset
<1>4. /\ Cardinality(ImageCalls) \in Nat /\ Cardinality(Paying) \in Nat
      /\ Cardinality(Counting) \in Nat /\ Cardinality(Owing) \in Nat
  BY <1>1, <1>3, FS_CardinalityType
<1>5. Cardinality(Paying \union Counting) = Cardinality(Paying) + Cardinality(Counting)
  <2>1. Paying \intersect Counting = {}
    BY DEF Paying, Counting
  <2>2. Cardinality(Paying \intersect Counting) = 0
    BY <2>1, FS_EmptySet
  <2>3. Cardinality(Paying \union Counting)
          = Cardinality(Paying) + Cardinality(Counting) - Cardinality(Paying \intersect Counting)
    BY <1>3, FS_Union
  <2> QED
    BY <1>4, <2>2, <2>3
<1>6. Cardinality(Paying \union Counting) <= Cardinality(ImageCalls)
  <2>1. Paying \union Counting \in SUBSET ImageCalls
    BY <1>2
  <2> QED
    BY <1>1, <2>1, FS_Subset
<1>7. ASSUME NEW c \in ImageCalls, call[c].at = "idle"
      PROVE  Cardinality(Paying) + Cardinality(Counting) + 1 <= Cardinality(ImageCalls)
  <2>1. Paying \union Counting \in SUBSET (ImageCalls \ {c})
    BY <1>2, <1>7 DEF Paying, Counting
  <2>2. IsFiniteSet(ImageCalls \ {c}) /\ Cardinality(ImageCalls \ {c}) = Cardinality(ImageCalls) - 1
    BY <1>1, FS_RemoveElement
  <2>3. Cardinality(Paying \union Counting) <= Cardinality(ImageCalls \ {c})
    BY <2>1, <2>2, FS_Subset
  <2> QED
    BY <1>4, <1>5, <2>2, <2>3
<1> QED
  BY <1>1, <1>3, <1>4, <1>5, <1>6, <1>7

\* One call more in a set, one less, or the same.
LEMMA OneCallMore ==
  ASSUME NEW S, IsFiniteSet(S), NEW c
  PROVE  /\ Cardinality(S) \in Nat
         /\ Cardinality(S \union {c}) = IF c \in S THEN Cardinality(S) ELSE Cardinality(S) + 1
         /\ Cardinality(S \ {c}) = IF c \in S THEN Cardinality(S) - 1 ELSE Cardinality(S)
BY FS_AddElement, FS_RemoveElement, FS_CardinalityType

\* A step within the day.
LEMMA CapsStep ==
  ASSUME CapsHold, SpendTypeOK, today' = today,
         \A d \in Days : d # today =>
           /\ billed'[d]["openrouter"] = billed[d]["openrouter"]
           /\ uncounted'[d]["openrouter"] = uncounted[d]["openrouter"],
         BilledToday' <= CountedToday' + LostToday' + Cardinality(Counting'),
         BilledToday' + Cardinality(Paying') + 1 <= DailyCap + Cardinality(ImageCalls) + LostToday'
  PROVE  CapsHold'
<1>1. today \in Nat /\ Days \subseteq Nat
  BY SpendingBounds DEF SpendTypeOK, Days
<1>2. \A d \in Days : d > today => billed'[d]["openrouter"] = 0
  <2>1. \A d \in Days : d > today => d # today
    BY <1>1
  <2>2. \A d \in Days : d > today => billed[d]["openrouter"] = 0
    BY Zenon DEF CapsHold
  <2> QED
    BY <2>1, <2>2, Zenon
<1>3. \A d \in Days : d < today =>
        billed'[d]["openrouter"] + 1 <= DailyCap + Cardinality(ImageCalls) + uncounted'[d]["openrouter"]
  BY <1>1 DEF CapsHold
<1> QED
  BY <1>2, <1>3 DEF CapsHold

\* What CallTo writes.
LEMMA CallToWrites ==
  ASSUME SpendTypeOK, NEW c \in Calls,
         NEW s \in {"idle", "paying", "counting", "updating", "inserting"}, CallTo(c, s)
  PROVE  \E x \in CallRecords : x.at = s /\ call' = [call EXCEPT ![c] = x]
<1>1. today \in Days /\ 0 \in Days
  BY SpendingBounds DEF SpendTypeOK, Days
<1>2. PICK d \in Days : d = IF s = "inserting" THEN today ELSE 0
  BY <1>1
<1>3. [at |-> s, day |-> d] \in CallRecords
  BY DEF CallRecords
<1> QED
  BY <1>2, <1>3 DEF CallTo

\* How the sets of calls change in size.
LEMMA CallsCountedNext ==
  ASSUME SpendTypeOK, NEW c \in Calls,
         NEW s \in {"idle", "paying", "counting", "updating", "inserting"}, CallTo(c, s)
  PROVE  /\ call' \in [Calls -> CallRecords]
         /\ Cardinality(Paying') =
              IF c \in ImageCalls /\ s = "paying"
              THEN IF c \in Paying THEN Cardinality(Paying) ELSE Cardinality(Paying) + 1
              ELSE IF c \in Paying THEN Cardinality(Paying) - 1 ELSE Cardinality(Paying)
         /\ Cardinality(Counting') =
              IF c \in ImageCalls /\ s = "counting"
              THEN IF c \in Counting THEN Cardinality(Counting) ELSE Cardinality(Counting) + 1
              ELSE IF c \in Counting THEN Cardinality(Counting) - 1 ELSE Cardinality(Counting)
         /\ Cardinality(Owing') =
              IF s \in {"updating", "inserting"} \/ (c \in ImageCalls /\ s = "counting")
              THEN IF c \in Owing THEN Cardinality(Owing) ELSE Cardinality(Owing) + 1
              ELSE IF c \in Owing THEN Cardinality(Owing) - 1 ELSE Cardinality(Owing)
<1>1. PICK x \in CallRecords : x.at = s /\ call' = [call EXCEPT ![c] = x]
  BY CallToWrites
<1>2. call' \in [Calls -> CallRecords]
  BY <1>1 DEF SpendTypeOK, CallRecords
<1>3. IsFiniteSet(Paying) /\ IsFiniteSet(Counting) /\ IsFiniteSet(Owing)
  BY CallsCounted
<1>4. /\ Paying' = IF c \in ImageCalls /\ s = "paying" THEN Paying \union {c} ELSE Paying \ {c}
      /\ Counting' = IF c \in ImageCalls /\ s = "counting" THEN Counting \union {c} ELSE Counting \ {c}
      /\ Owing' = IF s \in {"updating", "inserting"} \/ (c \in ImageCalls /\ s = "counting")
                  THEN Owing \union {c} ELSE Owing \ {c}
  BY <1>1, CallMoved
<1>5. Cardinality(Paying') =
        IF c \in ImageCalls /\ s = "paying"
        THEN IF c \in Paying THEN Cardinality(Paying) ELSE Cardinality(Paying) + 1
        ELSE IF c \in Paying THEN Cardinality(Paying) - 1 ELSE Cardinality(Paying)
  BY <1>3, <1>4, OneCallMore
<1>6. Cardinality(Counting') =
        IF c \in ImageCalls /\ s = "counting"
        THEN IF c \in Counting THEN Cardinality(Counting) ELSE Cardinality(Counting) + 1
        ELSE IF c \in Counting THEN Cardinality(Counting) - 1 ELSE Cardinality(Counting)
  BY <1>3, <1>4, OneCallMore
<1>7. Cardinality(Owing') =
        IF s \in {"updating", "inserting"} \/ (c \in ImageCalls /\ s = "counting")
        THEN IF c \in Owing THEN Cardinality(Owing) ELSE Cardinality(Owing) + 1
        ELSE IF c \in Owing THEN Cardinality(Owing) - 1 ELSE Cardinality(Owing)
  BY <1>3, <1>4, OneCallMore
<1> QED
  BY <1>2, <1>5, <1>6, <1>7

\* The records of money and of calls keep their types.
LEMMA SpendKeepsTypes == SpendTypeOK /\ [SpendNext]_spendVars => SpendTypeOK'
<1> SUFFICES ASSUME SpendTypeOK, [SpendNext]_spendVars PROVE SpendTypeOK'
  OBVIOUS
<1> USE DEF Charges, CallRecords
<1>1. /\ counter \in Charges /\ billed \in Charges /\ uncounted \in Charges
      /\ call \in [Calls -> CallRecords] /\ today \in Days /\ spendFaults \in 0..SpendFaults
      /\ ledger \in [Days -> Nat] /\ ledgerRows \subseteq Days /\ attempts \in [ImageCalls -> 0..2]
  BY DEF SpendTypeOK
<1>2. \A c \in Calls : ProviderOf(c) \in CostProviders
  BY DEF ProviderOf, CostProviders
<1>3. "openai" \in CostProviders /\ "openrouter" \in CostProviders
  BY DEF CostProviders
<1>4. spendFaults \in Nat /\ SpendFaults \in Nat
  BY <1>1, SpendingBounds
<1>5. SpendFails => spendFaults' \in 0..SpendFaults
  BY <1>1, <1>4 DEF SpendFails
<1>6. ImageCalls \subseteq Calls /\ ChatCalls \subseteq Calls
  BY DEF Calls
<1> HIDE DEF Charges, CallRecords
<1>7. SUFFICES /\ counter' \in Charges /\ billed' \in Charges /\ uncounted' \in Charges
               /\ call' \in [Calls -> CallRecords] /\ today' \in Days
               /\ spendFaults' \in 0..SpendFaults
               /\ ledger' \in [Days -> Nat] /\ ledgerRows' \subseteq Days
               /\ attempts' \in [ImageCalls -> 0..2]
  BY DEF SpendTypeOK, Charges, CallRecords
<1>8. ASSUME NEW c \in ImageCalls, AskForImage(c) \/ AskAgain(c) \/ AskUncounted(c)
      PROVE  /\ counter' \in Charges /\ billed' \in Charges /\ uncounted' \in Charges
             /\ call' \in [Calls -> CallRecords] /\ today' \in Days
             /\ spendFaults' \in 0..SpendFaults
             /\ ledger' \in [Days -> Nat] /\ ledgerRows' \subseteq Days
             /\ attempts' \in [ImageCalls -> 0..2]
  <2>1. c \in Calls
    BY <1>6
  <2>2. CallTo(c, "paying") /\ UNCHANGED <<today, counter, ledger, ledgerRows, billed>>
    BY <1>8 DEF AskForImage, AskAgain, AskUncounted, CheckCap
  <2>3. uncounted' \in Charges /\ spendFaults' \in 0..SpendFaults
    BY <1>1, <1>3, <1>5, <1>8, BumpIsOneMore DEF AskForImage, AskAgain, AskUncounted, CheckCap
  <2>4. attempts' \in [ImageCalls -> 0..2]
    BY <1>1, <1>8 DEF AskForImage, AskAgain, AskUncounted
  <2>5. call' \in [Calls -> CallRecords]
    BY <2>1, <2>2, CallsCountedNext
  <2> QED
    BY <1>1, <2>2, <2>3, <2>4, <2>5
<1>9. ASSUME NEW c \in ChatCalls, StartTurn(c)
      PROVE  call' \in [Calls -> CallRecords]
  BY <1>6, <1>9, CallsCountedNext DEF StartTurn
<1>10. ASSUME NEW c \in Calls, Paid(c) \/ PaidInVain(c)
       PROVE  /\ billed' \in Charges /\ uncounted' \in Charges /\ call' \in [Calls -> CallRecords]
              /\ spendFaults' \in 0..SpendFaults /\ attempts' \in [ImageCalls -> 0..2]
  <2>1. PICK s \in {"counting", "updating", "idle"} : CallTo(c, s)
    BY <1>10 DEF Paid, PaidInVain
  <2>2. call' \in [Calls -> CallRecords]
    BY <2>1, CallsCountedNext
  <2>3. attempts' \in [ImageCalls -> 0..2]
    BY <1>1, <1>10 DEF Paid, PaidInVain
  <2>4. billed' \in Charges /\ uncounted' \in Charges /\ spendFaults' \in 0..SpendFaults
    BY <1>1, <1>2, <1>5, <1>10, BumpIsOneMore DEF Paid, PaidInVain
  <2> QED
    BY <2>2, <2>3, <2>4
<1>11. ASSUME NEW c \in Calls, CountCharge(c) \/ CountFails(c)
       PROVE  /\ counter' \in Charges /\ uncounted' \in Charges /\ call' \in [Calls -> CallRecords]
              /\ spendFaults' \in 0..SpendFaults
  <2>1. PICK s \in {"updating", "idle"} : CallTo(c, s)
    BY <1>11 DEF CountCharge, CountFails
  <2>2. call' \in [Calls -> CallRecords]
    BY <2>1, CallsCountedNext
  <2>3. counter' \in Charges /\ uncounted' \in Charges /\ spendFaults' \in 0..SpendFaults
    BY <1>1, <1>2, <1>5, <1>11, BumpIsOneMore DEF CountCharge, CountFails
  <2> QED
    BY <2>2, <2>3
<1>12. ASSUME NEW c \in Calls, ChargeRow(c) \/ InsertCharge(c)
       PROVE  /\ ledger' \in [Days -> Nat] /\ ledgerRows' \subseteq Days
              /\ call' \in [Calls -> CallRecords]
  <2>1. PICK s \in {"inserting", "counting", "idle"} : CallTo(c, s)
    BY <1>12 DEF ChargeRow, InsertCharge
  <2>2. call' \in [Calls -> CallRecords]
    BY <2>1, CallsCountedNext
  <2>3. call[c].day \in Days /\ ledger[today] + 1 \in Nat
    BY <1>1 DEF CallRecords
  <2>4. ledger' \in [Days -> Nat] /\ ledgerRows' \subseteq Days
    BY <1>1, <1>12, <2>3 DEF ChargeRow, InsertCharge
  <2> QED
    BY <2>2, <2>4
<1>13. ASSUME NEW c \in Calls, ChargeFails(c)
       PROVE  /\ uncounted' \in Charges /\ call' \in [Calls -> CallRecords]
              /\ spendFaults' \in 0..SpendFaults
  <2>1. call' \in [Calls -> CallRecords]
    BY <1>13, CallsCountedNext DEF ChargeFails
  <2>2. uncounted' \in Charges /\ spendFaults' \in 0..SpendFaults
    BY <1>1, <1>3, <1>5, <1>13, BumpIsOneMore DEF ChargeFails
  <2> QED
    BY <2>1, <2>2
<1>14. Midnight => today' \in Days
  BY <1>1, SpendingBounds DEF Midnight, Days
<1>15. CASE UNCHANGED spendVars
  BY <1>1, <1>15 DEF spendVars
<1>16. CASE \E c \in ImageCalls : AskForImage(c) \/ AskAgain(c) \/ AskUncounted(c)
  BY <1>8, <1>16
<1>17. CASE \E c \in ChatCalls : StartTurn(c)
  BY <1>1, <1>9, <1>17 DEF StartTurn
<1>18. CASE \E c \in Calls : Paid(c) \/ PaidInVain(c)
  BY <1>1, <1>10, <1>18 DEF Paid, PaidInVain
<1>19. CASE \E c \in Calls : CountCharge(c) \/ CountFails(c)
  BY <1>1, <1>11, <1>19 DEF CountCharge, CountFails
<1>20. CASE \E c \in Calls : ChargeRow(c) \/ InsertCharge(c)
  BY <1>1, <1>12, <1>20 DEF ChargeRow, InsertCharge
<1>21. CASE \E c \in Calls : ChargeFails(c)
  BY <1>1, <1>13, <1>21 DEF ChargeFails
<1>22. CASE Midnight
  BY <1>1, <1>14, <1>22 DEF Midnight
<1> QED
  BY <1>15, <1>16, <1>17, <1>18, <1>19, <1>20, <1>21, <1>22 DEF SpendNext

\* The numbers that the caps are about.
LEMMA SpendNumbers ==
  SpendTypeOK =>
    /\ today \in Days /\ BilledToday \in Nat /\ CountedToday \in Nat /\ LostToday \in Nat
    /\ DailyCap \in Nat /\ DailyCap >= 1
    /\ counter \in Charges /\ billed \in Charges /\ uncounted \in Charges
    /\ "openrouter" \in CostProviders /\ "openai" \in CostProviders
    /\ ImageCalls \subseteq Calls /\ ChatCalls \subseteq Calls
    /\ \A c \in ChatCalls : c \notin ImageCalls
    /\ Calls \ ImageCalls = ChatCalls
BY SpendingBounds, CallsDiffer
   DEF SpendTypeOK, BilledToday, CountedToday, LostToday, Charges, CostProviders, Calls

\* Asking for an image.
LEMMA AskingKeepsCaps ==
  ASSUME SpendTypeOK, CapsHold, NEW c \in ImageCalls,
         AskForImage(c) \/ AskAgain(c) \/ AskUncounted(c)
  PROVE  CapsHold'
<1>1. /\ c \in Calls /\ CallTo(c, "paying") /\ call[c].at = "idle"
      /\ today' = today /\ counter' = counter /\ billed' = billed
  BY SpendNumbers DEF AskForImage, AskAgain, AskUncounted, CheckCap
<1>2. c \notin Paying /\ c \notin Counting
  BY <1>1 DEF Paying, Counting
<1>3. Cardinality(Paying') = Cardinality(Paying) + 1 /\ Cardinality(Counting') = Cardinality(Counting)
  BY <1>1, <1>2, CallsCountedNext
<1>4. BilledToday' = BilledToday /\ CountedToday' = CountedToday
  BY <1>1 DEF BilledToday, CountedToday
<1>5. \/ uncounted' = uncounted /\ CountedToday + 1 <= DailyCap
      \/ uncounted' = Bump(uncounted, today, "openrouter")
  BY <1>1, SpendNumbers DEF AskForImage, AskAgain, AskUncounted, CheckCap, Capped, CountedToday
<1>6. \A d \in Days : d # today => uncounted'[d]["openrouter"] = uncounted[d]["openrouter"]
  BY <1>5, SpendNumbers, BumpIsOneMore
<1>7. /\ Cardinality(Paying) \in Nat /\ Cardinality(Counting) \in Nat /\ Cardinality(ImageCalls) \in Nat
      /\ Cardinality(Paying) + Cardinality(Counting) + 1 <= Cardinality(ImageCalls)
  BY <1>1, CallsCounted
<1>8. /\ BilledToday <= CountedToday + LostToday + Cardinality(Counting)
      /\ BilledToday + Cardinality(Paying) + 1 <= DailyCap + Cardinality(ImageCalls) + LostToday
  BY DEF CapsHold
<1>9. CASE uncounted' = uncounted /\ CountedToday + 1 <= DailyCap
  <2>1. LostToday' = LostToday
    BY <1>1, <1>9 DEF LostToday
  <2>2. BilledToday + Cardinality(Paying) + 2 <= DailyCap + Cardinality(ImageCalls) + LostToday
    BY <1>7, <1>8, <1>9, SpendNumbers
  <2> QED
    BY <1>1, <1>3, <1>4, <1>6, <1>7, <1>8, <2>1, <2>2, SpendNumbers, CapsStep
<1>10. CASE uncounted' = Bump(uncounted, today, "openrouter")
  <2>1. LostToday' = LostToday + 1
    BY <1>1, <1>10, SpendNumbers, BumpIsOneMore DEF LostToday
  <2>2. BilledToday + (Cardinality(Paying) + 1) + 1 <= DailyCap + Cardinality(ImageCalls) + (LostToday + 1)
    BY <1>7, <1>8, SpendNumbers
  <2>3. BilledToday <= CountedToday + (LostToday + 1) + Cardinality(Counting)
    BY <1>7, <1>8, SpendNumbers
  <2> QED
    BY <1>1, <1>3, <1>4, <1>6, <2>1, <2>2, <2>3, SpendNumbers, CapsStep
<1> QED
  BY <1>5, <1>9, <1>10

\* A charge of another provider, or a call that is only recorded, changes nothing here.
LEMMA OthersKeepCaps ==
  ASSUME SpendTypeOK, CapsHold, today' = today,
         \A d \in Days : /\ billed'[d]["openrouter"] = billed[d]["openrouter"]
                         /\ counter'[d]["openrouter"] = counter[d]["openrouter"]
                         /\ uncounted'[d]["openrouter"] = uncounted[d]["openrouter"],
         Cardinality(Paying') = Cardinality(Paying),
         Cardinality(Counting') = Cardinality(Counting)
  PROVE  CapsHold'
<1>1. BilledToday' = BilledToday /\ CountedToday' = CountedToday /\ LostToday' = LostToday
  BY SpendNumbers DEF BilledToday, CountedToday, LostToday
<1>2. /\ BilledToday <= CountedToday + LostToday + Cardinality(Counting)
      /\ BilledToday + Cardinality(Paying) + 1 <= DailyCap + Cardinality(ImageCalls) + LostToday
  BY DEF CapsHold
<1> QED
  BY <1>1, <1>2, CapsStep

\* An answer of OpenRouter.
LEMMA ImageAnswersKeepCaps ==
  ASSUME SpendTypeOK, CapsHold, NEW c \in ImageCalls, Paid(c) \/ PaidInVain(c)
  PROVE  CapsHold'
<1>1. /\ c \in Calls /\ call[c].at = "paying" /\ today' = today /\ counter' = counter
      /\ ProviderOf(c) = "openrouter" /\ billed' = Bump(billed, today, "openrouter")
  BY SpendNumbers DEF Paid, PaidInVain, ProviderOf
<1>2. c \in Paying /\ c \notin Counting
  BY <1>1 DEF Paying, Counting
<1>3. /\ BilledToday' = BilledToday + 1 /\ CountedToday' = CountedToday
      /\ \A d \in Days : d # today => billed'[d]["openrouter"] = billed[d]["openrouter"]
  BY <1>1, SpendNumbers, BumpIsOneMore DEF BilledToday, CountedToday
<1>4. /\ Cardinality(Paying) \in Nat /\ Cardinality(Counting) \in Nat /\ Cardinality(ImageCalls) \in Nat
  BY CallsCounted
<1>5. /\ BilledToday <= CountedToday + LostToday + Cardinality(Counting)
      /\ BilledToday + Cardinality(Paying) + 1 <= DailyCap + Cardinality(ImageCalls) + LostToday
  BY DEF CapsHold
<1>6. CASE Paid(c)
  <2>1. CallTo(c, "counting") /\ uncounted' = uncounted
    BY <1>6 DEF Paid
  <2>2. /\ Cardinality(Paying') = Cardinality(Paying) - 1
        /\ Cardinality(Counting') = Cardinality(Counting) + 1
    BY <1>1, <1>2, <2>1, CallsCountedNext
  <2>3. LostToday' = LostToday
    BY <1>1, <2>1 DEF LostToday
  <2>4. /\ BilledToday + 1 <= CountedToday + LostToday + (Cardinality(Counting) + 1)
        /\ BilledToday + 1 + (Cardinality(Paying) - 1) + 1
             <= DailyCap + Cardinality(ImageCalls) + LostToday
    BY <1>4, <1>5, SpendNumbers
  <2> QED
    BY <1>1, <1>3, <2>1, <2>2, <2>3, <2>4, CapsStep
<1>7. CASE PaidInVain(c)
  <2>1. CallTo(c, "idle") /\ uncounted' = Bump(uncounted, today, "openrouter")
    BY <1>1, <1>7 DEF PaidInVain
  <2>2. /\ Cardinality(Paying') = Cardinality(Paying) - 1
        /\ Cardinality(Counting') = Cardinality(Counting)
    BY <1>1, <1>2, <2>1, CallsCountedNext
  <2>3. /\ LostToday' = LostToday + 1
        /\ \A d \in Days : d # today => uncounted'[d]["openrouter"] = uncounted[d]["openrouter"]
    BY <1>1, <2>1, SpendNumbers, BumpIsOneMore DEF LostToday
  <2>4. /\ BilledToday + 1 <= CountedToday + (LostToday + 1) + Cardinality(Counting)
        /\ BilledToday + 1 + (Cardinality(Paying) - 1) + 1
             <= DailyCap + Cardinality(ImageCalls) + (LostToday + 1)
    BY <1>4, <1>5, SpendNumbers
  <2> QED
    BY <1>1, <1>3, <2>2, <2>3, <2>4, CapsStep
<1> QED
  BY <1>6, <1>7

\* The counter of OpenRouter is charged, or is not.
LEMMA ImageCountsKeepCaps ==
  ASSUME SpendTypeOK, CapsHold, NEW c \in ImageCalls, CountCharge(c) \/ CountFails(c)
  PROVE  CapsHold'
<1>1. /\ c \in Calls /\ call[c].at = "counting" /\ today' = today /\ billed' = billed
      /\ ProviderOf(c) = "openrouter" /\ CallTo(c, "updating")
  BY SpendNumbers DEF CountCharge, CountFails, ProviderOf
<1>2. c \in Counting /\ c \notin Paying
  BY <1>1 DEF Paying, Counting
<1>3. /\ Cardinality(Paying') = Cardinality(Paying)
      /\ Cardinality(Counting') = Cardinality(Counting) - 1
  BY <1>1, <1>2, CallsCountedNext
<1>4. BilledToday' = BilledToday
  BY <1>1 DEF BilledToday
<1>5. /\ \/ CountedToday' = CountedToday + 1 /\ LostToday' = LostToday
         \/ CountedToday' = CountedToday /\ LostToday' = LostToday + 1
      /\ \A d \in Days : d # today => uncounted'[d]["openrouter"] = uncounted[d]["openrouter"]
  <2>1. CASE CountCharge(c)
    <3>1. counter' = Bump(counter, today, "openrouter") /\ uncounted' = uncounted
      BY <1>1, <2>1 DEF CountCharge
    <3> QED
      BY <1>1, <3>1, SpendNumbers, BumpIsOneMore DEF CountedToday, LostToday
  <2>2. CASE CountFails(c)
    <3>1. uncounted' = Bump(uncounted, today, "openrouter") /\ counter' = counter
      BY <1>1, <2>2 DEF CountFails
    <3> QED
      BY <1>1, <3>1, SpendNumbers, BumpIsOneMore DEF CountedToday, LostToday
  <2> QED
    BY <2>1, <2>2
<1>6. /\ Cardinality(Paying) \in Nat /\ Cardinality(Counting) \in Nat /\ Cardinality(ImageCalls) \in Nat
  BY CallsCounted
<1>7. /\ BilledToday <= CountedToday + LostToday + Cardinality(Counting)
      /\ BilledToday + Cardinality(Paying) + 1 <= DailyCap + Cardinality(ImageCalls) + LostToday
  BY DEF CapsHold
<1>8. /\ BilledToday' <= CountedToday' + LostToday' + Cardinality(Counting')
      /\ BilledToday' + Cardinality(Paying') + 1 <= DailyCap + Cardinality(ImageCalls) + LostToday'
  BY <1>3, <1>4, <1>5, <1>6, <1>7, SpendNumbers
<1> QED
  BY <1>1, <1>5, <1>8, CapsStep

\* The day ends with what it has; the next begins with nothing billed.
LEMMA MidnightKeepsCaps == ASSUME SpendTypeOK, CapsHold, Midnight PROVE CapsHold'
<1>1. /\ today \in Nat /\ LastDay \in Nat /\ Days = 0..LastDay /\ today + 1 \in Days
      /\ today' = today + 1 /\ counter' = counter /\ billed' = billed /\ uncounted' = uncounted
      /\ call' = call
  BY SpendingBounds DEF SpendTypeOK, Days, Midnight
<1>2. Paying' = Paying /\ Counting' = Counting
  BY <1>1 DEF Paying, Counting
<1>3. \A d \in Days : d > today => billed[d]["openrouter"] = 0
  BY DEF CapsHold
<1>4. /\ BilledToday' = 0 /\ CountedToday' \in Nat /\ LostToday' \in Nat
  <2>1. /\ BilledToday' = billed[today + 1]["openrouter"]
        /\ CountedToday' = counter[today + 1]["openrouter"]
        /\ LostToday' = uncounted[today + 1]["openrouter"]
    BY <1>1 DEF BilledToday, CountedToday, LostToday
  <2>2. billed[today + 1]["openrouter"] = 0
    BY <1>1, <1>3
  <2>3. counter[today + 1]["openrouter"] \in Nat /\ uncounted[today + 1]["openrouter"] \in Nat
    BY <1>1, SpendNumbers DEF Charges
  <2> QED
    BY <2>1, <2>2, <2>3
<1>5. /\ Cardinality(Paying) \in Nat /\ Cardinality(Counting) \in Nat /\ Cardinality(ImageCalls) \in Nat
      /\ Cardinality(Paying) + Cardinality(Counting) <= Cardinality(ImageCalls)
  BY CallsCounted
<1>6. BilledToday' <= CountedToday' + LostToday' + Cardinality(Counting')
  BY <1>2, <1>4, <1>5
<1>7. BilledToday' + Cardinality(Paying') + 1 <= DailyCap + Cardinality(ImageCalls) + LostToday'
  BY <1>2, <1>4, <1>5, SpendNumbers
<1>8. \A d \in Days : d > today + 1 => billed[d]["openrouter"] = 0
  BY <1>1, <1>3
<1>9. BilledToday + 1 <= DailyCap + Cardinality(ImageCalls) + LostToday
  BY <1>5, SpendNumbers DEF CapsHold
<1>10. ASSUME NEW d \in Days, d < today + 1
       PROVE  billed[d]["openrouter"] + 1 <= DailyCap + Cardinality(ImageCalls) + uncounted[d]["openrouter"]
  <2>1. d = today \/ d < today
    BY <1>1, <1>10
  <2> QED
    BY <1>9, <1>10, <2>1 DEF CapsHold, BilledToday, LostToday
<1> QED
  BY <1>1, <1>6, <1>7, <1>8, <1>10 DEF CapsHold

\* Every step keeps the caps.
LEMMA StepsKeepCaps ==
  SpendTypeOK /\ CapsHold /\ [SpendNext]_spendVars => CapsHold'
<1> SUFFICES ASSUME SpendTypeOK, CapsHold, [SpendNext]_spendVars PROVE CapsHold'
  OBVIOUS
<1>1. ASSUME NEW c \in ChatCalls, StartTurn(c) PROVE CapsHold'
  <2>1. c \in Calls /\ c \notin ImageCalls /\ CallTo(c, "paying")
        /\ today' = today /\ counter' = counter /\ billed' = billed /\ uncounted' = uncounted
    BY <1>1, SpendNumbers DEF StartTurn
  <2>2. c \notin Paying /\ c \notin Counting
    BY <2>1 DEF Paying, Counting
  <2>3. Cardinality(Paying') = Cardinality(Paying) /\ Cardinality(Counting') = Cardinality(Counting)
    BY <2>1, <2>2, CallsCountedNext
  <2> QED
    BY <2>1, <2>3, OthersKeepCaps
<1>2. ASSUME NEW c \in ChatCalls, Paid(c) \/ PaidInVain(c) \/ CountCharge(c) \/ CountFails(c)
      PROVE  CapsHold'
  <2>1. c \in Calls /\ c \notin ImageCalls /\ today' = today /\ ProviderOf(c) = "openai"
    BY <1>2, SpendNumbers DEF Paid, PaidInVain, CountCharge, CountFails, ProviderOf
  <2>2. PICK s \in {"idle", "updating"} : CallTo(c, s)
    BY <1>2, <2>1 DEF Paid, PaidInVain, CountCharge, CountFails
  <2>3. c \notin Paying /\ c \notin Counting
    BY <2>1 DEF Paying, Counting
  <2>4. Cardinality(Paying') = Cardinality(Paying) /\ Cardinality(Counting') = Cardinality(Counting)
    BY <2>1, <2>2, <2>3, CallsCountedNext
  <2>5. /\ billed' = billed \/ billed' = Bump(billed, today, "openai")
        /\ counter' = counter \/ counter' = Bump(counter, today, "openai")
        /\ uncounted' = uncounted \/ uncounted' = Bump(uncounted, today, "openai")
    BY <1>2, <2>1 DEF Paid, PaidInVain, CountCharge, CountFails
  <2>6. \A d \in Days : /\ billed'[d]["openrouter"] = billed[d]["openrouter"]
                        /\ counter'[d]["openrouter"] = counter[d]["openrouter"]
                        /\ uncounted'[d]["openrouter"] = uncounted[d]["openrouter"]
    <3>1. \A d \in Days : billed'[d]["openrouter"] = billed[d]["openrouter"]
      BY <2>5, SpendNumbers, BumpSparesOthers
    <3>2. \A d \in Days : counter'[d]["openrouter"] = counter[d]["openrouter"]
      BY <2>5, SpendNumbers, BumpSparesOthers
    <3>3. \A d \in Days : uncounted'[d]["openrouter"] = uncounted[d]["openrouter"]
      BY <2>5, SpendNumbers, BumpSparesOthers
    <3> QED
      BY <3>1, <3>2, <3>3
  <2> QED
    BY <2>1, <2>4, <2>6, OthersKeepCaps
<1>3. ASSUME NEW c \in Calls, ChargeRow(c) \/ InsertCharge(c) \/ ChargeFails(c) PROVE CapsHold'
  <2>1. /\ call[c].at \in {"updating", "inserting"} /\ today' = today
        /\ counter' = counter /\ billed' = billed
    BY <1>3 DEF ChargeRow, InsertCharge, ChargeFails
  <2>2. PICK s \in {"idle", "inserting", "counting"} :
          CallTo(c, s) /\ (s = "counting" => c \notin ImageCalls)
    BY <1>3 DEF ChargeRow, InsertCharge, ChargeFails
  <2>3. c \notin Paying /\ c \notin Counting
    BY <2>1 DEF Paying, Counting
  <2>4. Cardinality(Paying') = Cardinality(Paying) /\ Cardinality(Counting') = Cardinality(Counting)
    BY <2>2, <2>3, CallsCountedNext
  <2>5. uncounted' = uncounted \/ uncounted' = Bump(uncounted, today, "openai")
    BY <1>3 DEF ChargeRow, InsertCharge, ChargeFails
  <2>6. \A d \in Days : uncounted'[d]["openrouter"] = uncounted[d]["openrouter"]
    BY <2>5, SpendNumbers, BumpSparesOthers
  <2> QED
    BY <2>1, <2>4, <2>6, OthersKeepCaps
<1>4. CASE UNCHANGED spendVars
  <2>1. /\ today' = today /\ counter' = counter /\ billed' = billed /\ uncounted' = uncounted
        /\ Paying' = Paying /\ Counting' = Counting
    BY <1>4 DEF spendVars, Paying, Counting
  <2> QED
    BY <2>1, OthersKeepCaps
<1>5. ASSUME NEW c \in Calls, Paid(c) \/ PaidInVain(c) \/ CountCharge(c) \/ CountFails(c)
      PROVE  CapsHold'
  BY <1>2, <1>5, ImageAnswersKeepCaps, ImageCountsKeepCaps DEF Calls
<1> QED
  BY <1>1, <1>3, <1>4, <1>5, AskingKeepsCaps, MidnightKeepsCaps DEF SpendNext

\* What a row has, and what the provider carried out, by day and provider.
PaidFn == [e \in Days \X CostProviders |-> billed[e[1]][e[2]]]

\* A call paid for is one unit more.
LEMMA PaidUnitsGrow ==
  ASSUME SpendTypeOK, IsFiniteSet(PaidUnits), NEW d \in Days, NEW p \in CostProviders,
         billed' = Bump(billed, d, p)
  PROVE  IsFiniteSet(PaidUnits') /\ Cardinality(PaidUnits') = Cardinality(PaidUnits) + 1
<1>1. PaidUnits = Units(PaidFn) /\ PaidUnits' = Units(PaidFn')
  BY DEF PaidUnits, PaidFn, Units
<1>2. billed \in Charges
  BY SpendNumbers
<1>3. PaidFn \in [Days \X CostProviders -> Nat]
  BY <1>2 DEF PaidFn, Charges
<1>4. PICK e \in Days \X CostProviders : e = <<d, p>>
  OBVIOUS
<1>5. PaidFn[e] = billed[d][p]
  BY <1>4 DEF PaidFn
<1>6. \A o \in Days \X CostProviders :
        billed'[o[1]][o[2]] = IF o = e THEN PaidFn[e] + 1 ELSE PaidFn[o]
  <2> TAKE o \in Days \X CostProviders
  <2>1. o[1] \in Days /\ o[2] \in CostProviders /\ o = <<o[1], o[2]>>
    OBVIOUS
  <2>2. PaidFn[o] = billed[o[1]][o[2]]
    BY DEF PaidFn
  <2> QED
    BY <1>2, <1>4, <1>5, <2>1, <2>2, BumpIsOneMore
<1>7. PaidFn' = [PaidFn EXCEPT ![e] = PaidFn[e] + 1]
  BY <1>3, <1>6 DEF PaidFn
<1>8. PICK g : g = PaidFn'
  OBVIOUS
<1>9. IsFiniteSet(Units(g)) /\ Cardinality(Units(g)) = Cardinality(Units(PaidFn)) + 1
  <2>1. PaidFn[e] + 1 \in Nat
    BY <1>3
  <2>2. /\ g \in [Days \X CostProviders -> Nat] /\ g[e] = PaidFn[e] + 1
        /\ \A x \in Days \X CostProviders : x # e => g[x] = PaidFn[x]
    BY <1>3, <1>7, <1>8, <2>1
  <2>3. IsFiniteSet(Units(PaidFn))
    BY <1>1
  <2> QED
    BY <1>3, <2>2, <2>3, UnitsGrow
<1> QED
  BY <1>1, <1>8, <1>9

\* A charge in a row is one unit more.
LEMMA RowUnitsGrow ==
  ASSUME SpendTypeOK, IsFiniteSet(RowUnits), NEW d \in Days,
         ledger' = [ledger EXCEPT ![d] = ledger[d] + 1]
  PROVE  IsFiniteSet(RowUnits') /\ Cardinality(RowUnits') = Cardinality(RowUnits) + 1
<1>1. RowUnits = Units(ledger) /\ RowUnits' = Units(ledger')
  BY DEF RowUnits, Units
<1>2. PICK g : g = ledger'
  OBVIOUS
<1>3. ledger \in [Days -> Nat]
  BY DEF SpendTypeOK
<1>4. IsFiniteSet(Units(g)) /\ Cardinality(Units(g)) = Cardinality(Units(ledger)) + 1
  <2>1. ledger[d] + 1 \in Nat
    BY <1>3
  <2>2. g \in [Days -> Nat] /\ g[d] = ledger[d] + 1 /\ \A x \in Days : x # d => g[x] = ledger[x]
    BY <1>2, <1>3, <2>1
  <2>3. IsFiniteSet(Units(ledger))
    BY <1>1
  <2> QED
    BY <1>3, <2>2, <2>3, UnitsGrow
<1> QED
  BY <1>1, <1>2, <1>4

\* Rows as they were, and as many calls owing or fewer.
LEMMA QuietRows ==
  ASSUME RowsHold, SpendTypeOK, ledger' = ledger, ledgerRows' = ledgerRows, billed' = billed,
         Cardinality(Owing') <= Cardinality(Owing), Cardinality(Owing') \in Nat
  PROVE  RowsHold'
<1>1. RowUnits' = RowUnits /\ PaidUnits' = PaidUnits
  BY DEF RowUnits, PaidUnits, Units
<1>2. Cardinality(RowUnits) \in Nat /\ Cardinality(PaidUnits) \in Nat
  BY FS_CardinalityType DEF RowsHold
<1>3. Cardinality(Owing) \in Nat
  BY CallsCounted
<1>4. Cardinality(RowUnits') + Cardinality(Owing') <= Cardinality(PaidUnits')
  BY <1>1, <1>2, <1>3 DEF RowsHold
<1> QED
  BY <1>1, <1>4 DEF RowsHold

\* A charge enters a row: the call owes it no more.
LEMMA RowWritten ==
  ASSUME RowsHold, SpendTypeOK, NEW d \in Days, ledger' = [ledger EXCEPT ![d] = ledger[d] + 1],
         ledgerRows' = ledgerRows \union {d}, billed' = billed,
         Cardinality(Owing') = Cardinality(Owing) - 1
  PROVE  RowsHold'
<1>1. PaidUnits' = PaidUnits
  BY DEF PaidUnits, Units
<1>2. IsFiniteSet(RowUnits') /\ Cardinality(RowUnits') = Cardinality(RowUnits) + 1
  BY RowUnitsGrow DEF RowsHold
<1>3. Cardinality(RowUnits) \in Nat /\ Cardinality(PaidUnits) \in Nat /\ Cardinality(Owing) \in Nat
  BY FS_CardinalityType, CallsCounted DEF RowsHold
<1>4. Cardinality(RowUnits') + Cardinality(Owing') <= Cardinality(PaidUnits')
  BY <1>1, <1>2, <1>3 DEF RowsHold
<1>5. \A e \in Days \ ledgerRows' : ledger'[e] = 0
  BY DEF RowsHold, SpendTypeOK
<1> QED
  BY <1>1, <1>2, <1>4, <1>5 DEF RowsHold

\* An answer: one unit more is paid for, and at most one call more owes it to a row.
LEMMA AnswerKeepsRows ==
  ASSUME RowsHold, SpendTypeOK, NEW c \in Calls, Paid(c) \/ PaidInVain(c)
  PROVE  RowsHold'
<1>1. /\ call[c].at = "paying" /\ today \in Days /\ ProviderOf(c) \in CostProviders
      /\ billed' = Bump(billed, today, ProviderOf(c))
      /\ ledger' = ledger /\ ledgerRows' = ledgerRows
  BY SpendNumbers DEF Paid, PaidInVain, ProviderOf, CostProviders
<1>2. PICK s \in {"idle", "updating", "counting"} : CallTo(c, s)
  BY <1>1 DEF Paid, PaidInVain
<1>3. c \notin Owing
  BY <1>1 DEF Owing, Counting
<1>4. Cardinality(Owing) \in Nat
  BY CallsCounted
<1>5. Cardinality(Owing') \in Nat /\ Cardinality(Owing') <= Cardinality(Owing) + 1
  <2>1. Cardinality(Owing') = Cardinality(Owing) \/ Cardinality(Owing') = Cardinality(Owing) + 1
    BY <1>2, <1>3, CallsCountedNext
  <2> QED
    BY <1>4, <2>1
<1>6. IsFiniteSet(PaidUnits') /\ Cardinality(PaidUnits') = Cardinality(PaidUnits) + 1
  BY <1>1, PaidUnitsGrow DEF RowsHold
<1>7. RowUnits' = RowUnits
  BY <1>1 DEF RowUnits, Units
<1>8. Cardinality(RowUnits) \in Nat /\ Cardinality(PaidUnits) \in Nat
  BY FS_CardinalityType DEF RowsHold
<1>9. Cardinality(RowUnits') + Cardinality(Owing') <= Cardinality(PaidUnits')
  BY <1>4, <1>5, <1>6, <1>7, <1>8 DEF RowsHold
<1> QED
  BY <1>1, <1>6, <1>7, <1>9 DEF RowsHold

\* Every step keeps the rows.
LEMMA StepsKeepRows ==
  SpendTypeOK /\ RowsHold /\ [SpendNext]_spendVars => RowsHold'
<1> SUFFICES ASSUME SpendTypeOK, RowsHold, [SpendNext]_spendVars PROVE RowsHold'
  OBVIOUS
<1>1. Cardinality(Owing) \in Nat
  BY CallsCounted
<1>2. ASSUME NEW c \in Calls, call[c].at = "idle", CallTo(c, "paying"), ledger' = ledger,
             ledgerRows' = ledgerRows, billed' = billed
      PROVE  RowsHold'
  <2>1. c \notin Owing
    BY <1>2 DEF Owing, Counting
  <2>2. Cardinality(Owing') = Cardinality(Owing)
    BY <1>2, <2>1, CallsCountedNext
  <2> QED
    BY <1>1, <1>2, <2>2, QuietRows
<1>3. ASSUME NEW c \in ImageCalls, AskForImage(c) \/ AskAgain(c) \/ AskUncounted(c) PROVE RowsHold'
  BY <1>2, <1>3, SpendNumbers DEF AskForImage, AskAgain, AskUncounted, CheckCap
<1>4. ASSUME NEW c \in ChatCalls, StartTurn(c) PROVE RowsHold'
  BY <1>2, <1>4, SpendNumbers DEF StartTurn
<1>5. ASSUME NEW c \in Calls, CountCharge(c) \/ CountFails(c) PROVE RowsHold'
  <2>1. /\ call[c].at = "counting" /\ ledger' = ledger /\ ledgerRows' = ledgerRows
        /\ billed' = billed /\ CallTo(c, IF c \in ImageCalls THEN "updating" ELSE "idle")
    BY <1>5 DEF CountCharge, CountFails
  <2>2. Cardinality(Owing') = Cardinality(Owing)
    <3>1. CASE c \in ImageCalls
      <4>1. c \in Owing /\ CallTo(c, "updating")
        BY <2>1, <3>1 DEF Owing, Counting
      <4> QED
        BY <4>1, CallsCountedNext
    <3>2. CASE c \notin ImageCalls
      <4>1. c \notin Owing /\ CallTo(c, "idle")
        BY <2>1, <3>2 DEF Owing, Counting
      <4> QED
        BY <4>1, CallsCountedNext
    <3> QED
      BY <3>1, <3>2
  <2> QED
    BY <1>1, <2>1, <2>2, QuietRows
<1>6. ASSUME NEW c \in Calls, ChargeRow(c) PROVE RowsHold'
  <2>1. c \in Owing /\ call[c].at = "updating" /\ billed' = billed /\ today \in Days
    BY <1>6, SpendNumbers DEF ChargeRow, Owing
  <2>2. CASE c \in ImageCalls /\ today \notin ledgerRows
    <3>1. CallTo(c, "inserting") /\ ledger' = ledger /\ ledgerRows' = ledgerRows
      BY <1>6, <2>2 DEF ChargeRow
    <3>2. Cardinality(Owing') = Cardinality(Owing)
      BY <2>1, <3>1, CallsCountedNext
    <3> QED
      BY <1>1, <2>1, <3>1, <3>2, QuietRows
  <2>3. CASE ~(c \in ImageCalls /\ today \notin ledgerRows)
    <3>1. /\ CallTo(c, IF c \in ImageCalls THEN "idle" ELSE "counting")
          /\ ledger' = [ledger EXCEPT ![today] = ledger[today] + 1]
          /\ ledgerRows' = ledgerRows \union {today}
      BY <1>6, <2>3 DEF ChargeRow
    <3>2. PICK s \in {"idle", "counting"} : CallTo(c, s) /\ (s = "counting" => c \notin ImageCalls)
      BY <3>1
    <3>3. Cardinality(Owing') = Cardinality(Owing) - 1
      BY <2>1, <3>2, CallsCountedNext
    <3> QED
      BY <2>1, <3>1, <3>3, RowWritten
  <2> QED
    BY <2>2, <2>3
<1>7. ASSUME NEW c \in Calls, InsertCharge(c) PROVE RowsHold'
  <2>1. PICK d \in Days : d = call[c].day
    BY DEF SpendTypeOK
  <2>2. /\ c \in Owing /\ CallTo(c, "idle") /\ billed' = billed
        /\ ledgerRows' = ledgerRows \union {d}
        /\ ledger' = [ledger EXCEPT ![d] = IF d \in ledgerRows THEN ledger[d] ELSE 1]
    BY <1>7, <2>1 DEF InsertCharge, Owing
  <2>3. Cardinality(Owing') = Cardinality(Owing) - 1
    BY <2>2, CallsCountedNext
  <2>4. CASE d \in ledgerRows
    <3>1. ledger' = ledger /\ ledgerRows' = ledgerRows
      BY <2>2, <2>4 DEF SpendTypeOK
    <3>2. Cardinality(Owing') \in Nat
      <4>1. Cardinality(Owing) >= 1
        <5>1. IsFiniteSet(Owing)
          BY CallsCounted
        <5>2. Cardinality(Owing) # 0
          BY <2>2, <5>1, FS_EmptySet
        <5> QED
          BY <1>1, <5>2
      <4> QED
        BY <1>1, <2>3, <4>1
    <3> QED
      BY <1>1, <2>2, <2>3, <3>1, <3>2, QuietRows
  <2>5. CASE d \notin ledgerRows
    <3>1. ledger[d] = 0
      BY <2>5 DEF RowsHold
    <3>2. ledger' = [ledger EXCEPT ![d] = ledger[d] + 1]
      BY <2>2, <2>5, <3>1
    <3> QED
      BY <2>2, <2>3, <3>2, RowWritten
  <2> QED
    BY <2>4, <2>5
<1>8. ASSUME NEW c \in Calls, ChargeFails(c) PROVE RowsHold'
  <2>1. /\ c \in Owing /\ CallTo(c, "idle") /\ billed' = billed
        /\ ledger' = ledger /\ ledgerRows' = ledgerRows
    BY <1>8 DEF ChargeFails, Owing
  <2>2. Cardinality(Owing') = Cardinality(Owing) - 1
    BY <2>1, CallsCountedNext
  <2>3. Cardinality(Owing) # 0
    <3>1. IsFiniteSet(Owing)
      BY CallsCounted
    <3> QED
      BY <2>1, <3>1, FS_EmptySet
  <2> QED
    BY <1>1, <2>1, <2>2, <2>3, QuietRows
<1>9. ASSUME UNCHANGED spendVars \/ Midnight PROVE RowsHold'
  <2>1. ledger' = ledger /\ ledgerRows' = ledgerRows /\ billed' = billed /\ call' = call
    BY <1>9 DEF spendVars, Midnight
  <2>2. Owing' = Owing
    BY <2>1 DEF Owing, Counting
  <2> QED
    BY <1>1, <2>1, <2>2, QuietRows
<1> QED
  BY <1>3, <1>4, <1>5, <1>6, <1>7, <1>8, <1>9, AnswerKeepsRows DEF SpendNext

\* Nothing is spent at the start.
LEMMA SpendStarts == SpendInit => SpendInv
<1> SUFFICES ASSUME SpendInit PROVE SpendInv
  OBVIOUS
<1>1. SpendTypeOK
  BY SpendingBounds DEF SpendInit, SpendTypeOK, Days, CostProviders, Idle
<1>2. Paying = {} /\ Counting = {} /\ Owing = {}
  BY DEF SpendInit, Paying, Counting, Owing, Idle, Calls
<1>3. Cardinality(Paying) = 0 /\ Cardinality(Counting) = 0 /\ Cardinality(Owing) = 0
  BY <1>2, FS_EmptySet
<1>4. Cardinality(ImageCalls) \in Nat
  BY <1>1, CallsCounted
<1>5. /\ today \in Days /\ today = 0 /\ "openrouter" \in CostProviders
      /\ \A d \in Days : /\ billed[d]["openrouter"] = 0 /\ counter[d]["openrouter"] = 0
                         /\ uncounted[d]["openrouter"] = 0
  BY <1>1 DEF SpendInit, SpendTypeOK, CostProviders
<1>6. CapsHold
  <2>1. BilledToday = 0 /\ CountedToday = 0 /\ LostToday = 0
    BY <1>5 DEF BilledToday, CountedToday, LostToday
  <2>2. \A d \in Days : ~(d < today)
    BY <1>5 DEF Days
  <2> QED
    BY <1>1, <1>3, <1>4, <1>5, <2>1, <2>2, SpendNumbers DEF CapsHold
<1>7. RowUnits = {}
  <2>1. \A d \in Days : 1..ledger[d] = {}
    BY DEF SpendInit
  <2>2. DOMAIN ledger = Days
    BY DEF SpendInit
  <2> QED
    BY <2>1, <2>2 DEF RowUnits, Units
<1>8. PaidUnits = {}
  <2>1. PaidUnits = Units(PaidFn) /\ DOMAIN PaidFn = Days \X CostProviders
    BY DEF PaidUnits, PaidFn
  <2>2. \A e \in Days \X CostProviders : 1..PaidFn[e] = {}
    BY DEF SpendInit, PaidFn
  <2> QED
    BY <2>1, <2>2 DEF Units
<1>9. RowsHold
  <2>1. \A d \in Days \ ledgerRows : ledger[d] = 0
    BY DEF SpendInit
  <2>2. IsFiniteSet({}) /\ Cardinality({}) = 0
    BY FS_EmptySet
  <2>3. /\ IsFiniteSet(RowUnits) /\ IsFiniteSet(PaidUnits)
        /\ Cardinality(RowUnits) = 0 /\ Cardinality(PaidUnits) = 0
    BY <1>7, <1>8, <2>2
  <2> QED
    BY <1>3, <2>1, <2>3 DEF RowsHold
<1> QED
  BY <1>1, <1>6, <1>9 DEF SpendInv

\* What is spent stays within the caps and the rows within what is spent, and the
\* invariant says why at every step of a call.
THEOREM SpendInvariant == SpendSpec => []SpendInv
<1>1. SpendInv /\ [SpendNext]_spendVars => SpendInv'
  BY SpendKeepsTypes, StepsKeepCaps, StepsKeepRows DEF SpendInv
<1> QED
  BY <1>1, SpendStarts, PTL DEF SpendSpec

\* OverspendIsBounded, on every day and for any number of calls: what OpenRouter carried
\* out exceeds the cap by no more than the calls in flight and those whose charge was
\* lost, and the rows of the ledger have no more than was paid for.
THEOREM OverspendStaysBounded == SpendSpec => []OverspendIsBounded
<1>1. SpendInv => OverspendIsBounded
  <2> SUFFICES ASSUME SpendInv PROVE OverspendIsBounded
    OBVIOUS
  <2>1. /\ today \in Nat /\ Days \subseteq Nat /\ Cardinality(ImageCalls) \in Nat
        /\ Cardinality(Paying) \in Nat /\ Cardinality(Owing) \in Nat
        /\ Cardinality(RowUnits) \in Nat /\ Cardinality(PaidUnits) \in Nat
    BY SpendNumbers, CallsCounted, FS_CardinalityType DEF SpendInv, RowsHold, Days
  <2>2. \A d \in Days : uncounted[d]["openrouter"] \in Nat
    BY SpendNumbers DEF SpendInv, Charges
  <2>3. ASSUME NEW d \in Days
        PROVE  billed[d]["openrouter"] + 1
                 <= DailyCap + Cardinality(ImageCalls) + uncounted[d]["openrouter"]
    <3>1. d \in Nat /\ (d < today \/ d = today \/ d > today)
      BY <2>1
    <3>2. CASE d < today
      BY <3>2 DEF SpendInv, CapsHold
    <3>3. CASE d = today
      BY <2>1, <3>3, SpendNumbers DEF SpendInv, CapsHold, BilledToday, LostToday
    <3>4. CASE d > today
      BY <2>1, <2>2, <3>4, SpendNumbers DEF SpendInv, CapsHold
    <3> QED
      BY <3>1, <3>2, <3>3, <3>4
  <2>4. Cardinality(RowUnits) <= Cardinality(PaidUnits)
    BY <2>1 DEF SpendInv, RowsHold
  <2> QED
    BY <2>3, <2>4 DEF OverspendIsBounded
<1> QED
  BY <1>1, SpendInvariant, PTL

-----------------------------------------------------------------------------
(* Memory                                                                  *)

MemoryRows == [facts : SUBSET Facts, summary : BOOLEAN]
PassRecords == [at : {"none", "summarising", "writing", "deleting"}, evict : SUBSET RowIds,
                chunks : SUBSET Chunks, text : SUBSET Facts, written : SUBSET RowIds]

\* A fact is in a row, or has a known cause for being in none.
Safe(x) ==
  \/ x \in letGo \union leftOut
  \/ \E r \in DOMAIN memRows : x \in memRows[r].facts

\* The same of the rows that the pass under way leaves, and of what it has still to write.
SafeInPass(x) ==
  \/ x \in letGo \union leftOut \union pass.text
  \/ \E c \in pass.chunks : x \in c.shown \union c.rest
  \/ \E r \in DOMAIN memRows \ (pass.evict \ pass.written) : x \in memRows[r].facts

\* What a pass holds while it is where it is.
PassShape ==
  /\ pass.evict \subseteq 1..nextRow - 1
  /\ pass.at # "writing" => pass.text = {}
  /\ pass.at = "deleting" => pass.chunks = {}
  /\ pass.at = "none" => pass.evict = {}

MemInv ==
  /\ MemTypeOK /\ PassShape
  /\ \A x \in told : Safe(x) /\ (pass.at # "none" => SafeInPass(x))

\* The types, field by field.
LEMMA MemTypes ==
  MemTypeOK <=>
    /\ nextRow \in 1..RowLimit + 1 /\ DOMAIN memRows \subseteq 1..nextRow - 1
    /\ \A r \in DOMAIN memRows : memRows[r] \in MemoryRows
    /\ pass \in PassRecords
    /\ curating \in [at : {"none", "thinking"}, prune : SUBSET RowIds]
    /\ told \subseteq Facts /\ letGo \subseteq Facts /\ leftOut \subseteq Facts
    /\ memFaults \in 0..MemFaults
BY DEF MemTypeOK, MemoryRows, PassRecords

\* The same in the next state.
LEMMA MemTypesNext ==
  ASSUME nextRow' \in 1..RowLimit + 1, DOMAIN memRows' \subseteq 1..nextRow' - 1,
         \A r \in DOMAIN memRows' : memRows'[r] \in MemoryRows,
         pass' \in PassRecords,
         curating' \in [at : {"none", "thinking"}, prune : SUBSET RowIds],
         told' \subseteq Facts, letGo' \subseteq Facts, leftOut' \subseteq Facts,
         memFaults' \in 0..MemFaults
  PROVE  MemTypeOK'
BY DEF MemTypeOK, MemoryRows, PassRecords

\* Ids are numbers, and the next one is free.
LEMMA NextIsFree ==
  MemTypeOK => /\ nextRow \in Nat /\ RowLimit \in Nat /\ nextRow \notin DOMAIN memRows
               /\ \A k \in 1..nextRow - 1 : k \in 1..nextRow /\ k # nextRow
               /\ DOMAIN memRows \subseteq RowIds
               /\ nextRow \notin 1..nextRow - 1
BY MemBounds DEF MemTypeOK, RowIds

\* The chunks of a set of rows have every fact of the rows.
LEMMA ChunksHaveAll ==
  ASSUME MemTypeOK, NEW ids \in SUBSET DOMAIN memRows
  PROVE  /\ ChunksOf(ids) \subseteq Chunks
         /\ \A r \in ids : \A x \in memRows[r].facts :
              \E c \in ChunksOf(ids) : x \in c.shown \union c.rest
<1> DEFINE n == Cardinality(ids)
           size == IF n <= Batches THEN n ELSE (n + Batches - 1) \div Batches
           rank == [r \in ids |-> Cardinality({q \in ids : q < r})]
           AsShown(k) == {r \in ids : rank[r] \div size = k /\ rank[r] % size < SummaryMax}
           Part(k) == {r \in ids : rank[r] \div size = k}
           Chunk(k) == [rows |-> Part(k), shown |-> FactsOf(AsShown(k)),
                        rest |-> FactsOf(Part(k)) \ FactsOf(AsShown(k))]
<1>1. ChunksOf(ids) = {Chunk(k) : k \in {rank[r] \div size : r \in ids}}
  BY DEF ChunksOf
<1>2. ids \subseteq RowIds /\ \A r \in ids : memRows[r].facts \subseteq Facts
  BY NextIsFree DEF MemTypeOK
<1> HIDE DEF n, size, rank
<1>3. ASSUME NEW c \in ChunksOf(ids) PROVE c \in Chunks
  <2>1. PICK k : c = Chunk(k)
    BY <1>1, <1>3
  <2>2. Part(k) \subseteq RowIds /\ FactsOf(AsShown(k)) \subseteq Facts /\ FactsOf(Part(k)) \subseteq Facts
    BY <1>2 DEF FactsOf
  <2> QED
    BY <2>1, <2>2 DEF Chunks
<1>4. ASSUME NEW r \in ids, NEW x \in memRows[r].facts
      PROVE  \E c \in ChunksOf(ids) : x \in c.shown \union c.rest
  <2>1. PICK k : k = rank[r] \div size
    OBVIOUS
  <2>2. Chunk(k) \in ChunksOf(ids)
    BY <1>1, <2>1
  <2>3. x \in FactsOf(Part(k))
    BY <1>4, <2>1 DEF FactsOf
  <2>4. x \in Chunk(k).shown \union Chunk(k).rest
    BY <2>3
  <2> QED
    BY <2>2, <2>4
<1> QED
  BY <1>3, <1>4

\* A new row.
LEMMA InsertAdds ==
  ASSUME MemTypeOK, NEW text \in SUBSET Facts, NEW b \in BOOLEAN, Insert(text, b)
  PROVE  /\ nextRow' \in 1..RowLimit + 1 /\ nextRow' = nextRow + 1
         /\ DOMAIN memRows' = DOMAIN memRows \union {nextRow}
         /\ DOMAIN memRows' \subseteq 1..nextRow' - 1
         /\ \A r \in DOMAIN memRows' : memRows'[r] \in MemoryRows
         /\ \A r \in DOMAIN memRows : memRows'[r] = memRows[r]
         /\ memRows'[nextRow].facts = text
<1>1. nextRow' = nextRow + 1 /\ nextRow <= RowLimit /\ nextRow \in 1..RowLimit + 1
      /\ RowLimit \in Nat
      /\ memRows' = [r \in DOMAIN memRows \union {nextRow} |->
                       IF r = nextRow THEN [facts |-> text, summary |-> b] ELSE memRows[r]]
  BY NextIsFree DEF Insert, MemTypeOK
<1>2. DOMAIN memRows' = DOMAIN memRows \union {nextRow}
  BY <1>1
<1>3. memRows'[nextRow] = [facts |-> text, summary |-> b]
  BY <1>1
<1>4. \A r \in DOMAIN memRows : memRows'[r] = memRows[r]
  BY <1>1, NextIsFree
<1>5. [facts |-> text, summary |-> b] \in MemoryRows
  BY DEF MemoryRows
<1>6. DOMAIN memRows' \subseteq 1..nextRow' - 1 /\ nextRow' \in 1..RowLimit + 1
  BY <1>1, <1>2 DEF MemTypeOK
<1> QED
  BY <1>1, <1>2, <1>3, <1>4, <1>5, <1>6, MemTypes

\* A text in the place of another.
LEMMA MergeReplaces ==
  ASSUME MemTypeOK, NEW r \in DOMAIN memRows, NEW text \in SUBSET Facts, NEW b \in BOOLEAN,
         Merge(r, text, b)
  PROVE  /\ nextRow' = nextRow /\ DOMAIN memRows' = DOMAIN memRows
         /\ \A o \in DOMAIN memRows' : memRows'[o] \in MemoryRows
         /\ \A o \in DOMAIN memRows : o # r => memRows'[o] = memRows[o]
         /\ memRows'[r].facts = text
<1>1. /\ nextRow' = nextRow
      /\ memRows' = [memRows EXCEPT ![r] = [facts |-> text, summary |-> memRows[r].summary \/ b]]
  BY DEF Merge
<1>2. memRows[r] \in MemoryRows
  BY MemTypes
<1>3. (memRows[r].summary \/ b) \in BOOLEAN
  BY Zenon
<1>4. PICK s \in BOOLEAN : s = (memRows[r].summary \/ b)
  BY <1>3
<1>5. [facts |-> text, summary |-> s] \in MemoryRows
  BY DEF MemoryRows
<1>6. memRows' = [memRows EXCEPT ![r] = [facts |-> text, summary |-> s]]
  BY <1>1, <1>4, Zenon
<1> QED
  BY <1>1, <1>5, <1>6, MemTypes

\* Rows deleted.
LEMMA DeleteRemoves ==
  ASSUME MemTypeOK, NEW ids, DeleteRows(ids)
  PROVE  /\ DOMAIN memRows' = DOMAIN memRows \ ids
         /\ \A r \in DOMAIN memRows' : memRows'[r] = memRows[r] /\ memRows'[r] \in MemoryRows
<1>1. memRows' = [r \in DOMAIN memRows \ ids |-> memRows[r]]
  BY DEF DeleteRows
<1> QED
  BY <1>1, MemTypes

\* A text written into row q, which may be new, while a pass goes on.
LEMMA WrittenIsSafe ==
  ASSUME MemInv, NEW q, NEW text, NEW lost,
         DOMAIN memRows' = DOMAIN memRows \union {q},
         \A o \in DOMAIN memRows : o # q => memRows'[o] = memRows[o],
         memRows'[q].facts = text,
         q \in DOMAIN memRows => memRows[q].facts \subseteq lost \union text,
         lost \subseteq letGo' \union leftOut',
         (letGo \union leftOut) \ text \subseteq letGo' \union leftOut'
  PROVE  /\ \A x : Safe(x) \/ x \in text => Safe(x)'
         /\ /\ pass'.evict = pass.evict /\ pass'.chunks = pass.chunks
            /\ pass.written \subseteq pass'.written /\ (q \in pass.evict => q \in pass'.written)
            /\ pass.text \subseteq pass'.text \union text
            => \A x : SafeInPass(x) \/ x \in text => SafeInPass(x)'
<1>1. ASSUME NEW x, Safe(x) \/ x \in text PROVE Safe(x)'
  <2>1. CASE x \in text
    BY <2>1 DEF Safe
  <2>2. CASE x \notin text /\ x \in letGo \union leftOut
    BY <2>2 DEF Safe
  <2>3. ASSUME NEW r \in DOMAIN memRows, x \in memRows[r].facts, x \notin text PROVE Safe(x)'
    BY <2>3 DEF Safe
  <2> QED
    BY <1>1, <2>1, <2>2, <2>3 DEF Safe
<1>2. ASSUME /\ pass'.evict = pass.evict /\ pass'.chunks = pass.chunks
             /\ pass.written \subseteq pass'.written /\ (q \in pass.evict => q \in pass'.written)
             /\ pass.text \subseteq pass'.text \union text,
             NEW x, SafeInPass(x) \/ x \in text
      PROVE  SafeInPass(x)'
  <2>1. CASE x \in text
    <3>1. q \in DOMAIN memRows' \ (pass'.evict \ pass'.written)
      BY <1>2
    <3> QED
      BY <2>1, <3>1 DEF SafeInPass
  <2>2. CASE x \notin text /\ x \in letGo \union leftOut \union pass.text
    BY <1>2, <2>2 DEF SafeInPass
  <2>3. ASSUME NEW c \in pass.chunks, x \in c.shown \union c.rest PROVE SafeInPass(x)'
    BY <1>2, <2>3 DEF SafeInPass
  <2>4. ASSUME NEW r \in DOMAIN memRows \ (pass.evict \ pass.written), x \in memRows[r].facts,
               x \notin text
        PROVE  SafeInPass(x)'
    <3>1. CASE r = q
      BY <2>4, <3>1 DEF SafeInPass
    <3>2. CASE r # q
      <4>1. r \in DOMAIN memRows' \ (pass'.evict \ pass'.written) /\ memRows'[r] = memRows[r]
        BY <1>2, <3>2
      <4> QED
        BY <2>4, <4>1 DEF SafeInPass
    <3> QED
      BY <3>1, <3>2
  <2> QED
    BY <1>2, <2>1, <2>2, <2>3, <2>4 DEF SafeInPass
<1> QED
  BY <1>1, <1>2, Zenon

\* add_memory.
LEMMA MemoryAdded ==
  ASSUME MemInv, NEW f \in Facts, AddMemory(f), leftOut \ {f} \subseteq leftOut'
  PROVE  /\ nextRow' \in 1..RowLimit + 1 /\ DOMAIN memRows' \subseteq 1..nextRow' - 1
         /\ \A r \in DOMAIN memRows' : memRows'[r] \in MemoryRows
         /\ pass' \in PassRecords /\ letGo' \subseteq Facts /\ PassShape' /\ pass'.at = pass.at
         /\ \A x : Safe(x) \/ x = f => Safe(x)'
         /\ \A x : SafeInPass(x) \/ x = f => SafeInPass(x)'
<1>1. MemTypeOK /\ PassShape /\ pass \in PassRecords /\ {f} \in SUBSET Facts
  BY MemTypes DEF MemInv
<1>2. CASE Insert({f}, FALSE) /\ letGo' = letGo \ {f} /\ UNCHANGED pass
  <2>1. pass' = pass
    BY <1>2
  <2>2. /\ nextRow' \in 1..RowLimit + 1 /\ nextRow' = nextRow + 1
        /\ DOMAIN memRows' = DOMAIN memRows \union {nextRow}
        /\ DOMAIN memRows' \subseteq 1..nextRow' - 1
        /\ \A r \in DOMAIN memRows' : memRows'[r] \in MemoryRows
        /\ \A r \in DOMAIN memRows : memRows'[r] = memRows[r]
        /\ memRows'[nextRow].facts = {f}
    BY <1>1, <1>2, InsertAdds
  <2>3. nextRow \notin DOMAIN memRows /\ nextRow \notin pass.evict
        /\ pass.evict \subseteq 1..nextRow' - 1
    BY <1>1, <2>2, NextIsFree DEF PassShape
  <2>4. PassShape' /\ letGo' \subseteq Facts
    BY <1>1, <1>2, <2>1, <2>3, MemTypes DEF PassShape
  <2>5. PICK q : q = nextRow
    OBVIOUS
  <2>6. /\ DOMAIN memRows' = DOMAIN memRows \union {q}
        /\ \A o \in DOMAIN memRows : o # q => memRows'[o] = memRows[o]
        /\ memRows'[q].facts = {f} /\ q \notin DOMAIN memRows /\ q \notin pass.evict
    BY <2>2, <2>3, <2>5
  <2>7. {} \subseteq letGo' \union leftOut' /\ (letGo \union leftOut) \ {f} \subseteq letGo' \union leftOut'
    BY <1>2
  <2>8. \A x : Safe(x) \/ x \in {f} => Safe(x)'
    BY <2>6, <2>7, WrittenIsSafe
  <2>9. \A x : SafeInPass(x) \/ x \in {f} => SafeInPass(x)'
    BY <2>1, <2>6, <2>7, WrittenIsSafe
  <2> QED
    BY <1>1, <2>1, <2>2, <2>4, <2>8, <2>9
<1>3. ASSUME NEW r \in NearDuplicates({f}), Merge(r, {f}, FALSE), PassMissed(r),
             letGo' = (letGo \union memRows[r].facts) \ {f}
      PROVE  /\ nextRow' \in 1..RowLimit + 1 /\ DOMAIN memRows' \subseteq 1..nextRow' - 1
             /\ \A o \in DOMAIN memRows' : memRows'[o] \in MemoryRows
             /\ pass' \in PassRecords /\ letGo' \subseteq Facts /\ PassShape' /\ pass'.at = pass.at
             /\ \A x : Safe(x) \/ x = f => Safe(x)'
             /\ \A x : SafeInPass(x) \/ x = f => SafeInPass(x)'
  <2>1. r \in DOMAIN memRows /\ memRows[r].facts \subseteq Facts /\ r \in RowIds
    BY <1>1, NextIsFree, MemTypes DEF NearDuplicates, MemoryRows
  <2>2. /\ nextRow' = nextRow /\ DOMAIN memRows' = DOMAIN memRows
        /\ \A o \in DOMAIN memRows' : memRows'[o] \in MemoryRows
        /\ \A o \in DOMAIN memRows : o # r => memRows'[o] = memRows[o]
        /\ memRows'[r].facts = {f}
    BY <1>1, <1>3, <2>1, MergeReplaces
  <2>3. PICK w \in SUBSET RowIds :
          /\ pass' = [pass EXCEPT !.written = w] /\ pass.written \subseteq w
          /\ r \in pass.evict => r \in w
    <3>1. PICK w : w = IF r \in pass.evict THEN pass.written \union {r} ELSE pass.written
      OBVIOUS
    <3>2. w \in SUBSET RowIds
      BY <1>1, <2>1, <3>1 DEF PassRecords
    <3> QED
      BY <1>3, <3>1, <3>2 DEF PassMissed
  <2>4. /\ pass' \in PassRecords /\ pass'.at = pass.at /\ pass'.evict = pass.evict
        /\ pass'.chunks = pass.chunks /\ pass'.text = pass.text /\ pass'.written = w
    BY <1>1, <2>3 DEF PassRecords
  <2>5. PassShape'
    BY <1>1, <2>2, <2>4 DEF PassShape
  <2>6. letGo' \subseteq Facts
    BY <1>1, <1>3, <2>1, MemTypes
  <2>7. PICK lost : lost = memRows[r].facts \ {f}
    OBVIOUS
  <2>8. /\ memRows[r].facts \subseteq lost \union {f} /\ lost \subseteq letGo' \union leftOut'
        /\ (letGo \union leftOut) \ {f} \subseteq letGo' \union leftOut'
        /\ DOMAIN memRows' = DOMAIN memRows \union {r}
    BY <1>3, <2>1, <2>2, <2>7
  <2>9. \A x : Safe(x) \/ x \in {f} => Safe(x)'
    BY <2>2, <2>8, WrittenIsSafe
  <2>10. \A x : SafeInPass(x) \/ x \in {f} => SafeInPass(x)'
    BY <2>2, <2>3, <2>4, <2>8, WrittenIsSafe
  <2> QED
    BY <1>1, <2>2, <2>4, <2>5, <2>6, <2>9, <2>10 DEF MemTypeOK
<1> QED
  BY <1>2, <1>3 DEF AddMemory

\* A turn stores a fact.
LEMMA StoringIsSafe == ASSUME MemInv, NEW f \in Facts, StoreMemory(f) PROVE MemInv'
<1>1. /\ AddMemory(f) /\ told' = told \union {f} /\ leftOut' = leftOut \ {f}
      /\ curating' = curating /\ memFaults' = memFaults
  BY DEF StoreMemory
<1>2. /\ nextRow' \in 1..RowLimit + 1 /\ DOMAIN memRows' \subseteq 1..nextRow' - 1
      /\ \A r \in DOMAIN memRows' : memRows'[r] \in MemoryRows
      /\ pass' \in PassRecords /\ letGo' \subseteq Facts /\ PassShape' /\ pass'.at = pass.at
      /\ \A x : Safe(x) \/ x = f => Safe(x)'
      /\ \A x : SafeInPass(x) \/ x = f => SafeInPass(x)'
  BY <1>1, MemoryAdded
<1>3. MemTypeOK'
  BY <1>1, <1>2, MemTypes, MemTypesNext DEF MemInv
<1>4. \A x \in told' : Safe(x)' /\ (pass'.at # "none" => SafeInPass(x)')
  BY <1>1, <1>2 DEF MemInv
<1> QED
  BY <1>2, <1>3, <1>4 DEF MemInv

\* The curator ends, with a memory of its own or none.
LEMMA CurationEndsSafely == ASSUME MemInv, CurationEnds PROVE MemInv'
<1>1. curating' = NoCuration /\ told' = told /\ leftOut' = leftOut /\ memFaults' = memFaults
  BY DEF CurationEnds
<1>2. curating' \in [at : {"none", "thinking"}, prune : SUBSET RowIds]
  BY <1>1 DEF NoCuration
<1>3. ASSUME NEW f \in Facts, AddMemory(f) PROVE MemInv'
  <2>1. leftOut \ {f} \subseteq leftOut'
    BY <1>1
  <2>2. /\ nextRow' \in 1..RowLimit + 1 /\ DOMAIN memRows' \subseteq 1..nextRow' - 1
        /\ \A r \in DOMAIN memRows' : memRows'[r] \in MemoryRows
        /\ pass' \in PassRecords /\ letGo' \subseteq Facts /\ PassShape' /\ pass'.at = pass.at
        /\ \A x : Safe(x) \/ x = f => Safe(x)'
        /\ \A x : SafeInPass(x) \/ x = f => SafeInPass(x)'
    BY <1>3, <2>1, MemoryAdded
  <2>3. MemTypeOK'
    BY <1>1, <1>2, <2>2, MemTypes, MemTypesNext DEF MemInv
  <2>4. \A x \in told' : Safe(x)' /\ (pass'.at # "none" => SafeInPass(x)')
    BY <1>1, <2>2 DEF MemInv
  <2> QED
    BY <2>2, <2>3, <2>4 DEF MemInv
<1>4. CASE UNCHANGED <<memRows, nextRow, pass, letGo>>
  <2>1. memRows' = memRows /\ nextRow' = nextRow /\ pass' = pass /\ letGo' = letGo
    BY <1>4
  <2>2. MemTypeOK'
    BY <1>1, <1>2, <2>1, MemTypes, MemTypesNext DEF MemInv
  <2> QED
    BY <1>1, <2>1, <2>2 DEF MemInv, PassShape, Safe, SafeInPass
<1> QED
  BY <1>3, <1>4 DEF CurationEnds

\* Rows deleted while nothing else changes what is known of a fact.
LEMMA RowsGone ==
  ASSUME MemInv, NEW ids, DeleteRows(ids), nextRow' = nextRow, pass' = pass, NEW x,
         letGo \subseteq letGo', leftOut' = leftOut,
         \A r \in DOMAIN memRows \intersect ids : x \notin memRows[r].facts \/ x \in letGo'
  PROVE  (Safe(x) => Safe(x)') /\ (SafeInPass(x) => SafeInPass(x)')
<1>1. /\ DOMAIN memRows' = DOMAIN memRows \ ids
      /\ \A r \in DOMAIN memRows' : memRows'[r] = memRows[r]
  BY DeleteRemoves DEF MemInv
<1>2. ASSUME Safe(x) PROVE Safe(x)'
  <2>1. CASE x \in letGo \union leftOut
    BY <2>1 DEF Safe
  <2>2. ASSUME NEW r \in DOMAIN memRows, x \in memRows[r].facts PROVE Safe(x)'
    BY <1>1, <2>2 DEF Safe
  <2> QED
    BY <1>2, <2>1, <2>2 DEF Safe
<1>3. ASSUME SafeInPass(x) PROVE SafeInPass(x)'
  <2>1. CASE x \in letGo \union leftOut \union pass.text
    BY <2>1 DEF SafeInPass
  <2>2. CASE \E c \in pass.chunks : x \in c.shown \union c.rest
    BY <2>2 DEF SafeInPass
  <2>3. ASSUME NEW r \in DOMAIN memRows \ (pass.evict \ pass.written), x \in memRows[r].facts
        PROVE  SafeInPass(x)'
    BY <1>1, <2>3 DEF SafeInPass
  <2> QED
    BY <1>3, <2>1, <2>2, <2>3 DEF SafeInPass
<1> QED
  BY <1>2, <1>3

\* The user has a row forgotten, or all, and the curator prunes one.
LEMMA ForgettingIsSafe ==
  ASSUME MemInv,
         \/ \E r \in DOMAIN memRows : ForgetMemory(r)
         \/ ForgetAll
         \/ \E r \in curating.prune : CuratorPrunes(r)
  PROVE  MemInv'
<1>1. MemTypeOK /\ PassShape
  BY DEF MemInv
<1>2. ASSUME NEW ids, DeleteRows(ids), nextRow' = nextRow, pass' = pass,
             curating' \in [at : {"none", "thinking"}, prune : SUBSET RowIds],
             told' \subseteq told, letGo' \subseteq Facts, letGo \subseteq letGo', leftOut' = leftOut,
             memFaults' = memFaults,
             \A x \in told' : \A r \in DOMAIN memRows \intersect ids :
               x \notin memRows[r].facts \/ x \in letGo'
      PROVE  MemInv'
  <2>1. MemTypeOK'
    BY <1>1, <1>2, DeleteRemoves, MemTypes, MemTypesNext
  <2>2. PassShape'
    BY <1>1, <1>2 DEF PassShape
  <2>3. \A x \in told' : (Safe(x) => Safe(x)') /\ (SafeInPass(x) => SafeInPass(x)')
    BY <1>2, RowsGone
  <2>4. \A x \in told' : Safe(x) /\ (pass.at # "none" => SafeInPass(x))
    BY <1>2 DEF MemInv
  <2> QED
    BY <1>2, <2>1, <2>2, <2>3, <2>4 DEF MemInv
<1>3. ASSUME NEW r \in DOMAIN memRows, ForgetMemory(r) PROVE MemInv'
  <2>1. /\ DeleteRows({r}) /\ nextRow' = nextRow /\ pass' = pass /\ curating' = curating
        /\ told' = told \ memRows[r].facts /\ letGo' = letGo /\ leftOut' = leftOut
        /\ memFaults' = memFaults
    BY <1>3 DEF ForgetMemory
  <2>2. \A x \in told' : \A q \in DOMAIN memRows \intersect {r} :
          x \notin memRows[q].facts \/ x \in letGo'
    BY <2>1
  <2> QED
    BY <1>1, <1>2, <2>1, <2>2, MemTypes
<1>4. ASSUME ForgetAll PROVE MemInv'
  <2>1. /\ DeleteRows(DOMAIN memRows) /\ nextRow' = nextRow /\ pass' = pass /\ curating' = curating
        /\ told' = {} /\ letGo' = letGo /\ leftOut' = leftOut /\ memFaults' = memFaults
    BY <1>4 DEF ForgetAll
  <2> QED
    BY <1>1, <1>2, <2>1, MemTypes
<1>5. ASSUME NEW r \in curating.prune, CuratorPrunes(r) PROVE MemInv'
  <2>1. /\ curating' = [curating EXCEPT !.prune = @ \ {r}]
        /\ nextRow' = nextRow /\ pass' = pass /\ told' = told /\ leftOut' = leftOut
        /\ memFaults' = memFaults
    BY <1>5 DEF CuratorPrunes
  <2>2. curating' \in [at : {"none", "thinking"}, prune : SUBSET RowIds]
    BY <1>1, <2>1, MemTypes
  <2>3. CASE r \in DOMAIN memRows
    <3>1. DeleteRows({r}) /\ letGo' = letGo \union memRows[r].facts
      BY <1>5, <2>3 DEF CuratorPrunes
    <3>2. memRows[r].facts \subseteq Facts
      BY <1>1, <2>3, MemTypes DEF MemoryRows
    <3>3. \A x \in told' : \A q \in DOMAIN memRows \intersect {r} :
            x \notin memRows[q].facts \/ x \in letGo'
      BY <3>1
    <3> QED
      BY <1>1, <1>2, <2>1, <2>2, <3>1, <3>2, <3>3, MemTypes
  <2>4. CASE r \notin DOMAIN memRows
    <3>1. memRows' = memRows /\ letGo' = letGo
      BY <1>5, <2>4 DEF CuratorPrunes
    <3>2. MemTypeOK'
      BY <1>1, <2>1, <2>2, <3>1, MemTypes, MemTypesNext
    <3> QED
      BY <2>1, <3>1, <3>2 DEF MemInv, PassShape, Safe, SafeInPass
  <2> QED
    BY <2>3, <2>4
<1> QED
  BY <1>3, <1>4, <1>5

\* A pass begins with the rows it has chosen, and their facts.
LEMMA StartingIsSafe == ASSUME MemInv, StartPass PROVE MemInv'
<1>1. MemTypeOK /\ PassShape
  BY DEF MemInv
<1>2. /\ pass.at = "none" /\ memRows' = memRows /\ nextRow' = nextRow /\ curating' = curating
      /\ told' = told /\ letGo' = letGo /\ leftOut' = leftOut /\ memFaults' = memFaults
  BY DEF StartPass
<1>3. PICK evict \in SUBSET DOMAIN memRows :
        pass' = [NoPass EXCEPT !.at = "summarising", !.evict = evict, !.chunks = ChunksOf(evict)]
  <2>1. PICK page \in SUBSET DOMAIN memRows, budget \in Budgets :
          \E evict \in Chosen(page, budget) :
            pass' = [NoPass EXCEPT !.at = "summarising", !.evict = evict,
                                   !.chunks = ChunksOf(evict)]
    BY DEF StartPass
  <2>2. ASSUME NEW evict \in Chosen(page, budget) PROVE evict \in SUBSET DOMAIN memRows
    BY <2>1, <2>2 DEF Chosen, kSubset
  <2> QED
    BY <2>1, <2>2
<1>4. /\ ChunksOf(evict) \subseteq Chunks
      /\ \A r \in evict : \A x \in memRows[r].facts :
           \E c \in ChunksOf(evict) : x \in c.shown \union c.rest
  BY <1>1, ChunksHaveAll
<1>5. evict \subseteq RowIds /\ evict \subseteq 1..nextRow - 1
  BY <1>1, NextIsFree, MemTypes
<1>6. /\ pass'.at = "summarising" /\ pass'.evict = evict /\ pass'.chunks = ChunksOf(evict)
      /\ pass'.text = {} /\ pass'.written = {} /\ pass' \in PassRecords
  BY <1>3, <1>4, <1>5 DEF NoPass, PassRecords
<1>7. PassShape'
  BY <1>2, <1>5, <1>6 DEF PassShape
<1>8. MemTypeOK'
  BY <1>1, <1>2, <1>6, MemTypes, MemTypesNext
<1>9. ASSUME NEW x \in told PROVE Safe(x)' /\ SafeInPass(x)'
  <2>1. Safe(x)
    BY DEF MemInv
  <2>2. CASE x \in letGo \union leftOut
    BY <1>2, <2>2 DEF Safe, SafeInPass
  <2>3. ASSUME NEW r \in DOMAIN memRows, x \in memRows[r].facts PROVE Safe(x)' /\ SafeInPass(x)'
    <3>1. Safe(x)'
      BY <1>2, <2>3 DEF Safe
    <3>2. CASE r \in evict
      <4>1. \E c \in pass'.chunks : x \in c.shown \union c.rest
        BY <1>4, <1>6, <2>3, <3>2
      <4> QED
        BY <3>1, <4>1 DEF SafeInPass
    <3>3. CASE r \notin evict
      <4>1. r \in DOMAIN memRows' \ (pass'.evict \ pass'.written) /\ x \in memRows'[r].facts
        BY <1>2, <1>6, <2>3, <3>3
      <4> QED
        BY <3>1, <4>1 DEF SafeInPass
    <3> QED
      BY <3>2, <3>3
  <2> QED
    BY <2>1, <2>2, <2>3 DEF Safe
<1> QED
  BY <1>2, <1>7, <1>8, <1>9 DEF MemInv

\* A chunk becomes a text and what the text leaves out, or nothing.
LEMMA SummarisingIsSafe ==
  ASSUME MemInv, NEW chunk \in pass.chunks, Summarise(chunk) PROVE MemInv'
<1>1. MemTypeOK /\ PassShape /\ pass \in PassRecords /\ chunk \in Chunks
  BY MemTypes DEF MemInv, PassRecords
<1>2. chunk.shown \subseteq Facts /\ chunk.rest \subseteq Facts
  BY <1>1 DEF Chunks
<1>3. /\ pass.at = "summarising" /\ pass.text = {} /\ memRows' = memRows /\ nextRow' = nextRow
      /\ curating' = curating /\ told' = told
  BY <1>1 DEF Summarise, PassShape
<1>4. ASSUME NEW text \in SUBSET Facts,
             pass' = [pass EXCEPT !.at = "writing", !.chunks = @ \ {chunk}, !.text = text],
             letGo \subseteq letGo', leftOut \subseteq leftOut', letGo' \subseteq Facts,
             leftOut' \subseteq Facts, memFaults' \in 0..MemFaults,
             chunk.shown \union chunk.rest \subseteq text \union letGo' \union leftOut'
      PROVE  MemInv'
  <2>1. /\ pass' \in PassRecords /\ pass'.at = "writing" /\ pass'.chunks = pass.chunks \ {chunk}
        /\ pass'.text = text /\ pass'.evict = pass.evict /\ pass'.written = pass.written
    BY <1>1, <1>4 DEF PassRecords
  <2>2. MemTypeOK' /\ PassShape'
    BY <1>1, <1>3, <1>4, <2>1, MemTypes, MemTypesNext DEF PassShape
  <2>3. ASSUME NEW x \in told PROVE Safe(x)' /\ SafeInPass(x)'
    <3>1. Safe(x) /\ SafeInPass(x)
      BY <1>3 DEF MemInv
    <3>2. Safe(x)'
      BY <1>3, <1>4, <3>1 DEF Safe
    <3>3. CASE x \in letGo \union leftOut
      BY <1>4, <3>2, <3>3 DEF SafeInPass
    <3>4. ASSUME NEW c \in pass.chunks, x \in c.shown \union c.rest PROVE SafeInPass(x)'
      <4>1. CASE c = chunk
        BY <1>4, <2>1, <3>4, <4>1 DEF SafeInPass
      <4>2. CASE c # chunk
        BY <2>1, <3>4, <4>2 DEF SafeInPass
      <4> QED
        BY <4>1, <4>2
    <3>5. ASSUME NEW r \in DOMAIN memRows \ (pass.evict \ pass.written), x \in memRows[r].facts
          PROVE  SafeInPass(x)'
      BY <1>3, <2>1, <3>5 DEF SafeInPass
    <3> QED
      BY <1>3, <3>1, <3>2, <3>3, <3>4, <3>5 DEF SafeInPass
  <2> QED
    BY <1>3, <2>2, <2>3 DEF MemInv
<1>5. letGo \subseteq Facts /\ leftOut \subseteq Facts /\ memFaults \in 0..MemFaults
  BY <1>1, MemTypes
<1>6. CASE /\ pass' = [pass EXCEPT !.at = "writing", !.chunks = @ \ {chunk}, !.text = chunk.shown]
           /\ leftOut' = leftOut \union chunk.rest /\ UNCHANGED <<letGo, memFaults>>
  <2>1. letGo' = letGo /\ memFaults' = memFaults
    BY <1>6
  <2>2. chunk.shown \union chunk.rest \subseteq chunk.shown \union letGo' \union leftOut'
        /\ letGo \subseteq letGo' /\ leftOut \subseteq leftOut' /\ letGo' \subseteq Facts
        /\ leftOut' \subseteq Facts
    BY <1>2, <1>5, <1>6, <2>1
  <2> QED
    BY <1>2, <1>4, <1>5, <1>6, <2>1, <2>2
<1>7. CASE /\ MemFault
           /\ pass' = [pass EXCEPT !.at = "writing", !.chunks = @ \ {chunk}, !.text = {}]
           /\ letGo' = letGo \union chunk.shown \union chunk.rest /\ UNCHANGED leftOut
  <2>1. memFaults' \in 0..MemFaults
    BY <1>5, <1>7, MemBounds DEF MemFault
  <2>2. {} \in SUBSET Facts /\ letGo \subseteq letGo' /\ leftOut \subseteq leftOut'
        /\ letGo' \subseteq Facts /\ leftOut' \subseteq Facts
        /\ chunk.shown \union chunk.rest \subseteq {} \union letGo' \union leftOut'
    BY <1>2, <1>5, <1>7
  <2> QED
    BY <1>4, <1>7, <2>1, <2>2
<1> QED
  BY <1>6, <1>7 DEF Summarise

\* The text of a chunk is written: what it was for is in a row.
LEMMA WritingIsSafe == ASSUME MemInv, WriteSummary PROVE MemInv'
<1>1. MemTypeOK /\ PassShape /\ pass \in PassRecords /\ pass.text \in SUBSET Facts
  BY MemTypes DEF MemInv, PassRecords
<1>2. /\ pass.at = "writing" /\ curating' = curating /\ told' = told /\ leftOut' = leftOut
      /\ memFaults' = memFaults
  BY DEF WriteSummary
<1>3. AfterSummary \in {"deleting", "summarising"} /\ (AfterSummary = "deleting" => pass.chunks = {})
  BY DEF AfterSummary
<1>4. letGo \subseteq Facts
  BY <1>1, MemTypes
<1>5. ASSUME NEW w \in SUBSET RowIds,
             pass' = [pass EXCEPT !.at = AfterSummary, !.text = {}, !.written = w]
      PROVE  /\ pass' \in PassRecords /\ pass'.at = AfterSummary /\ pass'.text = {}
             /\ pass'.evict = pass.evict /\ pass'.chunks = pass.chunks /\ pass'.written = w
  BY <1>1, <1>3, <1>5 DEF PassRecords
<1>6. CASE Insert(pass.text, TRUE) /\ pass' = [pass EXCEPT !.at = AfterSummary, !.text = {}]
           /\ UNCHANGED letGo
  <2>1. /\ nextRow' \in 1..RowLimit + 1 /\ nextRow' = nextRow + 1
        /\ DOMAIN memRows' = DOMAIN memRows \union {nextRow}
        /\ DOMAIN memRows' \subseteq 1..nextRow' - 1
        /\ \A r \in DOMAIN memRows' : memRows'[r] \in MemoryRows
        /\ \A r \in DOMAIN memRows : memRows'[r] = memRows[r]
        /\ memRows'[nextRow].facts = pass.text
    BY <1>1, <1>6, InsertAdds
  <2>2. pass.written \in SUBSET RowIds
        /\ pass' = [pass EXCEPT !.at = AfterSummary, !.text = {}, !.written = pass.written]
    BY <1>1, <1>6 DEF PassRecords
  <2>3. /\ pass' \in PassRecords /\ pass'.at = AfterSummary /\ pass'.text = {}
        /\ pass'.evict = pass.evict /\ pass'.chunks = pass.chunks /\ pass'.written = pass.written
    BY <1>5, <2>2
  <2>4. letGo' = letGo
    BY <1>6
  <2>5. MemTypeOK'
    BY <1>1, <1>2, <2>1, <2>3, <2>4, MemTypes, MemTypesNext
  <2>6. nextRow \notin DOMAIN memRows /\ nextRow \notin pass.evict
        /\ pass.evict \subseteq 1..nextRow' - 1
    BY <1>1, <2>1, NextIsFree DEF PassShape
  <2>7. PassShape'
    BY <1>3, <2>3, <2>6 DEF PassShape
  <2>8. PICK q : q = nextRow
    OBVIOUS
  <2>9. PICK text : text = pass.text
    OBVIOUS
  <2>10. /\ DOMAIN memRows' = DOMAIN memRows \union {q}
         /\ \A o \in DOMAIN memRows : o # q => memRows'[o] = memRows[o]
         /\ memRows'[q].facts = text /\ q \notin DOMAIN memRows /\ q \notin pass.evict
         /\ {} \subseteq letGo' \union leftOut'
         /\ (letGo \union leftOut) \ text \subseteq letGo' \union leftOut'
    BY <1>2, <2>1, <2>4, <2>6, <2>8, <2>9
  <2>11. \A x : Safe(x) => Safe(x)'
    BY <2>10, WrittenIsSafe
  <2>12. \A x : SafeInPass(x) => SafeInPass(x)'
    <3>1. /\ pass'.evict = pass.evict /\ pass'.chunks = pass.chunks
          /\ pass.written \subseteq pass'.written /\ (q \in pass.evict => q \in pass'.written)
          /\ pass.text \subseteq pass'.text \union text
      BY <2>3, <2>9, <2>10
    <3> QED
      BY <2>10, <3>1, WrittenIsSafe
  <2> QED
    BY <1>2, <2>5, <2>7, <2>11, <2>12 DEF MemInv
<1>7. ASSUME NEW r \in NearDuplicates(pass.text), Merge(r, pass.text, TRUE),
             letGo' = letGo \union (memRows[r].facts \ pass.text),
             pass' = [pass EXCEPT !.at = AfterSummary, !.text = {},
                        !.written = IF r \in pass.evict THEN @ \union {r} ELSE @]
      PROVE  MemInv'
  <2>1. r \in DOMAIN memRows /\ memRows[r].facts \subseteq Facts /\ r \in RowIds
    BY <1>1, NextIsFree, MemTypes DEF NearDuplicates, MemoryRows
  <2>2. /\ nextRow' = nextRow /\ DOMAIN memRows' = DOMAIN memRows
        /\ \A o \in DOMAIN memRows' : memRows'[o] \in MemoryRows
        /\ \A o \in DOMAIN memRows : o # r => memRows'[o] = memRows[o]
        /\ memRows'[r].facts = pass.text
    BY <1>1, <1>7, <2>1, MergeReplaces
  <2>3. PICK w : w = IF r \in pass.evict THEN pass.written \union {r} ELSE pass.written
    OBVIOUS
  <2>4. w \in SUBSET RowIds /\ pass.written \subseteq w /\ (r \in pass.evict => r \in w)
    BY <1>1, <2>1, <2>3 DEF PassRecords
  <2>5. pass' = [pass EXCEPT !.at = AfterSummary, !.text = {}, !.written = w]
    BY <1>7, <2>3
  <2>6. /\ pass' \in PassRecords /\ pass'.at = AfterSummary /\ pass'.text = {}
        /\ pass'.evict = pass.evict /\ pass'.chunks = pass.chunks /\ pass'.written = w
    BY <1>5, <2>4, <2>5
  <2>7. letGo' \subseteq Facts
    BY <1>4, <1>7, <2>1
  <2>8. MemTypeOK'
    BY <1>1, <1>2, <2>2, <2>6, <2>7, MemTypes, MemTypesNext
  <2>9. PassShape'
    BY <1>1, <1>3, <2>2, <2>6 DEF PassShape
  <2>10. PICK text, lost : text = pass.text /\ lost = memRows[r].facts \ pass.text
    OBVIOUS
  <2>11. /\ DOMAIN memRows' = DOMAIN memRows \union {r} /\ memRows'[r].facts = text
         /\ memRows[r].facts \subseteq lost \union text /\ lost \subseteq letGo' \union leftOut'
         /\ (letGo \union leftOut) \ text \subseteq letGo' \union leftOut'
    BY <1>2, <1>7, <2>1, <2>2, <2>10
  <2>12. \A x : Safe(x) => Safe(x)'
    BY <2>2, <2>11, WrittenIsSafe
  <2>13. \A x : SafeInPass(x) => SafeInPass(x)'
    <3>1. /\ pass'.evict = pass.evict /\ pass'.chunks = pass.chunks
          /\ pass.written \subseteq pass'.written /\ (r \in pass.evict => r \in pass'.written)
          /\ pass.text \subseteq pass'.text \union text
      BY <2>4, <2>6, <2>10
    <3> QED
      BY <2>2, <2>11, <3>1, WrittenIsSafe
  <2> QED
    BY <1>2, <2>8, <2>9, <2>12, <2>13 DEF MemInv
<1> QED
  BY <1>6, <1>7 DEF WriteSummary

\* A row chosen is deleted: its facts were written elsewhere, unless it was written since.
LEMMA DeletingIsSafe ==
  ASSUME MemInv, NEW r \in pass.evict, DeleteOriginal(r) PROVE MemInv'
<1>1. MemTypeOK /\ PassShape /\ pass \in PassRecords
  BY MemTypes DEF MemInv
<1>2. /\ pass.at = "deleting" /\ pass.chunks = {} /\ pass.text = {}
      /\ pass' = [pass EXCEPT !.evict = @ \ {r}]
      /\ nextRow' = nextRow /\ curating' = curating /\ told' = told /\ leftOut' = leftOut
  BY <1>1 DEF DeleteOriginal, PassShape
<1>3. /\ pass' \in PassRecords /\ pass'.at = "deleting" /\ pass'.evict = pass.evict \ {r}
      /\ pass'.chunks = {} /\ pass'.text = {} /\ pass'.written = pass.written
  BY <1>1, <1>2 DEF PassRecords
<1>4. PassShape'
  BY <1>1, <1>2, <1>3 DEF PassShape
<1>5. letGo \subseteq Facts /\ memFaults \in 0..MemFaults
  BY <1>1, MemTypes
<1>6. /\ MemTypeOK'
      /\ letGo \subseteq letGo'
      /\ DOMAIN memRows \ {r} \subseteq DOMAIN memRows'
      /\ \A q \in DOMAIN memRows' : q \in DOMAIN memRows /\ memRows'[q] = memRows[q]
      /\ r \in DOMAIN memRows /\ r \in pass.written /\ r \notin DOMAIN memRows' =>
           memRows[r].facts \subseteq letGo'
  <2>1. CASE /\ r \in DOMAIN memRows /\ DeleteRows({r})
             /\ letGo' = IF r \in pass.written THEN letGo \union memRows[r].facts ELSE letGo
             /\ UNCHANGED memFaults
    <3>1. memRows[r].facts \subseteq Facts /\ memFaults' = memFaults
      BY <1>1, <2>1, MemTypes DEF MemoryRows
    <3>2. letGo \subseteq letGo' /\ letGo' \subseteq Facts
          /\ (r \in pass.written => memRows[r].facts \subseteq letGo')
      BY <1>5, <2>1, <3>1
    <3>3. /\ DOMAIN memRows' = DOMAIN memRows \ {r}
          /\ \A q \in DOMAIN memRows' : memRows'[q] = memRows[q] /\ memRows'[q] \in MemoryRows
      BY <1>1, <2>1, DeleteRemoves
    <3>4. DOMAIN memRows' \subseteq 1..nextRow' - 1
      BY <1>1, <1>2, <3>3, MemTypes
    <3>5. MemTypeOK'
      BY <1>1, <1>2, <1>3, <3>1, <3>2, <3>3, <3>4, MemTypes, MemTypesNext
    <3> QED
      BY <3>2, <3>3, <3>5
  <2>2. CASE memRows' = memRows /\ letGo' = letGo /\ (memFaults' = memFaults \/ MemFault)
    <3>1. memFaults' \in 0..MemFaults
      BY <1>5, <2>2, MemBounds DEF MemFault
    <3>2. MemTypeOK'
      BY <1>1, <1>2, <1>3, <2>2, <3>1, MemTypes, MemTypesNext
    <3> QED
      BY <2>2, <3>2
  <2> QED
    BY <2>1, <2>2 DEF DeleteOriginal
<1>7. ASSUME NEW x \in told PROVE Safe(x)' /\ SafeInPass(x)'
  <2>1. SafeInPass(x)
    BY <1>2 DEF MemInv
  <2>2. CASE x \in letGo \union leftOut
    BY <1>2, <1>6, <2>2 DEF Safe, SafeInPass
  <2>3. ASSUME NEW q \in DOMAIN memRows \ (pass.evict \ pass.written), x \in memRows[q].facts
        PROVE  Safe(x)' /\ SafeInPass(x)'
    <3>1. CASE q \in DOMAIN memRows'
      <4>1. q \in DOMAIN memRows' \ (pass'.evict \ pass'.written) /\ x \in memRows'[q].facts
        BY <1>3, <1>6, <2>3, <3>1
      <4> QED
        BY <4>1 DEF Safe, SafeInPass
    <3>2. CASE q \notin DOMAIN memRows'
      <4>1. q = r
        BY <1>6, <2>3, <3>2
      <4>2. q \in pass.written
        BY <2>3, <4>1
      <4>3. x \in letGo'
        BY <1>6, <2>3, <3>2, <4>1, <4>2
      <4> QED
        BY <4>3 DEF Safe, SafeInPass
    <3> QED
      BY <3>1, <3>2
  <2> QED
    BY <1>2, <2>1, <2>2, <2>3 DEF SafeInPass
<1> QED
  BY <1>2, <1>4, <1>6, <1>7 DEF MemInv

\* A pass ends, or the process it runs in; a curator's run starts, or ends early.
LEMMA EndingIsSafe ==
  ASSUME MemInv, WriteFails \/ PassEnds \/ PassDies \/ StartCuration \/ CurationFails
  PROVE  MemInv'
<1>1. MemTypeOK /\ PassShape /\ memFaults \in 0..MemFaults
  BY MemTypes DEF MemInv
<1>2. /\ memRows' = memRows /\ nextRow' = nextRow /\ told' = told /\ letGo' = letGo
      /\ leftOut' = leftOut /\ (memFaults' = memFaults \/ MemFault)
  BY DEF WriteFails, PassEnds, PassDies, StartCuration, CurationFails
<1>3. memFaults' \in 0..MemFaults
  BY <1>1, <1>2, MemBounds DEF MemFault
<1>4. CASE pass' = NoPass /\ curating' = curating
  <2>1. /\ pass' \in PassRecords /\ pass'.at = "none" /\ pass'.evict = {} /\ pass'.chunks = {}
        /\ pass'.text = {}
    BY <1>4 DEF NoPass, PassRecords
  <2>2. MemTypeOK'
    BY <1>1, <1>2, <1>3, <1>4, <2>1, MemTypes, MemTypesNext
  <2>3. PassShape'
    BY <2>1 DEF PassShape
  <2>4. \A x \in told' : Safe(x)'
    BY <1>2 DEF MemInv, Safe
  <2> QED
    BY <2>1, <2>2, <2>3, <2>4 DEF MemInv
<1>5. CASE pass' = pass /\ curating' \in [at : {"none", "thinking"}, prune : SUBSET RowIds]
  <2>1. MemTypeOK'
    BY <1>1, <1>2, <1>3, <1>5, MemTypes, MemTypesNext
  <2> QED
    BY <1>2, <1>5, <2>1 DEF MemInv, PassShape, Safe, SafeInPass
<1>6. CASE StartCuration
  <2>1. PICK prune \in SUBSET DOMAIN memRows : curating' = [at |-> "thinking", prune |-> prune]
    BY <1>6 DEF StartCuration
  <2>2. prune \subseteq RowIds
    BY <1>1, NextIsFree
  <2>3. curating' \in [at : {"none", "thinking"}, prune : SUBSET RowIds]
    BY <2>1, <2>2
  <2> QED
    BY <1>5, <1>6, <2>3 DEF StartCuration
<1>7. CASE CurationFails
  BY <1>5, <1>7 DEF CurationFails, NoCuration
<1> QED
  BY <1>4, <1>6, <1>7 DEF WriteFails, PassEnds, PassDies

\* What is told is in a row, is in what a pass has still to write, or has a known cause.
THEOREM MemoryInvariant == MemSpec => []MemInv
<1>1. MemInit => MemInv
  <2> SUFFICES ASSUME MemInit PROVE MemInv
    OBVIOUS
  <2>1. DOMAIN memRows = {} /\ nextRow = 1 /\ told = {} /\ letGo = {} /\ leftOut = {}
        /\ memFaults = 0 /\ pass = NoPass /\ curating = NoCuration
    BY DEF MemInit
  <2>2. 0 \in 0..MemFaults /\ 1 \in 1..RowLimit + 1
    BY MemBounds
  <2>3. pass \in PassRecords /\ pass.at = "none" /\ pass.evict = {} /\ pass.text = {}
        /\ pass.chunks = {} /\ curating \in [at : {"none", "thinking"}, prune : SUBSET RowIds]
    BY <2>1 DEF NoPass, NoCuration, PassRecords
  <2>4. MemTypeOK
    BY <2>1, <2>2, <2>3, MemTypes
  <2> QED
    BY <2>1, <2>3, <2>4 DEF MemInv, PassShape
<1>2. MemInv /\ [MemNext]_memVars => MemInv'
  <2> SUFFICES ASSUME MemInv, [MemNext]_memVars PROVE MemInv'
    OBVIOUS
  <2>1. CASE UNCHANGED memVars
    <3>1. /\ memRows' = memRows /\ nextRow' = nextRow /\ pass' = pass /\ curating' = curating
          /\ told' = told /\ letGo' = letGo /\ leftOut' = leftOut /\ memFaults' = memFaults
      BY <2>1 DEF memVars
    <3>2. MemTypeOK'
      BY <3>1, MemTypes, MemTypesNext DEF MemInv
    <3> QED
      BY <3>1, <3>2 DEF MemInv, PassShape, Safe, SafeInPass
  <2>2. CASE MemNext
    BY <2>2, StoringIsSafe, ForgettingIsSafe, StartingIsSafe, SummarisingIsSafe, WritingIsSafe,
       DeletingIsSafe, EndingIsSafe, CurationEndsSafely
     DEF MemNext, MemoryTools
  <2> QED
    BY <2>1, <2>2
<1> QED
  BY <1>1, <1>2, PTL DEF MemSpec

\* FactsAreKept, for any rows, budgets and chunks and any number of failures: what the
\* user told and did not ask to forget is in some row, or a known cause took it.
THEOREM ToldFactsAreKept == MemSpec => []FactsAreKept
<1>1. MemInv => FactsAreKept
  BY DEF MemInv, Safe, FactsAreKept, Covered, FactsOf
<1> QED
  BY <1>1, MemoryInvariant, PTL

-----------------------------------------------------------------------------
(* The interview                                                           *)

\* The entries of a session's transcript, and what stands at each place.
Questions(s) == Len(FollowsUp[s])
Top(s) == IF FollowsUp[s][Questions(s)] THEN 4 * Questions(s) ELSE 4 * Questions(s) - 2
Quarter(p) == p % 4
PlaceAt(p) == (p - 1) \div 4 + 1
Entry(p) ==
  IF Quarter(p) = 1 THEN Asked(PlaceAt(p), FALSE)
  ELSE IF Quarter(p) = 3 THEN Asked(PlaceAt(p), TRUE) ELSE Answer

\* A transcript that is the beginning of the script, as long as it must be.
GoodRow(r) ==
  /\ Len(r.log) \in 1..Top(r.session)
  /\ \A p \in DOMAIN r.log : r.log[p] = Entry(p)
  /\ AnswersIn(r.log) = Len(r.log) \div 2
  /\ r.status = "completed" => Len(r.log) = Top(r.session)

\* What a message read of a row is what the row says while the message is in flight.
ReadFits(view, n) ==
  /\ view.question = n \div 2 + 1
  /\ view.awaiting <=> n % 2 = 1

MessageFits(m) ==
  /\ m.at = "open" => InProgress = {} /\ \A s \in CompletedSessions : s < m.read.session
  /\ m.at = "open" /\ m.read.session > 1 => m.read.session - 1 \in CompletedSessions
  /\ m.at \in {"record", "recorded"} =>
       /\ m.read.row \in InProgress /\ m.read.session = interviews[m.read.row].session
  /\ m.at = "record" =>
       /\ Len(interviews[m.read.row].log) % 2 = 1
       /\ ReadFits(m.read, (Len(interviews[m.read.row].log) - 1) \div 2)
  /\ m.at = "recorded" =>
       /\ Len(interviews[m.read.row].log) % 2 = 0
       /\ ReadFits(m.read, (Len(interviews[m.read.row].log) - 2) \div 2)
  /\ m.at = "synthesis" =>
       /\ InProgress = {} /\ m.read.session \in CompletedSessions
       /\ \A i \in DOMAIN learned : learned[i] < m.read.session

\* One message at a time, one session at a time, each by the script and in order.
OneMessage ==
  \A h, o \in InterviewMessages :
    interviewMsg[h].at # "idle" /\ interviewMsg[o].at # "idle" => h = o
OneSession == \A i, j \in InProgress : i = j
GoodRows ==
  /\ \A i \in DOMAIN interviews : GoodRow(interviews[i])
  /\ \A i \in InProgress :
       \/ Len(interviews[i].log) % 2 = 1
       \/ \E h \in InterviewMessages : interviewMsg[h].at = "recorded" /\ interviewMsg[h].read.row = i
InOrder ==
  /\ \A i \in DOMAIN interviews :
       interviews[i].session > 1 /\ interviews[i].status # "archived" =>
         interviews[i].session - 1 \in CompletedSessions
  /\ \A i \in InProgress : \A s \in CompletedSessions : s < interviews[i].session
LearnedInOrder ==
  /\ \A i \in DOMAIN learned : learned[i] \in CompletedSessions
  /\ \A i, j \in DOMAIN learned : i < j => learned[i] < learned[j]
Reads == \A h \in InterviewMessages : MessageFits(interviewMsg[h])

Orderly == OneMessage /\ OneSession /\ GoodRows /\ InOrder /\ LearnedInOrder /\ Reads
InterviewInv == InterviewTypeOK /\ (~interviewDisturbed => Orderly)

\* The sessions of the interview: their numbers, questions and transcripts.
LEMMA SessionData ==
  ASSUME NEW s \in InterviewSessions
  PROVE  /\ s \in Nat /\ 1 <= s /\ s <= LastSession /\ LastSession \in Nat
         /\ Questions(s) \in Nat /\ Questions(s) >= 1
         /\ \A q \in 1..Questions(s) : FollowsUp[s][q] \in BOOLEAN
         /\ \A q \in 1..Questions(s) : q # Questions(s) => FollowsUp[s][q]
         /\ Top(s) \in Nat /\ Top(s) % 2 = 0 /\ Top(s) >= 2
         /\ 1 \in InterviewSessions
<1>1. /\ FollowsUp \in Seq(Seq(BOOLEAN)) /\ InterviewSessions = 1..Len(FollowsUp)
      /\ Len(FollowsUp) \in Nat /\ Len(FollowsUp) >= 1
  <2>1. FollowsUp \in Seq(Seq(BOOLEAN)) /\ FollowsUp # <<>>
    BY QuestionsFollowUp
  <2> QED
    BY <2>1, LenProperties, EmptySeq DEF InterviewSessions
<1>2. s \in Nat /\ 1 <= s /\ s <= LastSession /\ LastSession \in Nat /\ 1 \in InterviewSessions
  BY <1>1 DEF LastSession
<1>3. FollowsUp[s] \in Seq(BOOLEAN) /\ FollowsUp[s] # <<>>
  BY <1>1, QuestionsFollowUp, ElementOfSeq DEF InterviewSessions
<1>4. Questions(s) \in Nat /\ Questions(s) >= 1
  BY <1>3, LenProperties, EmptySeq DEF Questions
<1>5. \A q \in 1..Questions(s) : FollowsUp[s][q] \in BOOLEAN
  BY <1>3, ElementOfSeq DEF Questions
<1>6. \A q \in 1..Questions(s) : q # Questions(s) => FollowsUp[s][q]
  <2>1. \A q \in 1..Questions(s) : q # Questions(s) => q \in 1..Questions(s) - 1
    BY <1>4
  <2> QED
    BY <2>1, QuestionsFollowUp DEF InterviewSessions, Questions
<1>7. \A n \in Nat : n >= 1 =>
        /\ 4 * n \in Nat /\ (4 * n) % 2 = 0 /\ 4 * n >= 2
        /\ 4 * n - 2 \in Nat /\ (4 * n - 2) % 2 = 0 /\ 4 * n - 2 >= 2
  OBVIOUS
<1>8. Top(s) \in Nat /\ Top(s) % 2 = 0 /\ Top(s) >= 2
  <2>1. Top(s) = 4 * Questions(s) \/ Top(s) = 4 * Questions(s) - 2
    BY DEF Top
  <2> QED
    BY <1>4, <1>7, <2>1
<1> QED
  BY <1>2, <1>4, <1>5, <1>6, <1>8

\* What stands at a place.
LEMMA EntryIs ==
  ASSUME NEW p
  PROVE  /\ Quarter(p) = 1 => Entry(p) = Asked(PlaceAt(p), FALSE)
         /\ Quarter(p) = 3 => Entry(p) = Asked(PlaceAt(p), TRUE)
         /\ Quarter(p) # 1 /\ Quarter(p) # 3 => Entry(p) = Answer
<1>1. Quarter(p) = 1 => Entry(p) = Asked(PlaceAt(p), FALSE)
  BY DEF Entry
<1>2. Quarter(p) = 3 => Entry(p) = Asked(PlaceAt(p), TRUE)
  BY DEF Entry
<1>3. Quarter(p) # 1 /\ Quarter(p) # 3 => Entry(p) = Answer
  BY DEF Entry
<1> QED
  BY <1>1, <1>2, <1>3

\* Questions and answers alternate.
LEMMA EntryAt ==
  ASSUME NEW p \in Nat, p >= 1
  PROVE  /\ Entry(p) \in InterviewEntries
         /\ (Entry(p) = Answer) <=> p % 2 = 0
         /\ Entry(1) = Asked(1, FALSE)
<1>1. /\ Quarter(p) \in 0..3 /\ (p % 2 = 0 <=> Quarter(p) \in {0, 2})
      /\ PlaceAt(p) \in Nat /\ PlaceAt(p) # 0
  BY DEF Quarter, PlaceAt
<1>2. \A f \in BOOLEAN : Asked(PlaceAt(p), f) \in InterviewEntries /\ Asked(PlaceAt(p), f) # Answer
  BY <1>1 DEF Asked, Answer, InterviewEntries
<1>3. Answer \in InterviewEntries
  BY DEF Answer, InterviewEntries
<1>4. Entry(p) \in InterviewEntries /\ ((Entry(p) = Answer) <=> p % 2 = 0)
  <2>1. \/ p % 2 = 0 /\ Entry(p) = Answer
        \/ p % 2 # 0 /\ \E f \in BOOLEAN : Entry(p) = Asked(PlaceAt(p), f)
    <3>1. CASE Quarter(p) \in {0, 2}
      <4>1. p % 2 = 0
        BY <1>1, <3>1
      <4>2. Quarter(p) # 1 /\ Quarter(p) # 3
        BY <3>1
      <4>3. Entry(p) = Answer
        BY <4>2, EntryIs, Zenon
      <4> QED
        BY <4>1, <4>3
    <3>2. CASE Quarter(p) = 1
      <4>1. p % 2 # 0
        BY <1>1, <3>2
      <4>2. Entry(p) = Asked(PlaceAt(p), FALSE)
        BY <3>2, EntryIs
      <4> QED
        BY <4>1, <4>2, Zenon
    <3>3. CASE Quarter(p) = 3
      <4>1. p % 2 # 0
        BY <1>1, <3>3
      <4>2. Entry(p) = Asked(PlaceAt(p), TRUE)
        BY <3>3, EntryIs
      <4> QED
        BY <4>1, <4>2, Zenon
    <3> QED
      BY <1>1, <3>1, <3>2, <3>3
  <2> QED
    BY <1>2, <1>3, <2>1, Zenon
<1>5. Quarter(1) = 1 /\ PlaceAt(1) = 1
  BY DEF Quarter, PlaceAt
<1> QED
  BY <1>4, <1>5, EntryIs

\* Two quarters of the way further, or a new question: the numbers.
LEMMA PlacesOfPrompts ==
  ASSUME NEW m \in Nat, m >= 1
  PROVE  /\ m % 2 = 1 => /\ Quarter(2 * m + 1) = 3 /\ PlaceAt(2 * m + 1) = (m - 1) \div 2 + 1
                         /\ (m - 1) % 2 = 0 /\ 2 * m = 4 * ((m - 1) \div 2 + 1) - 2
         /\ m % 2 = 0 => /\ Quarter(2 * m + 1) = 1 /\ PlaceAt(2 * m + 1) = (m - 1) \div 2 + 1 + 1
                         /\ (m - 1) % 2 = 1 /\ 2 * m = 4 * ((m - 1) \div 2 + 1)
         /\ (m - 1) \div 2 \in Nat /\ m % 2 \in {0, 1}
<1>1. m % 2 = 1 => /\ Quarter(2 * m + 1) = 3 /\ PlaceAt(2 * m + 1) = (m - 1) \div 2 + 1
                   /\ (m - 1) % 2 = 0 /\ 2 * m = 4 * ((m - 1) \div 2 + 1) - 2
  BY DEF Quarter, PlaceAt
<1>2. m % 2 = 0 => /\ Quarter(2 * m + 1) = 1 /\ PlaceAt(2 * m + 1) = (m - 1) \div 2 + 1 + 1
                   /\ (m - 1) % 2 = 1 /\ 2 * m = 4 * ((m - 1) \div 2 + 1)
  BY DEF Quarter, PlaceAt
<1>3. (m - 1) \div 2 \in Nat /\ m % 2 \in {0, 1}
  OBVIOUS
<1> QED
  BY <1>1, <1>2, <1>3

\* After an answer, what the code asks by its count is what the script has there.
LEMMA CountFindsThePrompt ==
  ASSUME NEW s \in InterviewSessions, NEW m \in Nat, m >= 1, 2 * m <= Top(s),
         NEW view, view.session = s, ReadFits(view, m - 1)
  PROVE  /\ 2 * m < Top(s) => ~IsLastAnswer(view) /\ NextPrompt(view) = Entry(2 * m + 1)
         /\ 2 * m = Top(s) => IsLastAnswer(view)
<1> DEFINE q == (m - 1) \div 2 + 1
           n == Questions(s)
<1>1. view.question = q /\ (view.awaiting <=> (m - 1) % 2 = 1)
  BY DEF ReadFits
<1>2. /\ m % 2 = 1 => /\ Quarter(2 * m + 1) = 3 /\ PlaceAt(2 * m + 1) = q
                      /\ (m - 1) % 2 = 0 /\ 2 * m = 4 * q - 2
      /\ m % 2 = 0 => /\ Quarter(2 * m + 1) = 1 /\ PlaceAt(2 * m + 1) = q + 1
                      /\ (m - 1) % 2 = 1 /\ 2 * m = 4 * q
      /\ q \in Nat /\ q >= 1 /\ m % 2 \in {0, 1}
  BY PlacesOfPrompts
<1>3. /\ n \in Nat /\ n >= 1 /\ \A k \in 1..n : k # n => FollowsUp[s][k]
      /\ FollowsUp[s][n] \in BOOLEAN /\ Len(FollowsUp[s]) = n
  BY SessionData DEF Questions
<1>4. (FollowsUp[s][n] => Top(s) = 4 * n) /\ (~FollowsUp[s][n] => Top(s) = 4 * n - 2)
  BY DEF Top
<1> HIDE DEF q, n
<1>5. CASE m % 2 = 1
  <2>1. q <= n /\ (2 * m < Top(s) => FollowsUp[s][q]) /\ (2 * m = Top(s) => q = n /\ ~FollowsUp[s][q])
    <3>1. q <= n
      BY <1>2, <1>3, <1>4, <1>5
    <3>2. q # n => FollowsUp[s][q] /\ 2 * m < Top(s)
      BY <1>2, <1>3, <1>4, <1>5, <3>1
    <3>3. q = n => (FollowsUp[s][q] <=> 2 * m < Top(s))
      BY <1>2, <1>3, <1>4, <1>5
    <3> QED
      BY <1>3, <3>1, <3>2, <3>3
  <2>2. ~view.awaiting
    BY <1>1, <1>2, <1>5
  <2>3. CASE 2 * m < Top(s)
    <3>1. NextPrompt(view) = Asked(q, TRUE)
      BY <1>1, <2>1, <2>2, <2>3 DEF NextPrompt
    <3>2. Entry(2 * m + 1) = Asked(q, TRUE)
      BY <1>2, <1>5, EntryIs
    <3> QED
      BY <1>2, <1>3, <2>1, <2>3, <3>1, <3>2 DEF IsLastAnswer, Asked
  <2>4. CASE 2 * m = Top(s)
    <3>1. NextPrompt(view) = Asked(q + 1, FALSE)
      BY <1>1, <2>1, <2>2, <2>4 DEF NextPrompt
    <3> QED
      BY <1>2, <1>3, <2>1, <2>4, <3>1 DEF IsLastAnswer, Asked
  <2> QED
    BY <2>3, <2>4
<1>6. CASE m % 2 = 0
  <2>1. (2 * m < Top(s) => q + 1 <= n) /\ (2 * m = Top(s) => q + 1 > n)
    <3>1. CASE Top(s) = 4 * n
      BY <1>2, <1>3, <1>6, <3>1
    <3>2. CASE Top(s) = 4 * n - 2
      BY <1>2, <1>3, <1>6, <3>2
    <3> QED
      BY <1>3, <1>4, <3>1, <3>2
  <2>2. view.awaiting
    BY <1>1, <1>2, <1>6
  <2>3. NextPrompt(view) = Asked(q + 1, FALSE)
    BY <1>1, <2>2 DEF NextPrompt
  <2>4. Entry(2 * m + 1) = Asked(q + 1, FALSE)
    BY <1>2, <1>6, EntryIs
  <2> QED
    BY <1>2, <1>3, <2>1, <2>3, <2>4 DEF IsLastAnswer, Asked
<1> QED
  BY <1>2, <1>5, <1>6

\* A good transcript is the beginning of the script, and the whole of it when it ends there.
LEMMA GoodRowsAreByScript ==
  ASSUME NEW r, r.session \in InterviewSessions, r.log \in Seq(InterviewEntries), GoodRow(r)
  PROVE  /\ ByScript(r.session, r.log)
         /\ Len(r.log) = Top(r.session) => Whole(r.session, r.log)
<1> DEFINE s == r.session
           n == Questions(s)
           top == Len(r.log)
<1>0. Len(FollowsUp[s]) = n
  BY DEF Questions
<1>1. /\ n \in Nat /\ n >= 1 /\ \A k \in 1..n : k # n => FollowsUp[s][k]
      /\ FollowsUp[s][n] \in BOOLEAN /\ Len(FollowsUp[s]) = n
      /\ Top(s) \in Nat /\ Top(s) % 2 = 0 /\ Top(s) >= 2
  <2>1. n \in Nat /\ n >= 1 /\ Top(s) \in Nat /\ Top(s) % 2 = 0 /\ Top(s) >= 2
    BY SessionData
  <2>2. \A k \in 1..n : (k # n => FollowsUp[s][k]) /\ FollowsUp[s][k] \in BOOLEAN
    BY SessionData
  <2>3. n \in 1..n
    BY <2>1
  <2> QED
    BY <1>0, <2>1, <2>2, <2>3
<1>2. (FollowsUp[s][n] => Top(s) = 4 * n) /\ (~FollowsUp[s][n] => Top(s) = 4 * n - 2)
  BY DEF Top
<1>3. /\ top \in Nat /\ top >= 1 /\ top <= Top(s) /\ DOMAIN r.log = 1..top
      /\ \A p \in 1..top : r.log[p] = Entry(p)
  BY <1>1, LenProperties DEF GoodRow
<1> HIDE DEF n, top
<1>4. r.log # <<>> /\ r.log[1] = Asked(1, FALSE)
  <2>1. 1 \in 1..top
    BY <1>3
  <2>2. r.log[1] = Asked(1, FALSE)
    BY <1>3, <2>1, EntryAt
  <2> QED
    BY <1>3, <2>2, EmptySeq DEF top
<1>5. ASSUME NEW p \in 1..top
      PROVE  /\ p % 2 = 0 => r.log[p] = Answer
             /\ p % 2 = 1 => r.log[p].asks \in 1..n
             /\ p % 2 = 1 /\ p > 2 => r.log[p] = Follows(s, r.log[p - 2])
             /\ p % 2 = 1 /\ p + 1 = Top(s) => Follows(s, r.log[p]).asks > n
  <2>1. p \in Nat /\ p >= 1 /\ p <= Top(s)
    BY <1>1, <1>3
  <2>2. p % 2 = 0 => r.log[p] = Answer
    BY <1>3, <2>1, EntryAt
  <2>3. PICK a \in Nat : a = (p - 1) \div 4
    BY <2>1
  <2>4. CASE Quarter(p) = 1
    <3>1. p = 4 * a + 1 /\ p % 2 = 1 /\ PlaceAt(p) = a + 1
      BY <2>1, <2>3, <2>4 DEF Quarter, PlaceAt
    <3>2. r.log[p] = Asked(a + 1, FALSE)
      BY <1>3, <2>4, <3>1, EntryIs
    <3>3. a + 1 \in 1..n /\ (p + 1 = Top(s) => a + 1 = n /\ ~FollowsUp[s][n])
      BY <1>1, <1>2, <2>1, <3>1
    <3>4. p > 2 => r.log[p] = Follows(s, r.log[p - 2])
      <4>1. SUFFICES ASSUME p > 2 PROVE r.log[p] = Follows(s, r.log[p - 2])
        OBVIOUS
      <4>2. a >= 1 /\ Quarter(p - 2) = 3 /\ PlaceAt(p - 2) = a /\ p - 2 \in 1..top
        BY <1>3, <3>1, <4>1 DEF Quarter, PlaceAt
      <4>3. r.log[p - 2] = Asked(a, TRUE)
        BY <1>3, <4>2, EntryIs
      <4> QED
        BY <3>2, <4>3 DEF Follows, Asked
    <3>5. p + 1 = Top(s) => Follows(s, r.log[p]).asks > n
      BY <1>1, <3>2, <3>3 DEF Follows, Asked
    <3> QED
      BY <2>2, <3>2, <3>3, <3>4, <3>5 DEF Asked
  <2>5. CASE Quarter(p) = 3
    <3>1. p = 4 * a + 3 /\ p % 2 = 1 /\ PlaceAt(p) = a + 1
      BY <2>1, <2>3, <2>5 DEF Quarter, PlaceAt
    <3>2. r.log[p] = Asked(a + 1, TRUE)
      BY <1>3, <2>5, <3>1, EntryIs
    <3>3. a + 1 \in 1..n /\ FollowsUp[s][a + 1] /\ (p + 1 = Top(s) => a + 1 = n)
      <4>1. a + 1 \in 1..n /\ (a + 1 = n => FollowsUp[s][n]) /\ (p + 1 = Top(s) => a + 1 = n)
        BY <1>1, <1>2, <2>1, <3>1
      <4> QED
        BY <1>1, <4>1
    <3>4. r.log[p] = Follows(s, r.log[p - 2])
      <4>1. Quarter(p - 2) = 1 /\ PlaceAt(p - 2) = a + 1 /\ p - 2 \in 1..top
        BY <1>3, <3>1 DEF Quarter, PlaceAt
      <4>2. r.log[p - 2] = Asked(a + 1, FALSE)
        BY <1>3, <4>1, EntryIs
      <4> QED
        BY <3>2, <3>3, <4>2 DEF Follows, Asked
    <3>5. p + 1 = Top(s) => Follows(s, r.log[p]).asks > n
      BY <1>1, <3>2, <3>3 DEF Follows, Asked
    <3> QED
      BY <2>2, <3>2, <3>3, <3>4, <3>5 DEF Asked
  <2>6. CASE Quarter(p) \in {0, 2}
    <3>1. p % 2 = 0
      BY <2>1, <2>6 DEF Quarter
    <3> QED
      BY <2>2, <3>1
  <2>7. Quarter(p) \in 0..3
    BY <2>1 DEF Quarter
  <2> QED
    BY <2>4, <2>5, <2>6, <2>7
<1>6. ByScript(s, r.log)
  BY <1>1, <1>3, <1>4, <1>5 DEF ByScript
<1>7. ASSUME top = Top(s) PROVE Whole(s, r.log)
  <2>1. top - 1 \in 1..top /\ (top - 1) % 2 = 1 /\ top - 1 + 1 = Top(s) /\ top % 2 = 0
    <3>1. \A t \in Nat : t >= 2 /\ t % 2 = 0 =>
            t - 1 \in 1..t /\ (t - 1) % 2 = 1 /\ t - 1 + 1 = t
      OBVIOUS
    <3> QED
      BY <1>1, <1>3, <1>7, <3>1
  <2>2. Follows(s, r.log[top - 1]).asks > n
    BY <1>5, <2>1
  <2> QED
    BY <1>1, <1>4, <1>6, <2>1, <2>2 DEF Whole, top
<1> QED
  BY <1>6, <1>7 DEF top

\* The least of some numbers is one of them.
LEMMA LeastIsOne ==
  ASSUME NEW S, S \subseteq Nat, S # {}
  PROVE  Min(S) \in S /\ \A k \in S : Min(S) <= k
<1>1. PICK i \in S : \A k \in S : i <= k
  BY LeastNumber
<1> QED
  BY <1>1 DEF Min

\* The types, field by field.
InterviewRows == [session : InterviewSessions, log : Seq(InterviewEntries),
                  status : {"in_progress", "completed", "archived"}]
InterviewReads == [session : InterviewSessions, row : Nat, question : Nat, awaiting : BOOLEAN]
InterviewMessageRecords ==
  [at : {"idle", "open", "record", "recorded", "synthesis", "after"}, command : BOOLEAN,
   read : InterviewReads]

\* Answers are counted by a number.
LEMMA AnswersAreCounted ==
  ASSUME NEW log \in Seq(InterviewEntries) PROVE AnswersIn(log) \in Nat
<1>1. DOMAIN log = 1..Len(log) /\ Len(log) \in Nat
  BY LenProperties
<1>2. IsFiniteSet(1..Len(log))
  BY <1>1, FS_Interval
<1>3. {p \in DOMAIN log : log[p] = Answer} \in SUBSET (1..Len(log))
  BY <1>1
<1> QED
  BY <1>2, <1>3, FS_Subset, FS_CardinalityType DEF AnswersIn

\* What is read of a session in progress.
LEMMA StateInSession ==
  ASSUME InterviewTypeOK, InProgress # {}
  PROVE  \E i \in InProgress, n \in Nat, b \in BOOLEAN :
           /\ n = AnswersIn(interviews[i].log) /\ (b <=> n % 2 = 1)
           /\ InterviewState =
                [session |-> interviews[i].session, row |-> i,
                 question |-> Min({n \div 2, Len(FollowsUp[interviews[i].session]) - 1}) + 1,
                 awaiting |-> b]
<1> DEFINE first == Min({interviews[j].session : j \in InProgress})
           i == Min({j \in InProgress : interviews[j].session = first})
           n == AnswersIn(interviews[i].log)
<1>1. /\ InProgress \subseteq Nat
      /\ \A j \in InProgress : interviews[j] \in InterviewRows /\ interviews[j].session \in Nat
                               /\ interviews[j].log \in Seq(InterviewEntries)
  <2>1. interviews \in Seq(InterviewRows)
    BY DEF InterviewTypeOK, InterviewRows
  <2>2. \A j \in DOMAIN interviews : interviews[j] \in InterviewRows /\ j \in Nat
    BY <2>1, LenProperties, ElementOfSeq
  <2> QED
    BY <2>2, SessionData DEF InProgress, InterviewRows
<1>2. {interviews[j].session : j \in InProgress} \subseteq Nat
      /\ {interviews[j].session : j \in InProgress} # {}
  BY <1>1
<1>3. first \in {interviews[j].session : j \in InProgress}
  BY <1>2, LeastIsOne
<1>4. {j \in InProgress : interviews[j].session = first} \subseteq Nat
      /\ {j \in InProgress : interviews[j].session = first} # {}
  BY <1>1, <1>3
<1>5. i \in InProgress
  <2> HIDE DEF first
  <2>1. i \in {j \in InProgress : interviews[j].session = first}
    BY <1>4, LeastIsOne
  <2> QED
    BY <2>1
<1>6. InterviewState =
        [session |-> interviews[i].session, row |-> i,
         question |-> Min({n \div 2, Len(FollowsUp[interviews[i].session]) - 1}) + 1,
         awaiting |-> n % 2 = 1]
  BY Zenon DEF InterviewState
<1> HIDE DEF first, i
<1>7. n \in Nat
  BY <1>1, <1>5, AnswersAreCounted
<1>8. (n % 2 = 1) \in BOOLEAN
  BY Zenon
<1>9. PICK b \in BOOLEAN : b = (n % 2 = 1)
  BY <1>8, Zenon
<1>10. InterviewState =
        [session |-> interviews[i].session, row |-> i,
         question |-> Min({n \div 2, Len(FollowsUp[interviews[i].session]) - 1}) + 1,
         awaiting |-> b]
  BY <1>6, <1>9, Zenon
<1>11. b <=> n % 2 = 1
  BY <1>9, Zenon
<1> QED
  BY <1>5, <1>7, <1>10, <1>11, Zenon

\* What is read between two sessions.
LEMMA StateBetweenSessions ==
  ASSUME InterviewTypeOK, InProgress = {}
  PROVE  \E s \in InterviewSessions :
           /\ InterviewState = [session |-> s, row |-> 0, question |-> 0, awaiting |-> FALSE]
           /\ CompletedSessions = {} => s = 1
           /\ CompletedSessions # {} =>
                /\ Max(CompletedSessions) \in CompletedSessions
                /\ \A o \in CompletedSessions : o <= Max(CompletedSessions)
                /\ \/ s = Max(CompletedSessions) + 1
                   \/ s = LastSession /\ s <= Max(CompletedSessions)
<1>1. LastSession \in Nat /\ 1 \in InterviewSessions /\ InterviewSessions = 1..LastSession
  <2>1. FollowsUp \in Seq(Seq(BOOLEAN)) /\ FollowsUp # <<>>
    BY QuestionsFollowUp
  <2> QED
    BY <2>1, LenProperties, EmptySeq DEF InterviewSessions, LastSession
<1>2. CompletedSessions \subseteq InterviewSessions
  <2>1. interviews \in Seq(InterviewRows)
    BY DEF InterviewTypeOK, InterviewRows
  <2>2. \A j \in DOMAIN interviews : interviews[j] \in InterviewRows
    BY <2>1, ElementOfSeq, LenProperties
  <2> QED
    BY <2>2 DEF CompletedSessions, InterviewRows
<1>3. CASE CompletedSessions = {}
  <2>1. InterviewState = [session |-> 1, row |-> 0, question |-> 0, awaiting |-> FALSE]
    BY <1>3 DEF InterviewState, Unasked
  <2> QED
    BY <1>1, <1>3, <2>1
<1>4. CASE CompletedSessions # {}
  <2>1. PICK top : top = Max(CompletedSessions)
    OBVIOUS
  <2>2. top \in CompletedSessions /\ \A o \in CompletedSessions : o <= top
    <3>1. CompletedSessions \subseteq Nat /\ \A o \in CompletedSessions : o <= LastSession
      BY <1>1, <1>2
    <3> QED
      BY <1>1, <1>4, <2>1, <3>1, GreatestNumber
  <2>3. PICK s : s = Min({top + 1, LastSession})
    OBVIOUS
  <2>4. top \in Nat /\ top >= 1 /\ top <= LastSession
    BY <1>1, <1>2, <2>2
  <2>5. s \in {top + 1, LastSession} /\ s <= top + 1 /\ s <= LastSession
    <3>1. {top + 1, LastSession} \subseteq Nat /\ {top + 1, LastSession} # {}
      BY <1>1, <2>4
    <3>2. s \in {top + 1, LastSession} /\ \A k \in {top + 1, LastSession} : s <= k
      BY <2>3, <3>1, LeastIsOne
    <3> QED
      BY <3>2
  <2>6. s \in InterviewSessions /\ (s = top + 1 \/ (s = LastSession /\ s <= top))
    BY <1>1, <2>4, <2>5
  <2>7. InterviewState = [session |-> s, row |-> 0, question |-> 0, awaiting |-> FALSE]
    BY <1>4, <2>1, <2>3 DEF InterviewState, Unasked
  <2> QED
    BY <1>4, <2>1, <2>2, <2>6, <2>7
<1> QED
  BY <1>3, <1>4

\* A state that is read is of its type.
LEMMA StateIsTyped == ASSUME InterviewTypeOK PROVE InterviewState \in InterviewReads
<1>1. CASE InProgress = {}
  <2>1. PICK s \in InterviewSessions :
          InterviewState = [session |-> s, row |-> 0, question |-> 0, awaiting |-> FALSE]
    BY <1>1, StateBetweenSessions
  <2> QED
    BY <2>1 DEF InterviewReads
<1>2. CASE InProgress # {}
  <2>1. PICK i \in InProgress, n \in Nat, b \in BOOLEAN :
          InterviewState =
            [session |-> interviews[i].session, row |-> i,
             question |-> Min({n \div 2, Len(FollowsUp[interviews[i].session]) - 1}) + 1,
             awaiting |-> b]
    BY <1>2, StateInSession
  <2>2. interviews[i].session \in InterviewSessions /\ i \in Nat
    <3>1. interviews \in Seq(InterviewRows) /\ i \in DOMAIN interviews
      BY DEF InterviewTypeOK, InterviewRows, InProgress
    <3>2. i \in 1..Len(interviews) /\ Len(interviews) \in Nat
      BY <3>1, LenProperties
    <3>3. interviews[i] \in InterviewRows
      BY <3>1, <3>2, ElementOfSeq
    <3> QED
      BY <3>2, <3>3 DEF InterviewRows
  <2>3. PICK q : q = Min({n \div 2, Len(FollowsUp[interviews[i].session]) - 1})
    OBVIOUS
  <2>4. q \in Nat
    <3>1. n \div 2 \in Nat /\ Len(FollowsUp[interviews[i].session]) - 1 \in Nat
      BY <2>2, SessionData DEF Questions
    <3>2. PICK a, c : a = n \div 2 /\ c = Len(FollowsUp[interviews[i].session]) - 1
      OBVIOUS
    <3>3. Min({a, c}) \in {a, c}
      BY <3>1, <3>2, LeastIsOne
    <3> QED
      BY <2>3, <3>1, <3>2, <3>3
  <2> QED
    BY <2>1, <2>2, <2>3, <2>4 DEF InterviewReads
<1> QED
  BY <1>1, <1>2

\* A sequence of one.
LEMMA OneLong ==
  ASSUME NEW S, NEW e \in S
  PROVE  <<e>> \in Seq(S) /\ Len(<<e>>) = 1 /\ DOMAIN <<e>> = 1..1 /\ <<e>>[1] = e
<1>1. <<e>> \in [1..1 -> S]
  OBVIOUS
<1> QED
  BY <1>1, SeqDef

Stages == {"idle", "open", "record", "recorded", "synthesis", "after"}

\* The types, named.
LEMMA InterviewTypes ==
  InterviewTypeOK <=>
    /\ interviews \in Seq(InterviewRows) /\ interviewing \in BOOLEAN
    /\ interviewMsg \in [InterviewMessages -> InterviewMessageRecords]
    /\ learned \in Seq(InterviewSessions)
    /\ interviewFaults \in 0..InterviewFaults /\ interviewDisturbed \in BOOLEAN
BY Zenon DEF InterviewTypeOK, InterviewRows, InterviewReads, InterviewMessageRecords

\* The same in the next state.
LEMMA InterviewTypesNext ==
  ASSUME interviews' \in Seq(InterviewRows), interviewing' \in BOOLEAN,
         interviewMsg' \in [InterviewMessages -> InterviewMessageRecords],
         learned' \in Seq(InterviewSessions),
         interviewFaults' \in 0..InterviewFaults, interviewDisturbed' \in BOOLEAN
  PROVE  InterviewTypeOK'
BY Zenon DEF InterviewTypeOK, InterviewRows, InterviewReads, InterviewMessageRecords

\* A row written.
LEMMA RowWrittenAt ==
  ASSUME interviews \in Seq(InterviewRows), NEW i \in DOMAIN interviews, NEW x \in InterviewRows,
         interviews' = [interviews EXCEPT ![i] = x]
  PROVE  /\ interviews' \in Seq(InterviewRows) /\ DOMAIN interviews' = DOMAIN interviews
         /\ interviews'[i] = x
         /\ \A j \in DOMAIN interviews : j # i => interviews'[j] = interviews[j]
<1>1. DOMAIN interviews = 1..Len(interviews)
  BY LenProperties
<1>2. interviews' \in Seq(InterviewRows)
  BY <1>1, ExceptSeq
<1> QED
  BY <1>2

\* Nothing is written where there is no row.
LEMMA NoRowWritten ==
  ASSUME interviews \in Seq(InterviewRows), NEW i, i \notin DOMAIN interviews, NEW x,
         interviews' = [interviews EXCEPT ![i] = x]
  PROVE  interviews' = interviews
<1>1. interviews \in [1..Len(interviews) -> InterviewRows]
  BY LenProperties
<1>2. interviews = [j \in DOMAIN interviews |-> interviews[j]]
  BY <1>1
<1> QED
  BY <1>2

\* A message in flight goes on.
LEMMA MessageMoves ==
  ASSUME interviewMsg \in [InterviewMessages -> InterviewMessageRecords],
         NEW h \in InterviewMessages, NEW m \in InterviewMessageRecords,
         interviewMsg' = [interviewMsg EXCEPT ![h] = m]
  PROVE  /\ interviewMsg' \in [InterviewMessages -> InterviewMessageRecords]
         /\ interviewMsg'[h] = m
         /\ \A o \in InterviewMessages : o # h => interviewMsg'[o] = interviewMsg[o]
OBVIOUS

\* What the steps of a message make of it.
LEMMA MessageRecords ==
  ASSUME InterviewTypeOK, NEW h \in InterviewMessages
  PROVE  /\ IdleInterview \in InterviewMessageRecords
         /\ [IdleInterview EXCEPT !.at = "after", !.command = interviewMsg[h].command]
              \in InterviewMessageRecords
         /\ \A s \in Stages : [interviewMsg[h] EXCEPT !.at = s] \in InterviewMessageRecords
         /\ \A s \in Stages, c \in BOOLEAN :
              [at |-> s, command |-> c, read |-> InterviewState] \in InterviewMessageRecords
<1>1. interviewMsg[h] \in InterviewMessageRecords
  BY InterviewTypes
<1>2. 1 \in InterviewSessions
  BY QuestionsFollowUp, LenProperties, EmptySeq DEF InterviewSessions
<1>3. IdleInterview \in InterviewMessageRecords /\ IdleInterview.at = "idle"
  BY <1>2 DEF IdleInterview, Unasked, InterviewMessageRecords, InterviewReads
<1>4. interviewMsg[h].command \in BOOLEAN
  BY <1>1 DEF InterviewMessageRecords
<1>5. [IdleInterview EXCEPT !.at = "after", !.command = interviewMsg[h].command]
        \in InterviewMessageRecords
  BY <1>3, <1>4 DEF InterviewMessageRecords
<1>6. \A s \in Stages : [interviewMsg[h] EXCEPT !.at = s] \in InterviewMessageRecords
  BY <1>1 DEF InterviewMessageRecords, Stages
<1>7. \A s \in Stages, c \in BOOLEAN :
        [at |-> s, command |-> c, read |-> InterviewState] \in InterviewMessageRecords
  BY StateIsTyped DEF InterviewMessageRecords, Stages
<1> QED
  BY <1>3, <1>5, <1>6, <1>7

\* A transcript with one entry more.
LEMMA LogGrows ==
  ASSUME NEW r \in InterviewRows, NEW e \in InterviewEntries
  PROVE  /\ [r EXCEPT !.log = Append(r.log, e)] \in InterviewRows
         /\ [r EXCEPT !.log = Append(r.log, e)].log = Append(r.log, e)
         /\ [r EXCEPT !.log = Append(r.log, e)].session = r.session
         /\ [r EXCEPT !.log = Append(r.log, e)].status = r.status
<1>1. r.log \in Seq(InterviewEntries)
  BY DEF InterviewRows
<1>2. PICK l \in Seq(InterviewEntries) : l = Append(r.log, e)
  BY <1>1, AppendProperties
<1>3. /\ [r EXCEPT !.log = l] \in InterviewRows /\ [r EXCEPT !.log = l].log = l
      /\ [r EXCEPT !.log = l].session = r.session /\ [r EXCEPT !.log = l].status = r.status
  BY DEF InterviewRows
<1> QED
  BY <1>2, <1>3

\* The records of the interview keep their types.
LEMMA InterviewKeepsTypes == InterviewTypeOK /\ [InterviewNext]_interviewVars => InterviewTypeOK'
<1> SUFFICES ASSUME InterviewTypeOK, [InterviewNext]_interviewVars PROVE InterviewTypeOK'
  OBVIOUS
<1>1. /\ interviews \in Seq(InterviewRows) /\ interviewing \in BOOLEAN
      /\ interviewMsg \in [InterviewMessages -> InterviewMessageRecords]
      /\ learned \in Seq(InterviewSessions)
      /\ interviewFaults \in 0..InterviewFaults /\ interviewDisturbed \in BOOLEAN
  BY InterviewTypes
<1>2. DOMAIN interviews = 1..Len(interviews) /\ Len(interviews) \in Nat
      /\ \A i \in DOMAIN interviews : interviews[i] \in InterviewRows
  BY <1>1, LenProperties, ElementOfSeq
<1>3. InterviewFault => interviewFaults' \in 0..InterviewFaults
  BY <1>1, InterviewBounds DEF InterviewFault
<1>4. Answer \in InterviewEntries /\ Asked(1, FALSE) \in InterviewEntries
  BY DEF Answer, Asked, InterviewEntries
<1>5. ASSUME NEW h \in InterviewMessages, InterviewCommand(h) \/ TextInInterview(h)
      PROVE  InterviewTypeOK'
  <2>1. /\ interviews' = interviews /\ learned' = learned /\ interviewFaults' = interviewFaults
        /\ interviewing' \in BOOLEAN
    BY <1>1, <1>5 DEF InterviewCommand, TextInInterview
  <2>2. interviewDisturbed' \in BOOLEAN
    BY <1>5, Zenon DEF InterviewCommand, TextInInterview
  <2>3. PICK s \in Stages, c \in BOOLEAN :
          interviewMsg' = [interviewMsg EXCEPT ![h] = [at |-> s, command |-> c, read |-> InterviewState]]
    BY <1>5 DEF InterviewCommand, TextInInterview, Stages
  <2>4. interviewMsg' \in [InterviewMessages -> InterviewMessageRecords]
    BY <1>1, <2>3, MessageRecords, MessageMoves
  <2> QED
    BY <1>1, <2>1, <2>2, <2>4, InterviewTypesNext
<1>6. ASSUME NEW h \in InterviewMessages, OpenSession(h) PROVE InterviewTypeOK'
  <2>1. /\ interviewing' = interviewing /\ learned' = learned /\ interviewFaults' = interviewFaults
        /\ interviewDisturbed' = interviewDisturbed
        /\ interviewMsg' = [interviewMsg EXCEPT ![h] =
             [IdleInterview EXCEPT !.at = "after", !.command = interviewMsg[h].command]]
    BY <1>6 DEF OpenSession, Replying
  <2>2. interviewMsg' \in [InterviewMessages -> InterviewMessageRecords]
    BY <1>1, <2>1, MessageRecords, MessageMoves
  <2>3. interviewMsg[h].read.session \in InterviewSessions
    BY <1>1 DEF InterviewMessageRecords, InterviewReads
  <2>4. PICK l \in Seq(InterviewEntries) : l = <<Asked(1, FALSE)>>
    BY <1>4, OneLong
  <2>5. PICK x \in InterviewRows :
          x = [session |-> interviewMsg[h].read.session, status |-> "in_progress", log |-> l]
    BY <2>3, <2>4 DEF InterviewRows
  <2>6. interviews' = Append(interviews, x)
    BY <1>6, <2>4, <2>5 DEF OpenSession
  <2>7. interviews' \in Seq(InterviewRows)
    BY <1>1, <2>6, AppendProperties
  <2> QED
    BY <1>1, <2>1, <2>2, <2>7, InterviewTypesNext
<1>7. ASSUME NEW h \in InterviewMessages, RecordAnswer(h) \/ AskNext(h) PROVE InterviewTypeOK'
  <2>1. /\ interviewing' = interviewing /\ learned' = learned /\ interviewFaults' = interviewFaults
        /\ interviewDisturbed' = interviewDisturbed
    BY <1>7 DEF RecordAnswer, AskNext
  <2>2. PICK m \in InterviewMessageRecords : interviewMsg' = [interviewMsg EXCEPT ![h] = m]
    BY <1>7, MessageRecords DEF RecordAnswer, AskNext, Handling, Replying, Stages
  <2>3. interviewMsg' \in [InterviewMessages -> InterviewMessageRecords]
    BY <1>1, <2>2, MessageMoves
  <2>4. PICK e \in InterviewEntries :
          interviews' = [interviews EXCEPT ![interviewMsg[h].read.row].log = Append(@, e)]
    <3>1. NextPrompt(interviewMsg[h].read) \in InterviewEntries
      <4>1. interviewMsg[h].read.question \in Nat
        BY <1>1 DEF InterviewMessageRecords, InterviewReads
      <4> QED
        BY <4>1 DEF NextPrompt, Asked, InterviewEntries
    <3> QED
      BY <1>4, <1>7, <3>1 DEF RecordAnswer, AskNext
  <2>5. PICK i : i = interviewMsg[h].read.row
    OBVIOUS
  <2>6. interviews' = [interviews EXCEPT ![i] = [interviews[i] EXCEPT !.log = Append(interviews[i].log, e)]]
    BY <2>4, <2>5
  <2>7. CASE i \in DOMAIN interviews
    <3>1. [interviews[i] EXCEPT !.log = Append(interviews[i].log, e)] \in InterviewRows
      BY <1>2, <2>7, LogGrows
    <3>2. interviews' \in Seq(InterviewRows)
      BY <1>1, <2>6, <2>7, <3>1, RowWrittenAt
    <3> QED
      BY <1>1, <2>1, <2>3, <3>2, InterviewTypesNext
  <2>8. CASE i \notin DOMAIN interviews
    <3>1. interviews' = interviews
      BY <1>1, <2>6, <2>8, NoRowWritten
    <3> QED
      BY <1>1, <2>1, <2>3, <3>1, InterviewTypesNext
  <2> QED
    BY <2>7, <2>8
<1>8. ASSUME NEW h \in InterviewMessages, CompleteSession(h) PROVE InterviewTypeOK'
  <2>1. /\ interviewing' = interviewing /\ learned' = learned /\ interviewFaults' = interviewFaults
        /\ interviewDisturbed' = interviewDisturbed
    BY <1>8 DEF CompleteSession
  <2>2. PICK m \in InterviewMessageRecords : interviewMsg' = [interviewMsg EXCEPT ![h] = m]
    BY <1>8, MessageRecords DEF CompleteSession, Handling, Stages
  <2>3. interviewMsg' \in [InterviewMessages -> InterviewMessageRecords]
    BY <1>1, <2>2, MessageMoves
  <2>4. PICK i : i = interviewMsg[h].read.row
    OBVIOUS
  <2>5. interviews' = [interviews EXCEPT ![i] = [interviews[i] EXCEPT !.status = "completed"]]
    BY <1>8, <2>4 DEF CompleteSession
  <2>6. interviews' \in Seq(InterviewRows)
    <3>1. CASE i \in DOMAIN interviews
      <4>1. [interviews[i] EXCEPT !.status = "completed"] \in InterviewRows
        BY <1>2, <3>1 DEF InterviewRows
      <4> QED
        BY <1>1, <2>5, <3>1, <4>1, RowWrittenAt
    <3>2. CASE i \notin DOMAIN interviews
      BY <1>1, <2>5, <3>2, NoRowWritten
    <3> QED
      BY <3>1, <3>2
  <2> QED
    BY <1>1, <2>1, <2>3, <2>6, InterviewTypesNext
<1>9. ASSUME NEW h \in InterviewMessages, NEW gives \in BOOLEAN, Synthesise(h, gives)
      PROVE  InterviewTypeOK'
  <2>1. /\ interviewing' = interviewing /\ interviews' = interviews
        /\ interviewFaults' = interviewFaults /\ interviewDisturbed' = interviewDisturbed
    BY <1>9 DEF Synthesise
  <2>2. interviewMsg' \in [InterviewMessages -> InterviewMessageRecords]
    BY <1>1, <1>9, MessageRecords, MessageMoves DEF Synthesise, Replying
  <2>3. interviewMsg[h].read.session \in InterviewSessions
    BY <1>1 DEF InterviewMessageRecords, InterviewReads
  <2>4. learned' = learned \/ learned' = Append(learned, interviewMsg[h].read.session)
    BY <1>9 DEF Synthesise
  <2>5. learned' \in Seq(InterviewSessions)
    <3>1. learned \in Seq(InterviewSessions)
      BY <1>1
    <3>2. Append(learned, interviewMsg[h].read.session) \in Seq(InterviewSessions)
      BY <2>3, <3>1, AppendProperties
    <3> QED
      BY <2>4, <3>1, <3>2
  <2> QED
    BY <1>1, <2>1, <2>2, <2>5, InterviewTypesNext
<1>10. ASSUME NEW h \in InterviewMessages, AfterReply(h) \/ InterviewFails(h) PROVE InterviewTypeOK'
  <2>1. interviews' = interviews /\ learned' = learned
    BY <1>10 DEF AfterReply, InterviewFails
  <2>2. interviewMsg' \in [InterviewMessages -> InterviewMessageRecords]
    BY <1>1, <1>10, MessageRecords, MessageMoves DEF AfterReply, InterviewFails, InterviewDone
  <2>3. interviewFaults' \in 0..InterviewFaults /\ interviewDisturbed' \in BOOLEAN
    BY <1>1, <1>3, <1>10 DEF AfterReply, InterviewFails
  <2>4. interviewing' \in BOOLEAN
    <3>1. CASE AfterReply(h)
      BY <3>1, Zenon DEF AfterReply
    <3>2. CASE InterviewFails(h)
      BY <1>1, <3>2 DEF InterviewFails
    <3> QED
      BY <1>10, <3>1, <3>2
  <2> QED
    BY <1>1, <2>1, <2>2, <2>3, <2>4, InterviewTypesNext
<1>11. CASE ResetInterview
  <2>1. /\ interviewing' = interviewing /\ interviewMsg' = interviewMsg /\ learned' = <<>>
        /\ interviewFaults' \in 0..InterviewFaults
    BY <1>3, <1>11 DEF ResetInterview
  <2>2. interviewDisturbed' \in BOOLEAN
    BY <1>11, Zenon DEF ResetInterview
  <2>3. interviews' = [i \in 1..Len(interviews) |-> [interviews[i] EXCEPT !.status = "archived"]]
    BY <1>2, <1>11 DEF ResetInterview
  <2>4. \A i \in 1..Len(interviews) : [interviews[i] EXCEPT !.status = "archived"] \in InterviewRows
    BY <1>2 DEF InterviewRows
  <2>5. interviews' \in [1..Len(interviews) -> InterviewRows]
    BY <2>3, <2>4
  <2>6. interviews' \in Seq(InterviewRows)
    BY <1>2, <2>5, SeqDef
  <2>7. learned' \in Seq(InterviewSessions)
    BY <2>1, EmptySeq
  <2> QED
    BY <1>1, <2>1, <2>2, <2>6, <2>7, InterviewTypesNext
<1>12. CASE InterviewExpires
  BY <1>1, <1>3, <1>12, InterviewTypesNext DEF InterviewExpires
<1>13. CASE UNCHANGED interviewVars
  BY <1>1, <1>13, InterviewTypesNext DEF interviewVars
<1> QED
  BY <1>5, <1>6, <1>7, <1>8, <1>9, <1>10, <1>11, <1>12, <1>13 DEF InterviewNext

\* One entry more is one answer more if it is an answer.
LEMMA AnswersGrow ==
  ASSUME NEW log \in Seq(InterviewEntries), NEW e \in InterviewEntries
  PROVE  /\ e = Answer => AnswersIn(Append(log, e)) = AnswersIn(log) + 1
         /\ e # Answer => AnswersIn(Append(log, e)) = AnswersIn(log)
<1> DEFINE n == Len(log)
           S == {p \in DOMAIN log : log[p] = Answer}
           T == {p \in DOMAIN Append(log, e) : Append(log, e)[p] = Answer}
<1>1. DOMAIN log = 1..n /\ n \in Nat
  BY LenProperties
<1>2. PICK l \in Seq(InterviewEntries) : l = Append(log, e)
  BY AppendProperties
<1>3. /\ Len(l) = n + 1 /\ DOMAIN l = 1..(n + 1) /\ l[n + 1] = e
      /\ \A p \in 1..n : l[p] = log[p]
  BY <1>1, <1>2, AppendProperties, LenProperties
<1>4. 1..(n + 1) = (1..n) \union {n + 1} /\ n + 1 \notin 1..n
  BY <1>1
<1>5. /\ e = Answer => T = S \union {n + 1}
      /\ e # Answer => T = S
      /\ n + 1 \notin S /\ S \subseteq 1..n
  BY <1>1, <1>2, <1>3, <1>4
<1>6. IsFiniteSet(S)
  <2>1. IsFiniteSet(1..n)
    BY <1>1, FS_Interval
  <2> QED
    BY <1>5, <2>1, FS_Subset
<1>7. Cardinality(S \union {n + 1}) = Cardinality(S) + 1
  BY <1>5, <1>6, FS_AddElement
<1> QED
  BY <1>5, <1>7 DEF AnswersIn

\* A row of the interview.
LEMMA RowData ==
  ASSUME InterviewTypeOK
  PROVE  /\ DOMAIN interviews = 1..Len(interviews) /\ Len(interviews) \in Nat
         /\ InProgress \subseteq DOMAIN interviews
         /\ \A i \in DOMAIN interviews :
              /\ i \in Nat /\ i >= 1 /\ interviews[i] \in InterviewRows
              /\ interviews[i].session \in InterviewSessions
              /\ interviews[i].log \in Seq(InterviewEntries)
              /\ Len(interviews[i].log) \in Nat
<1>1. interviews \in Seq(InterviewRows)
  BY DEF InterviewTypeOK, InterviewRows
<1>2. DOMAIN interviews = 1..Len(interviews) /\ Len(interviews) \in Nat
      /\ \A i \in DOMAIN interviews : interviews[i] \in InterviewRows
  BY <1>1, LenProperties, ElementOfSeq
<1>3. \A r \in InterviewRows : /\ r.session \in InterviewSessions /\ r.log \in Seq(InterviewEntries)
                               /\ Len(r.log) \in Nat
  BY LenProperties DEF InterviewRows
<1> QED
  BY <1>2, <1>3 DEF InProgress

\* The sessions completed are those of the code.
LEMMA CompletedAre ==
  ASSUME InterviewTypeOK
  PROVE  /\ \A s \in CompletedSessions : s \in InterviewSessions /\ s \in Nat
         /\ \A i \in DOMAIN interviews :
              interviews[i].status = "completed" => interviews[i].session \in CompletedSessions
         /\ \A s \in CompletedSessions : \E i \in DOMAIN interviews :
              interviews[i].status = "completed" /\ interviews[i].session = s
<1>1. /\ \A i \in DOMAIN interviews :
           interviews[i].status = "completed" => interviews[i].session \in CompletedSessions
      /\ \A s \in CompletedSessions : \E i \in DOMAIN interviews :
           interviews[i].status = "completed" /\ interviews[i].session = s
  BY DEF CompletedSessions
<1>2. \A s \in CompletedSessions : s \in InterviewSessions
  BY <1>1, RowData
<1> QED
  BY <1>1, <1>2, SessionData

\* If the last session is completed, all are.
LEMMA LastMeansAll ==
  ASSUME InterviewTypeOK, InOrder, LastSession \in CompletedSessions, InProgress = {}
  PROVE  AllComplete
<1> DEFINE R == {i \in DOMAIN interviews : interviews[i].status = "completed"}
           f == [i \in R |-> interviews[i].session]
<1>1. LastSession \in Nat /\ InterviewSessions = 1..LastSession
  BY QuestionsFollowUp, LenProperties, EmptySeq DEF InterviewSessions, LastSession
<1>2. \A s \in CompletedSessions : s > 1 => s - 1 \in CompletedSessions
  BY CompletedAre, RowData DEF InOrder
<1>3. \A k \in 1..LastSession : k \in CompletedSessions
  <2> DEFINE Missing == {k \in 0..(LastSession - 1) : LastSession - k \notin CompletedSessions}
  <2>1. SUFFICES ASSUME Missing # {} PROVE FALSE
    <3>1. ASSUME NEW k \in 1..LastSession PROVE k \in CompletedSessions
      <4>1. LastSession - k \in 0..(LastSession - 1) /\ LastSession - (LastSession - k) = k
        BY <1>1
      <4> QED
        BY <2>1, <4>1
    <3> QED
      BY <3>1
  <2>2. PICK k \in Missing : \A o \in Missing : k <= o
    <3>1. Missing \subseteq Nat
      BY <1>1
    <3> HIDE DEF Missing
    <3> QED
      BY <2>1, <3>1, LeastNumber
  <2>3. k # 0
    BY <1>1, <2>2
  <2>4. k - 1 \notin Missing
    BY <1>1, <2>2, <2>3
  <2>5. LastSession - (k - 1) \in CompletedSessions /\ LastSession - (k - 1) > 1
    BY <1>1, <2>2, <2>3, <2>4
  <2>6. LastSession - (k - 1) - 1 = LastSession - k
    BY <1>1, <2>2
  <2> QED
    BY <1>2, <2>2, <2>5, <2>6
<1>4. f \in Surjection(R, CompletedSessions)
  <2>1. \A i \in R : f[i] \in CompletedSessions
    BY CompletedAre
  <2>2. \A s \in CompletedSessions : \E i \in R : f[i] = s
    BY CompletedAre
  <2> QED
    BY <2>1, <2>2 DEF Surjection
<1>5. IsFiniteSet(R)
  <2>1. IsFiniteSet(1..Len(interviews))
    BY RowData, FS_Interval
  <2>2. R \subseteq 1..Len(interviews)
    BY RowData
  <2> QED
    BY <2>1, <2>2, FS_Subset
<1>6. IsFiniteSet(CompletedSessions) /\ Cardinality(CompletedSessions) <= Cardinality(R)
  BY <1>4, <1>5, FS_Surjection
<1>7. Cardinality(1..LastSession) = LastSession
  <2>1. Cardinality(1..LastSession) = IF 1 > LastSession THEN 0 ELSE LastSession - 1 + 1
    BY <1>1, FS_Interval
  <2> QED
    BY <1>1, <2>1
<1>8. Cardinality(1..LastSession) <= Cardinality(CompletedSessions)
  BY <1>3, <1>6, FS_Subset
<1>9. Cardinality(R) \in Nat /\ Cardinality(CompletedSessions) \in Nat
  BY <1>5, <1>6, FS_CardinalityType
<1>10. Cardinality(R) >= LastSession
  BY <1>1, <1>6, <1>7, <1>8, <1>9
<1> QED
  BY <1>10 DEF AllComplete

\* A message that moves on while the others are idle.
LEMMA OneMoves ==
  ASSUME InterviewTypeOK, NEW h \in InterviewMessages, NEW m \in InterviewMessageRecords,
         interviewMsg' = [interviewMsg EXCEPT ![h] = m],
         \A o \in InterviewMessages : o # h => interviewMsg[o].at = "idle"
  PROVE  /\ interviewMsg'[h] = m
         /\ \A o \in InterviewMessages : o # h => interviewMsg'[o].at = "idle"
         /\ OneMessage'
         /\ MessageFits(m)' => Reads'
<1>1. /\ interviewMsg'[h] = m
      /\ \A o \in InterviewMessages : o # h => interviewMsg'[o] = interviewMsg[o]
  BY InterviewTypes, MessageMoves
<1>2. \A o \in InterviewMessages : o # h => interviewMsg'[o].at = "idle"
  BY <1>1
<1>3. OneMessage'
  BY <1>2 DEF OneMessage
<1>4. ASSUME MessageFits(m)' PROVE Reads'
  <2>1. \A o \in InterviewMessages : o # h => MessageFits(interviewMsg[o])'
    BY <1>2 DEF MessageFits
  <2>2. MessageFits(interviewMsg[h])'
    BY <1>1, <1>4 DEF MessageFits
  <2> QED
    BY <2>1, <2>2 DEF Reads
<1> QED
  BY <1>1, <1>2, <1>3, <1>4

\* The rows stay, and so does what is said of them alone.
LEMMA RowsStay ==
  ASSUME interviews' = interviews
  PROVE  /\ InProgress' = InProgress /\ CompletedSessions' = CompletedSessions
         /\ OneSession => OneSession'
         /\ InOrder => InOrder'
         /\ learned' = learned /\ LearnedInOrder => LearnedInOrder'
<1>1. InProgress' = InProgress /\ CompletedSessions' = CompletedSessions
  BY DEF InProgress, CompletedSessions
<1>2. OneSession => OneSession'
  BY <1>1 DEF OneSession
<1>3. InOrder => InOrder'
  BY <1>1 DEF InOrder
<1>4. learned' = learned /\ LearnedInOrder => LearnedInOrder'
  BY <1>1 DEF LearnedInOrder
<1> QED
  BY <1>1, <1>2, <1>3, <1>4

\* Good rows that stay need no recorded answer if each waits for one.
LEMMA RowsStayGood ==
  ASSUME interviews' = interviews, GoodRows, \A i \in InProgress : Len(interviews[i].log) % 2 = 1
  PROVE  GoodRows'
<1>1. InProgress' = InProgress
  BY RowsStay
<1> QED
  BY <1>1 DEF GoodRows, GoodRow, AnswersIn

\* A row in progress without a recorded answer waits for one.
LEMMA RowsWait ==
  ASSUME GoodRows, \A h \in InterviewMessages : interviewMsg[h].at # "recorded"
  PROVE  \A i \in InProgress : Len(interviews[i].log) % 2 = 1
BY DEF GoodRows

\* What is read of a session in progress fits the session.
LEMMA ReadingFits ==
  ASSUME InterviewTypeOK, GoodRows, InProgress # {},
         \A i \in InProgress : Len(interviews[i].log) % 2 = 1
  PROVE  /\ InterviewState.row \in InProgress /\ InterviewState.row # 0
         /\ InterviewState.session = interviews[InterviewState.row].session
         /\ ReadFits(InterviewState, (Len(interviews[InterviewState.row].log) - 1) \div 2)
<1>1. PICK i \in InProgress, n \in Nat, b \in BOOLEAN :
        /\ n = AnswersIn(interviews[i].log) /\ (b <=> n % 2 = 1)
        /\ InterviewState =
             [session |-> interviews[i].session, row |-> i,
              question |-> Min({n \div 2, Len(FollowsUp[interviews[i].session]) - 1}) + 1,
              awaiting |-> b]
  BY StateInSession
<1>2. PICK s \in InterviewSessions, len \in Nat :
        s = interviews[i].session /\ len = Len(interviews[i].log)
  BY RowData
<1>3. i \in DOMAIN interviews /\ i >= 1 /\ i \in Nat
  BY RowData
<1>4. len \in 1..Top(s) /\ n = len \div 2 /\ len % 2 = 1
  BY <1>1, <1>2, <1>3 DEF GoodRows, GoodRow
<1>5. Top(s) \in Nat /\ Top(s) % 2 = 0 /\ Questions(s) \in Nat /\ Questions(s) >= 1
      /\ (Top(s) = 4 * Questions(s) \/ Top(s) = 4 * Questions(s) - 2)
  BY SessionData DEF Top
<1>6. n = (len - 1) \div 2 /\ n \div 2 \in Nat /\ n \div 2 <= Questions(s) - 1
  <2>1. len < Top(s)
    BY <1>4, <1>5
  <2>2. len <= 4 * Questions(s) - 1
    BY <1>4, <1>5, <2>1
  <2>3. n <= 2 * Questions(s) - 1
    BY <1>4, <1>5, <2>2
  <2> QED
    BY <1>4, <1>5, <2>3
<1>7. PICK a, c : a = n \div 2 /\ c = Questions(s) - 1
  OBVIOUS
<1>8. Min({a, c}) = a
  <2>1. a \in Nat /\ c \in Nat /\ a <= c
    BY <1>5, <1>6, <1>7
  <2>2. Min({a, c}) \in {a, c} /\ \A k \in {a, c} : Min({a, c}) <= k
    BY <2>1, LeastIsOne
  <2> QED
    BY <2>1, <2>2
<1>9. InterviewState = [session |-> s, row |-> i, question |-> a + 1, awaiting |-> b]
  <2>1. Min({n \div 2, Len(FollowsUp[interviews[i].session]) - 1}) = a
    BY <1>2, <1>7, <1>8 DEF Questions
  <2> QED
    BY <1>1, <1>2, <2>1
<1>10. PICK st : st = InterviewState
  OBVIOUS
<1>11. st.row = i /\ st.session = s /\ st.question = a + 1 /\ (st.awaiting <=> b)
  BY <1>9, <1>10
<1>12. ReadFits(st, n)
  BY <1>1, <1>7, <1>11 DEF ReadFits
<1>13. PICK k : k = (Len(interviews[st.row].log) - 1) \div 2
  OBVIOUS
<1>14. k = n
  BY <1>2, <1>6, <1>11, <1>13
<1>15. ReadFits(st, k)
  BY <1>12, <1>14
<1>16. st.row \in InProgress /\ st.row # 0 /\ st.session = interviews[st.row].session
  BY <1>2, <1>3, <1>11
<1> QED
  BY <1>10, <1>13, <1>15, <1>16, Zenon

\* What is read between two sessions fits the next one.
LEMMA NextSessionFits ==
  ASSUME InterviewTypeOK, InOrder, InProgress = {}
  PROVE  /\ InterviewState.row = 0
         /\ ~AllComplete => /\ \A s \in CompletedSessions : s < InterviewState.session
                            /\ InterviewState.session > 1 =>
                                 InterviewState.session - 1 \in CompletedSessions
<1>1. PICK s \in InterviewSessions :
        /\ InterviewState = [session |-> s, row |-> 0, question |-> 0, awaiting |-> FALSE]
        /\ CompletedSessions = {} => s = 1
        /\ CompletedSessions # {} =>
             /\ Max(CompletedSessions) \in CompletedSessions
             /\ \A o \in CompletedSessions : o <= Max(CompletedSessions)
             /\ \/ s = Max(CompletedSessions) + 1
                \/ s = LastSession /\ s <= Max(CompletedSessions)
  BY StateBetweenSessions
<1>2. InterviewState.row = 0 /\ InterviewState.session = s
  BY <1>1
<1>3. ASSUME ~AllComplete
      PROVE  (\A o \in CompletedSessions : o < s) /\ (s > 1 => s - 1 \in CompletedSessions)
  <2>1. CASE CompletedSessions = {}
    BY <1>1, <2>1
  <2>2. CASE CompletedSessions # {}
    <3>1. PICK top \in CompletedSessions : top = Max(CompletedSessions)
      BY <1>1, <2>2
    <3>2. top \in Nat /\ top <= LastSession /\ s \in Nat
          /\ \A o \in CompletedSessions : o <= top /\ o \in Nat
      BY <1>1, <2>2, <3>1, CompletedAre, SessionData
    <3>3. LastSession \notin CompletedSessions
      BY <1>3, LastMeansAll
    <3>4. LastSession \in Nat
      BY SessionData
    <3>5. s = top + 1
      BY <1>1, <2>2, <3>1, <3>2, <3>3, <3>4
    <3> QED
      BY <3>1, <3>2, <3>5
  <2> QED
    BY <2>1, <2>2
<1> QED
  BY <1>2, <1>3

\* A message that arrives.
LEMMA ArrivalKeepsOrder ==
  ASSUME InterviewTypeOK, Orderly, NEW h \in InterviewMessages,
         InterviewCommand(h) \/ TextInInterview(h), ~interviewDisturbed'
  PROVE  Orderly'
<1>1. /\ interviews' = interviews /\ learned' = learned /\ ~Overlaps(h)
      /\ interviewMsg[h].at = "idle"
  BY DEF InterviewCommand, TextInInterview, MayArrive
<1>2. \A o \in InterviewMessages : interviewMsg[o].at = "idle"
  BY <1>1 DEF Overlaps
<1>3. \A i \in InProgress : Len(interviews[i].log) % 2 = 1
  <2>1. GoodRows
    BY DEF Orderly
  <2> QED
    BY <1>2, <2>1, RowsWait
<1>4. PICK s \in Stages, c \in BOOLEAN :
        /\ interviewMsg' = [interviewMsg EXCEPT ![h] = [at |-> s, command |-> c, read |-> InterviewState]]
        /\ s \in {"open", "record", "after"}
        /\ s = "open" => InterviewState.row = 0 /\ ~AllComplete
        /\ s = "record" => InterviewState.row # 0
  <2>1. CASE InterviewCommand(h)
    BY <2>1 DEF InterviewCommand, Stages
  <2>2. CASE TextInInterview(h)
    BY <2>2 DEF TextInInterview, Stages
  <2> QED
    BY <2>1, <2>2
<1>5. PICK st \in InterviewReads : st = InterviewState
  BY StateIsTyped
<1>6. PICK m \in InterviewMessageRecords : m = [at |-> s, command |-> c, read |-> st]
  BY <1>5, MessageRecords
<1>7. m.at = s /\ m.read = st /\ interviewMsg' = [interviewMsg EXCEPT ![h] = m]
  BY <1>4, <1>5, <1>6
<1>8. /\ InProgress' = InProgress /\ CompletedSessions' = CompletedSessions
      /\ OneSession' /\ InOrder' /\ LearnedInOrder' /\ GoodRows'
  BY <1>1, <1>3, RowsStay, RowsStayGood DEF Orderly
<1>9. MessageFits(m)'
  <2>1. CASE s = "open"
    <3>1. InProgress = {}
      BY <1>3, <1>4, <2>1, ReadingFits DEF Orderly
    <3>2. /\ \A o \in CompletedSessions : o < st.session
          /\ st.session > 1 => st.session - 1 \in CompletedSessions
      BY <1>4, <1>5, <2>1, <3>1, NextSessionFits DEF Orderly
    <3> QED
      BY <1>7, <1>8, <2>1, <3>1, <3>2 DEF MessageFits
  <2>2. CASE s = "record"
    <3>1. InProgress # {}
      BY <1>4, <2>2, NextSessionFits DEF Orderly
    <3>2. /\ st.row \in InProgress /\ st.session = interviews[st.row].session
          /\ ReadFits(st, (Len(interviews[st.row].log) - 1) \div 2)
      BY <1>3, <1>5, <3>1, ReadingFits DEF Orderly
    <3> QED
      BY <1>1, <1>3, <1>7, <1>8, <2>2, <3>2 DEF MessageFits
  <2>3. CASE s = "after"
    BY <1>7, <2>3 DEF MessageFits
  <2> QED
    BY <1>4, <2>1, <2>2, <2>3
<1>10. OneMessage' /\ Reads'
  BY <1>2, <1>7, <1>9, OneMoves
<1> QED
  BY <1>8, <1>10 DEF Orderly

\* What is known of a row, by its number.
LEMMA GoodRowSays ==
  ASSUME InterviewTypeOK, GoodRows, NEW i \in DOMAIN interviews
  PROVE  /\ Len(interviews[i].log) >= 1
         /\ Len(interviews[i].log) <= Top(interviews[i].session)
         /\ \A p \in 1..Len(interviews[i].log) : interviews[i].log[p] = Entry(p)
         /\ AnswersIn(interviews[i].log) = Len(interviews[i].log) \div 2
         /\ interviews[i].status = "completed" =>
              Len(interviews[i].log) = Top(interviews[i].session)
<1>1. PICK r : r = interviews[i] /\ GoodRow(r)
  BY DEF GoodRows
<1>2. PICK s \in InterviewSessions, log \in Seq(InterviewEntries), n \in Nat :
        s = r.session /\ log = r.log /\ n = Len(log)
  BY <1>1, RowData
<1>3. Top(s) \in Nat /\ DOMAIN log = 1..n
  BY <1>2, SessionData, LenProperties
<1>4. /\ n \in 1..Top(s) /\ AnswersIn(log) = n \div 2
      /\ \A p \in DOMAIN log : log[p] = Entry(p)
      /\ r.status = "completed" => n = Top(s)
  BY <1>1, <1>2 DEF GoodRow
<1> QED
  BY <1>1, <1>2, <1>3, <1>4

\* A row in progress that is written while it stays in progress.
LEMMA RowGrows ==
  ASSUME InterviewTypeOK, NEW i \in InProgress, NEW r \in InterviewRows,
         r.session = interviews[i].session, r.status = "in_progress",
         interviews' = [interviews EXCEPT ![i] = r]
  PROVE  /\ interviews'[i] = r /\ DOMAIN interviews' = DOMAIN interviews
         /\ \A j \in DOMAIN interviews : j # i => interviews'[j] = interviews[j]
         /\ InProgress' = InProgress /\ CompletedSessions' = CompletedSessions
         /\ OneSession => OneSession'
         /\ InOrder => InOrder'
<1>1. i \in DOMAIN interviews /\ interviews[i].status = "in_progress"
  BY DEF InProgress
<1>2. /\ interviews'[i] = r /\ DOMAIN interviews' = DOMAIN interviews
      /\ \A j \in DOMAIN interviews : j # i => interviews'[j] = interviews[j]
  BY <1>1
<1>3. \A j \in DOMAIN interviews : /\ interviews'[j].status = interviews[j].status
                                   /\ interviews'[j].session = interviews[j].session
  BY <1>1, <1>2
<1>4. InProgress' = InProgress /\ CompletedSessions' = CompletedSessions
  BY <1>2, <1>3 DEF InProgress, CompletedSessions
<1>5. OneSession => OneSession'
  BY <1>4 DEF OneSession
<1>6. InOrder => InOrder'
  BY <1>2, <1>3, <1>4 DEF InOrder, InProgress
<1> QED
  BY <1>2, <1>4, <1>5, <1>6

\* The row of an answer that is being taken, and what becomes of its transcript.
LEMMA TranscriptGrows ==
  ASSUME InterviewTypeOK, OneSession, GoodRows, NEW i \in InProgress, NEW e \in InterviewEntries,
         interviews' = [interviews EXCEPT ![i].log = Append(@, e)],
         Len(interviews[i].log) < Top(interviews[i].session),
         e = Entry(Len(interviews[i].log) + 1)
  PROVE  /\ InProgress' = InProgress /\ CompletedSessions' = CompletedSessions
         /\ OneSession'
         /\ InOrder => InOrder'
         /\ \A j \in DOMAIN interviews' : GoodRow(interviews'[j])
         /\ \A j \in InProgress' : j = i
         /\ Len(interviews'[i].log) = Len(interviews[i].log) + 1
         /\ interviews'[i].session = interviews[i].session
<1>1. PICK s \in InterviewSessions, log \in Seq(InterviewEntries), n \in Nat :
        /\ interviews[i] \in InterviewRows /\ i \in DOMAIN interviews
        /\ interviews[i].session = s /\ interviews[i].log = log /\ n = Len(log)
  BY RowData
<1>2. PICK l \in Seq(InterviewEntries) : l = Append(log, e)
  BY AppendProperties
<1>3. /\ Len(l) = n + 1 /\ DOMAIN l = 1..(n + 1) /\ l[n + 1] = e
      /\ \A p \in 1..n : l[p] = log[p]
      /\ DOMAIN log = 1..n
  BY <1>1, <1>2, AppendProperties, LenProperties
<1>4. PICK r \in InterviewRows :
        /\ r = [interviews[i] EXCEPT !.log = l]
        /\ r.log = l /\ r.session = s /\ r.status = "in_progress"
  <2>1. interviews[i].status = "in_progress"
    BY DEF InProgress
  <2>2. PICK row \in InterviewRows : row = interviews[i]
    BY <1>1
  <2>3. row.session = s /\ row.log = log /\ row.status = "in_progress"
    BY <1>1, <2>1, <2>2
  <2>4. PICK r \in InterviewRows :
          /\ r = [row EXCEPT !.log = l]
          /\ r.log = l /\ r.session = row.session /\ r.status = row.status
    <3>1. Append(row.log, e) = l
      BY <1>2, <2>3
    <3>2. /\ [row EXCEPT !.log = l] \in InterviewRows /\ [row EXCEPT !.log = l].log = l
          /\ [row EXCEPT !.log = l].session = row.session
          /\ [row EXCEPT !.log = l].status = row.status
      BY <3>1, LogGrows
    <3> QED
      BY <3>2
  <2> QED
    BY <2>2, <2>3, <2>4
<1>5. interviews' = [interviews EXCEPT ![i] = r]
  BY <1>1, <1>2, <1>4
<1>6. /\ interviews'[i] = r /\ DOMAIN interviews' = DOMAIN interviews
      /\ \A j \in DOMAIN interviews : j # i => interviews'[j] = interviews[j]
      /\ InProgress' = InProgress /\ CompletedSessions' = CompletedSessions
      /\ OneSession' /\ (InOrder => InOrder')
  BY <1>1, <1>4, <1>5, RowGrows
<1>7. /\ \A p \in 1..n : log[p] = Entry(p)
      /\ AnswersIn(log) = n \div 2 /\ n < Top(s) /\ n >= 1
      /\ e = Entry(n + 1)
  BY <1>1, <1>3, GoodRowSays
<1>8. GoodRow(r)
  <2>1. Top(s) \in Nat
    BY SessionData
  <2>2. Len(l) \in 1..Top(s)
    BY <1>3, <1>7, <2>1
  <2>3. \A p \in DOMAIN l : l[p] = Entry(p)
    <3>1. \A p \in 1..(n + 1) : p = n + 1 \/ p \in 1..n
      OBVIOUS
    <3> QED
      BY <1>3, <1>7, <3>1
  <2>4. AnswersIn(l) = (n + 1) \div 2
    <3>1. (e = Answer) <=> (n + 1) % 2 = 0
      <4>1. PICK k \in Nat : k = n + 1 /\ k >= 1
        BY <1>1
      <4> QED
        BY <1>7, <4>1, EntryAt
    <3>2. /\ e = Answer => AnswersIn(l) = AnswersIn(log) + 1
          /\ e # Answer => AnswersIn(l) = AnswersIn(log)
      BY <1>2, AnswersGrow
    <3>3. (n + 1) % 2 = 0 => (n + 1) \div 2 = n \div 2 + 1
      OBVIOUS
    <3>4. (n + 1) % 2 # 0 => (n + 1) \div 2 = n \div 2
      OBVIOUS
    <3> QED
      BY <1>7, <3>1, <3>2, <3>3, <3>4
  <2> QED
    BY <1>3, <1>4, <2>2, <2>3, <2>4 DEF GoodRow
<1>9. \A j \in DOMAIN interviews' : GoodRow(interviews'[j])
  BY <1>6, <1>8 DEF GoodRows
<1>10. \A j \in InProgress' : j = i
  BY <1>6 DEF OneSession
<1>11. Len(interviews'[i].log) = Len(interviews[i].log) + 1
  BY <1>1, <1>3, <1>4, <1>6
<1> QED
  BY <1>1, <1>4, <1>6, <1>9, <1>10, <1>11

\* An answer goes on record.
LEMMA RecordKeepsOrder ==
  ASSUME InterviewTypeOK, Orderly, NEW h \in InterviewMessages, RecordAnswer(h)
  PROVE  Orderly'
<1>1. /\ OneMessage /\ OneSession /\ GoodRows /\ InOrder /\ LearnedInOrder /\ Reads
      /\ learned' = learned /\ interviewMsg[h].at = "record"
  BY DEF Orderly, RecordAnswer
<1>2. \A o \in InterviewMessages : o # h => interviewMsg[o].at = "idle"
  BY <1>1 DEF OneMessage
<1>3. PICK i, n, view : /\ view = interviewMsg[h].read /\ i = view.row
                        /\ n = Len(interviews[i].log)
  OBVIOUS
<1>4. /\ i \in InProgress /\ view.session = interviews[i].session
      /\ n % 2 = 1 /\ ReadFits(view, (n - 1) \div 2)
  BY <1>1, <1>3 DEF Reads, MessageFits
<1>5. n \in Nat /\ interviews[i].session \in InterviewSessions /\ i \in DOMAIN interviews
  BY <1>3, <1>4, RowData
<1>6. n < Top(interviews[i].session) /\ Entry(n + 1) = Answer /\ Answer \in InterviewEntries
  <2>1. n <= Top(interviews[i].session)
    BY <1>1, <1>3, <1>5, SessionData, GoodRowSays
  <2>2. Top(interviews[i].session) \in Nat /\ Top(interviews[i].session) % 2 = 0
    BY <1>5, SessionData
  <2>3. PICK k \in Nat : k = n + 1 /\ k % 2 = 0 /\ k >= 1
    BY <1>4, <1>5
  <2>4. Entry(k) = Answer /\ Answer \in InterviewEntries
    BY <2>3, EntryAt DEF Answer, InterviewEntries
  <2>5. Entry(n + 1) = Answer
    BY <2>3, <2>4
  <2> QED
    BY <1>4, <1>5, <2>1, <2>2, <2>4, <2>5
<1>7. interviews' = [interviews EXCEPT ![i].log = Append(@, Answer)]
  BY <1>3 DEF RecordAnswer
<1>8. /\ InProgress' = InProgress /\ CompletedSessions' = CompletedSessions
      /\ OneSession' /\ InOrder'
      /\ \A j \in DOMAIN interviews' : GoodRow(interviews'[j])
      /\ \A j \in InProgress' : j = i
      /\ Len(interviews'[i].log) = n + 1
      /\ interviews'[i].session = interviews[i].session
  BY <1>1, <1>3, <1>4, <1>6, <1>7, TranscriptGrows
<1>9. PICK m \in InterviewMessageRecords : m = [interviewMsg[h] EXCEPT !.at = "recorded"]
  BY MessageRecords DEF Stages
<1>10. /\ interviewMsg' = [interviewMsg EXCEPT ![h] = m] /\ m.at = "recorded" /\ m.read = view
  <2>1. interviewMsg[h] \in InterviewMessageRecords
    BY InterviewTypes
  <2>2. m.at = "recorded" /\ m.read = view
    BY <1>3, <1>9, <2>1 DEF InterviewMessageRecords
  <2> QED
    BY <1>9, <2>2 DEF RecordAnswer, Handling
<1>11. MessageFits(m)'
  <2>1. PICK k : k = n + 1
    OBVIOUS
  <2>2. k % 2 = 0 /\ (k - 2) \div 2 = (n - 1) \div 2
    BY <1>4, <1>5, <2>1
  <2>5. ReadFits(view, (k - 2) \div 2)
    BY <1>4, <2>2
  <2>3. Len(interviews'[m.read.row].log) = k
    BY <1>3, <1>8, <1>10, <2>1
  <2>4. m.read.row \in InProgress' /\ m.read.session = interviews'[m.read.row].session
    BY <1>3, <1>4, <1>8, <1>10
  <2> QED
    BY <1>10, <2>2, <2>3, <2>4, <2>5 DEF MessageFits
<1>12. OneMessage' /\ Reads' /\ interviewMsg'[h] = m
  BY <1>2, <1>10, <1>11, OneMoves
<1>13. GoodRows'
  BY <1>3, <1>8, <1>10, <1>12 DEF GoodRows
<1>14. LearnedInOrder'
  BY <1>1, <1>8 DEF LearnedInOrder
<1> QED
  BY <1>8, <1>12, <1>13, <1>14 DEF Orderly

\* The next question or follow-up goes on record.
LEMMA AskingKeepsOrder ==
  ASSUME InterviewTypeOK, Orderly, NEW h \in InterviewMessages, AskNext(h)
  PROVE  Orderly'
<1>1. /\ OneMessage /\ OneSession /\ GoodRows /\ InOrder /\ LearnedInOrder /\ Reads
      /\ learned' = learned /\ interviewMsg[h].at = "recorded"
      /\ ~IsLastAnswer(interviewMsg[h].read)
  BY DEF Orderly, AskNext
<1>2. \A o \in InterviewMessages : o # h => interviewMsg[o].at = "idle"
  BY <1>1 DEF OneMessage
<1>3. PICK i, n, s, view : /\ view = interviewMsg[h].read /\ i = view.row
                           /\ n = Len(interviews[i].log) /\ s = view.session
  OBVIOUS
<1>4. /\ i \in InProgress /\ s = interviews[i].session
      /\ n % 2 = 0 /\ ReadFits(view, (n - 2) \div 2)
  BY <1>1, <1>3 DEF Reads, MessageFits
<1>5. n \in Nat /\ s \in InterviewSessions /\ i \in DOMAIN interviews
  BY <1>3, <1>4, RowData
<1>6. n <= Top(s) /\ n >= 1 /\ Top(s) \in Nat
  BY <1>1, <1>3, <1>4, <1>5, SessionData, GoodRowSays
<1>7. PICK k \in Nat : n = 2 * k /\ k >= 1 /\ (n - 2) \div 2 = k - 1
  <2>1. n \div 2 \in Nat /\ n = 2 * (n \div 2) /\ n \div 2 >= 1 /\ (n - 2) \div 2 = n \div 2 - 1
    BY <1>4, <1>5, <1>6
  <2> QED
    BY <2>1
<1>8. ReadFits(view, k - 1) /\ 2 * k <= Top(s)
  BY <1>4, <1>6, <1>7
<1>9. n < Top(s) /\ NextPrompt(view) = Entry(n + 1)
  BY <1>1, <1>3, <1>5, <1>6, <1>7, <1>8, CountFindsThePrompt
<1>10. PICK e \in InterviewEntries : e = NextPrompt(view)
  <2>1. n + 1 \in Nat /\ n + 1 >= 1
    BY <1>5
  <2> QED
    BY <1>9, <2>1, EntryAt
<1>11. interviews' = [interviews EXCEPT ![i].log = Append(@, e)]
  BY <1>3, <1>10 DEF AskNext
<1>12. /\ InProgress' = InProgress /\ CompletedSessions' = CompletedSessions
       /\ OneSession' /\ InOrder'
       /\ \A j \in DOMAIN interviews' : GoodRow(interviews'[j])
       /\ \A j \in InProgress' : j = i
       /\ Len(interviews'[i].log) = n + 1
  BY <1>1, <1>3, <1>4, <1>9, <1>10, <1>11, TranscriptGrows
<1>13. PICK m \in InterviewMessageRecords :
         m = [IdleInterview EXCEPT !.at = "after", !.command = interviewMsg[h].command]
  BY MessageRecords
<1>14. interviewMsg' = [interviewMsg EXCEPT ![h] = m] /\ m.at = "after"
  BY <1>13 DEF AskNext, Replying, IdleInterview
<1>15. OneMessage' /\ Reads' /\ interviewMsg'[h] = m
  BY <1>2, <1>14, OneMoves DEF MessageFits
<1>16. GoodRows'
  <2>1. (n + 1) % 2 = 1
    BY <1>4, <1>5
  <2> QED
    BY <1>12, <2>1 DEF GoodRows
<1>17. LearnedInOrder'
  BY <1>1, <1>12 DEF LearnedInOrder
<1> QED
  BY <1>12, <1>15, <1>16, <1>17 DEF Orderly

\* A session is opened: all before it are completed.
LEMMA OpeningKeepsOrder ==
  ASSUME InterviewTypeOK, Orderly, NEW h \in InterviewMessages, OpenSession(h)
  PROVE  Orderly'
<1>1. /\ OneMessage /\ OneSession /\ GoodRows /\ InOrder /\ LearnedInOrder /\ Reads
      /\ learned' = learned /\ interviewMsg[h].at = "open"
  BY DEF Orderly, OpenSession
<1>2. \A o \in InterviewMessages : o # h => interviewMsg[o].at = "idle"
  BY <1>1 DEF OneMessage
<1>3. PICK s \in InterviewSessions : s = interviewMsg[h].read.session
  BY InterviewTypes DEF InterviewMessageRecords, InterviewReads
<1>4. /\ InProgress = {} /\ \A o \in CompletedSessions : o < s
      /\ s > 1 => s - 1 \in CompletedSessions
  BY <1>1, <1>3 DEF Reads, MessageFits
<1>5. PICK e \in InterviewEntries : e = Asked(1, FALSE) /\ e = Entry(1) /\ e # Answer
  BY EntryAt DEF Answer, Asked
<1>6. PICK l \in Seq(InterviewEntries) :
        l = <<e>> /\ Len(l) = 1 /\ DOMAIN l = 1..1 /\ l[1] = e
  BY OneLong
<1>7. PICK r \in InterviewRows :
        /\ r = [session |-> s, status |-> "in_progress", log |-> l]
        /\ r.session = s /\ r.status = "in_progress" /\ r.log = l
  <2>1. [session |-> s, status |-> "in_progress", log |-> l] \in InterviewRows
    BY DEF InterviewRows
  <2> QED
    BY <2>1
<1>8. PICK n \in Nat :
        /\ n = Len(interviews) /\ DOMAIN interviews = 1..n
        /\ interviews' = Append(interviews, r)
  BY <1>3, <1>5, <1>6, <1>7, RowData DEF OpenSession
<1>9. /\ DOMAIN interviews' = 1..(n + 1) /\ interviews'[n + 1] = r
      /\ \A i \in 1..n : interviews'[i] = interviews[i]
      /\ \A i \in 1..(n + 1) : i \in 1..n \/ i = n + 1
      /\ n + 1 \in 1..(n + 1) /\ \A i \in 1..n : i \in 1..(n + 1)
  <2>1. interviews \in Seq(InterviewRows)
    BY DEF InterviewTypeOK, InterviewRows
  <2>2. PICK q \in Seq(InterviewRows) : q = Append(interviews, r)
    BY <2>1, AppendProperties
  <2>3. Len(q) = n + 1 /\ q[n + 1] = r /\ \A i \in 1..n : q[i] = interviews[i]
    BY <1>8, <2>1, <2>2, AppendProperties
  <2>4. DOMAIN q = 1..(n + 1)
    BY <2>3, LenProperties
  <2>5. \A i \in 1..(n + 1) : i \in 1..n \/ i = n + 1
    OBVIOUS
  <2> QED
    BY <1>8, <2>2, <2>3, <2>4, <2>5
<1>10. InProgress' = {n + 1} /\ CompletedSessions' = CompletedSessions
  <2>1. InProgress' = {n + 1}
    <3>1. \A i \in 1..n : interviews[i].status # "in_progress"
      BY <1>4, <1>8 DEF InProgress
    <3> QED
      BY <1>7, <1>9, <3>1 DEF InProgress
  <2>2. CompletedSessions' = CompletedSessions
    BY <1>7, <1>8, <1>9 DEF CompletedSessions
  <2> QED
    BY <2>1, <2>2
<1>11. GoodRow(r)
  <2>1. Top(s) \in Nat /\ Top(s) >= 2
    BY SessionData
  <2>2. Len(l) \in 1..Top(s)
    BY <1>6, <2>1
  <2>3. \A p \in DOMAIN l : l[p] = Entry(p)
    <3>1. \A p \in 1..1 : p = 1
      OBVIOUS
    <3> QED
      BY <1>5, <1>6, <3>1
  <2>4. AnswersIn(l) = 1 \div 2
    <3>1. {p \in DOMAIN l : l[p] = Answer} = {}
      <4>1. \A p \in 1..1 : p = 1
        OBVIOUS
      <4> QED
        BY <1>5, <1>6, <4>1
    <3>2. 1 \div 2 = 0
      OBVIOUS
    <3> QED
      BY <3>1, <3>2, FS_EmptySet DEF AnswersIn
  <2> QED
    BY <1>6, <1>7, <2>2, <2>3, <2>4 DEF GoodRow
<1>12. PICK m \in InterviewMessageRecords :
         m = [IdleInterview EXCEPT !.at = "after", !.command = interviewMsg[h].command]
  BY MessageRecords
<1>13. interviewMsg' = [interviewMsg EXCEPT ![h] = m] /\ m.at = "after"
  BY <1>12 DEF OpenSession, Replying, IdleInterview
<1>14. OneMessage' /\ Reads'
  BY <1>2, <1>13, OneMoves DEF MessageFits
<1>15. OneSession'
  BY <1>10 DEF OneSession
<1>16. GoodRows'
  <2>1. \A i \in DOMAIN interviews' : GoodRow(interviews'[i])
    BY <1>1, <1>8, <1>9, <1>11 DEF GoodRows
  <2>2. 1 % 2 = 1
    OBVIOUS
  <2> QED
    BY <1>6, <1>7, <1>9, <1>10, <2>1, <2>2 DEF GoodRows
<1>17. InOrder'
  <2>1. \A i \in 1..n : interviews[i].session > 1 /\ interviews[i].status # "archived" =>
                          interviews[i].session - 1 \in CompletedSessions
    BY <1>1, <1>8 DEF InOrder
  <2> QED
    BY <1>4, <1>7, <1>9, <1>10, <2>1 DEF InOrder
<1>18. LearnedInOrder'
  BY <1>1, <1>10 DEF LearnedInOrder
<1> QED
  BY <1>14, <1>15, <1>16, <1>17, <1>18 DEF Orderly

\* A session is completed: it was the only one in progress.
LEMMA CompletionKeepsOrder ==
  ASSUME InterviewTypeOK, Orderly, NEW h \in InterviewMessages, CompleteSession(h)
  PROVE  Orderly'
<1>1. /\ OneMessage /\ OneSession /\ GoodRows /\ InOrder /\ LearnedInOrder /\ Reads
      /\ learned' = learned /\ interviewMsg[h].at = "recorded"
      /\ IsLastAnswer(interviewMsg[h].read)
  BY DEF Orderly, CompleteSession
<1>2. \A o \in InterviewMessages : o # h => interviewMsg[o].at = "idle"
  BY <1>1 DEF OneMessage
<1>3. PICK i, n, s, view : /\ view = interviewMsg[h].read /\ i = view.row
                           /\ n = Len(interviews[i].log) /\ s = view.session
  OBVIOUS
<1>4. /\ i \in InProgress /\ s = interviews[i].session
      /\ n % 2 = 0 /\ ReadFits(view, (n - 2) \div 2)
  BY <1>1, <1>3 DEF Reads, MessageFits
<1>5. n \in Nat /\ s \in InterviewSessions /\ s \in Nat /\ i \in DOMAIN interviews
  BY <1>3, <1>4, RowData, SessionData
<1>6. n <= Top(s) /\ n >= 1 /\ Top(s) \in Nat
  BY <1>1, <1>3, <1>4, <1>5, SessionData, GoodRowSays
<1>7. PICK k \in Nat : n = 2 * k /\ k >= 1 /\ (n - 2) \div 2 = k - 1
  <2>1. n \div 2 \in Nat /\ n = 2 * (n \div 2) /\ n \div 2 >= 1 /\ (n - 2) \div 2 = n \div 2 - 1
    BY <1>4, <1>5, <1>6
  <2> QED
    BY <2>1
<1>8. ReadFits(view, k - 1) /\ 2 * k <= Top(s)
  BY <1>4, <1>6, <1>7
<1>9. n = Top(s)
  BY <1>1, <1>3, <1>5, <1>6, <1>7, <1>8, CountFindsThePrompt
<1>10. PICK row \in InterviewRows, r \in InterviewRows :
         /\ row = interviews[i] /\ r = [row EXCEPT !.status = "completed"]
         /\ r.session = s /\ r.log = row.log /\ r.status = "completed"
         /\ row.status = "in_progress"
  <2>1. interviews[i] \in InterviewRows /\ interviews[i].status = "in_progress"
    BY <1>4, <1>5, RowData DEF InProgress
  <2>2. PICK row \in InterviewRows : row = interviews[i] /\ row.status = "in_progress"
    BY <2>1
  <2>3. row.session = s
    BY <1>4, <2>2
  <2>4. PICK r : r = [row EXCEPT !.status = "completed"]
    OBVIOUS
  <2>5. /\ r \in InterviewRows /\ r.session = row.session /\ r.log = row.log
        /\ r.status = "completed"
    BY <2>4 DEF InterviewRows
  <2> QED
    BY <2>2, <2>3, <2>4, <2>5
<1>11. interviews' = [interviews EXCEPT ![i] = r]
  BY <1>3, <1>10 DEF CompleteSession
<1>12. /\ interviews'[i] = r /\ DOMAIN interviews' = DOMAIN interviews
       /\ \A j \in DOMAIN interviews : j # i => interviews'[j] = interviews[j]
  BY <1>5, <1>11
<1>13. InProgress' = {}
  <2>1. \A j \in DOMAIN interviews : j # i => j \notin InProgress
    BY <1>1, <1>4 DEF OneSession
  <2>2. \A j \in DOMAIN interviews : j # i => interviews[j].status # "in_progress"
    BY <2>1 DEF InProgress
  <2>3. \A j \in DOMAIN interviews' : interviews'[j].status # "in_progress"
    BY <1>10, <1>12, <2>2
  <2> QED
    BY <2>3 DEF InProgress
<1>14. CompletedSessions' = CompletedSessions \union {s}
  <2>1. \A j \in DOMAIN interviews : j # i =>
          /\ interviews'[j].status = "completed" <=> interviews[j].status = "completed"
          /\ interviews'[j].session = interviews[j].session
    BY <1>12
  <2>2. /\ interviews[i].status # "completed" /\ interviews'[i].status = "completed"
        /\ interviews'[i].session = s
    BY <1>10, <1>12
  <2>3. \A o \in CompletedSessions' : o \in CompletedSessions \union {s}
    BY <1>12, <2>1, <2>2 DEF CompletedSessions
  <2>4. \A o \in CompletedSessions : o \in CompletedSessions'
    BY <1>12, <2>1, <2>2 DEF CompletedSessions
  <2>5. s \in CompletedSessions'
    BY <1>5, <1>12, <2>2 DEF CompletedSessions
  <2> QED
    BY <2>3, <2>4, <2>5
<1>15. GoodRow(r)
  <2>1. GoodRow(row) /\ Len(row.log) = Top(s) /\ row.session = s
    BY <1>1, <1>3, <1>4, <1>5, <1>9, <1>10 DEF GoodRows
  <2> QED
    BY <1>10, <2>1 DEF GoodRow
<1>16. GoodRows'
  BY <1>1, <1>12, <1>13, <1>15 DEF GoodRows
<1>17. InOrder'
  <2>1. \A j \in DOMAIN interviews : interviews[j].session > 1 /\ interviews[j].status # "archived" =>
                          interviews[j].session - 1 \in CompletedSessions
    BY <1>1 DEF InOrder
  <2>2. s > 1 => s - 1 \in CompletedSessions
    BY <1>4, <1>5, <1>10, <2>1
  <2> QED
    BY <1>10, <1>12, <1>13, <1>14, <2>1, <2>2 DEF InOrder
<1>18. PICK m \in InterviewMessageRecords : m = [interviewMsg[h] EXCEPT !.at = "synthesis"]
  BY MessageRecords DEF Stages
<1>19. /\ interviewMsg' = [interviewMsg EXCEPT ![h] = m] /\ m.at = "synthesis" /\ m.read = view
  <2>1. interviewMsg[h] \in InterviewMessageRecords
    BY InterviewTypes
  <2>2. m.at = "synthesis" /\ m.read = view
    BY <1>3, <1>18, <2>1 DEF InterviewMessageRecords
  <2> QED
    BY <1>18, <2>2 DEF CompleteSession, Handling
<1>20. MessageFits(m)'
  <2>1. \A o \in CompletedSessions : o < s
    BY <1>1, <1>4 DEF InOrder
  <2>2. \A j \in DOMAIN learned : learned[j] < s
    BY <1>1, <2>1 DEF LearnedInOrder
  <2> QED
    BY <1>1, <1>3, <1>13, <1>14, <1>19, <2>2 DEF MessageFits
<1>21. OneMessage' /\ Reads'
  BY <1>2, <1>19, <1>20, OneMoves
<1>22. LearnedInOrder'
  BY <1>1, <1>14 DEF LearnedInOrder
<1>23. OneSession'
  BY <1>13 DEF OneSession
<1> QED
  BY <1>16, <1>17, <1>21, <1>22, <1>23 DEF Orderly

\* The persona takes over a completed session, the latest of all.
LEMMA SynthesisKeepsOrder ==
  ASSUME InterviewTypeOK, Orderly, NEW h \in InterviewMessages, NEW gives \in BOOLEAN,
         Synthesise(h, gives)
  PROVE  Orderly'
<1>1. /\ OneMessage /\ OneSession /\ GoodRows /\ InOrder /\ LearnedInOrder /\ Reads
      /\ interviews' = interviews /\ interviewMsg[h].at = "synthesis"
  BY DEF Orderly, Synthesise
<1>2. \A o \in InterviewMessages : o # h => interviewMsg[o].at = "idle"
  BY <1>1 DEF OneMessage
<1>3. PICK s \in InterviewSessions : s = interviewMsg[h].read.session
  BY InterviewTypes DEF InterviewMessageRecords, InterviewReads
<1>4. /\ InProgress = {} /\ s \in CompletedSessions
      /\ \A i \in DOMAIN learned : learned[i] < s
  BY <1>1, <1>3 DEF Reads, MessageFits
<1>5. PICK m \in InterviewMessageRecords :
        m = [IdleInterview EXCEPT !.at = "after", !.command = interviewMsg[h].command]
  BY MessageRecords
<1>6. interviewMsg' = [interviewMsg EXCEPT ![h] = m] /\ m.at = "after"
  BY <1>5 DEF Synthesise, Replying, IdleInterview
<1>7. OneMessage' /\ Reads'
  BY <1>2, <1>6, OneMoves DEF MessageFits
<1>8. CompletedSessions' = CompletedSessions /\ OneSession' /\ InOrder' /\ GoodRows'
  BY <1>1, <1>4, RowsStay, RowsStayGood
<1>9. LearnedInOrder'
  <2>1. CASE learned' = learned
    BY <1>1, <2>1, RowsStay
  <2>2. CASE learned' = Append(learned, s)
    <3>1. learned \in Seq(InterviewSessions) /\ Len(learned) \in Nat
          /\ DOMAIN learned = 1..Len(learned)
      BY InterviewTypes, LenProperties
    <3>2. PICK q \in Seq(InterviewSessions) : q = Append(learned, s)
      BY <3>1, AppendProperties
    <3>3. PICK n \in Nat : n = Len(learned)
      BY <3>1
    <3>4. /\ DOMAIN q = 1..(n + 1) /\ q[n + 1] = s
          /\ \A i \in 1..n : q[i] = learned[i]
      BY <3>1, <3>2, <3>3, AppendProperties, LenProperties
    <3>5. \A i \in 1..(n + 1) : i \in 1..n \/ i = n + 1
      OBVIOUS
    <3>6. \A i \in 1..n : learned[i] \in CompletedSessions /\ learned[i] < s
      BY <1>1, <1>4, <3>1, <3>3 DEF LearnedInOrder
    <3>7. \A i, j \in 1..n : i < j => learned[i] < learned[j]
      BY <1>1, <3>1, <3>3 DEF LearnedInOrder
    <3>8. \A i \in 1..(n + 1) : q[i] \in CompletedSessions
      BY <1>4, <3>4, <3>5, <3>6
    <3>9. \A i, j \in 1..(n + 1) : i < j => q[i] < q[j]
      <4> SUFFICES ASSUME NEW i \in 1..(n + 1), NEW j \in 1..(n + 1), i < j PROVE q[i] < q[j]
        OBVIOUS
      <4>1. i \in 1..n
        OBVIOUS
      <4>2. CASE j = n + 1
        BY <3>4, <3>6, <4>1, <4>2
      <4>3. CASE j \in 1..n
        BY <3>4, <3>7, <4>1, <4>3
      <4> QED
        BY <3>5, <4>2, <4>3
    <3> QED
      BY <1>8, <2>2, <3>2, <3>4, <3>8, <3>9 DEF LearnedInOrder
  <2> QED
    BY <1>3, <2>1, <2>2 DEF Synthesise
<1> QED
  BY <1>7, <1>8, <1>9 DEF Orderly

\* A message is done: nobody waits for its answer.
LEMMA ReplyKeepsOrder ==
  ASSUME InterviewTypeOK, Orderly, NEW h \in InterviewMessages, AfterReply(h)
  PROVE  Orderly'
<1>1. /\ OneMessage /\ OneSession /\ GoodRows /\ InOrder /\ LearnedInOrder /\ Reads
      /\ interviews' = interviews /\ learned' = learned /\ interviewMsg[h].at = "after"
  BY DEF Orderly, AfterReply
<1>2. \A o \in InterviewMessages : o # h => interviewMsg[o].at = "idle"
  BY <1>1 DEF OneMessage
<1>3. PICK m \in InterviewMessageRecords : m = IdleInterview
  BY MessageRecords
<1>4. interviewMsg' = [interviewMsg EXCEPT ![h] = m] /\ m.at = "idle"
  BY <1>3 DEF AfterReply, InterviewDone, IdleInterview
<1>5. OneMessage' /\ Reads'
  BY <1>2, <1>4, OneMoves DEF MessageFits
<1>6. \A i \in InProgress : Len(interviews[i].log) % 2 = 1
  <2>1. \A o \in InterviewMessages : interviewMsg[o].at # "recorded"
    BY <1>1, <1>2
  <2> QED
    BY <1>1, <2>1, RowsWait
<1>7. OneSession' /\ InOrder' /\ GoodRows' /\ LearnedInOrder'
  BY <1>1, <1>6, RowsStay, RowsStayGood
<1> QED
  BY <1>5, <1>7 DEF Orderly

\* A reset while nothing is in flight leaves archived rows only.
LEMMA ResetKeepsOrder ==
  ASSUME InterviewTypeOK, Orderly, ResetInterview, ~interviewDisturbed'
  PROVE  Orderly'
<1>1. /\ GoodRows /\ interviewMsg' = interviewMsg /\ learned' = <<>>
      /\ \A h \in InterviewMessages : interviewMsg[h].at = "idle"
      /\ interviews' = [i \in DOMAIN interviews |-> [interviews[i] EXCEPT !.status = "archived"]]
  BY DEF Orderly, ResetInterview
<1>2. /\ DOMAIN interviews' = DOMAIN interviews
      /\ \A i \in DOMAIN interviews :
           /\ interviews'[i].status = "archived" /\ interviews'[i].log = interviews[i].log
           /\ interviews'[i].session = interviews[i].session
  <2>1. \A i \in DOMAIN interviews : interviews[i] \in InterviewRows
    BY RowData
  <2>2. \A r \in InterviewRows : /\ [r EXCEPT !.status = "archived"].status = "archived"
                                 /\ [r EXCEPT !.status = "archived"].log = r.log
                                 /\ [r EXCEPT !.status = "archived"].session = r.session
    BY DEF InterviewRows
  <2> QED
    BY <1>1, <2>1, <2>2
<1>3. InProgress' = {} /\ CompletedSessions' = {}
  BY <1>2 DEF InProgress, CompletedSessions
<1>4. \A i \in DOMAIN interviews' : GoodRow(interviews'[i])
  <2>1. \A i \in DOMAIN interviews : GoodRow(interviews[i])
    BY <1>1 DEF GoodRows
  <2>2. ASSUME NEW i \in DOMAIN interviews PROVE GoodRow(interviews'[i])
    <3>1. PICK r, s : r = interviews[i] /\ s = interviews'[i]
      OBVIOUS
    <3>2. GoodRow(r) /\ s.log = r.log /\ s.session = r.session /\ s.status = "archived"
      BY <1>2, <2>1, <3>1
    <3>3. GoodRow(s)
      BY <3>2 DEF GoodRow
    <3> QED
      BY <3>1, <3>3
  <2> QED
    BY <1>2, <2>2
<1>5. OneMessage' /\ Reads'
  BY <1>1 DEF OneMessage, Reads, MessageFits
<1>6. OneSession' /\ GoodRows'
  BY <1>3, <1>4 DEF OneSession, GoodRows
<1>7. InOrder'
  BY <1>2, <1>3 DEF InOrder
<1>8. LearnedInOrder'
  BY <1>1 DEF LearnedInOrder
<1> QED
  BY <1>5, <1>6, <1>7, <1>8 DEF Orderly

\* The records that matter stay.
LEMMA ExpiryKeepsOrder ==
  ASSUME Orderly, interviews' = interviews, interviewMsg' = interviewMsg, learned' = learned
  PROVE  Orderly'
<1>1. InProgress' = InProgress /\ CompletedSessions' = CompletedSessions
      /\ OneSession' /\ InOrder' /\ LearnedInOrder'
  BY RowsStay DEF Orderly
<1>2. OneMessage'
  BY DEF Orderly, OneMessage
<1>3. \A h \in InterviewMessages : MessageFits(interviewMsg[h])
  BY DEF Orderly, Reads
<1>4. \A h \in InterviewMessages : MessageFits(interviewMsg[h])'
  BY <1>1, <1>3 DEF MessageFits
<1>5. Reads'
  BY <1>4 DEF Reads
<1>6. GoodRows'
  BY <1>1 DEF Orderly, GoodRows
<1> QED
  BY <1>1, <1>2, <1>5, <1>6 DEF Orderly

\* Every step of an undisturbed interview keeps it orderly.
LEMMA InterviewKeepsOrder ==
  ASSUME InterviewTypeOK, ~interviewDisturbed => Orderly, [InterviewNext]_interviewVars,
         ~interviewDisturbed'
  PROVE  Orderly'
<1>1. ~interviewDisturbed
  <2>1. ASSUME NEW h \in InterviewMessages, InterviewCommand(h) \/ TextInInterview(h)
        PROVE  ~interviewDisturbed
    BY <2>1 DEF InterviewCommand, TextInInterview
  <2>2. ASSUME NEW h \in InterviewMessages,
               \/ OpenSession(h) \/ RecordAnswer(h) \/ AskNext(h) \/ CompleteSession(h)
               \/ AfterReply(h) \/ InterviewFails(h) \/ \E gives \in BOOLEAN : Synthesise(h, gives)
        PROVE  ~interviewDisturbed
    BY <2>2 DEF OpenSession, RecordAnswer, AskNext, CompleteSession, AfterReply, InterviewFails,
                Synthesise
  <2>3. CASE ResetInterview \/ InterviewExpires \/ UNCHANGED interviewVars
    BY <2>3 DEF ResetInterview, InterviewExpires, interviewVars
  <2> QED
    BY <2>1, <2>2, <2>3 DEF InterviewNext
<1>2. Orderly
  BY <1>1
<1>3. ASSUME NEW h \in InterviewMessages, InterviewFails(h) PROVE FALSE
  BY <1>3 DEF InterviewFails
<1>4. CASE InterviewExpires
  BY <1>2, <1>4, ExpiryKeepsOrder DEF InterviewExpires
<1>5. CASE UNCHANGED interviewVars
  BY <1>2, <1>5, ExpiryKeepsOrder DEF interviewVars
<1> QED
  BY <1>2, <1>3, <1>4, <1>5, ArrivalKeepsOrder, OpeningKeepsOrder, RecordKeepsOrder,
     AskingKeepsOrder, CompletionKeepsOrder, SynthesisKeepsOrder, ReplyKeepsOrder,
     ResetKeepsOrder DEF InterviewNext

\* An interview starts typed and orderly: nothing is in progress.
LEMMA InterviewStarts == InterviewInit => InterviewInv
<1> SUFFICES ASSUME InterviewInit PROVE InterviewInv
  OBVIOUS
<1>1. \A h \in InterviewMessages : interviewMsg[h] = IdleInterview
  BY DEF InterviewInit
<1>2. \A h \in InterviewMessages : interviewMsg[h].at = "idle"
  BY <1>1 DEF IdleInterview
<1>3. interviews = <<>> /\ learned = <<>>
  BY DEF InterviewInit
<1>4. InProgress = {} /\ CompletedSessions = {} /\ DOMAIN interviews = {} /\ DOMAIN learned = {}
  BY <1>3 DEF InProgress, CompletedSessions
<1>5. Orderly
  BY <1>2, <1>4 DEF Orderly, OneMessage, OneSession, GoodRows, InOrder, LearnedInOrder,
                          Reads, MessageFits
<1>6. InterviewTypeOK
  <2>1. 1 \in InterviewSessions
    BY QuestionsFollowUp, LenProperties, EmptySeq DEF InterviewSessions
  <2>2. IdleInterview \in InterviewMessageRecords
    BY <2>1 DEF IdleInterview, Unasked, InterviewMessageRecords, InterviewReads
  <2>3. interviewMsg \in [InterviewMessages -> InterviewMessageRecords]
    BY <2>2 DEF InterviewInit
  <2>4. interviews \in Seq(InterviewRows) /\ learned \in Seq(InterviewSessions)
    BY <1>3, EmptySeq
  <2>5. interviewFaults \in 0..InterviewFaults /\ interviewDisturbed \in BOOLEAN
        /\ interviewing \in BOOLEAN
    <3>1. InterviewFaults \in Nat
      BY InterviewBounds
    <3>2. interviewFaults = 0 /\ interviewing = FALSE /\ interviewDisturbed = FALSE
      BY DEF InterviewInit
    <3>3. 0 \in 0..InterviewFaults
      BY <3>1
    <3> QED
      BY <3>2, <3>3
  <2> QED
    BY <2>3, <2>4, <2>5 DEF InterviewTypeOK, InterviewRows, InterviewMessageRecords, InterviewReads
<1> QED
  BY <1>5, <1>6 DEF InterviewInv

\* What an undisturbed interview keeps: every step of every message and of the owner.
THEOREM InterviewInvariant == InterviewSpec => []InterviewInv
<1>1. InterviewInv /\ [InterviewNext]_interviewVars => InterviewInv'
  BY InterviewKeepsTypes, InterviewKeepsOrder DEF InterviewInv
<1> QED
  BY <1>1, InterviewStarts, PTL DEF InterviewSpec

\* An orderly interview is whole.
LEMMA OrderlyIsWhole == InterviewInv => InterviewsAreWhole
<1> SUFFICES ASSUME InterviewTypeOK, Orderly
    PROVE  /\ Cardinality(InProgress) <= 1
           /\ \A i \in DOMAIN interviews :
                /\ ByScript(interviews[i].session, interviews[i].log)
                /\ interviews[i].status = "completed" =>
                     Whole(interviews[i].session, interviews[i].log)
                /\ interviews[i].session > 1 /\ interviews[i].status # "archived" =>
                     interviews[i].session - 1 \in CompletedSessions
           /\ \A i, j \in DOMAIN learned : i < j => learned[i] < learned[j]
  BY DEF InterviewInv, InterviewsAreWhole
<1>1. Cardinality(InProgress) <= 1
  <2>1. CASE InProgress = {}
    BY <2>1, FS_EmptySet
  <2>2. CASE InProgress # {}
    <3>1. PICK i \in InProgress : InProgress = {i}
      BY <2>2 DEF Orderly, OneSession
    <3>2. Cardinality({i}) = 1
      BY FS_Singleton
    <3> QED
      BY <3>1, <3>2
  <2> QED
    BY <2>1, <2>2
<1>2. ASSUME NEW i \in DOMAIN interviews
      PROVE  /\ ByScript(interviews[i].session, interviews[i].log)
             /\ interviews[i].status = "completed" =>
                  Whole(interviews[i].session, interviews[i].log)
  <2>1. PICK r \in InterviewRows :
          /\ r = interviews[i] /\ r.session \in InterviewSessions
          /\ r.log \in Seq(InterviewEntries) /\ GoodRow(r)
    BY RowData DEF Orderly, GoodRows
  <2>2. r.status = "completed" => Len(r.log) = Top(r.session)
    BY <2>1 DEF GoodRow
  <2> QED
    BY <2>1, <2>2, GoodRowsAreByScript
<1> QED
  BY <1>1, <1>2 DEF Orderly, InOrder, LearnedInOrder

\* While nothing overlaps and nothing fails, every session of the interview follows
\* its script to the end, one after the other, although only answers are counted.
THEOREM InterviewsStayWhole == InterviewSpec => []InterviewsAreWhole
BY InterviewInvariant, OrderlyIsWhole, PTL

-----------------------------------------------------------------------------
(* The parts as one system                                                 *)

\* Each part behaves as it does by itself: the others leave its variables alone.
LEMMA TurnsRunTheirParts ==
  TurnsSpec => /\ Spec /\ ConvSpec /\ ReviewSpec /\ InterviewSpec
               /\ PersonaSpec /\ SpendSpec /\ MemSpec /\ RouteSpec
<1>1. TurnsInit => /\ Init /\ ConvInit /\ ReviewInit /\ InterviewInit
                   /\ PersonaInit /\ SpendInit /\ MemInit /\ RouteInit
  BY DEF TurnsInit
<1>2. [TurnsNext]_turnsVars =>
        /\ [Next]_vars /\ [ConvNext]_convVars /\ [ReviewNext]_reviewVars
        /\ [InterviewNext]_interviewVars /\ [PersonaNext]_personaVars
        /\ [SpendNext]_spendVars /\ [MemNext]_memVars /\ [RouteNext]_routeVars
  <2> SUFFICES ASSUME [TurnsNext]_turnsVars
               PROVE  /\ [Next]_vars /\ [ConvNext]_convVars /\ [ReviewNext]_reviewVars
                      /\ [InterviewNext]_interviewVars /\ [PersonaNext]_personaVars
                      /\ [SpendNext]_spendVars /\ [MemNext]_memVars /\ [RouteNext]_routeVars
    OBVIOUS
  <2>1. CASE UNCHANGED turnsVars
    BY <2>1 DEF turnsVars
  <2>2. CASE Only("jobs") /\ Next
    BY <2>2 DEF Only
  <2>3. CASE Only("session") /\ ConvNext
    BY <2>3 DEF Only
  <2>4. CASE Only("review") /\ ReviewNext
    BY <2>4 DEF Only
  <2>5. CASE Only("interview") /\ InterviewNext
    BY <2>5 DEF Only
  <2>6. CASE Only("persona") /\ PersonaNext
    BY <2>6 DEF Only
  <2>7. CASE Only("spending") /\ SpendNext
    BY <2>7 DEF Only
  <2>8. CASE Only("memory") /\ MemNext
    BY <2>8 DEF Only
  <2>9. CASE Only("routes") /\ RouteNext
    BY <2>9 DEF Only
  <2> QED
    BY <2>1, <2>2, <2>3, <2>4, <2>5, <2>6, <2>7, <2>8, <2>9 DEF TurnsNext
<1> QED
  BY <1>1, <1>2, PTL DEF TurnsSpec, Spec, ConvSpec, ReviewSpec, InterviewSpec, PersonaSpec,
                         SpendSpec, MemSpec, RouteSpec

\* Every part's state keeps its type.
THEOREM TurnsAreTyped == TurnsSpec => []TurnsTypeOK
<1>1. /\ ReviewInv => ReviewTypeOK
      /\ RouteInv => RouteTypeOK
      /\ PersonaInv => PersonaTypeOK
      /\ SpendInv => SpendTypeOK
      /\ MemInv => MemTypeOK
      /\ InterviewInv => InterviewTypeOK
  BY DEF ReviewInv, RouteInv, PersonaInv, SpendInv, MemInv, InterviewInv
<1>2. TypeOK /\ ConvTypeOK /\ ReviewTypeOK /\ InterviewTypeOK /\ PersonaTypeOK /\ SpendTypeOK
        /\ MemTypeOK /\ RouteTypeOK => TurnsTypeOK
  BY DEF TurnsTypeOK
<1> QED
  BY <1>1, <1>2, TurnsRunTheirParts, TypeCorrect, SessionsAreTyped, ReviewInvariant,
     RouteInvariant, PersonaInvariant, SpendInvariant, MemoryInvariant, InterviewInvariant, PTL

\* In every state of the whole, a running job is scheduled, no turn is lost without a
\* known cause, a turn scored low is reviewed, an undisturbed interview is whole, one
\* persona is active and keeps its changes, overspending is bounded, a fact that was told
\* is kept, an answer is on record and an image stays with its turn; and no step of the
\* whole overwrites a skill that was edited.
THEOREM TurnsAreSafe ==
  TurnsSpec => [](/\ RunningIsScheduled /\ ConvAccounted /\ LowTurnsAreReviewed
                  /\ InterviewsAreWhole /\ OnePersonaWithItsChanges /\ OverspendIsBounded
                  /\ FactsAreKept /\ AnswersAreOnRecord /\ ImagesGoWithTheirTurn)
               /\ EditsSurvive
BY TurnsRunTheirParts, RunningJobsAreScheduled, NoTurnIsLost, LowTurnsFindReviews,
   EditedSkillsSurvive, InterviewsStayWhole, OnePersonaKeepsItsChanges, OverspendStaysBounded,
   ToldFactsAreKept, AnswersStayOnRecord, ImagesStayWithTheirTurn, PTL
==============================================================================
