------------------------- MODULE ConversationSession -------------------------
(***************************************************************************)
(* The conversation session of one user: src/src/memory/conversation.py.   *)
(*                                                                         *)
(* A Redis list holds the last turns.  add_turn is called by the user's    *)
(* own turn and by background turns of the same user, and every Redis call *)
(* of it is an await; the summary of what it drops is a task nobody waits  *)
(* for.  archive_session is a tool of the memory agent.                    *)
(***************************************************************************)
EXTENDS Naturals, Sequences, FiniteSets, SequencesExt

CONSTANTS
  ConvWriters,   \* coroutines that call add_turn for the user
  MaxTurns,      \* MAX_TURNS (20)
  TurnLimit,     \* bound: turns ever added
  ConvFaults     \* bound: ends of the process, expiries, failed model or Redis calls

ASSUME MaxTurnsIsPositive == MaxTurns \in Nat \ {0}
ASSUME TurnLimitIsNatural == TurnLimit \in Nat
ASSUME ConvFaultsIsNatural == ConvFaults \in Nat

VARIABLES
  conv,        \* the list conv:{user}, turns numbered as they were pushed
  pushed,      \* turns pushed so far
  adding,      \* the add_turn calls under way
  overlapped,  \* history: calls under way beside which another one changed the list
  compacting,  \* fragments a compaction task works on
  remembered,  \* turns a summary in long-term memory covers
  deadLetters, \* turns in compaction_dlq:{user}
  archiving,   \* the archive_session call under way
  convFaults,
  excused      \* history: turns given up by a known cause, noted when it acts

convVars == <<conv, pushed, adding, overlapped, compacting, remembered, deadLetters,
              archiving, convFaults, excused>>

Turns == 1..TurnLimit
NotAdding == [at |-> "idle", overflow |-> 0, old |-> {}]
NotArchiving == [at |-> "idle", read |-> {}]

AddStates == [at : {"idle", "pushed", "over", "read"}, overflow : 0..TurnLimit, old : SUBSET Turns]
ArchiveStates == [at : {"idle", "summarising", "clearing"}, read : SUBSET Turns]

ConvTypeOK ==
  /\ conv \in Seq(Turns)
  /\ pushed \in 0..TurnLimit
  /\ adding \in [ConvWriters -> AddStates]
  /\ overlapped \subseteq ConvWriters
  /\ compacting \subseteq SUBSET Turns
  /\ remembered \subseteq Turns /\ deadLetters \subseteq Turns
  /\ archiving \in ArchiveStates
  /\ convFaults \in 0..ConvFaults
  /\ excused \subseteq Turns

ConvInit ==
  /\ conv = <<>> /\ pushed = 0
  /\ adding = [w \in ConvWriters |-> NotAdding] /\ overlapped = {}
  /\ compacting = {} /\ remembered = {} /\ deadLetters = {}
  /\ archiving = NotArchiving
  /\ convFaults = 0 /\ excused = {}

\* The first n turns of the list, or all there are.
Oldest(n) == Range(SubSeq(conv, 1, IF n < Len(conv) THEN n ELSE Len(conv)))

\* The calls under way.
Adders == {w \in ConvWriters : adding[w].at # "idle"}

ConvFault == convFaults < ConvFaults /\ convFaults' = convFaults + 1

\* rpush, with the metadata and the new expiry.
PushTurn(w) ==
  /\ adding[w].at = "idle" /\ pushed < TurnLimit
  /\ pushed' = pushed + 1
  /\ conv' = Append(conv, pushed')
  /\ adding' = [adding EXCEPT ![w] = [NotAdding EXCEPT !.at = "pushed"]]
  /\ overlapped' = IF Adders = {} THEN {} ELSE Adders \union {w}
  /\ UNCHANGED <<compacting, remembered, deadLetters, archiving, convFaults, excused>>

\* llen: how much is beyond the limit.
MeasureSession(w) ==
  /\ adding[w].at = "pushed"
  /\ adding' = [adding EXCEPT ![w] =
       IF Len(conv) > MaxTurns
       THEN [@ EXCEPT !.at = "over", !.overflow = Len(conv) - MaxTurns]
       ELSE NotAdding]
  /\ overlapped' = IF Len(conv) > MaxTurns THEN overlapped ELSE overlapped \ {w}
  /\ UNCHANGED <<conv, pushed, compacting, remembered, deadLetters, archiving,
                 convFaults, excused>>

\* lrange(0, overflow - 1), and the task that summarises what it gave.
ReadOldTurns(w) ==
  /\ adding[w].at = "over"
  /\ LET old == Oldest(adding[w].overflow)
     IN  /\ adding' = [adding EXCEPT ![w] = [@ EXCEPT !.at = "read", !.old = old]]
         /\ compacting' = compacting \union {old}
  /\ UNCHANGED <<conv, pushed, overlapped, remembered, deadLetters, archiving, convFaults,
                 excused>>

\* A trim that takes one turn more than was read.
TrimOneMore(w) ==
  /\ adding[w].at = "read"
  /\ conv' = SubSeq(conv, adding[w].overflow + 2, Len(conv))
  /\ adding' = [adding EXCEPT ![w] = NotAdding]
  /\ overlapped' = Adders \ {w}
  /\ UNCHANGED <<pushed, compacting, remembered, deadLetters, archiving, convFaults, excused>>

\* ltrim(overflow, -1), whatever the list holds by now.
TrimSession(w) ==
  /\ adding[w].at = "read"
  /\ LET n    == adding[w].overflow
         gone == Oldest(n)
     IN  /\ conv' = SubSeq(conv, n + 1, Len(conv))
         /\ excused' = IF w \in overlapped
                       THEN excused \union (gone \ adding[w].old) ELSE excused
  /\ adding' = [adding EXCEPT ![w] = NotAdding]
  /\ overlapped' = Adders \ {w}
  /\ UNCHANGED <<pushed, compacting, remembered, deadLetters, archiving, convFaults>>

\* _compact_turns_to_memory: a single turn is not worth a summary.
CompactionSkips(old) ==
  /\ Cardinality(old) < 2
  /\ compacting' = compacting \ {old}
  /\ excused' = excused \union old
  /\ UNCHANGED <<conv, pushed, adding, overlapped, remembered, deadLetters, archiving, convFaults>>

CompactionSaves(old) ==
  /\ Cardinality(old) >= 2
  /\ compacting' = compacting \ {old}
  /\ remembered' = remembered \union old
  /\ UNCHANGED <<conv, pushed, adding, overlapped, deadLetters, archiving, convFaults, excused>>

\* All attempts failed: the turns become a dead letter, or are lost with a
\* log entry when Redis fails as well.
CompactionFails(old) ==
  /\ Cardinality(old) >= 2
  /\ ConvFault
  /\ compacting' = compacting \ {old}
  /\ \/ deadLetters' = deadLetters \union old /\ UNCHANGED excused
     \/ excused' = excused \union old /\ UNCHANGED deadLetters
  /\ UNCHANGED <<conv, pushed, adding, overlapped, remembered, archiving>>

\* archive_session reads the list and asks a model for a summary.
BeginArchive ==
  /\ archiving.at = "idle" /\ Len(conv) >= 2
  /\ archiving' = [at |-> "summarising", read |-> Range(conv)]
  /\ UNCHANGED <<conv, pushed, adding, overlapped, compacting, remembered, deadLetters,
                 convFaults, excused>>

ArchiveStored ==
  /\ archiving.at = "summarising"
  /\ remembered' = remembered \union archiving.read
  /\ archiving' = [archiving EXCEPT !.at = "clearing"]
  /\ UNCHANGED <<conv, pushed, adding, overlapped, compacting, deadLetters, convFaults, excused>>

\* clear_session deletes the list, with the turns added since the read.
ArchiveClears ==
  /\ archiving.at = "clearing"
  /\ conv' = <<>>
  /\ excused' = excused \union (Range(conv) \ archiving.read)
  /\ overlapped' = Adders
  /\ archiving' = NotArchiving
  /\ UNCHANGED <<pushed, adding, compacting, remembered, deadLetters, convFaults>>

ArchiveFails ==
  /\ archiving.at # "idle" /\ ConvFault
  /\ archiving' = NotArchiving
  /\ UNCHANGED <<conv, pushed, adding, overlapped, compacting, remembered, deadLetters, excused>>

\* Thirty minutes without a turn: Redis drops the list, and nothing archives it.
SessionExpires ==
  /\ \A w \in ConvWriters : adding[w].at = "idle"
  /\ conv # <<>> /\ ConvFault
  /\ conv' = <<>>
  /\ excused' = excused \union Range(conv)
  /\ UNCHANGED <<pushed, adding, overlapped, compacting, remembered, deadLetters, archiving>>

\* The bot ends: tasks are lost, the list stays.
ConvCrash ==
  /\ ConvFault
  /\ adding' = [w \in ConvWriters |-> NotAdding] /\ overlapped' = {}
  /\ archiving' = NotArchiving
  /\ compacting' = {}
  /\ excused' = excused \union (UNION compacting)
  /\ UNCHANGED <<conv, pushed, remembered, deadLetters>>

ConvNext ==
  \/ \E w \in ConvWriters :
       PushTurn(w) \/ MeasureSession(w) \/ ReadOldTurns(w) \/ TrimSession(w)
  \/ \E old \in compacting :
       CompactionSkips(old) \/ CompactionSaves(old) \/ CompactionFails(old)
  \/ BeginArchive \/ ArchiveStored \/ ArchiveClears \/ ArchiveFails
  \/ SessionExpires \/ ConvCrash

ConvSpec == ConvInit /\ [][ConvNext]_convVars

(***************************************************************************)
(* Properties.                                                             *)
(***************************************************************************)

\* A turn that has left the session is in a summary, on its way to one or in a
\* dead letter, unless one of the known causes took it: it was dropped alone,
\* two calls of add_turn overlapped, it came while the session was archived,
\* the session expired, or the process or Redis failed.
Accounted(t) ==
  \/ t \in Range(conv) \union remembered \union deadLetters \union UNION compacting
  \/ t \in excused

ConvAccounted == \A t \in 1..pushed : Accounted(t)
=============================================================================
