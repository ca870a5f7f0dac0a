----------------------------- MODULE MemoryStore -----------------------------
(***************************************************************************)
(* What the assistant remembers of one user: the rows of the vector store  *)
(* (memory/mem0_client.py) and the three writers of it: the memory tools   *)
(* of a turn (agents/memory_agent.py), the eviction pass that runs nightly *)
(* and from scripts/prune_memories.py (memory/eviction_runner.py), and the *)
(* weekly curator (agents/curator_agent.py).                               *)
(*                                                                         *)
(* The script is a process of its own, so a turn may fall between any two  *)
(* of a pass's calls.  A text is the set of facts it tells.                *)
(***************************************************************************)
EXTENDS Naturals, FiniteSets, FiniteSetsExt

CONSTANTS
  Facts,       \* what a user can tell
  RowLimit,    \* bound: rows ever inserted
  PageSize,    \* top_k of get_all_memories (1000)
  Budgets,     \* the [cap, target] pairs a pass may be started with
  Batches,     \* SUMMARY_BATCH_COUNT (8)
  SummaryMax,  \* rows of a chunk the summarizer is shown (50)
  MemFaults    \* bound: failed writes, failed model calls, ends of a process

ASSUME MemBounds == {RowLimit, MemFaults} \subseteq Nat
ASSUME BatchesIsPositive == Batches \in Nat \ {0}
ASSUME PageSizeIsNatural == PageSize \in Nat
ASSUME SummaryMaxIsNatural == SummaryMax \in Nat

VARIABLES
  memRows,   \* id -> the stored row
  nextRow,   \* ids are given in the order of created_at
  pass,      \* the eviction pass under way
  curating,  \* the curator's run under way
  told,      \* history: facts stored and not forgotten since
  letGo,     \* history: facts given up by a known cause
  leftOut,   \* history: facts of rows a summarizer was not shown
  memFaults

memVars == <<memRows, nextRow, pass, curating, told, letGo, leftOut, memFaults>>

RowIds == 1..RowLimit

\* Rows to be summarised together: the texts the summarizer is shown, and the rest.
Chunks == [rows : SUBSET RowIds, shown : SUBSET Facts, rest : SUBSET Facts]
NoPass == [at |-> "none", evict |-> {}, chunks |-> {}, text |-> {}, written |-> {}]
NoCuration == [at |-> "none", prune |-> {}]

MemTypeOK ==
  /\ nextRow \in 1..RowLimit + 1
  /\ DOMAIN memRows \subseteq 1..nextRow - 1
  /\ \A r \in DOMAIN memRows : memRows[r] \in [facts : SUBSET Facts, summary : BOOLEAN]
  /\ pass \in [at : {"none", "summarising", "writing", "deleting"},
               evict : SUBSET RowIds, chunks : SUBSET Chunks,
               text : SUBSET Facts, written : SUBSET RowIds]
  /\ curating \in [at : {"none", "thinking"}, prune : SUBSET RowIds]
  /\ told \subseteq Facts /\ letGo \subseteq Facts /\ leftOut \subseteq Facts
  /\ memFaults \in 0..MemFaults

MemInit ==
  /\ memRows = [r \in {} |-> {}] /\ nextRow = 1
  /\ pass = NoPass /\ curating = NoCuration
  /\ told = {} /\ letGo = {} /\ leftOut = {} /\ memFaults = 0

FactsOf(ids) == UNION {memRows[r].facts : r \in ids}
Covered == FactsOf(DOMAIN memRows)
MemFault == memFaults < MemFaults /\ memFaults' = memFaults + 1

(***************************************************************************)
(* add_memory: the text is inserted, or it replaces the text of a row the  *)
(* search calls a near duplicate, whoever else has plans for that row.     *)
(* Metadata is merged, so a row once a summary stays one.                  *)
(***************************************************************************)
Insert(text, isSummary) ==
  /\ nextRow <= RowLimit
  /\ memRows' = [r \in DOMAIN memRows \union {nextRow} |->
                IF r = nextRow THEN [facts |-> text, summary |-> isSummary] ELSE memRows[r]]
  /\ nextRow' = nextRow + 1

Merge(r, text, isSummary) ==
  /\ memRows' = [memRows EXCEPT ![r] = [facts |-> text, summary |-> @.summary \/ isSummary]]
  /\ UNCHANGED nextRow

\* Rows that say much the same; one that says more loses the rest.
NearDuplicates(text) ==
  {r \in DOMAIN memRows : memRows[r].facts = text \/ memRows[r].facts \intersect text # {}}

\* The pass under way chose its rows before this one was written.
PassMissed(r) ==
  pass' = [pass EXCEPT !.written = IF r \in pass.evict THEN @ \union {r} ELSE @]

DeleteRows(ids) ==
  memRows' = [r \in DOMAIN memRows \ ids |-> memRows[r]]

AddMemory(f) ==
  \/ Insert({f}, FALSE) /\ letGo' = letGo \ {f} /\ UNCHANGED pass
  \/ \E r \in NearDuplicates({f}) :
       /\ Merge(r, {f}, FALSE) /\ PassMissed(r)
       /\ letGo' = (letGo \union memRows[r].facts) \ {f}

\* store_my_memory, and every other turn that calls add_memory.
StoreMemory(f) ==
  /\ AddMemory(f)
  /\ told' = told \union {f}
  /\ leftOut' = leftOut \ {f}
  /\ UNCHANGED <<curating, memFaults>>

\* forget_my_memory takes the id of one row; /forget deletes what its search found, one
\* by one, and a row it fails to delete stays.
ForgetMemory(r) ==
  /\ DeleteRows({r})
  /\ told' = told \ memRows[r].facts
  /\ UNCHANGED <<nextRow, pass, curating, letGo, leftOut, memFaults>>

ForgetAll ==
  /\ DOMAIN memRows # {}
  /\ DeleteRows(DOMAIN memRows)
  /\ told' = {}
  /\ UNCHANGED <<nextRow, pass, curating, letGo, leftOut, memFaults>>

(***************************************************************************)
(* prune_user_memories.                                                    *)
(***************************************************************************)

\* select_for_eviction on what one page of get_all_memories shows.  The score
\* decides which rows go; here any rows that are no summaries may have it lowest.
Chosen(page, budget) ==
  LET loose  == {r \in page : ~memRows[r].summary}
      needed == Cardinality(page) - budget.target
  IN  IF Cardinality(page) <= budget.cap \/ loose = {} THEN {}
      ELSE kSubset(IF needed < Cardinality(loose) THEN needed ELSE Cardinality(loose), loose)

\* chunk_for_summary: at most Batches chunks of rows in the order of creation, each
\* with the texts read at the start of the pass.
ChunksOf(ids) ==
  LET n    == Cardinality(ids)
      size == IF n <= Batches THEN n ELSE (n + Batches - 1) \div Batches
      rank == [r \in ids |-> Cardinality({q \in ids : q < r})]
      AsShown(k) == {r \in ids : rank[r] \div size = k /\ rank[r] % size < SummaryMax}
      Rows(k) == {r \in ids : rank[r] \div size = k}
  IN  {[rows |-> Rows(k), shown |-> FactsOf(AsShown(k)),
        rest |-> FactsOf(Rows(k)) \ FactsOf(AsShown(k))] : k \in {rank[r] \div size : r \in ids}}

StartPass ==
  /\ pass.at = "none"
  /\ \E page \in SUBSET DOMAIN memRows, budget \in Budgets :
       /\ Cardinality(page) = (IF Cardinality(DOMAIN memRows) < PageSize
                               THEN Cardinality(DOMAIN memRows) ELSE PageSize)
       /\ \E evict \in Chosen(page, budget) :
            pass' = [NoPass EXCEPT !.at = "summarising", !.evict = evict,
                                   !.chunks = ChunksOf(evict)]
  /\ UNCHANGED <<memRows, nextRow, curating, told, letGo, leftOut, memFaults>>

\* _summarize_chunk: the summary is of the first texts of the chunk.  Without a
\* model a stub is written that tells nothing; the originals go all the same.
Summarise(chunk) ==
  /\ pass.at = "summarising"
  /\ \/ /\ pass' = [pass EXCEPT !.at = "writing", !.chunks = @ \ {chunk}, !.text = chunk.shown]
        /\ leftOut' = leftOut \union chunk.rest
        /\ UNCHANGED <<letGo, memFaults>>
     \/ /\ MemFault
        /\ pass' = [pass EXCEPT !.at = "writing", !.chunks = @ \ {chunk}, !.text = {}]
        /\ letGo' = letGo \union chunk.shown \union chunk.rest
        /\ UNCHANGED leftOut
  /\ UNCHANGED <<memRows, nextRow, curating, told>>

AfterSummary == IF pass.chunks = {} THEN "deleting" ELSE "summarising"

WriteSummary ==
  /\ pass.at = "writing"
  /\ \/ /\ Insert(pass.text, TRUE)
        /\ pass' = [pass EXCEPT !.at = AfterSummary, !.text = {}]
        /\ UNCHANGED letGo
     \/ \E r \in NearDuplicates(pass.text) :
          /\ Merge(r, pass.text, TRUE)
          /\ letGo' = letGo \union (memRows[r].facts \ pass.text)
          /\ pass' = [pass EXCEPT !.at = AfterSummary, !.text = {},
                 !.written = IF r \in pass.evict THEN @ \union {r} ELSE @]
  /\ UNCHANGED <<curating, told, leftOut, memFaults>>

\* A pass that goes on after a failed write.
WriteFailsGoOn ==
  /\ pass.at = "writing" /\ MemFault
  /\ pass' = [pass EXCEPT !.at = AfterSummary, !.text = {}]
  /\ UNCHANGED <<memRows, nextRow, curating, told, letGo, leftOut>>

\* "ABORTING before deletion": the summaries already written stay.
WriteFails ==
  /\ pass.at = "writing" /\ MemFault
  /\ pass' = NoPass
  /\ UNCHANGED <<memRows, nextRow, curating, told, letGo, leftOut>>

\* One delete_memory; one that fails is logged and passed over.
DeleteOriginal(r) ==
  /\ pass.at = "deleting" /\ r \in pass.evict
  /\ pass' = [pass EXCEPT !.evict = @ \ {r}]
  /\ \/ /\ r \in DOMAIN memRows
        /\ DeleteRows({r})
        /\ letGo' = IF r \in pass.written THEN letGo \union memRows[r].facts ELSE letGo
        /\ UNCHANGED memFaults
     \/ r \notin DOMAIN memRows /\ UNCHANGED <<memRows, letGo, memFaults>>
     \/ r \in DOMAIN memRows /\ MemFault /\ UNCHANGED <<memRows, letGo>>
  /\ UNCHANGED <<nextRow, curating, told, leftOut>>

PassEnds ==
  /\ pass.at = "deleting" /\ pass.evict = {}
  /\ pass' = NoPass
  /\ UNCHANGED <<memRows, nextRow, curating, told, letGo, leftOut, memFaults>>

\* nightly_memory_eviction logs what prune_user_memories raises for a user and goes on
\* with the next one.
PassDies ==
  /\ pass.at # "none" /\ MemFault
  /\ pass' = NoPass
  /\ UNCHANGED <<memRows, nextRow, curating, told, letGo, leftOut>>

(***************************************************************************)
(* run_weekly_curation: what the model asks to prune is deleted by id.     *)
(***************************************************************************)
\* The rows it will name are rows it was shown, before its model was asked.
StartCuration ==
  /\ curating.at = "none"
  /\ \E prune \in SUBSET DOMAIN memRows :
       curating' = [at |-> "thinking", prune |-> prune]
  /\ UNCHANGED <<memRows, nextRow, pass, told, letGo, leftOut, memFaults>>

\* The facts of the row as the curator saw it are given up on purpose.
CuratorPrunes(r) ==
  /\ curating.at = "thinking" /\ r \in curating.prune
  /\ curating' = [curating EXCEPT !.prune = @ \ {r}]
  /\ IF r \in DOMAIN memRows
     THEN DeleteRows({r}) /\ letGo' = letGo \union memRows[r].facts
     ELSE UNCHANGED <<memRows, letGo>>
  /\ UNCHANGED <<nextRow, pass, told, leftOut, memFaults>>

\* A new procedural memory, if the model proposed one, and the end of the run.
CurationEnds ==
  /\ curating.at = "thinking" /\ curating.prune = {}
  /\ curating' = NoCuration
  /\ \/ \E f \in Facts : AddMemory(f)
     \/ UNCHANGED <<memRows, nextRow, pass, letGo>>
  /\ UNCHANGED <<told, leftOut, memFaults>>

CurationFails ==
  /\ curating.at # "none" /\ MemFault
  /\ curating' = NoCuration
  /\ UNCHANGED <<memRows, nextRow, pass, told, letGo, leftOut>>

\* What the tools of the memory agent change.
MemoryTools ==
  \/ \E f \in Facts : StoreMemory(f)
  \/ \E r \in DOMAIN memRows : ForgetMemory(r)
  \/ ForgetAll

MemNext ==
  \/ MemoryTools
  \/ StartPass \/ WriteSummary \/ WriteFails \/ PassEnds \/ PassDies
  \/ \E chunk \in pass.chunks : Summarise(chunk)
  \/ \E r \in pass.evict : DeleteOriginal(r)
  \/ StartCuration \/ CurationEnds \/ CurationFails
  \/ \E r \in curating.prune : CuratorPrunes(r)

MemSpec == MemInit /\ [][MemNext]_memVars

(***************************************************************************)
(* Properties.                                                             *)
(***************************************************************************)

\* eviction_runner.py: the two phases are "ordered to never lose data on
\* partial failure".  A fact the user told and did not ask to forget is in some
\* row, whatever passes failed half way and whatever was written meanwhile,
\* unless a known cause took it: a stub instead of a summary, the curator's
\* judgement, a near duplicate that said less, the deletion of a row written
\* after it was chosen, or a summary of a chunk too long for the summarizer.
FactsAreKept == told \subseteq Covered \union letGo \union leftOut

\* eviction.py:5, "consolidated into a small number of summary memories
\* (preserving forensic value) and then deleted": the same, for chunks of any length.
EvictedAreConsolidated == told \subseteq Covered \union letGo
=============================================================================
