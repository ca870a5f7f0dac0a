----------------------------- MODULE TurnReview -----------------------------
(***************************************************************************)
(* What happens after a turn: the reflector scores it, counts the          *)
(* workflows it learned and promotes frequent ones to skill files, and     *)
(* every so many turns the meta-reflector reviews the low scores.          *)
(* src/src/agents/reflector_agent.py, agents/meta_reflector_agent.py,      *)
(* skills/skill_writer.py, _run_reflector_background of orchestrator.py,   *)
(* the queues of memory/conversation.py and add_memory of mem0_client.py.  *)
(*                                                                         *)
(* A review is a task nobody waits for, so the reviews of a user overlap.  *)
(* Scores are "low" (below 0.4) or "fair".                                 *)
(***************************************************************************)
EXTENDS Naturals, Sequences, FiniteSets, SequencesExt

CONSTANTS
  Reviews,           \* coroutines of _run_reflector_background
  ReviewInterval,    \* meta_reflector_interval (15)
  RefinementMax,     \* _SKILL_REFINEMENT_QUEUE_MAX (25)
  CrystallizeAt,     \* CRYSTALLIZE_THRESHOLD (3)
  Workflows,         \* texts a reflector can learn
  SlugOf,            \* the slug of each, cut at fifty letters
  ReviewLimit        \* bound: turns reviewed

ASSUME IntervalIsPositive == ReviewInterval \in Nat \ {0}
ASSUME RefinementMaxIsPositive == RefinementMax \in Nat \ {0}
\* The first sighting promotes nothing.
ASSUME CrystallizeAtIsMoreThanOnce == CrystallizeAt \in Nat \ {0, 1}
ASSUME SlugsAreFunctional == SlugOf \in [Workflows -> {SlugOf[w] : w \in Workflows}]
ASSUME ReviewLimitIsNatural == ReviewLimit \in Nat

VARIABLES
  reviewCount,   \* meta_reflector_count: every turn that was counted
  lowQueue,      \* skill_refinement_queue, the turns that scored low
  review,        \* the reviews under way, with what they still need
  proposals,     \* meta_reflector_pending: whether proposals wait for the owner
  workflow,      \* the newest memory of each workflow: how often seen, marked as promoted
  skillFile,     \* SKILL.md of each slug: the workflow it tells, edited by the user
  scored,        \* turns scored so far
  queued,        \* history: low turns that were put into the queue
  read,          \* history: low turns some review was given
  forfeited,     \* history: low turns given up by a known cause
  unmarked       \* history: slugs whose mark a later sighting may not find: it could not be
                 \* written, its memory was deleted, or the workflow got a second memory

reviewVars == <<reviewCount, lowQueue, review, proposals, workflow, skillFile,
                scored, queued, read, forfeited, unmarked>>

Slugs == {SlugOf[w] : w \in Workflows}
Unseen == [seen |-> 0, promoted |-> FALSE]
NoSkill == [of |-> {}, edited |-> FALSE]
ReviewIdle == [at |-> "idle", turn |-> 0, score |-> "fair", drained |-> <<>>]

ReviewTypeOK ==
  /\ reviewCount \in Nat /\ scored \in 0..ReviewLimit
  /\ lowQueue \in Seq(1..ReviewLimit) /\ Len(lowQueue) <= RefinementMax
  /\ review \in [Reviews -> [at : {"idle", "scored", "counting", "gathering", "clearing", "proposing"},
                             turn : 0..ReviewLimit, score : {"low", "fair"},
                             drained : Seq(1..ReviewLimit)]]
  /\ proposals \in BOOLEAN
  /\ workflow \in [Workflows -> [seen : Nat, promoted : BOOLEAN]]
  /\ skillFile \in [Slugs -> [of : SUBSET Workflows, edited : BOOLEAN]]
  /\ queued \subseteq 1..ReviewLimit /\ read \subseteq 1..ReviewLimit
  /\ forfeited \subseteq 1..ReviewLimit
  /\ unmarked \subseteq Slugs

ReviewInit ==
  /\ reviewCount = 0 /\ lowQueue = <<>>
  /\ review = [r \in Reviews |-> ReviewIdle]
  /\ proposals = FALSE
  /\ workflow = [w \in Workflows |-> Unseen]
  /\ skillFile = [s \in Slugs |-> NoSkill]
  /\ scored = 0 /\ queued = {} /\ read = {} /\ forfeited = {} /\ unmarked = {}

\* The model's verdict after _normalize_reflection, which sets the score of a
\* promised and undelivered file to 0.4, up as well as down.  A failed call and
\* a reply that is no JSON give 0.5.
Verdict(said, promised) == IF promised THEN "fair" ELSE said

\* add_memory finds the memory of an earlier turn and counts it.
SeenNow(w) == workflow[w].seen + 1

\* A promotion that does not look at the mark.
PromotesAgain(w) == SeenNow(w) >= CrystallizeAt

\* A workflow seen often enough is promoted, once it is marked no more.
Promotes(w) == SeenNow(w) >= CrystallizeAt /\ ~workflow[w].promoted

\* maybe_crystallize_workflow writes the file of the slug, whatever it holds; the
\* mark in the memory is a second write that may fail.
Learn(w, marked) ==
  /\ workflow' = [workflow EXCEPT ![w] =
       [seen |-> SeenNow(w), promoted |-> @.promoted \/ (Promotes(w) /\ marked)]]
  /\ skillFile' = IF Promotes(w)
                  THEN [skillFile EXCEPT ![SlugOf[w]] = [of |-> {w}, edited |-> FALSE]]
                  ELSE skillFile
  /\ unmarked' = IF Promotes(w) /\ ~marked THEN unmarked \union {SlugOf[w]} ELSE unmarked

\* The search for an earlier memory failed: what was learned is stored beside it,
\* counted from one and without its mark.
LearnApart(w) ==
  /\ workflow[w].seen > 0
  /\ workflow' = [workflow EXCEPT ![w] = [seen |-> 1, promoted |-> FALSE]]
  /\ unmarked' = unmarked \union {SlugOf[w]}
  /\ UNCHANGED skillFile

\* reflect_on_interaction: one model call, then the memory writes without an
\* await between them.  A poisoned workflow is not learned.
Reflect(r) ==
  /\ review[r].at = "idle" /\ scored < ReviewLimit
  /\ scored' = scored + 1
  /\ \E said \in {"low", "fair"}, promised \in BOOLEAN :
       review' = [review EXCEPT ![r] = [ReviewIdle EXCEPT !.at = "scored", !.turn = scored',
                                                         !.score = Verdict(said, promised)]]
  /\ \/ \E w \in Workflows, marked \in BOOLEAN : Learn(w, marked)
     \/ \E w \in Workflows : LearnApart(w)
     \/ UNCHANGED <<workflow, skillFile, unmarked>>
  /\ UNCHANGED <<reviewCount, lowQueue, proposals, queued, read, forfeited>>

\* A trim that keeps one entry too many.
OverfullLate(low) == Len(low) > RefinementMax + 1

\* record_skill_refinement_request: push, and trim to the newest entries.
Overfull(low) == Len(low) > RefinementMax

QueueLowTurn(r) ==
  /\ review[r].at = "scored"
  /\ LET longer == Append(lowQueue, review[r].turn)
         over   == Overfull(longer)
     IN  IF review[r].score = "low"
         THEN /\ lowQueue' = IF over THEN Tail(longer) ELSE longer
              /\ queued' = queued \union {review[r].turn}
              /\ forfeited' = IF over THEN forfeited \union {Head(longer)} ELSE forfeited
         ELSE UNCHANGED <<lowQueue, queued, forfeited>>
  /\ review' = [review EXCEPT ![r] = [ReviewIdle EXCEPT !.at = "counting"]]
  /\ UNCHANGED <<reviewCount, proposals, workflow, skillFile, scored, read, unmarked>>

\* maybe_run_meta_reflector: the counter decides which turn reviews.
CountReview(r) ==
  /\ review[r].at = "counting"
  /\ reviewCount' = reviewCount + 1
  /\ review' = [review EXCEPT ![r] =
       IF reviewCount' % ReviewInterval = 0 THEN [@ EXCEPT !.at = "gathering"] ELSE ReviewIdle]
  /\ UNCHANGED <<lowQueue, proposals, workflow, skillFile, scored, queued, read, forfeited, unmarked>>

\* drain_skill_refinement_queue reads the whole list and deletes it in a second
\* call; the turns it read go into the prompt.
ReadLowQueue(r) ==
  /\ review[r].at = "gathering"
  /\ review' = [review EXCEPT ![r].at = "clearing", ![r].drained = lowQueue]
  /\ UNCHANGED <<reviewCount, lowQueue, proposals, workflow, skillFile, scored, queued, read,
                 forfeited, unmarked>>

\* A drain that deletes what its read could not give.
DropLowQueue(r) ==
  /\ review[r].at = "clearing"
  /\ lowQueue' = <<>>
  /\ review' = [review EXCEPT ![r] = [ReviewIdle EXCEPT !.at = "proposing"]]
  /\ UNCHANGED <<reviewCount, proposals, workflow, skillFile, scored, queued, read, forfeited,
                 unmarked>>

ClearLowQueue(r) ==
  /\ review[r].at = "clearing"
  /\ lowQueue' = <<>>
  /\ read' = read \union Range(review[r].drained)
  /\ forfeited' = forfeited \union (Range(lowQueue) \ Range(review[r].drained))
  /\ review' = [review EXCEPT ![r] = [ReviewIdle EXCEPT !.at = "proposing"]]
  /\ UNCHANGED <<reviewCount, proposals, workflow, skillFile, scored, queued, unmarked>>

\* run_meta_reflection: proposals replace those the owner has not looked at,
\* unless there are none or the call fails.
Propose(r) ==
  /\ review[r].at = "proposing"
  /\ proposals' \in {proposals, TRUE}
  /\ review' = [review EXCEPT ![r] = ReviewIdle]
  /\ UNCHANGED <<reviewCount, lowQueue, workflow, skillFile, scored, queued, read, forfeited, unmarked>>

\* The bot ends, or Redis fails and the background task with it.
ReviewDies(r) ==
  /\ review[r].at # "idle"
  /\ review' = [review EXCEPT ![r] = ReviewIdle]
  /\ UNCHANGED <<reviewCount, lowQueue, proposals, workflow, skillFile, scored,
                 queued, read, forfeited, unmarked>>

\* Eviction, the curator, /forget or a tool of the memory agent deletes the memory
\* of a workflow, and the mark of its promotion with it.
ForgetWorkflow(w) ==
  /\ workflow[w].seen > 0
  /\ workflow' = [workflow EXCEPT ![w] = Unseen]
  /\ unmarked' = IF workflow[w].promoted THEN unmarked \union {SlugOf[w]} ELSE unmarked
  /\ UNCHANGED <<reviewCount, lowQueue, review, proposals, skillFile, scored, queued, read,
                 forfeited>>

\* The user edits a generated skill, as the file itself invites to.
EditSkill(s) ==
  /\ skillFile[s].of # {} /\ ~skillFile[s].edited
  /\ skillFile' = [skillFile EXCEPT ![s].edited = TRUE]
  /\ UNCHANGED <<reviewCount, lowQueue, review, proposals, workflow, scored, queued, read,
                 forfeited, unmarked>>

ReviewNext ==
  \/ \E r \in Reviews :
       \/ Reflect(r) \/ QueueLowTurn(r) \/ CountReview(r) \/ ReadLowQueue(r)
       \/ ClearLowQueue(r) \/ Propose(r) \/ ReviewDies(r)
  \/ \E w \in Workflows : ForgetWorkflow(w)
  \/ \E s \in Slugs : EditSkill(s)

ReviewSpec == ReviewInit /\ [][ReviewNext]_reviewVars

(***************************************************************************)
(* Properties.                                                             *)
(***************************************************************************)

\* A low turn that was queued stays there until a review is given it, unless the
\* queue was full or a drain deleted it between its two calls: none is forgotten,
\* and a review that dies half-way leaves the queue or has its turns.
LowTurnsAreReviewed == queued \subseteq Range(lowQueue) \union read \union forfeited

\* The generated file promises that the reflector does not write over it once the
\* user has modified it (skill_writer.py:143).  The code never looks at the file: what
\* stands for the promise is the mark on the memory.  So an edited file keeps its
\* workflow's text exactly as long as that mark can be found: not once it could not be
\* written, was deleted with its memory, or has an unmarked memory beside it.  Another
\* workflow of the same slug replaces the file, edited or not.
EditsSurvive ==
  [][\A s \in Slugs :
       /\ skillFile[s].edited
       /\ s \notin unmarked
       /\ skillFile'[s] # skillFile[s]
       => skillFile'[s].of # skillFile[s].of]_reviewVars
=============================================================================
