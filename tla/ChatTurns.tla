------------------------------ MODULE ChatTurns ------------------------------
(***************************************************************************)
(* A message of the user from its update to its answer: handle_message of  *)
(* src/src/bot/handlers.py, which aiogram runs as a task for every update, *)
(* the queue of MessageQueue, and the turn of the orchestrator as far as   *)
(* it shares the uploaded image with other tasks: the session field        *)
(* latest_uploaded_image is written by handle_message and consumed by      *)
(* _maybe_handle_direct_image_analysis of src/src/agents/orchestrator.py,  *)
(* in the user's turns and in those of scheduled tasks and background jobs.*)
(***************************************************************************)
EXTENDS MessageQueue

CONSTANTS
  Kind,       \* what each message is: messages come in the order of Nat
  RateLimit,  \* _USER_RATE_LIMIT
  NoImage     \* an empty session field

ASSUME MsgsAreNumbered == Msgs \subseteq Nat
ASSUME KindIsTyped == Kind \in [Msgs -> {"text", "voice", "photo"}]
ASSUME RateLimitIsNatural == RateLimit \in Nat
ASSUME NoImageIsNoImage == NoImage \notin Msgs

VARIABLES
  stage,   \* how far each message has come
  recent,  \* messages in the rate window
  image,   \* latest_uploaded_image: the message it came with
  seen,    \* the image each message's turn read, until it ends otherwise
  ticking  \* whether a background turn is analysing the image

chatVars == <<stage, recent, image, seen, ticking>>
vars == <<queueVars, chatVars>>

\* In handle_message, in the queue, in the turn, and how the message ended.
IntakeStages == {"screened", "fetching", "routed", "ready"}
TurnStages == {"begun", "analysing", "replying", "rereading"}
Ends == {"refused", "wizard", "answered", "failed", "lost"}
Stages == {"none", "queued"} \union IntakeStages \union TurnStages \union Ends

Init ==
  /\ QueueInit
  /\ stage = [m \in Msgs |-> "none"]
  /\ recent = 0
  /\ image = NoImage
  /\ seen = [m \in Msgs |-> NoImage]
  /\ ticking = FALSE

Reach(m, s) == stage' = [stage EXCEPT ![m] = s]

-----------------------------------------------------------------------------
(* handle_message                                                          *)

\* The update's task begins: allowlist and cost cap are looked up in the
\* database.
Arrive(m) ==
  /\ stage[m] = "none"
  /\ \A n \in Msgs : n < m => stage[n] # "none"
  /\ Reach(m, "screened")
  /\ UNCHANGED <<queueVars, recent, image, seen, ticking>>

\* Not on the allowlist, over the cost cap, or too fast.
Refuse(m) ==
  /\ stage[m] = "screened"
  /\ Reach(m, "refused")
  /\ UNCHANGED <<queueVars, recent, image, seen, ticking>>

WithinLimit == recent < RateLimit

Admit(m) ==
  /\ stage[m] = "screened"
  /\ WithinLimit
  /\ recent' = recent + 1
  /\ Reach(m, IF Kind[m] = "text" THEN "routed" ELSE "fetching")
  /\ UNCHANGED <<queueVars, image, seen, ticking>>

\* The oldest message leaves the window.
WindowSlides ==
  /\ recent > 0
  /\ recent' = recent - 1
  /\ UNCHANGED <<queueVars, stage, image, seen, ticking>>

\* A voice message is transcribed, which takes seconds, a photo downloaded and
\* stored in the session.
Fetched(m) ==
  /\ stage[m] = "fetching"
  /\ image' = IF Kind[m] = "photo" THEN m ELSE image
  /\ Reach(m, "ready")
  /\ UNCHANGED <<queueVars, recent, seen, ticking>>

FetchFails(m) ==
  /\ stage[m] = "fetching"
  /\ Reach(m, "refused")
  /\ UNCHANGED <<queueVars, recent, image, seen, ticking>>

\* The session fields of the interview, the organisation and the skill wizard
\* take a text out of the queue's way; so does an embedded /connect.
ToWizard(m) ==
  /\ stage[m] = "routed"
  /\ Reach(m, "wizard")
  /\ UNCHANGED <<queueVars, recent, image, seen, ticking>>

\* No wizard is active, or its handler raised.
NoWizard(m) ==
  /\ stage[m] = "routed"
  /\ Reach(m, "ready")
  /\ UNCHANGED <<queueVars, recent, image, seen, ticking>>

Enqueue(m) ==
  /\ stage[m] = "ready"
  /\ PutInNewQueue(m) \/ PutInCurrent(m)
  /\ Reach(m, "queued")
  /\ UNCHANGED <<recent, image, seen, ticking>>

-----------------------------------------------------------------------------
(* The turn: the fast paths of run_orchestrator in front of the agents     *)

BeginTurn(q) ==
  /\ Take(q)
  /\ Reach(turn'[q], "begun")
  /\ UNCHANGED <<recent, image, seen, ticking>>

\* An image is in the session, and no earlier fast path answers.
ReadImage(q) ==
  /\ worker[q] = "handling" /\ stage[turn[q]] \in {"begun", "rereading"}
  /\ image # NoImage
  /\ seen' = [seen EXCEPT ![turn[q]] = image]
  /\ Reach(turn[q], "analysing")
  /\ UNCHANGED <<queueVars, recent, image, ticking>>

\* There is none, or a repair, mail, calendar or task request comes first.
PassImage(q) ==
  /\ worker[q] = "handling" /\ stage[turn[q]] = "begun"
  /\ Reach(turn[q], "replying")
  /\ UNCHANGED <<queueVars, recent, image, seen, ticking>>

\* An image that stays for the next question.
KeepImage == image

AfterAnalysis == NoImage

\* The field is deleted whatever it holds by now.
Analysed(q) ==
  /\ worker[q] = "handling" /\ stage[turn[q]] = "analysing"
  /\ image' = AfterAnalysis
  /\ Reach(turn[q], "replying")
  /\ UNCHANGED <<queueVars, recent, seen, ticking>>

\* The agents' run failed on a stale SDK session: it is cleared, and the message
\* goes through run_orchestrator once more.
Retry(q) ==
  /\ worker[q] = "handling" /\ stage[turn[q]] = "replying"
  /\ seen[turn[q]] = NoImage
  /\ Reach(turn[q], "rereading")
  /\ UNCHANGED <<queueVars, recent, image, seen, ticking>>

Answer(q) ==
  /\ FinishTurn(q)
  /\ stage[turn[q]] \in {"replying", "rereading"}
  /\ Reach(turn[q], "answered")
  /\ UNCHANGED <<recent, image, seen, ticking>>

\* An exception or the time-out ends the turn at any await.
TurnFails(q) ==
  /\ FinishTurn(q)
  /\ Reach(turn[q], "failed")
  /\ seen' = [seen EXCEPT ![turn[q]] = NoImage]
  /\ UNCHANGED <<recent, image, ticking>>

TurnCancelled(q) ==
  /\ HandlerCancelled(q)
  /\ Reach(turn[q], "failed")
  /\ seen' = [seen EXCEPT ![turn[q]] = NoImage]
  /\ UNCHANGED <<recent, image, ticking>>

-----------------------------------------------------------------------------
(* Beside the user's messages                                              *)

\* A turn of a scheduled task or a background job takes the same path.
TickReads ==
  /\ ~ticking /\ image # NoImage
  /\ ticking' = TRUE
  /\ UNCHANGED <<queueVars, stage, recent, image, seen>>

TickDeletes ==
  /\ ticking
  /\ ticking' = FALSE
  /\ image' = AfterAnalysis
  /\ UNCHANGED <<queueVars, stage, recent, seen>>

TickFails ==
  /\ ticking
  /\ ticking' = FALSE
  /\ UNCHANGED <<queueVars, stage, recent, image, seen>>

\* The session hash expires, or archive_session deletes it.
SessionEnds ==
  /\ image # NoImage
  /\ image' = NoImage
  /\ UNCHANGED <<queueVars, stage, recent, seen, ticking>>

\* Telegram has been told of every update whose task has begun.
Crash ==
  /\ CrashQueues
  /\ stage' = [m \in Msgs |-> IF stage[m] \in Ends \union {"none"} THEN stage[m] ELSE "lost"]
  /\ seen' = [m \in Msgs |-> IF stage[m] = "answered" THEN seen[m] ELSE NoImage]
  /\ recent' = 0
  /\ ticking' = FALSE
  /\ UNCHANGED image

-----------------------------------------------------------------------------
Intake(m) ==
  \/ Refuse(m) \/ Admit(m) \/ Fetched(m) \/ FetchFails(m)
  \/ ToWizard(m) \/ NoWizard(m) \/ Enqueue(m)

QueueStep(q) == (Wait(q) \/ Expire(q)) /\ UNCHANGED chatVars

TurnStep(q) ==
  \/ BeginTurn(q)
  \/ ReadImage(q) \/ PassImage(q) \/ Analysed(q)
  \/ Retry(q) \/ Answer(q) \/ TurnFails(q)

Next ==
  \/ \E m \in Msgs : Arrive(m) \/ Intake(m)
  \/ \E q \in Queues : QueueStep(q) \/ TurnStep(q) \/ TurnCancelled(q)
  \/ \E q \in Queues : IdleTimerFires(q) /\ UNCHANGED chatVars
  \/ WindowSlides
  \/ TickReads \/ TickDeletes \/ TickFails
  \/ SessionEnds
  \/ Crash

Spec == Init /\ [][Next]_vars

\* The event loop resumes what can run, and wait_for ends every turn after
\* agent_timeout_seconds; nothing makes a user write or a timer fire.
FairSpec == Spec /\ \A q \in Queues : WF_vars(QueueStep(q) \/ TurnStep(q))

-----------------------------------------------------------------------------
(* Properties                                                              *)

\* Type invariant.
TypeOK ==
  /\ QueueTypeOK
  /\ stage \in [Msgs -> Stages]
  /\ \A m \in Msgs : stage[m] \in TurnStages => \E q \in Queues : turn[q] = m
  /\ recent \in 0 .. RateLimit
  /\ image \in Msgs \union {NoImage}
  /\ seen \in [Msgs -> Msgs \union {NoImage}]
  /\ ticking \in BOOLEAN

\* ADR-2026-04-22-multimodal-tts-capabilities.md:43, "consumed once, then
\* deleted": no image is what two answered messages of the user are about,
\* however uploads, turns, time-outs and expiries interleave.
ConsumedOnce ==
  \A m, n \in Msgs :
    /\ m # n
    /\ stage[m] = "answered" /\ stage[n] = "answered"
    /\ seen[m] # NoImage
    => seen[m] # seen[n]

\* Line 48 of the same record, "prevent stale images bleeding into future turns":
\* a turn analyses the image that came with its message, or none.
NoBleeding == \A m \in Msgs : seen[m] \in {NoImage, m}
=============================================================================
