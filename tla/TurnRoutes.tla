----------------------------- MODULE TurnRoutes -----------------------------
(***************************************************************************)
(* The routes of a turn through run_orchestrator                           *)
(* (src/src/agents/orchestrator.py), with run_orchestrator_result around   *)
(* the user's own turns and the fan-out of parallel_runner.py inside.      *)
(*                                                                         *)
(* A message is tried against the routes in their order and the first that *)
(* answers ends the turn.  What a turn said is kept twice: in the          *)
(* conversation of memory/conversation.py, and in the agents' own session. *)
(* Images wait in a field of the session for the end of the turn.  The     *)
(* turns of scheduled tasks, background jobs and the dashboard run beside  *)
(* the user's, on the same records; the user's own come one after another  *)
(* (OneTurnAtATime and TurnsInOrder of ChatTurns).                        *)
(***************************************************************************)
EXTENDS Naturals, FiniteSets

CONSTANTS
  Messages,      \* messages of the user: calls of run_orchestrator_result
  JobTurns,      \* prompts of jobs: calls of run_orchestrator
  Readings,      \* bound: the sets of routes a message may match
  RouteFaults    \* bound: failed calls and time-outs

ASSUME MessagesIsNatural == Messages \in Nat
ASSUME RouteFaultsIsNatural == RouteFaults \in Nat

VARIABLES
  turn,          \* the turns
  spoken,        \* of each turn: questions and answers in the conversation
  inSession,     \* of each turn: copies of its exchange in the agents' session
  toolError,     \* last_tool_error is set; nothing clears it
  imageField,    \* pending_image_attachments: the turn whose images wait, if any
  routeFaults,
  redone,        \* history: turns whose work was repeated by a known cause
  forgotten,     \* history: turns the agents' session lost by a known cause
  disturbed        \* history: turns beside which the image field was changed

routeVars ==
  <<turn, spoken, inSession, toolError, imageField, routeFaults, redone, forgotten, disturbed>>

\* The user's messages, numbered as their turns begin.
OwnerTurns == 1..Messages

AllTurns == OwnerTurns \union JobTurns

\* The routes, by the place at which they are tried: the pending repair; a cue such
\* as "fix it" beside a stored error, a request for repair; the direct Google and
\* image flows; a watch, a fan-out; the agent takes what is left.
Place == [pending |-> 1, fix_it |-> 2, repair |-> 3, google |-> 4, draw |-> 5, watch |-> 6,
          fan_out |-> 7, agent |-> 8]
Routes == DOMAIN Place

ASSUME ReadingsAreRoutes == Readings \subseteq SUBSET Routes
ASSUME JobsSendNoMessages == JobTurns \intersect OwnerTurns = {}

\* Blocks that log whatever goes wrong in them and fall through to the next route.
Guarded == {"watch", "fan_out"}

NotBegun == [at |-> "idle", left |-> {}, route |-> "agent", work |-> 0, made |-> FALSE,
             rerouted |-> FALSE, retried |-> FALSE, got |-> {}]

RouteTypeOK ==
  /\ turn \in [AllTurns ->
       [at : {"idle", "routing", "working", "rerouting", "checking", "recording", "remembering",
              "posting", "returning", "clearing", "done", "failed", "stale"},
        left : SUBSET Routes, route : Routes, work : Nat, made : BOOLEAN, rerouted : BOOLEAN,
        retried : BOOLEAN, got : SUBSET AllTurns]]
  /\ spoken \in [AllTurns -> [asked : Nat, answered : Nat]]
  /\ inSession \in [AllTurns -> Nat]
  /\ toolError \in BOOLEAN
  /\ imageField \in SUBSET AllTurns /\ Cardinality(imageField) <= 1
  /\ routeFaults \in 0..RouteFaults
  /\ redone \subseteq AllTurns /\ forgotten \subseteq AllTurns /\ disturbed \subseteq AllTurns

RouteInit ==
  /\ turn = [t \in AllTurns |-> NotBegun]
  /\ spoken = [t \in AllTurns |-> [asked |-> 0, answered |-> 0]]
  /\ inSession = [t \in AllTurns |-> 0]
  /\ toolError = FALSE /\ imageField = {} /\ routeFaults = 0
  /\ redone = {} /\ forgotten = {} /\ disturbed = {}

UnderWay == {t \in AllTurns : turn[t].at \notin {"idle", "done", "failed"}}

RouteFault == routeFaults < RouteFaults /\ routeFaults' = routeFaults + 1
NoRouteFault == UNCHANGED routeFaults

\* The turn goes on at step s.
At(t, s) == turn' = [turn EXCEPT ![t].at = s]

\* The image field becomes f, by turn t.
PutImages(t, f) ==
  /\ imageField' = f
  /\ disturbed' = disturbed \union {u \in OwnerTurns \intersect UnderWay : u # t}

-----------------------------------------------------------------------------
(* The turn begins                                                         *)

\* A wrapper that leaves the field of an earlier turn alone.
KeepsStale(t) == imageField

\* run_orchestrator_result first deletes what an earlier turn left.
ClearsStale(t) == IF t \in OwnerTurns THEN {} ELSE imageField

\* The question is added to the conversation; a failure there ends the turn.
BeginRouted(t) ==
  /\ turn[t].at \in {"idle", "stale"}
  /\ t \in OwnerTurns => \A u \in 1..(t - 1) : turn[u].at \in {"done", "failed"}
  /\ \E left \in IF turn[t].at = "stale" THEN {turn[t].left} ELSE Readings :
       turn' = [turn EXCEPT ![t].at = "routing", ![t].left = left \union {"agent"}]
  /\ spoken' = [spoken EXCEPT ![t].asked = @ + 1]
  /\ \/ imageField' = ClearsStale(t) /\ NoRouteFault /\ UNCHANGED disturbed
     \/ /\ t \in OwnerTurns /\ RouteFault          \* the deletion fails and is logged
        /\ disturbed' = disturbed \union {t}
        /\ UNCHANGED imageField
  /\ UNCHANGED <<inSession, toolError, redone, forgotten>>

\* The first route that matches, of those not tried; "fix it" needs a stored error.
TakeRoute(t) ==
  /\ turn[t].at = "routing"
  /\ LET open  == IF toolError THEN turn[t].left ELSE turn[t].left \ {"fix_it"}
         first == CHOOSE r \in open : \A s \in open : Place[r] <= Place[s]
     IN  turn' = [turn EXCEPT ![t].at = "working", ![t].route = first, ![t].left = open]
  /\ UNCHANGED <<spoken, inSession, toolError, imageField, routeFaults, redone, forgotten,
                 disturbed>>

-----------------------------------------------------------------------------
(* The routes                                                              *)

Works(t, s) == turn' = [turn EXCEPT ![t].at = s, ![t].work = @ + 1]

\* A pending repair, the Gmail, calendar and task flows, the uploaded image.
AnswerDirectly(t) ==
  /\ turn[t].at = "working" /\ turn[t].route \in {"pending", "google"}
  /\ Works(t, "recording")
  /\ UNCHANGED <<spoken, inSession, toolError, imageField, routeFaults, redone, forgotten,
                 disturbed>>

\* _maybe_handle_direct_image_generation puts its image into the field at once.
DrawDirectly(t) ==
  /\ turn[t].at = "working" /\ turn[t].route = "draw"
  /\ turn' = [turn EXCEPT ![t].at = "recording", ![t].work = @ + 1, ![t].made = TRUE]
  /\ PutImages(t, {t})
  /\ UNCHANGED <<spoken, inSession, toolError, routeFaults, redone, forgotten>>

\* _run_repair_agent_direct, which has the exchange saved by the agents' session.
RepairDirectly(t) ==
  /\ turn[t].at = "working" /\ turn[t].route \in {"fix_it", "repair"}
  /\ Works(t, "recording")
  /\ inSession' = [inSession EXCEPT ![t] = @ + 1]
  /\ UNCHANGED <<spoken, toolError, imageField, routeFaults, redone, forgotten, disturbed>>

\* A background job is created: what becomes of it is BackgroundJobs.
CreateWatch(t) ==
  /\ turn[t].at = "working" /\ turn[t].route = "watch"
  /\ Works(t, "recording")
  /\ UNCHANGED <<spoken, inSession, toolError, imageField, routeFaults, redone, forgotten,
                 disturbed>>

\* run_parallel_tasks: a branch's failure is its section of the answer, and no branch
\* has a session.
FanOut(t) ==
  /\ turn[t].at = "working" /\ turn[t].route = "fan_out"
  /\ Works(t, "recording")
  /\ UNCHANGED <<spoken, inSession, toolError, imageField, routeFaults, redone, forgotten,
                 disturbed>>

\* The agent's run, saved by its session; its answer may say that it could not hand
\* over to the repair agent, and may carry images.
RunAgent(t) ==
  /\ turn[t].at = "working" /\ turn[t].route = "agent"
  /\ \E failedHandoff, image \in BOOLEAN :
       turn' = [turn EXCEPT ![t].at = IF failedHandoff THEN "rerouting" ELSE "checking",
                            ![t].work = @ + 1, ![t].made = image]
  /\ inSession' = [inSession EXCEPT ![t] = @ + 1]
  /\ UNCHANGED <<spoken, toolError, imageField, routeFaults, redone, forgotten, disturbed>>

\* Then the repair agent is run on the same message, and its answer is the turn's;
\* the session keeps both.
RerouteToRepair(t) ==
  /\ turn[t].at = "rerouting"
  /\ turn' = [turn EXCEPT ![t].at = "checking", ![t].work = @ + 1, ![t].rerouted = TRUE]
  /\ inSession' = [inSession EXCEPT ![t] = @ + 1]
  /\ UNCHANGED <<spoken, toolError, imageField, routeFaults, redone, forgotten, disturbed>>

\* An answer that tells of a failed tool is stored as the last error.
CheckForToolError(t) ==
  /\ turn[t].at = "checking"
  /\ \E said \in BOOLEAN : toolError' = (toolError \/ said)
  /\ At(t, "recording")
  /\ UNCHANGED <<spoken, inSession, imageField, routeFaults, redone, forgotten, disturbed>>

\* Falls through to the routes behind, or ends the turn.
Raises(t) ==
  turn' = IF turn[t].route \in Guarded
          THEN [turn EXCEPT ![t].at = "routing", ![t].left = @ \ {turn[t].route}]
          ELSE [turn EXCEPT ![t].at = "failed"]

\* A route's call raises.
RouteFails(t) ==
  /\ turn[t].at \in {"working", "rerouting", "checking"} /\ RouteFault
  /\ Raises(t)
  /\ UNCHANGED <<spoken, inSession, toolError, imageField, redone, forgotten, disturbed>>

\* "No tool call found": the whole session of the agents is cleared and the message
\* run once more from the beginning.
ClearAndRetry(t) ==
  /\ turn[t].at = "working" /\ turn[t].route \in {"fix_it", "repair", "agent"}
  /\ t \in OwnerTurns /\ ~turn[t].retried /\ RouteFault
  /\ turn' = [turn EXCEPT ![t].at = "stale", ![t].retried = TRUE]
  /\ inSession' = [u \in AllTurns |-> 0]
  /\ forgotten' = forgotten \union {u \in AllTurns \ {t} : turn[u].at # "idle"}
  /\ UNCHANGED <<spoken, toolError, imageField, redone, disturbed>>

-----------------------------------------------------------------------------
(* The turn ends                                                           *)

\* add_turn of the answer.
SayAnswer(t) ==
  /\ turn[t].at = "recording"
  /\ spoken' = [spoken EXCEPT ![t].answered = @ + 1]
  /\ At(t, IF turn[t].route = "agent" THEN "posting" ELSE "remembering")
  /\ UNCHANGED <<inSession, toolError, imageField, routeFaults, redone, forgotten, disturbed>>

\* It fails, before the push or after it; a guarded route is then followed by the
\* next one, its work done.
SayFails(t) ==
  /\ turn[t].at = "recording" /\ RouteFault
  /\ \E pushed \in {0, 1} : spoken' = [spoken EXCEPT ![t].answered = @ + pushed]
  /\ Raises(t)
  /\ redone' = redone \union {t}
  /\ UNCHANGED <<inSession, toolError, imageField, forgotten, disturbed>>

\* A record whose failure is the route's.
RememberOrRaise(t) ==
  /\ turn[t].at = "remembering" /\ RouteFault
  /\ Raises(t)
  /\ UNCHANGED <<spoken, inSession, toolError, imageField, redone, forgotten, disturbed>>

\* _add_direct_response_to_session logs its failure.
RememberFails(t) ==
  /\ turn[t].at = "remembering" /\ RouteFault
  /\ forgotten' = forgotten \union {t}
  /\ At(t, "returning")
  /\ UNCHANGED <<spoken, inSession, toolError, imageField, redone, disturbed>>

\* _add_direct_response_to_session: for a direct repair, the second copy.
Remember(t) ==
  /\ turn[t].at = "remembering"
  /\ inSession' = [inSession EXCEPT ![t] = @ + 1]
  /\ At(t, "returning")
  /\ UNCHANGED <<spoken, toolError, imageField, routeFaults, redone, forgotten, disturbed>>

\* The agent's images go into the field; a failure is logged.
PostImages(t) ==
  /\ turn[t].at = "posting"
  /\ At(t, "returning")
  /\ \/ ~turn[t].made /\ NoRouteFault /\ UNCHANGED <<imageField, disturbed>>
     \/ turn[t].made /\ NoRouteFault /\ PutImages(t, {t})
     \/ turn[t].made /\ RouteFault /\ disturbed' = disturbed \union {t} /\ UNCHANGED imageField
  /\ UNCHANGED <<spoken, inSession, toolError, redone, forgotten>>

\* A job's turn has its text.  run_orchestrator_result reads the field for the
\* user's, and a failure there is an answer without images.
Return(t) ==
  /\ turn[t].at = "returning"
  /\ \/ /\ t \in JobTurns /\ At(t, "done")
        /\ NoRouteFault /\ UNCHANGED disturbed
     \/ /\ t \in OwnerTurns
        /\ turn' = [turn EXCEPT ![t].at = IF imageField = {} THEN "done" ELSE "clearing",
                                ![t].got = imageField]
        /\ NoRouteFault /\ UNCHANGED disturbed
     \/ /\ t \in OwnerTurns /\ At(t, "done")
        /\ RouteFault /\ disturbed' = disturbed \union {t}
  /\ UNCHANGED <<spoken, inSession, toolError, imageField, redone, forgotten>>

\* What was read is deleted, whatever the field holds by now.
ClearImages(t) ==
  /\ turn[t].at = "clearing"
  /\ At(t, "done")
  /\ \/ imageField' = {} /\ NoRouteFault
     \/ UNCHANGED imageField /\ RouteFault
  /\ UNCHANGED <<spoken, inSession, toolError, redone, forgotten, disturbed>>

\* The queue's time-out of a message, or the job's of its turn.
TimeOut(t) ==
  /\ t \in UnderWay /\ RouteFault
  /\ At(t, "failed")
  /\ UNCHANGED <<spoken, inSession, toolError, imageField, redone, forgotten, disturbed>>

RouteStep(t) ==
  \/ BeginRouted(t) \/ TakeRoute(t)
  \/ AnswerDirectly(t) \/ DrawDirectly(t) \/ RepairDirectly(t) \/ CreateWatch(t) \/ FanOut(t)
  \/ RunAgent(t) \/ RerouteToRepair(t) \/ CheckForToolError(t) \/ RouteFails(t)
  \/ ClearAndRetry(t)
  \/ SayAnswer(t) \/ SayFails(t) \/ Remember(t) \/ RememberFails(t) \/ PostImages(t)
  \/ Return(t) \/ ClearImages(t) \/ TimeOut(t)

RouteNext == \E t \in AllTurns : RouteStep(t)
RouteSpec == RouteInit /\ [][RouteNext]_routeVars

-----------------------------------------------------------------------------
(* Properties                                                              *)

\* Copies of its exchange a finished turn has in the agents' session.
Copies(t) == IF turn[t].route \in {"fix_it", "repair"} \/ turn[t].rerouted THEN 2 ELSE 1

\* An answered turn did its work once and is on record once, in the conversation and
\* in the agents' session (twice there when the repair agent spoke): whatever the
\* route and whatever the turns beside it, unless its record failed and the next route
\* answered as well, or the session is known to have lost it.
AnswersAreOnRecord ==
  \A t \in AllTurns : turn[t].at = "done" =>
    /\ t \notin redone =>
         /\ turn[t].work = IF turn[t].rerouted THEN 2 ELSE 1
         /\ spoken[t].answered = 1
         /\ inSession[t] = Copies(t) \/ t \in forgotten
    /\ spoken[t].asked = IF turn[t].retried THEN 2 ELSE 1

\* The user gets the images of a turn with its answer, and no others: unless a job's
\* turn drew beside it or the field could not be written.
ImagesGoWithTheirTurn ==
  \A t \in OwnerTurns : turn[t].at = "done" =>
    turn[t].got = (IF turn[t].made THEN {t} ELSE {}) \/ t \in disturbed
=============================================================================
