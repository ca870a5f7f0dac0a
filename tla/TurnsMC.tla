------------------------------- MODULE TurnsMC --------------------------------
(***************************************************************************)
(* The turns of the agent, and what they leave behind: background jobs,    *)
(* session, reviews, interview and persona, memory and charges.  The parts *)
(* share no variable: a behaviour is one of one part.                      *)
(***************************************************************************)
EXTENDS BackgroundJobs, ConversationSession, TurnReview, PersonaInterview,
        PersonaVersions, SpendingCaps, MemoryStoreMC, TurnRoutes, TLC

VARIABLE part

turnsVars ==
  <<vars, convVars, reviewVars, interviewVars, personaVars, spendVars, memVars, routeVars,
    part>>

TurnsInit ==
  /\ part \in {"jobs", "session", "review", "interview", "persona", "spending", "memory",
              "routes"}
  /\ Init /\ ConvInit /\ ReviewInit /\ InterviewInit /\ PersonaInit /\ SpendInit /\ MemInit
  /\ RouteInit

\* Only part p moves.
Only(p) ==
  /\ part = p /\ UNCHANGED part
  /\ p # "jobs" => UNCHANGED vars
  /\ p # "session" => UNCHANGED convVars
  /\ p # "review" => UNCHANGED reviewVars
  /\ p # "interview" => UNCHANGED interviewVars
  /\ p # "persona" => UNCHANGED personaVars
  /\ p # "spending" => UNCHANGED spendVars
  /\ p # "memory" => UNCHANGED memVars
  /\ p # "routes" => UNCHANGED routeVars

TurnsNext ==
  \/ Only("jobs") /\ Next
  \/ Only("session") /\ ConvNext
  \/ Only("review") /\ ReviewNext
  \/ Only("interview") /\ InterviewNext
  \/ Only("persona") /\ PersonaNext
  \/ Only("spending") /\ SpendNext
  \/ Only("memory") /\ MemNext
  \/ Only("routes") /\ RouteNext

TurnsSpec == TurnsInit /\ [][TurnsNext]_turnsVars

\* Type invariant of every part.
TurnsTypeOK ==
  /\ TypeOK /\ ConvTypeOK /\ ReviewTypeOK /\ InterviewTypeOK /\ PersonaTypeOK /\ SpendTypeOK
  /\ MemTypeOK /\ RouteTypeOK

-----------------------------------------------------------------------------
(* Values of the constants                                                 *)

\* Two sessions: a question with a follow-up and one without, then one without.
TwoSessions == <<<<TRUE, FALSE>>, <<TRUE>>>>

\* Two workflows whose descriptions begin alike.
OneSlug == [w \in Workflows |-> "slug"]

\* A message for the agent, one for a direct flow, a request to draw or to fix, a
\* watch that also matches the fan-out.
SomeReadings == {{}, {"google"}, {"draw", "fix_it"}, {"watch", "fan_out"}}

\* Calls paid for on a day.
FewCalls == [openrouter |-> 3, openai |-> 1]

\* The same two values stand for the rows of the job part, for the facts of the
\* memory and for the processes of every other, and the workflows have one slug; only
\* safety is checked here.
Symmetry == Permutations(Jobs) \union Permutations(Workflows)
===============================================================================
