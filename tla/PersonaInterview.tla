--------------------------- MODULE PersonaInterview ---------------------------
(***************************************************************************)
(* The personality interview of one user: agents/persona_interview_agent   *)
(* with the routing of bot/handlers.py.  Messages reach it before the      *)
(* per-user queue, so two of them are handled at once.                     *)
(*                                                                         *)
(* A session is a row whose transcript is a sequence of asked questions    *)
(* and answers; where the dialogue stands is counted from the answers.     *)
(***************************************************************************)
EXTENDS Integers, Sequences, FiniteSets, FiniteSetsExt

CONSTANTS
  InterviewMessages,  \* messages and commands in flight
  FollowsUp,          \* session -> question -> whether it has a follow-up
  SessionLimit,       \* bound: sessions ever opened
  LogLimit,           \* bound: entries of a transcript
  InterviewFaults     \* bound: failures, resets and expiries

\* Of INTERVIEW_SESSIONS: every session has questions, each but the last with a follow-up.
ASSUME QuestionsFollowUp ==
  /\ FollowsUp \in Seq(Seq(BOOLEAN)) /\ FollowsUp # <<>>
  /\ \A s \in DOMAIN FollowsUp :
       FollowsUp[s] # <<>> /\ \A q \in 1..Len(FollowsUp[s]) - 1 : FollowsUp[s][q]
ASSUME InterviewBounds == {SessionLimit, LogLimit, InterviewFaults} \subseteq Nat

VARIABLES
  interviews,         \* rows of persona_interviews
  interviewing,       \* the session field interview_active
  interviewMsg,       \* what each message in flight has read and does
  learned,            \* sessions whose synthesis went into the persona, in order
  interviewFaults,    \* failures, resets and expiries so far
  interviewDisturbed  \* history: messages overlapped, a step failed, or the command resumed

interviewVars == <<interviews, interviewing, interviewMsg, learned, interviewFaults,
                   interviewDisturbed>>

InterviewSessions == DOMAIN FollowsUp
LastSession == Len(FollowsUp)
Asked(q, follow) == [asks |-> q, follow |-> follow]
Answer == [asks |-> 0, follow |-> FALSE]
Unasked == [session |-> 1, row |-> 0, question |-> 0, awaiting |-> FALSE]
IdleInterview == [at |-> "idle", command |-> FALSE, read |-> Unasked]

InterviewEntries == [asks : Nat, follow : BOOLEAN]
InterviewTypeOK ==
  /\ interviews \in Seq([session : InterviewSessions, log : Seq(InterviewEntries),
                         status : {"in_progress", "completed", "archived"}])
  /\ interviewing \in BOOLEAN
  /\ interviewMsg \in [InterviewMessages ->
       [at : {"idle", "open", "record", "recorded", "synthesis", "after"}, command : BOOLEAN,
        read : [session : InterviewSessions, row : Nat, question : Nat, awaiting : BOOLEAN]]]
  /\ learned \in Seq(InterviewSessions)
  /\ interviewFaults \in 0..InterviewFaults /\ interviewDisturbed \in BOOLEAN

InterviewInit ==
  /\ interviews = <<>> /\ learned = <<>>
  /\ interviewing = FALSE
  /\ interviewMsg = [h \in InterviewMessages |-> IdleInterview]
  /\ interviewFaults = 0 /\ interviewDisturbed = FALSE

InProgress == {i \in DOMAIN interviews : interviews[i].status = "in_progress"}
CompletedSessions == {interviews[i].session : i \in {i \in DOMAIN interviews : interviews[i].status = "completed"}}
AllComplete ==
  /\ InProgress = {}
  /\ Cardinality({i \in DOMAIN interviews : interviews[i].status = "completed"}) >= LastSession
AnswersIn(log) == Cardinality({p \in DOMAIN log : log[p] = Answer})

\* get_interview_state: two answers stand for one question, the last one at most.
InterviewState ==
  IF InProgress # {}
  THEN LET first == Min({interviews[j].session : j \in InProgress})
           i == Min({j \in InProgress : interviews[j].session = first})
           n == AnswersIn(interviews[i].log)
       IN  [session  |-> interviews[i].session, row |-> i,
            question |-> Min({n \div 2, Len(FollowsUp[interviews[i].session]) - 1}) + 1,
            awaiting |-> n % 2 = 1]
  ELSE [Unasked EXCEPT !.session = IF CompletedSessions = {} THEN 1
                                   ELSE Min({Max(CompletedSessions) + 1, LastSession})]

Overlaps(h) == \E o \in InterviewMessages \ {h} : interviewMsg[o].at # "idle"

Handling(h, stage) == interviewMsg' = [interviewMsg EXCEPT ![h].at = stage]
\* Bound: a disturbed interview is followed until the messages in flight are answered.
MayArrive(h) == interviewMsg[h].at = "idle" /\ ~interviewDisturbed
Replying(h) == interviewMsg' = [interviewMsg EXCEPT ![h] =
  [IdleInterview EXCEPT !.at = "after", !.command = interviewMsg[h].command]]
InterviewDone(h) == interviewMsg' = [interviewMsg EXCEPT ![h] = IdleInterview]
InterviewFault == interviewFaults < InterviewFaults /\ interviewFaults' = interviewFaults + 1

\* _handle_persona_interview without reset: switches the mode on, answers "__START__".
InterviewCommand(h) ==
  /\ MayArrive(h) /\ ~AllComplete
  /\ interviewing' = TRUE
  /\ interviewMsg' = [interviewMsg EXCEPT ![h] =
       [at |-> IF InterviewState.row = 0 THEN "open" ELSE "record",
        command |-> TRUE, read |-> InterviewState]]
  /\ interviewDisturbed' = (interviewDisturbed \/ Overlaps(h) \/ InterviewState.row # 0)
  /\ UNCHANGED <<interviewFaults, interviews, learned>>

\* A message while the interview is active.
TextInInterview(h) ==
  /\ MayArrive(h) /\ interviewing
  /\ interviewMsg' = [interviewMsg EXCEPT ![h] =
       [at |-> IF AllComplete THEN "after" ELSE IF InterviewState.row = 0 THEN "open" ELSE "record",
        command |-> FALSE, read |-> InterviewState]]
  /\ interviewDisturbed' = (interviewDisturbed \/ Overlaps(h))
  /\ UNCHANGED <<interviewFaults, interviews, interviewing, learned>>

\* start_interview_session and its first question: the message itself is no answer.
OpenSession(h) ==
  /\ interviewMsg[h].at = "open" /\ Len(interviews) < SessionLimit
  /\ interviews' = Append(interviews,
       [session |-> interviewMsg[h].read.session, status |-> "in_progress", log |-> <<Asked(1, FALSE)>>])
  /\ Replying(h)
  /\ UNCHANGED <<interviewFaults, interviewing, learned, interviewDisturbed>>

RecordAnswer(h) ==
  /\ interviewMsg[h].at = "record" /\ Len(interviews[interviewMsg[h].read.row].log) < LogLimit
  /\ interviews' = [interviews EXCEPT ![interviewMsg[h].read.row].log = Append(@, Answer)]
  /\ Handling(h, "recorded")
  /\ UNCHANGED <<interviewFaults, interviewing, learned, interviewDisturbed>>

\* A dialogue that forgets the follow-ups.
NextQuestion(read) == Asked(read.question + 1, FALSE)

\* What follows an answer: the follow-up, the next question or the end.
NextPrompt(read) ==
  IF ~read.awaiting /\ FollowsUp[read.session][read.question] THEN Asked(read.question, TRUE)
  ELSE Asked(read.question + 1, FALSE)
IsLastAnswer(read) == NextPrompt(read).asks > Len(FollowsUp[read.session])

AskNext(h) ==
  /\ interviewMsg[h].at = "recorded" /\ ~IsLastAnswer(interviewMsg[h].read)
  /\ Len(interviews[interviewMsg[h].read.row].log) < LogLimit
  /\ interviews' = [interviews EXCEPT ![interviewMsg[h].read.row].log =
                      Append(@, NextPrompt(interviewMsg[h].read))]
  /\ Replying(h)
  /\ UNCHANGED <<interviewFaults, interviewing, learned, interviewDisturbed>>

\* complete_interview_session updates by id: a row archived meanwhile is completed too.
CompleteSession(h) ==
  /\ interviewMsg[h].at = "recorded" /\ IsLastAnswer(interviewMsg[h].read)
  /\ interviews' = [interviews EXCEPT ![interviewMsg[h].read.row].status = "completed"]
  /\ Handling(h, "synthesis")
  /\ UNCHANGED <<interviewFaults, interviewing, learned, interviewDisturbed>>

\* _synthesize_session gives a profile, which the persona takes over, or nothing.
Synthesise(h, gives) ==
  /\ interviewMsg[h].at = "synthesis" /\ Len(learned) < SessionLimit
  /\ learned' = IF gives THEN Append(learned, interviewMsg[h].read.session) ELSE learned
  /\ Replying(h)
  /\ UNCHANGED <<interviewFaults, interviews, interviewing, interviewDisturbed>>

\* A text leaves the mode when no session is in progress; the command does not ask.
AfterReply(h) ==
  /\ interviewMsg[h].at = "after"
  /\ interviewing' = (interviewing /\ (interviewMsg[h].command \/ InProgress # {}))
  /\ InterviewDone(h)
  /\ UNCHANGED <<interviewFaults, interviews, learned, interviewDisturbed>>

\* An exception: a text then goes on to the agent as well.
InterviewFails(h) ==
  /\ InterviewFault
  /\ interviewMsg[h].at \in {"open", "record", "recorded", "synthesis"}
  /\ interviewDisturbed' = TRUE
  /\ InterviewDone(h)
  /\ UNCHANGED <<interviews, interviewing, learned>>

\* reset_interview, also while a message is in flight.
ResetInterview ==
  /\ InterviewFault
  /\ interviews # <<>>
  /\ interviews' = [i \in DOMAIN interviews |-> [interviews[i] EXCEPT !.status = "archived"]]
  /\ learned' = <<>>
  /\ interviewDisturbed' = (interviewDisturbed \/ \E h \in InterviewMessages : interviewMsg[h].at # "idle")
  /\ UNCHANGED <<interviewing, interviewMsg>>

\* The session's fields expire.
InterviewExpires ==
  /\ InterviewFault
  /\ interviewing' = FALSE
  /\ UNCHANGED <<interviews, interviewMsg, learned, interviewDisturbed>>

InterviewNext ==
  \/ \E h \in InterviewMessages :
       \/ InterviewCommand(h) \/ TextInInterview(h) \/ OpenSession(h) \/ RecordAnswer(h)
       \/ AskNext(h) \/ CompleteSession(h) \/ AfterReply(h) \/ InterviewFails(h)
       \/ \E gives \in BOOLEAN : Synthesise(h, gives)
  \/ ResetInterview \/ InterviewExpires

InterviewSpec == InterviewInit /\ [][InterviewNext]_interviewVars

(***************************************************************************)
(* Properties.                                                             *)
(***************************************************************************)

\* The questions in order, each with its follow-up after it and an answer to both.
Follows(s, e) ==
  IF ~e.follow /\ FollowsUp[s][e.asks] THEN Asked(e.asks, TRUE) ELSE Asked(e.asks + 1, FALSE)
ByScript(s, log) ==
  /\ log # <<>> => log[1] = Asked(1, FALSE)
  /\ \A p \in DOMAIN log :
       /\ p % 2 = 0 => log[p] = Answer
       /\ p % 2 = 1 => log[p].asks \in 1..Len(FollowsUp[s])
       /\ p % 2 = 1 /\ p > 2 => log[p] = Follows(s, log[p - 2])
Whole(s, log) ==
  /\ ByScript(s, log) /\ log # <<>> /\ Len(log) % 2 = 0
  /\ Follows(s, log[Len(log) - 1]).asks > Len(FollowsUp[s])

\* As long as no two messages overlapped, no step failed and no session was
\* resumed by the command, a session follows its script, has asked every question
\* and had each answered when it is completed, sessions are completed in order and
\* one at a time, and the persona learns from each once, although all the code
\* keeps is the number of answers (persona_interview_agent.py:257).
InterviewsAreWhole ==
  ~interviewDisturbed =>
    /\ Cardinality(InProgress) <= 1
    /\ \A i \in DOMAIN interviews :
         /\ ByScript(interviews[i].session, interviews[i].log)
         /\ interviews[i].status = "completed" => Whole(interviews[i].session, interviews[i].log)
         /\ interviews[i].session > 1 /\ interviews[i].status # "archived" =>
              interviews[i].session - 1 \in CompletedSessions
    /\ \A i, j \in DOMAIN learned : i < j => learned[i] < learned[j]
=============================================================================
