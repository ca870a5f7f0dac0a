------------------------------- MODULE Wizards --------------------------------
(***************************************************************************)
(* The dashboard's creation wizards for skills, tools and agents           *)
(* (orchestration/api.py): describe, be interviewed by a model, review the *)
(* draft, save.  A session lives in a dictionary of the API process and    *)
(* has no owner check, no lock and no expiry.                              *)
(*                                                                         *)
(* Every handler awaits a model, the tool generator or the database, so    *)
(* requests on one session overlap; a handler keeps the session's object   *)
(* also when another has taken it out of the dictionary.                   *)
(***************************************************************************)
EXTENDS Naturals, FiniteSets

CONSTANTS
  Sessions,      \* ids of sessions
  Requests,      \* requests the API process handles at a time
  MaxAsked,      \* bound: questions a session collects
  MaxAnswers,    \* bound: answers a session collects
  WizardFaults   \* bound: failed calls and statements, restarts

ASSUME WizardBoundsAreNatural ==
  MaxAsked \in Nat \ {0} /\ MaxAnswers \in Nat /\ WizardFaults \in Nat
ASSUME RequestsAreFinite == Sessions # {} /\ IsFiniteSet(Requests)

VARIABLES
  wizard,       \* session -> its object, and whether the dictionary has it
  request,      \* request -> what it awaits, on which session
  stored,       \* session -> how often its draft was stored
  reported,     \* session -> how often a save of it was answered with success
  contested,    \* sessions whose saves overlapped, were cut off or failed unnoticed
  wizardFaults

wizardVars == <<wizard, request, stored, reported, contested, wizardFaults>>

NoWizard == [kind |-> "none", open |-> FALSE, asked |-> 0, answers |-> 0, draft |-> "none"]
NoRequest == [at |-> "idle", on |-> CHOOSE s \in Sessions : TRUE]

\* A draft of a tool can be the specification in place of the code, or hold what the
\* save refuses.
WizardTypeOK ==
  /\ wizard \in [Sessions -> [kind : {"none", "skill", "tool", "agent"}, open : BOOLEAN,
                              asked : 0..MaxAsked, answers : 0..MaxAnswers,
                              draft : {"none", "sound", "specification", "critical"}]]
  /\ request \in [Requests -> [at : {"idle", "starting", "asking", "generating",
                                     "storing", "ending"}, on : Sessions]]
  /\ stored \in [Sessions -> 0..Cardinality(Requests)]
  /\ reported \in [Sessions -> 0..Cardinality(Requests)]
  /\ contested \subseteq Sessions
  /\ wizardFaults \in 0..WizardFaults

WizardInit ==
  /\ wizard = [s \in Sessions |-> NoWizard]
  /\ request = [r \in Requests |-> NoRequest]
  /\ stored = [s \in Sessions |-> 0] /\ reported = [s \in Sessions |-> 0]
  /\ contested = {} /\ wizardFaults = 0

WizardFault == wizardFaults < WizardFaults /\ wizardFaults' = wizardFaults + 1

Awaits(r, s, what) == request' = [request EXCEPT ![r] = [at |-> what, on |-> s]]
Returns(r) == request' = [request EXCEPT ![r] = NoRequest]
\* The saves of s under way.
SavesOf(s) == {r \in Requests : request[r].on = s /\ request[r].at \in {"storing", "ending"}}
\* Sessions of kind k in the dictionary.
Open(s, k) == wizard[s].open /\ wizard[s].kind = k
NothingSaved == UNCHANGED <<stored, reported, contested>>

\* The session is in the dictionary before its first questions exist.
Begins(r, s, k) ==
  /\ request[r].at = "idle" /\ wizard[s].kind = "none"
  /\ wizard' = [wizard EXCEPT ![s] = [NoWizard EXCEPT !.kind = k, !.open = TRUE]]
  /\ Awaits(r, s, "starting")
  /\ NothingSaved /\ UNCHANGED wizardFaults

StartSkill(r, s) == Begins(r, s, "skill")
StartTool(r, s) == Begins(r, s, "tool")
StartAgent(r, s) == Begins(r, s, "agent")

\* What a model's reply adds: its numbered lines.  A tool's or an agent's first reply
\* without one is replaced by fixed questions.
Questions(r, n) ==
  LET s == request[r].on IN
  /\ request[r].at = "starting"
  /\ n = 0 => wizard[s].kind = "skill"
  /\ wizard' = [wizard EXCEPT ![s].asked = n]
  /\ Returns(r)
  /\ NothingSaved /\ UNCHANGED wizardFaults

\* A call to the model fails: the answer that led to it stays in the session, and a
\* session that could not start stays in the dictionary.
ModelFails(r) ==
  /\ request[r].at \in {"starting", "asking", "generating"}
  /\ WizardFault /\ Returns(r)
  /\ NothingSaved /\ UNCHANGED wizard

\* An answer is recorded; with enough of them the draft is made, else the model goes on.
Records(r, s, isEnough) ==
  /\ request[r].at = "idle" /\ wizard[s].answers < MaxAnswers
  /\ wizard' = [wizard EXCEPT ![s].answers = @ + 1]
  /\ Awaits(r, s, IF isEnough THEN "generating" ELSE "asking")
  /\ NothingSaved /\ UNCHANGED wizardFaults

\* A skill wants an answer to every question: to none, if none was asked yet.
AnswerSkill(r, s) ==
  Open(s, "skill") /\ Records(r, s, wizard[s].answers + 1 >= wizard[s].asked)
\* A tool and an agent want three answers.
AnswerTool(r, s) == Open(s, "tool") /\ Records(r, s, wizard[s].answers + 1 >= 3)
AnswerAgent(r, s) == Open(s, "agent") /\ Records(r, s, wizard[s].answers + 1 >= 3)

\* The model asks n more.
AsksOn(r, n) ==
  LET s == request[r].on IN
  /\ request[r].at = "asking" /\ wizard[s].asked + n <= MaxAsked
  /\ wizard' = [wizard EXCEPT ![s].asked = @ + n]
  /\ Returns(r)
  /\ NothingSaved /\ UNCHANGED wizardFaults

\* In a skill's interview it can say that it knows enough.
IsReady(r) ==
  /\ request[r].at = "asking" /\ wizard[request[r].on].kind = "skill"
  /\ Awaits(r, request[r].on, "generating")
  /\ NothingSaved /\ UNCHANGED <<wizard, wizardFaults>>

Drafts(r, draft) ==
  /\ wizard' = [wizard EXCEPT ![request[r].on].draft = draft]
  /\ Returns(r)
  /\ NothingSaved /\ UNCHANGED wizardFaults

Generating(r, k) == request[r].at = "generating" /\ wizard[request[r].on].kind = k

\* Without JSON in the reply the interview goes on.
GenerateSkill(r, parsed) ==
  /\ Generating(r, "skill")
  /\ Drafts(r, IF parsed THEN "sound" ELSE wizard[request[r].on].draft)

\* _extract_code_block finds the first fenced block whatever its language: in a reply
\* in the order asked for, the specification.
CodeIn(reply, code) == IF "specification" \in reply THEN "specification" ELSE code

GenerateTool(r, reply, code) ==
  Generating(r, "tool") /\ Drafts(r, CodeIn(reply, code))

\* What the model leaves out is filled in.
GenerateAgent(r) == Generating(r, "agent") /\ Drafts(r, "sound")

\* The files are written without a pause: there is nothing between check and deletion.
SaveSkill(s, edits) ==
  /\ Open(s, "skill")
  /\ wizard[s].draft # "none" \/ edits
  /\ wizard' = [wizard EXCEPT ![s].open = FALSE]
  /\ stored' = [stored EXCEPT ![s] = @ + 1]
  /\ reported' = [reported EXCEPT ![s] = @ + 1]
  /\ UNCHANGED <<request, contested, wizardFaults>>

\* A save that awaits its storage; another can be there already.
Saves(r, s) ==
  /\ request[r].at = "idle"
  /\ Awaits(r, s, "storing")
  /\ contested' = IF SavesOf(s) = {} THEN contested ELSE contested \union {s}
  /\ UNCHANGED <<stored, reported, wizardFaults>>

\* The code of the request, if it has any, is kept in the draft also when the save is
\* refused for what is in it.
SaveTool(r, s, code) ==
  LET draft == IF code = "none" THEN wizard[s].draft ELSE code IN
  /\ Open(s, "tool") /\ wizard[s].draft # "none"
  /\ wizard' = [wizard EXCEPT ![s].draft = draft]
  /\ IF draft = "critical" THEN NothingSaved /\ UNCHANGED <<request, wizardFaults>>
                           ELSE Saves(r, s)

SaveAgent(r, s) ==
  /\ Open(s, "agent") /\ wizard[s].draft # "none"
  /\ Saves(r, s) /\ UNCHANGED wizard

\* The agent's row is committed, or the tool is on disk and registered.
Stored(r) ==
  LET s == request[r].on IN
  /\ request[r].at = "storing"
  /\ stored' = [stored EXCEPT ![s] = @ + 1]
  /\ Awaits(r, s, "ending")
  /\ UNCHANGED <<wizard, reported, contested, wizardFaults>>

\* A bug: the session of a saved draft stays.
AnsweredAndKept(r) ==
  LET s == request[r].on IN
  /\ reported' = IF wizard[s].open THEN [reported EXCEPT ![s] = @ + 1] ELSE reported
  /\ UNCHANGED wizard
  /\ Returns(r)

\* The session leaves the dictionary with the success; if another request has taken
\* it out the deletion raises, and the save reports that it failed.
Answered(r) ==
  LET s == request[r].on IN
  /\ reported' = IF wizard[s].open THEN [reported EXCEPT ![s] = @ + 1] ELSE reported
  /\ wizard' = [wizard EXCEPT ![s].open = FALSE]
  /\ Returns(r)

EndSave(r) ==
  /\ request[r].at = "ending"
  /\ Answered(r)
  /\ UNCHANGED <<stored, contested, wizardFaults>>

\* The database refuses an agent, or its organisation is gone: nothing is stored, the
\* session stays for another try.
RefuseAgent(r) ==
  /\ request[r].at = "storing" /\ wizard[request[r].on].kind = "agent"
  /\ WizardFault /\ Returns(r)
  /\ UNCHANGED <<wizard, stored, reported, contested>>

\* The generator refuses a tool by a text that begins with "Error": the save reports
\* success all the same.
RefuseTool(r) ==
  /\ request[r].at = "storing" /\ wizard[request[r].on].kind = "tool"
  /\ Answered(r)
  /\ contested' = contested \union {request[r].on}
  /\ UNCHANGED <<stored, wizardFaults>>

Cancels(s, k) ==
  /\ Open(s, k)
  /\ wizard' = [wizard EXCEPT ![s].open = FALSE]
  /\ contested' = IF SavesOf(s) = {} THEN contested ELSE contested \union {s}
  /\ UNCHANGED <<request, stored, reported, wizardFaults>>

CancelSkill(s) == Cancels(s, "skill")
CancelTool(s) == Cancels(s, "tool")
CancelAgent(s) == Cancels(s, "agent")

\* The API process starts again with empty dictionaries.
WizardRestart ==
  /\ WizardFault
  /\ wizard' = [s \in Sessions |-> [wizard[s] EXCEPT !.open = FALSE]]
  /\ request' = [r \in Requests |-> NoRequest]
  /\ contested' = contested \union {s \in Sessions : SavesOf(s) # {}}
  /\ UNCHANGED <<stored, reported>>

WizardNext ==
  \/ \E r \in Requests :
       \/ \E s \in Sessions :
            \/ StartSkill(r, s) \/ StartTool(r, s) \/ StartAgent(r, s)
            \/ AnswerSkill(r, s) \/ AnswerTool(r, s) \/ AnswerAgent(r, s)
            \/ \E code \in {"none", "sound", "critical"} : SaveTool(r, s, code)
            \/ SaveAgent(r, s)
       \/ \E n \in 0..MaxAsked : Questions(r, n) \/ AsksOn(r, n)
       \/ IsReady(r) \/ ModelFails(r)
       \/ \E parsed \in BOOLEAN : GenerateSkill(r, parsed)
       \/ \E reply \in SUBSET {"specification"}, code \in {"sound", "critical"} :
            GenerateTool(r, reply, code)
       \/ GenerateAgent(r)
       \/ Stored(r) \/ EndSave(r) \/ RefuseAgent(r) \/ RefuseTool(r)
  \/ \E s \in Sessions :
       \/ \E edits \in BOOLEAN : SaveSkill(s, edits)
       \/ CancelSkill(s) \/ CancelTool(s) \/ CancelAgent(s)
  \/ WizardRestart

WizardSpec == WizardInit /\ [][WizardNext]_wizardVars

(***************************************************************************)
(* Properties.                                                             *)
(***************************************************************************)

\* The answer to a save is true: while no save of a session is under way, what was
\* stored of it is what was reported, at most once, and a session that can still be
\* saved has stored nothing -- unless two saves of it overlapped, it was cancelled or
\* the process ended during one, or the tool generator refused by text.
SavesAreTold ==
  \A s \in Sessions \ contested :
    SavesOf(s) = {} => /\ stored[s] = reported[s] /\ stored[s] <= 1
                       /\ wizard[s].open => stored[s] = 0
=============================================================================
