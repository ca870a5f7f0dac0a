------------------------------ MODULE BrowserGate ------------------------------
(***************************************************************************)
(* Browser runs and the owner's approval of what they write on sites:      *)
(* integrations/browser_use_runner.py and security/browser_action_gate.py. *)
(*                                                                         *)
(* One run has the browser at a time.  Before a step is carried out each   *)
(* of its actions the gate takes for a write asks the owner under an id of *)
(* its own and waits on the Redis list of that id; every other action is   *)
(* let through.  A run that fails in a way that may pass starts once more  *)
(* from the beginning.                                                     *)
(***************************************************************************)
EXTENDS Naturals, Sequences, FiniteSets

CONSTANTS
  BrowserRuns,    \* calls of browse_web
  NoRun,
  RequestLimit,   \* bound: approvals ever asked for
  PressLimit      \* bound: presses of the buttons of one prompt

ASSUME NoRunIsNoRun == NoRun \notin BrowserRuns
ASSUME BrowserBounds == RequestLimit \in Nat /\ PressLimit \in Nat

VARIABLES
  browser,     \* the run that has _BROWSER_SEMAPHORE
  browse,      \* what each run does
  asked,       \* requests so far: the run and the attempt that asked
  decisions,   \* the list of each request
  prompted,    \* requests whose prompt reached the owner
  pressed,     \* history: what the owner pressed, in order
  performed,   \* history: how often each write was carried out on a site
  unasked,     \* runs with a write in this step that the gate took for none
  refused,     \* history: runs the owner refused a write
  browserTickets \* runs with a repair ticket

browserVars == <<browser, browse, asked, decisions, prompted, pressed, performed, unasked,
                 refused, browserTickets>>

Requests == 1..RequestLimit
Kinds == {"login", "drift", "timeout", "unknown"}
Retryable == {"drift", "timeout"}
NotStarted == [at |-> "new", attempt |-> 0, gated |-> {}, request |-> 0, kind |-> "unknown"]

BrowseStages == {"new", "running", "waiting", "failed", "over"}
BrowseStates == [at : BrowseStages, attempt : 0..2, gated : SUBSET Requests,
                 request : 0..RequestLimit, kind : Kinds]
Asks == [run : BrowserRuns, attempt : 0..2]
Presses == {"approve", "reject"}

\* What a step may write with: a verb of WRITE_ACTION_VERBS, a click or key press
\* whose arguments give a label or only an index, or any other action (send_keys,
\* save_text_to_drive).
Actions == [name : {"write_verb", "click", "press_key", "other"}, label : {"hint", "none"}]

IsWriteAction(action) ==
  \/ action.name = "write_verb"
  \/ action.name \in {"click", "press_key"} /\ action.label = "hint"

BrowserTypeOK ==
  /\ browser \in BrowserRuns \union {NoRun}
  /\ browse \in [BrowserRuns -> BrowseStates]
  /\ asked \in Seq(Asks) /\ Len(asked) <= RequestLimit
  /\ prompted \subseteq Requests
  /\ decisions \in [Requests -> Seq(Presses)] /\ pressed \in [Requests -> Seq(Presses)]
  /\ performed \in [Requests -> Nat]
  /\ unasked \subseteq BrowserRuns
  /\ refused \subseteq BrowserRuns /\ browserTickets \subseteq BrowserRuns

BrowserInit ==
  /\ browser = NoRun
  /\ browse = [r \in BrowserRuns |-> NotStarted]
  /\ asked = <<>> /\ prompted = {} /\ performed = [q \in Requests |-> 0]
  /\ decisions = [q \in Requests |-> <<>>] /\ pressed = [q \in Requests |-> <<>>]
  /\ unasked = {} /\ refused = {} /\ browserTickets = {}

\* The step under way is carried out or given up.
StepIsOver(r) == unasked' = unasked \ {r}

FailsAs(r, k) ==
  /\ browse' = [browse EXCEPT ![r] = [@ EXCEPT !.at = "failed", !.kind = k, !.gated = {}]]
  /\ StepIsOver(r)

PromptsUntouched == UNCHANGED <<asked, decisions, prompted, pressed>>
OwnerUntouched == UNCHANGED <<refused, browserTickets>>

\* run: takes the semaphore and makes its first attempt.
StartBrowsing(r) ==
  /\ browse[r].at = "new" /\ browser = NoRun
  /\ browser' = r
  /\ browse' = [browse EXCEPT ![r] = [NotStarted EXCEPT !.at = "running", !.attempt = 1]]
  /\ StepIsOver(r)
  /\ UNCHANGED performed /\ PromptsUntouched /\ OwnerUntouched

\* _step_gate_hook meets what the gate takes for a write: request_browser_approval
\* sends the prompt, or is denied under the kind that classify_failure reads out of
\* the error's text.
AskOwner(r, action) ==
  /\ browse[r].at = "running" /\ IsWriteAction(action) /\ Len(asked) < RequestLimit
  /\ asked' = Append(asked, [run |-> r, attempt |-> browse[r].attempt])
  /\ \/ /\ prompted' = prompted \union {Len(asked')}
        /\ browse' = [browse EXCEPT ![r] = [@ EXCEPT !.at = "waiting", !.request = Len(asked')]]
        /\ UNCHANGED unasked
     \/ \E kind \in {"timeout", "unknown"} : FailsAs(r, kind) /\ UNCHANGED prompted
  /\ UNCHANGED <<browser, decisions, pressed, performed>> /\ OwnerUntouched

\* ... or a write the gate does not recognise, which it lets through.
LetThrough(r, action) ==
  /\ browse[r].at = "running" /\ ~IsWriteAction(action)
  /\ unasked' = unasked \union {r}
  /\ UNCHANGED <<browser, browse, performed>> /\ PromptsUntouched /\ OwnerUntouched

\* A press of a button, at any time while the message has its buttons.
Press(q, decision) ==
  /\ q \in prompted /\ Len(pressed[q]) < PressLimit
  /\ pressed' = [pressed EXCEPT ![q] = Append(@, decision)]
  /\ decisions' = [decisions EXCEPT ![q] = Append(@, decision)]
  /\ UNCHANGED <<browser, browse, asked, prompted, performed, unasked>> /\ OwnerUntouched

\* The buttons go, and lists expire.
PromptEdited(q) ==
  /\ q \in prompted /\ pressed[q] # <<>>
  /\ prompted' = prompted \ {q}
  /\ UNCHANGED <<browser, browse, asked, decisions, pressed, performed, unasked>>
  /\ OwnerUntouched

\* A read from the other end of the list.
ReceivedNewest(r) ==
  decisions[browse[r].request][Len(decisions[browse[r].request])]

\* BLPOP answers with the oldest decision.
Received(r) == Head(decisions[browse[r].request])

Decided(r) ==
  LET q == browse[r].request
  IN  /\ browse[r].at = "waiting" /\ decisions[q] # <<>>
      /\ decisions' = [decisions EXCEPT ![q] = Tail(@)]
      /\ IF Received(r) = "approve"
         THEN /\ browse' = [browse EXCEPT
                   ![r] = [@ EXCEPT !.at = "running", !.gated = browse[r].gated \union {q}]]
              /\ UNCHANGED <<refused, unasked>>
         ELSE /\ FailsAs(r, "unknown")
              /\ refused' = refused \union {r}
      /\ UNCHANGED <<browser, asked, prompted, pressed, performed, browserTickets>>

\* No answer came or Redis failed.
ApprovalFails(r, kind) ==
  /\ browse[r].at = "waiting" /\ kind \in {"timeout", "unknown"}
  /\ FailsAs(r, kind)
  /\ UNCHANGED <<browser, performed>> /\ PromptsUntouched /\ OwnerUntouched

\* Chromium carries out the step whose writes have all been let through.
PerformStep(r) ==
  /\ browse[r].at = "running"
  /\ browse[r].gated # {} \/ r \in unasked
  /\ performed' = [q \in Requests |->
       IF q \in browse[r].gated THEN performed[q] + 1 ELSE performed[q]]
  /\ browse' = [browse EXCEPT ![r].gated = {}]
  /\ StepIsOver(r)
  /\ UNCHANGED browser /\ PromptsUntouched /\ OwnerUntouched

\* The site, the model or the time limit of the whole run.
BrowsingFails(r, kind) ==
  /\ browse[r].at \in {"running", "waiting"}
  /\ browse[r].at = "waiting" => kind = "timeout"
  /\ FailsAs(r, kind)
  /\ UNCHANGED <<browser, performed>> /\ PromptsUntouched /\ OwnerUntouched

\* _run_with_targeted_retry: a second attempt begins from nothing ...
RetryBrowsing(r) ==
  /\ browse[r].at = "failed" /\ browse[r].attempt < 2 /\ browse[r].kind \in Retryable
  /\ browse' = [browse EXCEPT ![r] = [NotStarted EXCEPT !.at = "running", !.attempt = 2]]
  /\ StepIsOver(r)
  /\ UNCHANGED <<browser, performed>> /\ PromptsUntouched /\ OwnerUntouched

\* ... or the run ends with a repair ticket, a refused one too.
GiveUpBrowsing(r) ==
  /\ browse[r].at = "failed"
  /\ browse[r].attempt = 2 \/ browse[r].kind \notin Retryable
  /\ browserTickets' = browserTickets \union {r}
  /\ browser' = NoRun
  /\ browse' = [browse EXCEPT ![r] = [NotStarted EXCEPT !.at = "over"]]
  /\ StepIsOver(r)
  /\ UNCHANGED <<performed, refused>> /\ PromptsUntouched

\* The run returns, or the turn that called it is cancelled.
BrowsingEnds(r) ==
  /\ browse[r].at \in {"running", "waiting", "failed"}
  /\ browser' = NoRun
  /\ browse' = [browse EXCEPT ![r] = [NotStarted EXCEPT !.at = "over"]]
  /\ StepIsOver(r)
  /\ UNCHANGED performed /\ PromptsUntouched /\ OwnerUntouched

BrowserNext ==
  \/ \E r \in BrowserRuns :
       \/ StartBrowsing(r) \/ Decided(r) \/ PerformStep(r)
       \/ \E action \in Actions : AskOwner(r, action) \/ LetThrough(r, action)
       \/ \E kind \in Kinds : ApprovalFails(r, kind) \/ BrowsingFails(r, kind)
       \/ RetryBrowsing(r) \/ GiveUpBrowsing(r) \/ BrowsingEnds(r)
  \/ \E q \in Requests : PromptEdited(q) \/ \E decision \in Presses : Press(q, decision)

BrowserSpec == BrowserInit /\ [][BrowserNext]_browserVars

(***************************************************************************)
(* Properties.                                                             *)
(***************************************************************************)

\* A write the gate recognises is carried out for a request of its own whose first
\* answer was yes, once, and in the attempt that asked; and nothing of a run, whether
\* recognised or not, is carried out after the owner refused one of its writes,
\* whatever is pressed late or twice and however often the run starts again.
WritesAreApproved ==
  /\ \A q \in Requests : performed[q] > 0 => pressed[q] # <<>> /\ pressed[q][1] = "approve"
  /\ \A q \in Requests : performed[q] <= 1
  /\ \A r \in BrowserRuns : browse[r].gated # {} \/ r \in unasked =>
       /\ browser = r /\ r \notin refused
       /\ \A q \in browse[r].gated : asked[q] = [run |-> r, attempt |-> browse[r].attempt]
  /\ \A r \in refused : browse[r].at \in {"failed", "over"}
=============================================================================
