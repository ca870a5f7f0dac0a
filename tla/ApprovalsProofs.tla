--------------------------- MODULE ApprovalsProofs ---------------------------
(***************************************************************************)
(* What the owner is asked before it is done, for any constants: mails and *)
(* tasks drafted in a turn, the writes of a browser run and, from          *)
(* RepairProofs, patches; at the end, the parts of ApprovalsMC as one      *)
(* system.                                                                 *)
(***************************************************************************)
EXTENDS ApprovalsMC, RepairProofs, TLAPS

-----------------------------------------------------------------------------
(* Pending actions: for any number of background turns, drafts and tasks,  *)
(* what waits for a yes is carried out by one call.                        *)
(*                                                                         *)
(* Only the user's own turn confirms, so at most one turn carries anything *)
(* out.  While an outcome is on record, a draft that was delivered is in   *)
(* its key only as long as the turn that delivered it has to try again or  *)
(* to clear it, and a turn has delivered less often than it has tried.     *)

CarriesOut(t) == pendingTurn[t].at \in {"sending", "sent", "adding", "added"}
WorksOnDraft(t) == pendingTurn[t].at \in {"revising", "sending", "sent"}
WorksOnTask(t) == pendingTurn[t].at \in {"adding", "added"}

\* A job's prompt confirms nothing.
JobsConfirmNothing ==
  \A t \in JobTurns : ~CarriesOut(t) /\ pendingTurn[t].says \notin Confirms

\* Drafts and tasks are numbered as they come, and what a turn works on has a number.
Numbered(t) ==
  /\ pendingTurn[t].draft.id <= drafts /\ pendingTurn[t].wish <= wishes
  /\ WorksOnDraft(t) => pendingTurn[t].draft.id > 0
  /\ WorksOnTask(t) => pendingTurn[t].wish > 0

KeysAreNumbered ==
  /\ draft.id <= drafts /\ (draft.id = 0 => draft = NoDraft)
  /\ wish <= wishes

NewNumbersAreUnused ==
  /\ \A d \in 1..DraftLimit : d > drafts => sends[d] = 0
  /\ \A w \in 1..WishLimit : w > wishes => adds[w] = 0

NumbersAreUsed ==
  /\ \A t \in PendingTurns : Numbered(t)
  /\ KeysAreNumbered
  /\ NewNumbersAreUnused

UserMailIs(stage, d) == pendingTurn[UserTurn].at = stage /\ pendingTurn[UserTurn].draft.id = d
UserTaskIs(stage, w) == pendingTurn[UserTurn].at = stage /\ pendingTurn[UserTurn].wish = w

DraftIsOnRecord(d) ==
  /\ sends[d] <= CallAttempts
  /\ sends[d] > 1 => d \in repeatedDrafts
  /\ sends[d] # 0 /\ draft.id = d => UserMailIs("sending", d) \/ UserMailIs("sent", d)
  /\ UserMailIs("sending", d) =>
       /\ sends[d] < pendingTurn[UserTurn].tries
       /\ sends[d] > 0 => d \in repeatedDrafts

TaskIsOnRecord(w) ==
  /\ adds[w] <= CallAttempts
  /\ adds[w] > 1 => w \in repeatedTasks
  /\ adds[w] # 0 /\ wish = w => UserTaskIs("adding", w) \/ UserTaskIs("added", w)
  /\ UserTaskIs("adding", w) =>
       /\ adds[w] < pendingTurn[UserTurn].tries
       /\ adds[w] > 0 => w \in repeatedTasks

DraftsOnRecord == \A d \in 1..DraftLimit : d \in unsureDrafts \/ DraftIsOnRecord(d)
TasksOnRecord == \A w \in 1..WishLimit : w \in unsureTasks \/ TaskIsOnRecord(w)

PInv ==
  /\ PendingTypeOK
  /\ JobsConfirmNothing
  /\ NumbersAreUsed
  /\ DraftsOnRecord
  /\ TasksOnRecord

-----------------------------------------------------------------------------
\* What is stored and what turns return to is well typed.
LEMMA RestingStates == NoDraft \in Drafts /\ IdleTurn \in TurnStates
BY PendingBounds DEF NoDraft, IdleTurn, Drafts, Recipients, TurnStates, TurnStages, Says, Confirms

\* A revision within the bound is a draft.
LEMMA RevisedDrafts ==
  ASSUME NEW d \in Drafts, d.version < VersionLimit, NEW to \in Recipients
  PROVE  [d EXCEPT !.version = @ + 1, !.to = to] \in Drafts
<1>1. d.version + 1 \in 0..VersionLimit
  BY PendingBounds DEF Drafts
<1>2. ASSUME NEW v \in 0..VersionLimit PROVE [d EXCEPT !.version = v, !.to = to] \in Drafts
  BY DEF Drafts
<1> QED
  BY <1>1, <1>2

\* Nothing waits and nothing was carried out at the start.
LEMMA PendingStartsSafe == PendingInit => PInv
<1> SUFFICES ASSUME PendingInit PROVE PInv
  OBVIOUS
<1>1. PendingTypeOK
  BY PendingBounds, RestingStates DEF PendingInit, PendingTypeOK
<1>2. JobsConfirmNothing
  BY DEF PendingInit, JobsConfirmNothing, CarriesOut, IdleTurn, PendingTurns, Confirms
<1>3. NumbersAreUsed
  BY PendingBounds
     DEF PendingInit, NumbersAreUsed, Numbered, KeysAreNumbered, NewNumbersAreUnused,
         IdleTurn, NoDraft, WorksOnDraft, WorksOnTask, PendingTurns
<1>4. DraftsOnRecord /\ TasksOnRecord
  BY PendingBounds
     DEF PendingInit, DraftsOnRecord, TasksOnRecord, DraftIsOnRecord, TaskIsOnRecord,
         UserMailIs, UserTaskIs, IdleTurn, PendingTurns
<1> QED
  BY <1>1, <1>2, <1>3, <1>4 DEF PInv

\* What holds of every draft and task on record gives the property.
LEMMA PInvImplies == PInv => CarriedOutOnce
<1>1. PendingTypeOK => sends \in [1..DraftLimit -> Nat] /\ adds \in [1..WishLimit -> Nat]
  BY DEF PendingTypeOK
<1> QED
  BY <1>1 DEF PInv, DraftsOnRecord, TasksOnRecord, DraftIsOnRecord, TaskIsOnRecord, CarriedOutOnce

\* Every step keeps the types of the draft and of the turns.
LEMMA StepsKeepTurnTypes ==
  ASSUME PendingTypeOK, [PendingNext]_pendingVars
  PROVE  draft' \in Drafts /\ pendingTurn' \in [PendingTurns -> TurnStates]
<1> DEFINE Kept == draft' \in Drafts /\ pendingTurn' \in [PendingTurns -> TurnStates]
<1> USE RestingStates, PendingBounds
        DEF PendingTypeOK, Replies, TurnTo
<1>a. \A t \in PendingTurns, stage \in TurnStages :
        TurnTo(t, stage) => pendingTurn' \in [PendingTurns -> TurnStates]
  <2> SUFFICES ASSUME NEW t \in PendingTurns, NEW stage \in TurnStages, TurnTo(t, stage)
               PROVE  pendingTurn' \in [PendingTurns -> TurnStates]
    OBVIOUS
  <2>1. [pendingTurn[t] EXCEPT !.at = stage] \in TurnStates
    BY DEF TurnStates
  <2> QED
    BY <2>1
<1>b. ASSUME NEW t \in PendingTurns, NEW stage \in TurnStages, NEW answer,
             CallGoesOn(t, stage, answer)
      PROVE  pendingTurn' \in [PendingTurns -> TurnStates]
  <2>1. CASE TriesAgain(t, answer) /\ pendingTurn' = [pendingTurn EXCEPT ![t].tries = @ + 1]
    <3>1. pendingTurn[t].tries + 1 \in 1..CallAttempts
      BY <2>1 DEF TriesAgain, TurnStates
    <3>2. ASSUME NEW n \in 1..CallAttempts
          PROVE  [pendingTurn EXCEPT ![t].tries = n] \in [PendingTurns -> TurnStates]
      BY DEF TurnStates
    <3> QED
      BY <2>1, <3>1, <3>2
  <2> QED
    BY <1>a, <1>b, <2>1 DEF CallGoesOn
<1>1. ASSUME NEW t \in PendingTurns, NEW says \in Says, BeginPendingTurn(t, says) PROVE Kept
  BY <1>1 DEF BeginPendingTurn, IdleTurn, TurnStates, TurnStages
<1>2. ASSUME NEW t \in PendingTurns, CheckDraft(t) PROVE Kept
  <2>1. \/ \E stage \in {"revising", "sending"} :
             pendingTurn' = [pendingTurn EXCEPT ![t] = [@ EXCEPT !.at = stage, !.draft = draft]]
        \/ Replies(t) \/ TurnTo(t, "tasks")
    BY <1>2 DEF CheckDraft
  <2>2. draft' = draft
    BY <1>2 DEF CheckDraft
  <2>3. \A stage \in TurnStages :
          [pendingTurn[t] EXCEPT !.at = stage, !.draft = draft] \in TurnStates
    BY DEF TurnStates
  <2>4. CASE TurnTo(t, "tasks")
    BY <1>a, <2>2, <2>4 DEF TurnStages
  <2>5. CASE ~TurnTo(t, "tasks")
    BY <2>1, <2>2, <2>3, <2>5 DEF TurnStages
  <2> QED
    BY <2>4, <2>5
<1>3. ASSUME NEW t \in PendingTurns, ReviseDraft(t) PROVE Kept
  <2>a. pendingTurn[t].draft \in Drafts
    BY DEF TurnStates
  <2>b. pendingTurn[t].draft.version < VersionLimit
    BY <1>3 DEF ReviseDraft
  <2>c. \E to \in {"named", pendingTurn[t].draft.to} :
          draft' = [pendingTurn[t].draft EXCEPT !.version = @ + 1, !.to = to]
    BY <1>3 DEF ReviseDraft
  <2>d. {"named", pendingTurn[t].draft.to} \subseteq Recipients
    BY <2>a DEF Drafts, Recipients
  <2>1. draft' \in Drafts
    BY <2>a, <2>b, <2>c, <2>d, RevisedDrafts
  <2> QED
    BY <1>3, <2>1 DEF ReviseDraft
<1>4. ASSUME NEW t \in PendingTurns, NEW delivers \in BOOLEAN, NEW answer \in Answers,
             SendMail(t, delivers, answer)
      PROVE  Kept
  BY <1>4, <1>b DEF SendMail, TurnStages
<1>5. ASSUME NEW t \in PendingTurns, ClearDraft(t) PROVE Kept
  BY <1>5 DEF ClearDraft
<1>6. ASSUME NEW t \in PendingTurns, ClearDraftFails(t) PROVE Kept
  BY <1>6 DEF ClearDraftFails
<1>7. ASSUME NEW t \in PendingTurns, CheckTask(t) PROVE Kept
  <2>1. \/ pendingTurn' = [pendingTurn EXCEPT ![t] = [@ EXCEPT !.at = "adding", !.wish = wish]]
        \/ Replies(t)
        \/ TurnTo(t, "agent")
    BY <1>7 DEF CheckTask
  <2>2. draft' = draft
    BY <1>7 DEF CheckTask
  <2>3. [pendingTurn[t] EXCEPT !.at = "adding", !.wish = wish] \in TurnStates
    BY DEF TurnStates, TurnStages
  <2> QED
    BY <1>a, <2>1, <2>2, <2>3 DEF TurnStages
<1>8. ASSUME NEW t \in PendingTurns, NEW delivers \in BOOLEAN, NEW answer \in Answers,
             AddTask(t, delivers, answer)
      PROVE  Kept
  BY <1>8, <1>b DEF AddTask, TurnStages
<1>9. ASSUME NEW t \in PendingTurns, ClearWish(t) PROVE Kept
  BY <1>9 DEF ClearWish
<1>10. ASSUME NEW t \in PendingTurns, ClearWishFails(t) PROVE Kept
  BY <1>10 DEF ClearWishFails
<1>11. ASSUME NEW t \in PendingTurns, NEW presents \in BOOLEAN, NEW to \in Recipients,
             AgentAnswers(t, presents, to)
      PROVE  Kept
  <2>1. draft' \in Drafts
    BY <1>11 DEF AgentAnswers, Drafts
  <2> QED
    BY <1>11, <2>1 DEF AgentAnswers
<1>12. ASSUME NEW t \in PendingTurns, PendingTurnDies(t) PROVE Kept
  BY <1>12 DEF PendingTurnDies
<1>13. ASSUME OfferExpires PROVE Kept
  BY <1>13 DEF OfferExpires
<1>14. CASE UNCHANGED pendingVars
  BY <1>14 DEF pendingVars
<1> QED
  BY <1>1, <1>2, <1>3, <1>4, <1>5, <1>6, <1>7, <1>8, <1>9, <1>10, <1>11, <1>12, <1>13, <1>14
     DEF PendingNext

\* What a turn works on has a number in range.
LEMMA TurnNumbers ==
  ASSUME PendingTypeOK, NEW t \in PendingTurns
  PROVE  /\ pendingTurn[t].draft.id \in 0..DraftLimit /\ pendingTurn[t].wish \in 0..WishLimit
         /\ draft.id \in 0..DraftLimit /\ pendingTurn[t].at \in TurnStages
<1>1. pendingTurn[t] \in TurnStates /\ draft \in Drafts
  BY DEF PendingTypeOK
<1>2. pendingTurn[t].draft \in Drafts
  BY <1>1 DEF TurnStates
<1> QED
  BY <1>1, <1>2 DEF TurnStates, Drafts

\* Every step keeps the types of the counters and histories.
LEMMA StepsKeepCountTypes ==
  ASSUME PendingTypeOK, NumbersAreUsed, [PendingNext]_pendingVars
  PROVE  /\ wish' \in 0..WishLimit
         /\ drafts' \in 0..DraftLimit /\ wishes' \in 0..WishLimit
         /\ sends' \in [1..DraftLimit -> Nat] /\ adds' \in [1..WishLimit -> Nat]
         /\ unsureDrafts' \subseteq 1..DraftLimit /\ unsureTasks' \subseteq 1..WishLimit
         /\ repeatedDrafts' \subseteq 1..DraftLimit /\ repeatedTasks' \subseteq 1..WishLimit
         /\ confirmFaults' \in 0..ConfirmFaults
<1> DEFINE Counted == /\ wish \in 0..WishLimit
                      /\ drafts \in 0..DraftLimit /\ wishes \in 0..WishLimit
                      /\ sends \in [1..DraftLimit -> Nat] /\ adds \in [1..WishLimit -> Nat]
                      /\ unsureDrafts \subseteq 1..DraftLimit
                      /\ unsureTasks \subseteq 1..WishLimit
                      /\ repeatedDrafts \subseteq 1..DraftLimit
                      /\ repeatedTasks \subseteq 1..WishLimit
                      /\ confirmFaults \in 0..ConfirmFaults
           Kept == Counted'
<1>a. Counted
  BY DEF PendingTypeOK
<1>b. \A t \in PendingTurns :
        /\ WorksOnDraft(t) => pendingTurn[t].draft.id \in 1..DraftLimit
        /\ WorksOnTask(t) => pendingTurn[t].wish \in 1..WishLimit
  BY TurnNumbers, PendingBounds DEF NumbersAreUsed, Numbered
<1>c. ASSUME NEW t \in PendingTurns
      PROVE  /\ LeftUnsure(t, {"sending", "sent"}, pendingTurn[t].draft.id, sends)
                  \subseteq 1..DraftLimit
             /\ LeftUnsure(t, {"sent"}, pendingTurn[t].draft.id, sends) \subseteq 1..DraftLimit
             /\ LeftUnsure(t, {"adding", "added"}, pendingTurn[t].wish, adds)
                  \subseteq 1..WishLimit
             /\ LeftUnsure(t, {"added"}, pendingTurn[t].wish, adds) \subseteq 1..WishLimit
  BY <1>b DEF LeftUnsure, WorksOnDraft, WorksOnTask
<1> USE <1>a, PendingBounds
        DEF RemoteUntouched, MailUntouched, TasksUntouched, CountersUntouched, ConfirmFault
<1>1. ASSUME NEW t \in PendingTurns, NEW says \in Says, BeginPendingTurn(t, says) PROVE Kept
  BY <1>1 DEF BeginPendingTurn
<1>2. ASSUME NEW t \in PendingTurns, CheckDraft(t) PROVE Kept
  BY <1>2 DEF CheckDraft
<1>3. ASSUME NEW t \in PendingTurns, ReviseDraft(t) PROVE Kept
  <2>1. WorksOnDraft(t) /\ draft'.id = pendingTurn[t].draft.id
    <3>1. pendingTurn[t].draft \in Drafts
      BY DEF PendingTypeOK, TurnStates
    <3> QED
      BY <1>3, <3>1 DEF ReviseDraft, WorksOnDraft, Drafts
  <2> QED
    BY <1>3, <2>1, <1>b DEF ReviseDraft
<1>4. ASSUME NEW t \in PendingTurns, NEW delivers \in BOOLEAN, NEW answer \in Answers,
             SendMail(t, delivers, answer)
      PROVE  Kept
  <2>1. pendingTurn[t].draft.id \in 1..DraftLimit
    BY <1>4, <1>b DEF SendMail, WorksOnDraft
  <2>2. sends' \in [1..DraftLimit -> Nat]
    <3>1. sends[pendingTurn[t].draft.id] + 1 \in Nat
      BY <2>1
    <3>2. \/ sends' = [sends EXCEPT ![pendingTurn[t].draft.id] = @ + 1]
          \/ sends' = [sends EXCEPT ![pendingTurn[t].draft.id] = @]
      BY <1>4 DEF SendMail
    <3> QED
      BY <2>1, <3>1, <3>2
  <2>3. repeatedDrafts' \subseteq 1..DraftLimit /\ unsureDrafts' \subseteq 1..DraftLimit
    BY <1>4, <2>1 DEF SendMail
  <2>4. confirmFaults' \in 0..ConfirmFaults
    BY <1>4 DEF SendMail
  <2> QED
    BY <1>4, <2>2, <2>3, <2>4 DEF SendMail
<1>5. ASSUME NEW t \in PendingTurns, ClearDraft(t) PROVE Kept
  BY <1>5 DEF ClearDraft
<1>6. ASSUME NEW t \in PendingTurns, ClearDraftFails(t) PROVE Kept
  <2>1. unsureDrafts' \subseteq 1..DraftLimit
    BY <1>6, <1>c DEF ClearDraftFails
  <2> QED
    BY <1>6, <2>1 DEF ClearDraftFails
<1>7. ASSUME NEW t \in PendingTurns, CheckTask(t) PROVE Kept
  <2>1. /\ wish' \in 0..WishLimit
        /\ wishes' \in 0..WishLimit
    BY <1>7 DEF CheckTask
  <2> QED
    BY <1>7, <2>1 DEF CheckTask
<1>8. ASSUME NEW t \in PendingTurns, NEW delivers \in BOOLEAN, NEW answer \in Answers,
             AddTask(t, delivers, answer)
      PROVE  Kept
  <2>1. pendingTurn[t].wish \in 1..WishLimit
    BY <1>8, <1>b DEF AddTask, WorksOnTask
  <2>2. adds' \in [1..WishLimit -> Nat]
    BY <1>8, <2>1 DEF AddTask
  <2>3. repeatedTasks' \subseteq 1..WishLimit /\ unsureTasks' \subseteq 1..WishLimit
    BY <1>8, <2>1 DEF AddTask
  <2>4. confirmFaults' \in 0..ConfirmFaults
    BY <1>8 DEF AddTask
  <2> QED
    BY <1>8, <2>2, <2>3, <2>4 DEF AddTask
<1>9. ASSUME NEW t \in PendingTurns, ClearWish(t) PROVE Kept
  BY <1>9 DEF ClearWish
<1>10. ASSUME NEW t \in PendingTurns, ClearWishFails(t) PROVE Kept
  <2>1. unsureTasks' \subseteq 1..WishLimit
    BY <1>10, <1>c DEF ClearWishFails
  <2> QED
    BY <1>10, <2>1 DEF ClearWishFails
<1>11. ASSUME NEW t \in PendingTurns, NEW presents \in BOOLEAN, NEW to \in Recipients,
             AgentAnswers(t, presents, to)
      PROVE  Kept
  BY <1>11 DEF AgentAnswers
<1>12. ASSUME NEW t \in PendingTurns, PendingTurnDies(t) PROVE Kept
  <2>1. /\ unsureDrafts' \subseteq 1..DraftLimit
        /\ unsureTasks' \subseteq 1..WishLimit
    BY <1>12, <1>c DEF PendingTurnDies
  <2> QED
    BY <1>12, <2>1 DEF PendingTurnDies
<1>13. ASSUME OfferExpires PROVE Kept
  BY <1>13 DEF OfferExpires
<1>14. CASE UNCHANGED pendingVars
  BY <1>14 DEF pendingVars
<1> QED
  BY <1>1, <1>2, <1>3, <1>4, <1>5, <1>6, <1>7, <1>8, <1>9, <1>10, <1>11, <1>12, <1>13, <1>14
     DEF PendingNext

\* What the helpers of the actions do to the turns.
LEMMA RepliesEffect ==
  ASSUME PendingTypeOK, NEW t \in PendingTurns, Replies(t)
  PROVE  /\ pendingTurn'[t].at = "idle" /\ pendingTurn'[t].says = "other"
         /\ pendingTurn'[t].draft.id = 0 /\ pendingTurn'[t].wish = 0
         /\ \A u \in PendingTurns \ {t} : pendingTurn'[u] = pendingTurn[u]
BY DEF PendingTypeOK, Replies, IdleTurn, NoDraft

\* A turn that goes on keeps what it read.
LEMMA TurnToEffect ==
  ASSUME PendingTypeOK, NEW t \in PendingTurns, NEW stage, TurnTo(t, stage)
  PROVE  /\ pendingTurn'[t].at = stage /\ pendingTurn'[t].says = pendingTurn[t].says
         /\ pendingTurn'[t].draft = pendingTurn[t].draft
         /\ pendingTurn'[t].wish = pendingTurn[t].wish
         /\ \A u \in PendingTurns \ {t} : pendingTurn'[u] = pendingTurn[u]
BY DEF PendingTypeOK, TurnTo, TurnStates

\* A call is tried again by the same turn, taken for done, or answered.
LEMMA CallEffect ==
  ASSUME PendingTypeOK, NEW t \in PendingTurns, NEW stage, NEW answer,
         CallGoesOn(t, stage, answer)
  PROVE  /\ \A u \in PendingTurns \ {t} : pendingTurn'[u] = pendingTurn[u]
         /\ \/ /\ TriesAgain(t, answer) /\ pendingTurn'[t].at = pendingTurn[t].at
               /\ pendingTurn'[t].tries = pendingTurn[t].tries + 1
               /\ pendingTurn'[t].says = pendingTurn[t].says
               /\ pendingTurn'[t].draft = pendingTurn[t].draft
               /\ pendingTurn'[t].wish = pendingTurn[t].wish
            \/ ~TriesAgain(t, answer) /\ answer # "error" /\ TurnTo(t, stage)
            \/ answer = "error" /\ Replies(t)
<1>1. CASE TriesAgain(t, answer) /\ pendingTurn' = [pendingTurn EXCEPT ![t].tries = @ + 1]
  BY <1>1 DEF PendingTypeOK, TurnStates
<1> QED
  BY <1>1, RepliesEffect, TurnToEffect DEF CallGoesOn

\* A turn that begins has read nothing.
LEMMA BeginEffect ==
  ASSUME PendingTypeOK, NEW t \in PendingTurns, NEW says \in Says, BeginPendingTurn(t, says)
  PROVE  /\ pendingTurn'[t].at = "draft" /\ pendingTurn'[t].says = says
         /\ pendingTurn'[t].draft.id = 0 /\ pendingTurn'[t].wish = 0
         /\ \A u \in PendingTurns \ {t} : pendingTurn'[u] = pendingTurn[u]
BY DEF PendingTypeOK, BeginPendingTurn, IdleTurn, NoDraft

\* The draft flow keeps what the turn was asked and takes the draft it found.
LEMMA CheckDraftEffect ==
  ASSUME PendingTypeOK, NEW t \in PendingTurns, CheckDraft(t)
  PROVE  /\ \A u \in PendingTurns \ {t} : pendingTurn'[u] = pendingTurn[u]
         /\ \/ Replies(t)
            \/ TurnTo(t, "tasks")
            \/ /\ pendingTurn'[t].at \in {"revising", "sending"} /\ draft # NoDraft
               /\ pendingTurn'[t].at = "sending" => pendingTurn[t].says \in Confirms
               /\ pendingTurn'[t].says = pendingTurn[t].says
               /\ pendingTurn'[t].draft = draft /\ pendingTurn'[t].wish = pendingTurn[t].wish
<1>1. \/ Replies(t)
      \/ TurnTo(t, "tasks")
      \/ \E stage \in {"revising", "sending"} :
           /\ pendingTurn' = [pendingTurn EXCEPT ![t] = [@ EXCEPT !.at = stage, !.draft = draft]]
           /\ draft # NoDraft
           /\ stage = "sending" => pendingTurn[t].says \in Confirms
  BY DEF CheckDraft
<1>2. CASE Replies(t) \/ TurnTo(t, "tasks")
  BY <1>2, RepliesEffect, TurnToEffect
<1>3. ASSUME NEW stage \in {"revising", "sending"},
             pendingTurn' = [pendingTurn EXCEPT ![t] = [@ EXCEPT !.at = stage, !.draft = draft]]
      PROVE  /\ \A u \in PendingTurns \ {t} : pendingTurn'[u] = pendingTurn[u]
             /\ pendingTurn'[t].at = stage /\ pendingTurn'[t].says = pendingTurn[t].says
             /\ pendingTurn'[t].draft = draft /\ pendingTurn'[t].wish = pendingTurn[t].wish
  BY <1>3 DEF PendingTypeOK, TurnStates
<1> QED
  BY <1>1, <1>2, <1>3

\* The task flow takes the task it found, or leaves the turn's draft and task as they are.
LEMMA CheckTaskEffect ==
  ASSUME PendingTypeOK, NEW t \in PendingTurns, CheckTask(t)
  PROVE  /\ \A u \in PendingTurns \ {t} : pendingTurn'[u] = pendingTurn[u]
         /\ \/ /\ pendingTurn'[t].at = "adding" /\ wish # 0 /\ pendingTurn[t].says = "yes"
               /\ pendingTurn'[t].wish = wish /\ pendingTurn'[t].says = pendingTurn[t].says
               /\ pendingTurn'[t].draft = pendingTurn[t].draft
               /\ UNCHANGED <<wish, wishes>>
            \/ Replies(t) /\ wishes < WishLimit /\ wishes' = wishes + 1 /\ wish' = wishes'
            \/ TurnTo(t, "agent") /\ UNCHANGED <<wish, wishes>>
<1>1. \/ /\ pendingTurn' = [pendingTurn EXCEPT ![t] = [@ EXCEPT !.at = "adding", !.wish = wish]]
         /\ wish # 0 /\ pendingTurn[t].says = "yes" /\ UNCHANGED <<wish, wishes>>
      \/ Replies(t) /\ wishes < WishLimit /\ wishes' = wishes + 1 /\ wish' = wishes'
      \/ TurnTo(t, "agent") /\ UNCHANGED <<wish, wishes>>
  BY DEF CheckTask
<1>2. ASSUME pendingTurn' = [pendingTurn EXCEPT ![t] = [@ EXCEPT !.at = "adding", !.wish = wish]]
      PROVE  /\ \A u \in PendingTurns \ {t} : pendingTurn'[u] = pendingTurn[u]
             /\ pendingTurn'[t].at = "adding" /\ pendingTurn'[t].wish = wish
             /\ pendingTurn'[t].says = pendingTurn[t].says
             /\ pendingTurn'[t].draft = pendingTurn[t].draft
  BY <1>2 DEF PendingTypeOK, TurnStates
<1> QED
  BY <1>1, <1>2, RepliesEffect, TurnToEffect

\* Every step keeps the jobs from confirming.
LEMMA StepsKeepJobs ==
  ASSUME PendingTypeOK, JobsConfirmNothing, [PendingNext]_pendingVars
  PROVE  JobsConfirmNothing'
<1> DEFINE Kept == JobsConfirmNothing'
<1> USE RepliesEffect, TurnToEffect DEF JobsConfirmNothing, CarriesOut, Confirms, PendingTurns
<1>1. ASSUME NEW t \in PendingTurns, NEW says \in Says, BeginPendingTurn(t, says) PROVE Kept
  <2>1. t \in JobTurns => says \notin Confirms
    BY <1>1 DEF BeginPendingTurn
  <2>2. /\ pendingTurn'[t].at = "draft" /\ pendingTurn'[t].says = says
        /\ \A u \in PendingTurns \ {t} : pendingTurn'[u] = pendingTurn[u]
    BY <1>1, BeginEffect
  <2> QED
    BY <2>1, <2>2
<1>2. ASSUME NEW t \in PendingTurns, CheckDraft(t) PROVE Kept
  BY <1>2, CheckDraftEffect
<1>3. ASSUME NEW t \in PendingTurns, ReviseDraft(t) PROVE Kept
  BY <1>3 DEF ReviseDraft
<1>4. ASSUME NEW t \in PendingTurns, NEW delivers \in BOOLEAN, NEW answer \in Answers,
             SendMail(t, delivers, answer)
      PROVE  Kept
  <2>1. t \notin JobTurns /\ CallGoesOn(t, "sent", answer)
    BY <1>4 DEF SendMail
  <2> QED
    BY <2>1, CallEffect
<1>5. ASSUME NEW t \in PendingTurns, ClearDraft(t) PROVE Kept
  BY <1>5 DEF ClearDraft
<1>6. ASSUME NEW t \in PendingTurns, ClearDraftFails(t) PROVE Kept
  BY <1>6 DEF ClearDraftFails
<1>7. ASSUME NEW t \in PendingTurns, CheckTask(t) PROVE Kept
  BY <1>7, CheckTaskEffect
<1>8. ASSUME NEW t \in PendingTurns, NEW delivers \in BOOLEAN, NEW answer \in Answers,
             AddTask(t, delivers, answer)
      PROVE  Kept
  <2>1. t \notin JobTurns /\ CallGoesOn(t, "added", answer)
    BY <1>8 DEF AddTask
  <2> QED
    BY <2>1, CallEffect
<1>9. ASSUME NEW t \in PendingTurns, ClearWish(t) PROVE Kept
  BY <1>9 DEF ClearWish
<1>10. ASSUME NEW t \in PendingTurns, ClearWishFails(t) PROVE Kept
  BY <1>10 DEF ClearWishFails
<1>11. ASSUME NEW t \in PendingTurns, NEW presents \in BOOLEAN, NEW to \in Recipients,
             AgentAnswers(t, presents, to)
      PROVE  Kept
  BY <1>11 DEF AgentAnswers
<1>12. ASSUME NEW t \in PendingTurns, PendingTurnDies(t) PROVE Kept
  BY <1>12 DEF PendingTurnDies
<1>13. ASSUME OfferExpires PROVE Kept
  BY <1>13 DEF OfferExpires
<1>14. CASE UNCHANGED pendingVars
  BY <1>14 DEF pendingVars
<1> QED
  BY <1>1, <1>2, <1>3, <1>4, <1>5, <1>6, <1>7, <1>8, <1>9, <1>10, <1>11, <1>12, <1>13, <1>14
     DEF PendingNext

\* A step of one turn keeps the numbers of the others.
LEMMA NumberedStays ==
  ASSUME PendingTypeOK, \A u \in PendingTurns : Numbered(u),
         NEW t \in PendingTurns, Numbered(t)',
         \A u \in PendingTurns \ {t} : pendingTurn'[u] = pendingTurn[u],
         drafts' \in Nat, wishes' \in Nat, drafts' >= drafts, wishes' >= wishes
  PROVE  \A u \in PendingTurns : Numbered(u)'
<1>1. /\ drafts \in Nat /\ wishes \in Nat
      /\ \A u \in PendingTurns : pendingTurn[u].draft.id \in Nat /\ pendingTurn[u].wish \in Nat
  BY TurnNumbers, PendingBounds DEF PendingTypeOK
<1>2. ASSUME NEW u \in PendingTurns \ {t} PROVE Numbered(u)'
  <2>1. pendingTurn[u].draft.id <= drafts' /\ pendingTurn[u].wish <= wishes'
    BY <1>1 DEF Numbered
  <2> QED
    BY <2>1 DEF Numbered, WorksOnDraft, WorksOnTask
<1> QED
  BY <1>2

\* Every step keeps the numbers of what the turns work on.
LEMMA StepsKeepTurnNumbers ==
  ASSUME PendingTypeOK, NumbersAreUsed, [PendingNext]_pendingVars
  PROVE  \A t \in PendingTurns : Numbered(t)'
<1> DEFINE Kept == \A u \in PendingTurns : Numbered(u)'
<1>a. /\ drafts \in Nat /\ wishes \in Nat /\ wish \in Nat /\ draft.id \in Nat
      /\ wish <= wishes /\ draft.id <= drafts /\ (draft # NoDraft => draft.id > 0)
      /\ \A u \in PendingTurns : pendingTurn[u].draft.id \in Nat /\ pendingTurn[u].wish \in Nat
      /\ \A u \in PendingTurns : Numbered(u)
  <2>1. draft.id \in Nat
    BY PendingBounds DEF PendingTypeOK, Drafts
  <2> QED
    BY <2>1, TurnNumbers, PendingBounds DEF PendingTypeOK, NumbersAreUsed, KeysAreNumbered
<1>b. ASSUME NEW t \in PendingTurns, Replies(t), drafts' \in Nat, wishes' \in Nat,
             drafts' >= drafts, wishes' >= wishes
      PROVE  Kept
  <2>1. Numbered(t)'
    BY <1>b, RepliesEffect DEF Numbered, WorksOnDraft, WorksOnTask
  <2> QED
    BY <1>a, <1>b, <2>1, NumberedStays, RepliesEffect
<1>c. ASSUME NEW t \in PendingTurns, NEW stage \in {"sent", "tasks", "added", "agent"},
             TurnTo(t, stage),
             stage = "sent" => WorksOnDraft(t), stage = "added" => WorksOnTask(t),
             UNCHANGED <<drafts, wishes>>
      PROVE  Kept
  <2>1. Numbered(t)'
    BY <1>a, <1>c, TurnToEffect DEF Numbered, WorksOnDraft, WorksOnTask
  <2> QED
    BY <1>a, <1>c, <2>1, NumberedStays, TurnToEffect
<1>d. ASSUME NEW t \in PendingTurns, NEW stage \in {"sent", "added"}, NEW answer,
             CallGoesOn(t, stage, answer),
             stage = "sent" => WorksOnDraft(t), stage = "added" => WorksOnTask(t),
             UNCHANGED <<drafts, wishes>>
      PROVE  Kept
  <2>1. CASE Replies(t)
    BY <1>a, <1>b, <1>d, <2>1
  <2>2. CASE TurnTo(t, stage)
    BY <1>c, <1>d, <2>2
  <2>3. CASE /\ pendingTurn'[t].at = pendingTurn[t].at
             /\ pendingTurn'[t].draft = pendingTurn[t].draft
             /\ pendingTurn'[t].wish = pendingTurn[t].wish
    <3>1. Numbered(t)'
      BY <1>a, <1>d, <2>3 DEF Numbered, WorksOnDraft, WorksOnTask
    <3> QED
      BY <1>a, <1>d, <3>1, NumberedStays, CallEffect
  <2> QED
    BY <1>d, <2>1, <2>2, <2>3, CallEffect
<1> USE <1>a DEF CountersUntouched
<1>1. ASSUME NEW t \in PendingTurns, NEW says \in Says, BeginPendingTurn(t, says) PROVE Kept
  <2>1. UNCHANGED <<drafts, wishes>>
    BY <1>1 DEF BeginPendingTurn
  <2>2. Numbered(t)'
    BY <1>1, <2>1, BeginEffect DEF Numbered, WorksOnDraft, WorksOnTask
  <2> QED
    BY <1>1, <2>1, <2>2, BeginEffect, NumberedStays
<1>2. ASSUME NEW t \in PendingTurns, CheckDraft(t) PROVE Kept
  <2>1. UNCHANGED <<drafts, wishes>>
    BY <1>2 DEF CheckDraft
  <2>2. CASE Replies(t)
    BY <1>b, <2>1, <2>2
  <2>4. CASE TurnTo(t, "tasks")
    BY <1>c, <2>1, <2>4
  <2>3. CASE ~Replies(t) /\ ~TurnTo(t, "tasks")
    <3>1. /\ pendingTurn'[t].at \in {"revising", "sending"} /\ draft.id > 0
          /\ pendingTurn'[t].draft = draft /\ pendingTurn'[t].wish = pendingTurn[t].wish
      BY <1>2, <2>3, CheckDraftEffect
    <3>2. pendingTurn[t].wish <= wishes
      BY DEF Numbered
    <3>3. Numbered(t)'
      BY <2>1, <3>1, <3>2 DEF Numbered, WorksOnDraft, WorksOnTask
    <3> QED
      BY <1>2, <2>1, <3>3, CheckDraftEffect, NumberedStays
  <2> QED
    BY <2>2, <2>3, <2>4
<1>3. ASSUME NEW t \in PendingTurns, ReviseDraft(t) PROVE Kept
  BY <1>3, <1>b DEF ReviseDraft
<1>4. ASSUME NEW t \in PendingTurns, NEW delivers \in BOOLEAN, NEW answer \in Answers,
             SendMail(t, delivers, answer)
      PROVE  Kept
  BY <1>4, <1>d DEF SendMail, WorksOnDraft
<1>5. ASSUME NEW t \in PendingTurns, ClearDraft(t) PROVE Kept
  BY <1>5, <1>b DEF ClearDraft
<1>6. ASSUME NEW t \in PendingTurns, ClearDraftFails(t) PROVE Kept
  BY <1>6, <1>b DEF ClearDraftFails
<1>7. ASSUME NEW t \in PendingTurns, CheckTask(t) PROVE Kept
  <2>1. UNCHANGED drafts
    BY <1>7 DEF CheckTask
  <2>2. CASE Replies(t) /\ wishes' = wishes + 1
    BY <1>b, <2>1, <2>2
  <2>3. CASE TurnTo(t, "agent") /\ UNCHANGED wishes
    BY <1>c, <2>1, <2>3
  <2>4. CASE /\ pendingTurn'[t].at = "adding" /\ wish # 0 /\ pendingTurn'[t].wish = wish
             /\ pendingTurn'[t].draft = pendingTurn[t].draft /\ UNCHANGED wishes
    <3>0. /\ pendingTurn[t].draft.id <= drafts /\ wish > 0
      BY <2>4 DEF Numbered
    <3>1. Numbered(t)'
      BY <2>1, <2>4, <3>0 DEF Numbered, WorksOnDraft, WorksOnTask
    <3> QED
      BY <1>7, <2>1, <2>4, <3>1, CheckTaskEffect, NumberedStays
  <2> QED
    BY <1>7, <2>2, <2>3, <2>4, CheckTaskEffect
<1>8. ASSUME NEW t \in PendingTurns, NEW delivers \in BOOLEAN, NEW answer \in Answers,
             AddTask(t, delivers, answer)
      PROVE  Kept
  BY <1>8, <1>d DEF AddTask, WorksOnTask
<1>9. ASSUME NEW t \in PendingTurns, ClearWish(t) PROVE Kept
  BY <1>9, <1>b DEF ClearWish
<1>10. ASSUME NEW t \in PendingTurns, ClearWishFails(t) PROVE Kept
  BY <1>10, <1>b DEF ClearWishFails
<1>11. ASSUME NEW t \in PendingTurns, NEW presents \in BOOLEAN, NEW to \in Recipients,
             AgentAnswers(t, presents, to)
      PROVE  Kept
  <2>1. Replies(t) /\ UNCHANGED wishes /\ drafts' \in {drafts, drafts + 1}
    BY <1>11 DEF AgentAnswers
  <2> QED
    BY <1>b, <2>1
<1>12. ASSUME NEW t \in PendingTurns, PendingTurnDies(t) PROVE Kept
  BY <1>12, <1>b DEF PendingTurnDies
<1>13. ASSUME OfferExpires PROVE Kept
  BY <1>13 DEF OfferExpires, Numbered, WorksOnDraft, WorksOnTask
<1>14. CASE UNCHANGED pendingVars
  BY <1>14 DEF pendingVars, Numbered, WorksOnDraft, WorksOnTask
<1> QED
  BY <1>1, <1>2, <1>3, <1>4, <1>5, <1>6, <1>7, <1>8, <1>9, <1>10, <1>11, <1>12, <1>13, <1>14
     DEF PendingNext

\* Every step keeps the numbers of the keys, and what has no number yet was never done.
LEMMA StepsKeepKeyNumbers ==
  ASSUME PendingTypeOK, NumbersAreUsed, [PendingNext]_pendingVars
  PROVE  KeysAreNumbered' /\ NewNumbersAreUnused'
<1> DEFINE Kept == KeysAreNumbered' /\ NewNumbersAreUnused'
<1>a. /\ drafts \in Nat /\ wishes \in Nat /\ wish \in Nat
      /\ sends \in [1..DraftLimit -> Nat] /\ adds \in [1..WishLimit -> Nat]
  BY PendingBounds DEF PendingTypeOK
<1>b. KeysAreNumbered /\ NewNumbersAreUnused
  BY DEF NumbersAreUsed
<1>c. \A t \in PendingTurns : /\ pendingTurn[t].draft.id <= drafts /\ pendingTurn[t].wish <= wishes
                              /\ WorksOnDraft(t) => pendingTurn[t].draft.id > 0
  BY DEF NumbersAreUsed, Numbered
<1>d. \A t \in PendingTurns : pendingTurn[t].draft.id \in Nat /\ pendingTurn[t].wish \in Nat
  BY TurnNumbers
<1> USE <1>a, <1>b DEF KeysAreNumbered, NewNumbersAreUnused, RemoteUntouched, MailUntouched,
        TasksUntouched, CountersUntouched
<1>1. ASSUME NEW t \in PendingTurns, NEW says \in Says, BeginPendingTurn(t, says) PROVE Kept
  BY <1>1 DEF BeginPendingTurn
<1>2. ASSUME NEW t \in PendingTurns, CheckDraft(t) PROVE Kept
  BY <1>2 DEF CheckDraft
<1>3. ASSUME NEW t \in PendingTurns, ReviseDraft(t) PROVE Kept
  <2>1. WorksOnDraft(t) /\ draft'.id = pendingTurn[t].draft.id
    <3>1. pendingTurn[t].draft \in Drafts
      BY DEF PendingTypeOK, TurnStates
    <3> QED
      BY <1>3, <3>1 DEF ReviseDraft, WorksOnDraft, Drafts
  <2>2. draft'.id <= drafts /\ draft'.id # 0
    BY <2>1, <1>c, <1>d
  <2> QED
    BY <1>3, <2>2 DEF ReviseDraft
<1>4. ASSUME NEW t \in PendingTurns, NEW delivers \in BOOLEAN, NEW answer \in Answers,
             SendMail(t, delivers, answer)
      PROVE  Kept
  <2>1. \A d \in 1..DraftLimit : d # pendingTurn[t].draft.id => sends'[d] = sends[d]
    BY <1>4 DEF SendMail
  <2>2. \A d \in 1..DraftLimit : d > drafts => sends'[d] = 0
    BY <2>1, <1>c, <1>d
  <2> QED
    BY <1>4, <2>2 DEF SendMail
<1>5. ASSUME NEW t \in PendingTurns, ClearDraft(t) PROVE Kept
  BY <1>5 DEF ClearDraft, NoDraft
<1>6. ASSUME NEW t \in PendingTurns, ClearDraftFails(t) PROVE Kept
  BY <1>6 DEF ClearDraftFails
<1>7. ASSUME NEW t \in PendingTurns, CheckTask(t) PROVE Kept
  <2>1. UNCHANGED <<draft, drafts, sends, adds>>
    BY <1>7 DEF CheckTask
  <2>2. UNCHANGED <<wish, wishes>> \/ (wishes' = wishes + 1 /\ wish' = wishes')
    BY <1>7, CheckTaskEffect
  <2> QED
    BY <2>1, <2>2
<1>8. ASSUME NEW t \in PendingTurns, NEW delivers \in BOOLEAN, NEW answer \in Answers,
             AddTask(t, delivers, answer)
      PROVE  Kept
  <2>1. \A w \in 1..WishLimit : w # pendingTurn[t].wish => adds'[w] = adds[w]
    BY <1>8 DEF AddTask
  <2>2. \A w \in 1..WishLimit : w > wishes => adds'[w] = 0
    BY <2>1, <1>c, <1>d
  <2> QED
    BY <1>8, <2>2 DEF AddTask
<1>9. ASSUME NEW t \in PendingTurns, ClearWish(t) PROVE Kept
  BY <1>9 DEF ClearWish
<1>10. ASSUME NEW t \in PendingTurns, ClearWishFails(t) PROVE Kept
  BY <1>10 DEF ClearWishFails
<1>11. ASSUME NEW t \in PendingTurns, NEW presents \in BOOLEAN, NEW to \in Recipients,
             AgentAnswers(t, presents, to)
      PROVE  Kept
  <2>1. UNCHANGED <<wish, wishes, sends, adds>>
    BY <1>11 DEF AgentAnswers
  <2>2. \/ UNCHANGED <<draft, drafts>>
        \/ drafts' = drafts + 1 /\ draft'.id = drafts'
    BY <1>11 DEF AgentAnswers
  <2> QED
    BY <2>1, <2>2
<1>12. ASSUME NEW t \in PendingTurns, PendingTurnDies(t) PROVE Kept
  BY <1>12 DEF PendingTurnDies
<1>13. ASSUME OfferExpires PROVE Kept
  BY <1>13 DEF OfferExpires, NoDraft
<1>14. CASE UNCHANGED pendingVars
  BY <1>14 DEF pendingVars
<1> QED
  BY <1>1, <1>2, <1>3, <1>4, <1>5, <1>6, <1>7, <1>8, <1>9, <1>10, <1>11, <1>12, <1>13, <1>14
     DEF PendingNext

\* Numbers, taken together.
LEMMA StepsKeepNumbers ==
  ASSUME PendingTypeOK, NumbersAreUsed, [PendingNext]_pendingVars
  PROVE  NumbersAreUsed'
BY StepsKeepTurnNumbers, StepsKeepKeyNumbers DEF NumbersAreUsed

\* Every step keeps the drafts' record.
LEMMA StepsKeepDrafts ==
  ASSUME PInv, [PendingNext]_pendingVars
  PROVE  DraftsOnRecord'
<1> DEFINE Kept == DraftsOnRecord'
<1> USE DEF PInv
<1>a. /\ UserTurn \in PendingTurns
      /\ \A t \in PendingTurns : CarriesOut(t) => t = UserTurn
      /\ \A t \in PendingTurns : pendingTurn[t].says \in Confirms => t = UserTurn
  BY DEF JobsConfirmNothing, PendingTurns
<1>b. /\ sends \in [1..DraftLimit -> Nat] /\ drafts \in Nat
      /\ \A d \in 1..DraftLimit : d > drafts => sends[d] = 0
      /\ \A d \in 1..DraftLimit : d \in unsureDrafts \/ DraftIsOnRecord(d)
      /\ CallAttempts \in Nat /\ \A t \in PendingTurns : pendingTurn[t].tries \in 1..CallAttempts
  BY PendingBounds
     DEF PendingTypeOK, TurnStates, NumbersAreUsed, NewNumbersAreUnused, DraftsOnRecord
<1>c. ASSUME NEW t \in PendingTurns, Replies(t) \/ (\E says \in Says : BeginPendingTurn(t, says)),
             pendingTurn[t].at \notin {"sending", "sent"},
             UNCHANGED <<draft, sends, unsureDrafts, repeatedDrafts>>
      PROVE  Kept
  <2>1. \A u \in PendingTurns \ {t} : pendingTurn'[u] = pendingTurn[u]
    BY <1>c, RepliesEffect, BeginEffect
  <2>2. pendingTurn'[t].at \in {"idle", "draft"}
    BY <1>c, RepliesEffect, BeginEffect
  <2> QED
    BY <1>a, <1>b, <1>c, <2>1, <2>2 DEF DraftsOnRecord, DraftIsOnRecord, UserMailIs
<1> USE <1>a, <1>b DEF RemoteUntouched, MailUntouched, CarriesOut
<1>d. ASSUME NEW t \in PendingTurns, pendingTurn[t].at \notin {"sending", "sent"},
             pendingTurn'[t].at \notin {"sending", "sent"},
             \A u \in PendingTurns \ {t} : pendingTurn'[u] = pendingTurn[u],
             UNCHANGED <<draft, sends, unsureDrafts, repeatedDrafts>>
      PROVE  Kept
  BY <1>d DEF DraftsOnRecord, DraftIsOnRecord, UserMailIs
<1>1. ASSUME NEW t \in PendingTurns, NEW says \in Says, BeginPendingTurn(t, says) PROVE Kept
  BY <1>1, <1>c DEF BeginPendingTurn
<1>2. ASSUME NEW t \in PendingTurns, CheckDraft(t) PROVE Kept
  <2>1. pendingTurn[t].at = "draft" /\ UNCHANGED <<draft, sends, unsureDrafts, repeatedDrafts>>
    BY <1>2 DEF CheckDraft
  <2>2. CASE Replies(t)
    BY <1>c, <2>1, <2>2
  <2>4. CASE TurnTo(t, "tasks")
    BY <1>d, <2>1, <2>4, TurnToEffect
  <2>3. CASE ~Replies(t) /\ ~TurnTo(t, "tasks")
    <3>1. /\ pendingTurn'[t].at \in {"revising", "sending"}
          /\ pendingTurn'[t].at = "sending" => t = UserTurn
          /\ pendingTurn'[t].draft = draft
          /\ \A u \in PendingTurns \ {t} : pendingTurn'[u] = pendingTurn[u]
      BY <1>2, <2>3, CheckDraftEffect
    <3>2. UNCHANGED repeatedDrafts /\ pendingTurn'[UserTurn].tries \in 1..CallAttempts
      BY <1>2, StepsKeepTurnTypes DEF CheckDraft, TurnStates
    <3>4. ASSUME NEW d \in 1..DraftLimit, d \notin unsureDrafts PROVE DraftIsOnRecord(d)'
      <4>1. CASE t = UserTurn
        <5>1. sends[d] = 0 \/ draft.id # d
          BY <2>1, <3>4, <4>1 DEF DraftIsOnRecord, UserMailIs
        <5> QED
          BY <2>1, <3>1, <3>2, <3>4, <4>1, <5>1 DEF DraftIsOnRecord, UserMailIs
      <4>2. CASE t # UserTurn
        BY <2>1, <3>1, <3>2, <3>4, <4>2 DEF DraftIsOnRecord, UserMailIs
      <4> QED
        BY <4>1, <4>2
    <3> QED
      BY <2>1, <3>4 DEF DraftsOnRecord
  <2> QED
    BY <2>2, <2>3, <2>4
<1>3. ASSUME NEW t \in PendingTurns, ReviseDraft(t) PROVE Kept
  <2>1. Replies(t) /\ pendingTurn[t].at = "revising" /\ UNCHANGED sends
    BY <1>3 DEF ReviseDraft
  <2>2. /\ unsureDrafts \subseteq unsureDrafts'
        /\ sends[draft'.id] > 0 => draft'.id \in unsureDrafts'
    BY <1>3 DEF ReviseDraft
  <2>3. UNCHANGED repeatedDrafts
    BY <1>3 DEF ReviseDraft
  <2>4. /\ pendingTurn'[t].at = "idle"
        /\ \A u \in PendingTurns \ {t} : pendingTurn'[u] = pendingTurn[u]
    BY <2>1, RepliesEffect
  <2>5. ASSUME NEW d \in 1..DraftLimit, d \notin unsureDrafts' PROVE DraftIsOnRecord(d)'
    <3>1. DraftIsOnRecord(d) /\ (draft'.id = d => sends[d] = 0)
      BY <2>2, <2>5
    <3> QED
      BY <2>1, <2>3, <2>4, <3>1 DEF DraftIsOnRecord, UserMailIs
  <2> QED
    BY <2>5 DEF DraftsOnRecord
<1>4. ASSUME NEW t \in PendingTurns, NEW delivers \in BOOLEAN, NEW answer \in Answers,
             SendMail(t, delivers, answer)
      PROVE  Kept
  <2> DEFINE mine == pendingTurn[t].draft.id
  <2>1. /\ t = UserTurn /\ pendingTurn[t].at = "sending" /\ CallGoesOn(t, "sent", answer)
        /\ UNCHANGED draft
    BY <1>4 DEF SendMail
  <2>2. /\ \A d \in 1..DraftLimit : d # mine => sends'[d] = sends[d]
        /\ unsureDrafts \subseteq unsureDrafts' /\ repeatedDrafts \subseteq repeatedDrafts'
    BY <1>4 DEF SendMail
  <2>3. mine \in 1..DraftLimit =>
          /\ sends'[mine] = sends[mine] + (IF delivers THEN 1 ELSE 0)
          /\ answer = "error" /\ sends'[mine] > 0 => mine \in unsureDrafts'
          /\ delivers /\ TriesAgain(t, answer) => mine \in repeatedDrafts'
    BY <1>4 DEF SendMail
  <2>4. ASSUME NEW d \in 1..DraftLimit, d \notin unsureDrafts', d = mine
        PROVE  DraftIsOnRecord(d)'
    <3>1. /\ d \notin unsureDrafts /\ sends[d] < pendingTurn[t].tries
          /\ sends[d] > 0 => d \in repeatedDrafts'
      BY <2>1, <2>2, <2>4 DEF DraftIsOnRecord, UserMailIs
    <3>2. /\ sends'[d] \in {sends[d], sends[d] + 1} /\ sends'[d] <= pendingTurn[t].tries
          /\ sends'[d] > 1 => d \in repeatedDrafts'
      BY <2>3, <2>4, <3>1
    <3>3. CASE TriesAgain(t, answer)
      <4>1. /\ pendingTurn'[t].at = "sending" /\ pendingTurn'[t].draft.id = d
            /\ pendingTurn'[t].tries = pendingTurn[t].tries + 1
        BY <2>1, <2>4, <3>3, CallEffect DEF TriesAgain
      <4>2. sends'[d] > 0 => d \in repeatedDrafts'
        BY <2>3, <2>4, <3>1, <3>3
      <4> QED
        BY <2>1, <3>2, <4>1, <4>2 DEF DraftIsOnRecord, UserMailIs
    <3>4. CASE answer # "error" /\ TurnTo(t, "sent")
      <4>1. pendingTurn'[t].at = "sent" /\ pendingTurn'[t].draft.id = d
        BY <2>4, <3>4, TurnToEffect
      <4> QED
        BY <2>1, <3>2, <4>1 DEF DraftIsOnRecord, UserMailIs
    <3>5. CASE answer = "error" /\ Replies(t)
      <4>1. pendingTurn'[t].at = "idle" /\ sends'[d] = 0
        BY <2>3, <2>4, <3>2, <3>5, RepliesEffect
      <4> QED
        BY <2>1, <4>1 DEF DraftIsOnRecord, UserMailIs
    <3> QED
      BY <2>1, <3>3, <3>4, <3>5, CallEffect
  <2>5. ASSUME NEW d \in 1..DraftLimit, d \notin unsureDrafts', d # mine
        PROVE  DraftIsOnRecord(d)'
    <3>1. pendingTurn'[t].at = "idle" \/ pendingTurn'[t].draft.id = mine
      BY <2>1, CallEffect, RepliesEffect, TurnToEffect
    <3>2. DraftIsOnRecord(d) /\ (sends[d] # 0 => draft.id # d)
      BY <2>1, <2>2, <2>5 DEF DraftIsOnRecord, UserMailIs
    <3>3. ~UserMailIs("sending", d)'
      BY <2>1, <2>5, <3>1 DEF UserMailIs
    <3> QED
      BY <2>1, <2>2, <2>5, <3>2, <3>3 DEF DraftIsOnRecord, UserMailIs
  <2> QED
    BY <2>4, <2>5 DEF DraftsOnRecord
<1>5. ASSUME NEW t \in PendingTurns, ClearDraft(t) PROVE Kept
  <2>1. Replies(t) /\ draft'.id = 0 /\ UNCHANGED <<sends, unsureDrafts, repeatedDrafts>>
    BY <1>5 DEF ClearDraft, NoDraft
  <2> QED
    BY <2>1, RepliesEffect DEF DraftsOnRecord, DraftIsOnRecord, UserMailIs
<1>6. ASSUME NEW t \in PendingTurns, ClearDraftFails(t) PROVE Kept
  <2>1. /\ Replies(t) /\ pendingTurn[t].at = "sent" /\ t = UserTurn
        /\ UNCHANGED <<draft, sends, repeatedDrafts>> /\ unsureDrafts \subseteq unsureDrafts'
    BY <1>6 DEF ClearDraftFails
  <2>2. sends[pendingTurn[t].draft.id] > 0 => pendingTurn[t].draft.id \in unsureDrafts'
    BY <1>6 DEF ClearDraftFails, LeftUnsure
  <2> QED
    BY <2>1, <2>2, RepliesEffect DEF DraftsOnRecord, DraftIsOnRecord, UserMailIs
<1>7. ASSUME NEW t \in PendingTurns, CheckTask(t) PROVE Kept
  <2>1. pendingTurn[t].at = "tasks" /\ UNCHANGED <<draft, sends, unsureDrafts, repeatedDrafts>>
    BY <1>7 DEF CheckTask
  <2>2. /\ pendingTurn'[t].at \in {"idle", "adding", "agent"}
        /\ \A u \in PendingTurns \ {t} : pendingTurn'[u] = pendingTurn[u]
    BY <1>7, CheckTaskEffect, RepliesEffect, TurnToEffect
  <2> QED
    BY <1>d, <2>1, <2>2
<1>8. ASSUME NEW t \in PendingTurns, NEW delivers \in BOOLEAN, NEW answer \in Answers,
             AddTask(t, delivers, answer)
      PROVE  Kept
  <2>1. /\ pendingTurn[t].at = "adding" /\ CallGoesOn(t, "added", answer)
        /\ UNCHANGED <<draft, sends, unsureDrafts, repeatedDrafts>>
    BY <1>8 DEF AddTask
  <2> QED
    BY <1>d, <2>1, CallEffect, TurnToEffect, RepliesEffect
<1>9. ASSUME NEW t \in PendingTurns, ClearWish(t) PROVE Kept
  BY <1>9, <1>c DEF ClearWish
<1>10. ASSUME NEW t \in PendingTurns, ClearWishFails(t) PROVE Kept
  BY <1>10, <1>c DEF ClearWishFails
<1>11. ASSUME NEW t \in PendingTurns, NEW presents \in BOOLEAN, NEW to \in Recipients,
             AgentAnswers(t, presents, to)
      PROVE  Kept
  <2>1. /\ Replies(t) /\ pendingTurn[t].at = "agent" /\ UNCHANGED <<sends, unsureDrafts, repeatedDrafts>>
        /\ draft' = draft \/ draft'.id = drafts + 1
    BY <1>11 DEF AgentAnswers
  <2>2. \A d \in 1..DraftLimit : d = drafts + 1 => sends[d] = 0
    OBVIOUS
  <2> QED
    BY <2>1, <2>2, RepliesEffect DEF DraftsOnRecord, DraftIsOnRecord, UserMailIs
<1>12. ASSUME NEW t \in PendingTurns, PendingTurnDies(t) PROVE Kept
  <2>1. /\ Replies(t) /\ UNCHANGED <<draft, sends, repeatedDrafts>>
        /\ unsureDrafts \subseteq unsureDrafts'
    BY <1>12 DEF PendingTurnDies
  <2>2. CASE pendingTurn[t].at \in {"sending", "sent"}
    <3>1. t = UserTurn /\ (sends[pendingTurn[t].draft.id] > 0 => pendingTurn[t].draft.id \in unsureDrafts')
      BY <1>12, <2>2 DEF PendingTurnDies, LeftUnsure
    <3> QED
      BY <2>1, <2>2, <3>1, RepliesEffect DEF DraftsOnRecord, DraftIsOnRecord, UserMailIs
  <2>3. CASE pendingTurn[t].at \notin {"sending", "sent"}
    <3>1. UNCHANGED unsureDrafts
      BY <1>12, <2>3 DEF PendingTurnDies, LeftUnsure
    <3> QED
      BY <1>c, <2>1, <2>3, <3>1
  <2> QED
    BY <2>2, <2>3
<1>13. ASSUME OfferExpires PROVE Kept
  <2>1. (draft' = draft \/ draft'.id = 0) /\ UNCHANGED <<pendingTurn, sends, unsureDrafts, repeatedDrafts>>
    BY <1>13 DEF OfferExpires, NoDraft
  <2> QED
    BY <2>1 DEF DraftsOnRecord, DraftIsOnRecord, UserMailIs
<1>14. CASE UNCHANGED pendingVars
  BY <1>14 DEF pendingVars, DraftsOnRecord, DraftIsOnRecord, UserMailIs
<1> QED
  BY <1>1, <1>2, <1>3, <1>4, <1>5, <1>6, <1>7, <1>8, <1>9, <1>10, <1>11, <1>12, <1>13, <1>14
     DEF PendingNext

\* Every step keeps the tasks' record.
LEMMA StepsKeepTasks ==
  ASSUME PInv, [PendingNext]_pendingVars
  PROVE  TasksOnRecord'
<1> DEFINE Kept == TasksOnRecord'
<1> USE DEF PInv
<1>a. /\ UserTurn \in PendingTurns
      /\ \A t \in PendingTurns : CarriesOut(t) => t = UserTurn
      /\ \A t \in PendingTurns : pendingTurn[t].says \in Confirms => t = UserTurn
  BY DEF JobsConfirmNothing, PendingTurns
<1>b. /\ adds \in [1..WishLimit -> Nat] /\ wishes \in Nat /\ wish \in Nat
      /\ \A w \in 1..WishLimit : w > wishes => adds[w] = 0
      /\ \A w \in 1..WishLimit : w \in unsureTasks \/ TaskIsOnRecord(w)
      /\ CallAttempts \in Nat /\ \A t \in PendingTurns : pendingTurn[t].tries \in 1..CallAttempts
  BY PendingBounds
     DEF PendingTypeOK, TurnStates, NumbersAreUsed, NewNumbersAreUnused, TasksOnRecord
<1>c. ASSUME NEW t \in PendingTurns, pendingTurn[t].at \notin {"adding", "added"},
             pendingTurn'[t].at \notin {"adding", "added"},
             \A u \in PendingTurns \ {t} : pendingTurn'[u] = pendingTurn[u],
             UNCHANGED <<wish, adds, unsureTasks, repeatedTasks>>
      PROVE  Kept
  BY <1>a, <1>b, <1>c DEF TasksOnRecord, TaskIsOnRecord, UserTaskIs
<1>d. ASSUME NEW t \in PendingTurns, Replies(t),
             pendingTurn[t].at \notin {"adding", "added"},
             UNCHANGED <<wish, adds, unsureTasks, repeatedTasks>>
      PROVE  Kept
  BY <1>a, <1>b, <1>d, RepliesEffect DEF TasksOnRecord, TaskIsOnRecord, UserTaskIs
<1> USE <1>a, <1>b DEF RemoteUntouched, TasksUntouched, CarriesOut
<1>1. ASSUME NEW t \in PendingTurns, NEW says \in Says, BeginPendingTurn(t, says) PROVE Kept
  <2>1. pendingTurn[t].at = "idle" /\ UNCHANGED <<wish, adds, unsureTasks, repeatedTasks>>
    BY <1>1 DEF BeginPendingTurn
  <2> QED
    BY <1>1, <1>c, <2>1, BeginEffect
<1>2. ASSUME NEW t \in PendingTurns, CheckDraft(t) PROVE Kept
  <2>1. pendingTurn[t].at = "draft" /\ UNCHANGED <<wish, adds, unsureTasks, repeatedTasks>>
    BY <1>2 DEF CheckDraft
  <2>2. /\ pendingTurn'[t].at \in {"idle", "revising", "sending", "tasks"}
        /\ \A u \in PendingTurns \ {t} : pendingTurn'[u] = pendingTurn[u]
    BY <1>2, CheckDraftEffect, RepliesEffect, TurnToEffect
  <2> QED
    BY <1>c, <2>1, <2>2
<1>3. ASSUME NEW t \in PendingTurns, ReviseDraft(t) PROVE Kept
  BY <1>3, <1>d DEF ReviseDraft
<1>4. ASSUME NEW t \in PendingTurns, NEW delivers \in BOOLEAN, NEW answer \in Answers,
             SendMail(t, delivers, answer)
      PROVE  Kept
  <2>1. /\ pendingTurn[t].at = "sending" /\ CallGoesOn(t, "sent", answer)
        /\ UNCHANGED <<wish, adds, unsureTasks, repeatedTasks>>
    BY <1>4 DEF SendMail
  <2> QED
    BY <1>c, <2>1, CallEffect, TurnToEffect, RepliesEffect
<1>5. ASSUME NEW t \in PendingTurns, ClearDraft(t) PROVE Kept
  BY <1>5, <1>d DEF ClearDraft
<1>6. ASSUME NEW t \in PendingTurns, ClearDraftFails(t) PROVE Kept
  BY <1>6, <1>d DEF ClearDraftFails
<1>7. ASSUME NEW t \in PendingTurns, CheckTask(t) PROVE Kept
  <2>1. pendingTurn[t].at = "tasks" /\ UNCHANGED <<adds, unsureTasks, repeatedTasks>>
    BY <1>7 DEF CheckTask
  <2>2. CASE Replies(t) /\ wish' = wishes + 1
    BY <2>1, <2>2, RepliesEffect DEF TasksOnRecord, TaskIsOnRecord, UserTaskIs
  <2>3. CASE TurnTo(t, "agent") /\ UNCHANGED wish
    BY <1>c, <2>1, <2>3, TurnToEffect
  <2>4. CASE /\ pendingTurn'[t].at = "adding" /\ pendingTurn[t].says = "yes"
             /\ pendingTurn'[t].wish = wish /\ UNCHANGED wish
             /\ \A u \in PendingTurns \ {t} : pendingTurn'[u] = pendingTurn[u]
    <3>1. t = UserTurn
      BY <2>4 DEF Confirms
    <3>2. UNCHANGED repeatedTasks /\ pendingTurn'[t].tries \in 1..CallAttempts
      BY <1>7, StepsKeepTurnTypes DEF CheckTask, TurnStates
    <3>3. ASSUME NEW w \in 1..WishLimit, w \notin unsureTasks PROVE TaskIsOnRecord(w)'
      <4>1. TaskIsOnRecord(w) /\ (adds[w] = 0 \/ wish # w)
        BY <2>1, <3>1, <3>3 DEF TaskIsOnRecord, UserTaskIs
      <4> QED
        BY <2>1, <2>4, <3>1, <3>2, <4>1 DEF TaskIsOnRecord, UserTaskIs
    <3> QED
      BY <2>1, <3>3 DEF TasksOnRecord
  <2> QED
    BY <1>7, <2>2, <2>3, <2>4, CheckTaskEffect
<1>8. ASSUME NEW t \in PendingTurns, NEW delivers \in BOOLEAN, NEW answer \in Answers,
             AddTask(t, delivers, answer)
      PROVE  Kept
  <2> DEFINE mine == pendingTurn[t].wish
  <2>1. /\ t = UserTurn /\ pendingTurn[t].at = "adding" /\ CallGoesOn(t, "added", answer)
        /\ UNCHANGED wish
    BY <1>8 DEF AddTask
  <2>2. /\ \A w \in 1..WishLimit : w # mine => adds'[w] = adds[w]
        /\ unsureTasks \subseteq unsureTasks' /\ repeatedTasks \subseteq repeatedTasks'
    BY <1>8 DEF AddTask
  <2>3. mine \in 1..WishLimit =>
          /\ adds'[mine] = adds[mine] + (IF delivers THEN 1 ELSE 0)
          /\ answer = "error" /\ adds'[mine] > 0 => mine \in unsureTasks'
          /\ delivers /\ TriesAgain(t, answer) => mine \in repeatedTasks'
    BY <1>8 DEF AddTask
  <2>4. ASSUME NEW w \in 1..WishLimit, w \notin unsureTasks', w = mine
        PROVE  TaskIsOnRecord(w)'
    <3>1. /\ w \notin unsureTasks /\ adds[w] < pendingTurn[t].tries
          /\ adds[w] > 0 => w \in repeatedTasks'
      BY <2>1, <2>2, <2>4 DEF TaskIsOnRecord, UserTaskIs
    <3>2. /\ adds'[w] \in {adds[w], adds[w] + 1} /\ adds'[w] <= pendingTurn[t].tries
          /\ adds'[w] > 1 => w \in repeatedTasks'
      BY <2>3, <2>4, <3>1
    <3>3. CASE TriesAgain(t, answer)
      <4>1. /\ pendingTurn'[t].at = "adding" /\ pendingTurn'[t].wish = w
            /\ pendingTurn'[t].tries = pendingTurn[t].tries + 1
        BY <2>1, <2>4, <3>3, CallEffect DEF TriesAgain
      <4>2. adds'[w] > 0 => w \in repeatedTasks'
        BY <2>3, <2>4, <3>1, <3>3
      <4> QED
        BY <2>1, <3>2, <4>1, <4>2 DEF TaskIsOnRecord, UserTaskIs
    <3>4. CASE answer # "error" /\ TurnTo(t, "added")
      <4>1. pendingTurn'[t].at = "added" /\ pendingTurn'[t].wish = w
        BY <2>4, <3>4, TurnToEffect
      <4> QED
        BY <2>1, <3>2, <4>1 DEF TaskIsOnRecord, UserTaskIs
    <3>5. CASE answer = "error" /\ Replies(t)
      <4>1. pendingTurn'[t].at = "idle" /\ adds'[w] = 0
        BY <2>3, <2>4, <3>2, <3>5, RepliesEffect
      <4> QED
        BY <2>1, <4>1 DEF TaskIsOnRecord, UserTaskIs
    <3> QED
      BY <2>1, <3>3, <3>4, <3>5, CallEffect
  <2>5. ASSUME NEW w \in 1..WishLimit, w \notin unsureTasks', w # mine
        PROVE  TaskIsOnRecord(w)'
    <3>1. pendingTurn'[t].at = "idle" \/ pendingTurn'[t].wish = mine
      BY <2>1, CallEffect, RepliesEffect, TurnToEffect
    <3>2. TaskIsOnRecord(w) /\ (adds[w] # 0 => wish # w)
      BY <2>1, <2>2, <2>5 DEF TaskIsOnRecord, UserTaskIs
    <3>3. ~UserTaskIs("adding", w)'
      BY <2>1, <2>5, <3>1 DEF UserTaskIs
    <3> QED
      BY <2>1, <2>2, <2>5, <3>2, <3>3 DEF TaskIsOnRecord, UserTaskIs
  <2> QED
    BY <2>4, <2>5 DEF TasksOnRecord
<1>9. ASSUME NEW t \in PendingTurns, ClearWish(t) PROVE Kept
  <2>1. Replies(t) /\ wish' = 0 /\ UNCHANGED <<adds, unsureTasks, repeatedTasks>>
    BY <1>9 DEF ClearWish
  <2> QED
    BY <2>1, RepliesEffect DEF TasksOnRecord, TaskIsOnRecord, UserTaskIs
<1>10. ASSUME NEW t \in PendingTurns, ClearWishFails(t) PROVE Kept
  <2>1. /\ Replies(t) /\ pendingTurn[t].at = "added" /\ t = UserTurn
        /\ UNCHANGED <<wish, adds, repeatedTasks>> /\ unsureTasks \subseteq unsureTasks'
    BY <1>10 DEF ClearWishFails
  <2>2. adds[pendingTurn[t].wish] > 0 => pendingTurn[t].wish \in unsureTasks'
    BY <1>10 DEF ClearWishFails, LeftUnsure
  <2> QED
    BY <2>1, <2>2, RepliesEffect DEF TasksOnRecord, TaskIsOnRecord, UserTaskIs
<1>11. ASSUME NEW t \in PendingTurns, NEW presents \in BOOLEAN, NEW to \in Recipients,
             AgentAnswers(t, presents, to)
      PROVE  Kept
  BY <1>11, <1>d DEF AgentAnswers
<1>12. ASSUME NEW t \in PendingTurns, PendingTurnDies(t) PROVE Kept
  <2>1. /\ Replies(t) /\ UNCHANGED <<wish, adds, repeatedTasks>>
        /\ unsureTasks \subseteq unsureTasks'
    BY <1>12 DEF PendingTurnDies
  <2>2. CASE pendingTurn[t].at \in {"adding", "added"}
    <3>1. t = UserTurn /\ (adds[pendingTurn[t].wish] > 0 => pendingTurn[t].wish \in unsureTasks')
      BY <1>12, <2>2 DEF PendingTurnDies, LeftUnsure
    <3> QED
      BY <2>1, <2>2, <3>1, RepliesEffect DEF TasksOnRecord, TaskIsOnRecord, UserTaskIs
  <2>3. CASE pendingTurn[t].at \notin {"adding", "added"}
    <3>1. UNCHANGED unsureTasks
      BY <1>12, <2>3 DEF PendingTurnDies, LeftUnsure
    <3> QED
      BY <1>d, <2>1, <2>3, <3>1
  <2> QED
    BY <2>2, <2>3
<1>13. ASSUME OfferExpires PROVE Kept
  <2>1. (wish' = wish \/ wish' = 0) /\ UNCHANGED <<pendingTurn, adds, unsureTasks, repeatedTasks>>
    BY <1>13 DEF OfferExpires
  <2> QED
    BY <2>1 DEF TasksOnRecord, TaskIsOnRecord, UserTaskIs
<1>14. CASE UNCHANGED pendingVars
  BY <1>14 DEF pendingVars, TasksOnRecord, TaskIsOnRecord, UserTaskIs
<1> QED
  BY <1>1, <1>2, <1>3, <1>4, <1>5, <1>6, <1>7, <1>8, <1>9, <1>10, <1>11, <1>12, <1>13, <1>14
     DEF PendingNext

-----------------------------------------------------------------------------
\* The strengthening of CarriedOutOnce is inductive.
LEMMA PInvHolds == PendingSpec => []PInv
<1>1. PendingInit => PInv
  BY PendingStartsSafe
<1>2. PInv /\ [PendingNext]_pendingVars => PInv'
  <2> SUFFICES ASSUME PInv, [PendingNext]_pendingVars PROVE PInv'
    OBVIOUS
  <2>1. PendingTypeOK'
    BY StepsKeepTurnTypes, StepsKeepCountTypes DEF PInv, PendingTypeOK
  <2>2. JobsConfirmNothing' /\ NumbersAreUsed'
    BY StepsKeepJobs, StepsKeepNumbers DEF PInv
  <2>3. DraftsOnRecord' /\ TasksOnRecord'
    BY StepsKeepDrafts, StepsKeepTasks
  <2> QED
    BY <2>1, <2>2, <2>3 DEF PInv
<1> QED
  BY <1>1, <1>2, PTL DEF PendingSpec

\* A draft is delivered and a task added by one call, at most CallAttempts times and
\* more than once only as that call tries again, for any number of turns, unless the
\* turn that carried it out left its key uncleared or another one stored it again.
THEOREM ConfirmedOnceCarriedOutOnce == PendingSpec => []CarriedOutOnce
BY PInvHolds, PInvImplies, PTL

-----------------------------------------------------------------------------
(* Browser writes: for any number of browser runs and requests, a write is *)
(* carried out once, for a request whose first answer was yes.             *)
(*                                                                         *)
(* The semaphore makes the run that waits or has writes let through the    *)
(* only one at work.  The list of the request it waits for still holds all *)
(* that was pressed, so the oldest decision is the first press.            *)

\* A run between its start and its end has the semaphore; only one at work has writes
\* let through.
WorkersHoldTheBrowser ==
  \A r \in BrowserRuns :
    /\ browse[r].at \in {"running", "waiting", "failed"} => browser = r
    /\ r \in unasked => browse[r].at \in {"running", "waiting"}
    /\ browse[r].gated # {} => browse[r].at \in {"running", "waiting"}

AskedBy(q, r) ==
  q \in 1..Len(asked) /\ asked[q] = [run |-> r, attempt |-> browse[r].attempt]

\* The request a run waits for is its own, its list is complete and its write not done.
WaitsForItsOwn ==
  \A r \in BrowserRuns : browse[r].at = "waiting" =>
    /\ AskedBy(browse[r].request, r) /\ browse[r].request \notin browse[r].gated
    /\ performed[browse[r].request] = 0
    /\ decisions[browse[r].request] = pressed[browse[r].request]

Approved(q) == pressed[q] # <<>> /\ pressed[q][1] = "approve"

\* A write let through was asked for in this attempt, approved and not done yet.
GatedAreApproved ==
  \A r \in BrowserRuns : \A q \in browse[r].gated :
    AskedBy(q, r) /\ Approved(q) /\ performed[q] = 0

\* Nothing is known of a request nobody made.
NewRequestsAreBlank ==
  \A q \in Requests : q > Len(asked) =>
    q \notin prompted /\ pressed[q] = <<>> /\ decisions[q] = <<>> /\ performed[q] = 0

PerformedAreApproved ==
  \A q \in Requests : performed[q] <= 1 /\ (performed[q] > 0 => Approved(q))

\* A refusal is not retried.
RefusedAreOver ==
  \A r \in refused :
    browse[r].at = "over" \/ (browse[r].at = "failed" /\ browse[r].kind = "unknown")

BInv ==
  /\ BrowserTypeOK
  /\ WorkersHoldTheBrowser
  /\ WaitsForItsOwn
  /\ GatedAreApproved
  /\ NewRequestsAreBlank
  /\ PerformedAreApproved
  /\ RefusedAreOver

-----------------------------------------------------------------------------
\* A run that has not started or is over.
LEMMA RestingRuns ==
  /\ NotStarted \in BrowseStates
  /\ \A n \in 0..2 : [NotStarted EXCEPT !.at = "running", !.attempt = n] \in BrowseStates
  /\ [NotStarted EXCEPT !.at = "over"] \in BrowseStates
<1>1. NotStarted \in BrowseStates
  BY BrowserBounds DEF NotStarted, BrowseStates, BrowseStages, Kinds
<1> QED
  BY <1>1 DEF BrowseStates, BrowseStages

\* No run has started.
LEMMA BrowserStartsSafe == BrowserInit => BInv
<1> SUFFICES ASSUME BrowserInit PROVE BInv
  OBVIOUS
<1>1. BrowserTypeOK
  <2>1. asked \in Seq(Asks) /\ Len(asked) <= RequestLimit
    BY BrowserBounds DEF BrowserInit
  <2>2. browse \in [BrowserRuns -> BrowseStates]
    BY RestingRuns DEF BrowserInit
  <2>3. /\ decisions \in [Requests -> Seq(Presses)] /\ pressed \in [Requests -> Seq(Presses)]
        /\ performed \in [Requests -> Nat]
    BY DEF BrowserInit
  <2> QED
    BY <2>1, <2>2, <2>3 DEF BrowserInit, BrowserTypeOK
<1>2. WorkersHoldTheBrowser /\ WaitsForItsOwn /\ GatedAreApproved
  BY DEF BrowserInit, WorkersHoldTheBrowser, WaitsForItsOwn, GatedAreApproved, NotStarted
<1>3. NewRequestsAreBlank /\ PerformedAreApproved /\ RefusedAreOver
  BY DEF BrowserInit, NewRequestsAreBlank, PerformedAreApproved, RefusedAreOver
<1> QED
  BY <1>1, <1>2, <1>3 DEF BInv

\* The parts give the property.
LEMMA BInvImplies == BInv => WritesAreApproved
<1> SUFFICES ASSUME BInv PROVE WritesAreApproved
  OBVIOUS
<1>1. \A q \in Requests : performed[q] <= 1 /\ (performed[q] > 0 => Approved(q))
  BY DEF BInv, PerformedAreApproved
<1>2. ASSUME NEW r \in BrowserRuns, browse[r].gated # {} \/ r \in unasked
      PROVE  browser = r /\ r \notin refused
  BY <1>2 DEF BInv, WorkersHoldTheBrowser, RefusedAreOver
<1>3. \A r \in refused : browse[r].at \in {"failed", "over"}
  BY DEF BInv, RefusedAreOver
<1>4. \A r \in BrowserRuns : \A q \in browse[r].gated :
        asked[q] = [run |-> r, attempt |-> browse[r].attempt]
  BY DEF BInv, GatedAreApproved, AskedBy
<1> QED
  BY <1>1, <1>2, <1>3, <1>4 DEF WritesAreApproved, Approved

\* What FailsAs does to a run.
LEMMA FailsEffect ==
  ASSUME BrowserTypeOK, NEW r \in BrowserRuns, NEW k \in Kinds, FailsAs(r, k)
  PROVE  /\ browse' \in [BrowserRuns -> BrowseStates]
         /\ browse'[r].at = "failed" /\ browse'[r].kind = k /\ browse'[r].gated = {}
         /\ \A s \in BrowserRuns \ {r} : browse'[s] = browse[s]
         /\ unasked' = unasked \ {r}
BY DEF FailsAs, StepIsOver, BrowserTypeOK, BrowseStates, BrowseStages

\* What the end of a run does to it.
LEMMA OverEffect ==
  ASSUME BrowserTypeOK, NEW r \in BrowserRuns,
         browse' = [browse EXCEPT ![r] = [NotStarted EXCEPT !.at = "over"]]
  PROVE  /\ browse' \in [BrowserRuns -> BrowseStates]
         /\ browse'[r].at = "over" /\ browse'[r].gated = {}
         /\ \A s \in BrowserRuns \ {r} : browse'[s] = browse[s]
BY RestingRuns DEF BrowserTypeOK, NotStarted

\* A request is made: its number is the next one, and the run waits or has failed.
LEMMA AskEffect ==
  ASSUME BrowserTypeOK, NEW r \in BrowserRuns, NEW action, AskOwner(r, action)
  PROVE  /\ browse[r].at = "running"
         /\ asked' = Append(asked, [run |-> r, attempt |-> browse[r].attempt])
         /\ asked' \in Seq(Asks) /\ Len(asked') = Len(asked) + 1 /\ Len(asked') \in Requests
         /\ \A q \in 1..Len(asked) : asked'[q] = asked[q]
         /\ asked'[Len(asked')] = [run |-> r, attempt |-> browse[r].attempt]
         /\ browse' \in [BrowserRuns -> BrowseStates]
         /\ \A s \in BrowserRuns \ {r} : browse'[s] = browse[s]
         /\ \/ /\ browse'[r].at = "waiting" /\ browse'[r].request = Len(asked')
               /\ browse'[r].gated = browse[r].gated /\ browse'[r].attempt = browse[r].attempt
               /\ prompted' = prompted \union {Len(asked')} /\ unasked' = unasked
            \/ /\ browse'[r].at = "failed" /\ browse'[r].gated = {}
               /\ browse'[r].kind \in Kinds /\ prompted' = prompted
               /\ unasked' = unasked \ {r}
         /\ UNCHANGED <<browser, decisions, pressed, performed, refused, browserTickets>>
<1>1. /\ browse[r].at = "running" /\ Len(asked) < RequestLimit
      /\ asked' = Append(asked, [run |-> r, attempt |-> browse[r].attempt])
      /\ UNCHANGED <<browser, decisions, pressed, performed, refused, browserTickets>>
  BY DEF AskOwner, OwnerUntouched
<1>2. browse[r] \in BrowseStates /\ asked \in Seq(Asks)
  BY DEF BrowserTypeOK
<1>3. [run |-> r, attempt |-> browse[r].attempt] \in Asks
  BY <1>2 DEF BrowseStates, Asks
<1>4. /\ asked' \in Seq(Asks) /\ Len(asked') = Len(asked) + 1 /\ Len(asked') \in Requests
      /\ \A q \in 1..Len(asked) : asked'[q] = asked[q]
      /\ asked'[Len(asked')] = [run |-> r, attempt |-> browse[r].attempt]
  BY <1>1, <1>2, <1>3, BrowserBounds DEF Requests
<1>5. CASE /\ prompted' = prompted \union {Len(asked')} /\ unasked' = unasked
           /\ browse' = [browse EXCEPT ![r] = [@ EXCEPT !.at = "waiting", !.request = Len(asked')]]
  <2>1. Len(asked') \in 0..RequestLimit
    BY <1>4, BrowserBounds DEF Requests
  <2>2. /\ browse' \in [BrowserRuns -> BrowseStates]
        /\ \A s \in BrowserRuns \ {r} : browse'[s] = browse[s]
        /\ browse'[r].at = "waiting" /\ browse'[r].request = Len(asked')
        /\ browse'[r].gated = browse[r].gated /\ browse'[r].attempt = browse[r].attempt
    BY <1>2, <1>5, <2>1 DEF BrowserTypeOK, BrowseStates, BrowseStages
  <2> QED
    BY <1>1, <1>4, <1>5, <2>2
<1>6. CASE \E kind \in {"timeout", "unknown"} : FailsAs(r, kind) /\ UNCHANGED prompted
  BY <1>1, <1>4, <1>6, FailsEffect DEF Kinds
<1> QED
  BY <1>5, <1>6 DEF AskOwner

\* The first decision on the list is handled.
LEMMA DecidedEffect ==
  ASSUME BrowserTypeOK, NEW r \in BrowserRuns, Decided(r), browse[r].request \in Requests
  PROVE  /\ browse[r].at = "waiting" /\ decisions[browse[r].request] # <<>>
         /\ browse' \in [BrowserRuns -> BrowseStates]
         /\ \A s \in BrowserRuns \ {r} : browse'[s] = browse[s]
         /\ \/ /\ Head(decisions[browse[r].request]) = "approve" /\ refused' = refused
               /\ browse'[r].at = "running" /\ browse'[r].attempt = browse[r].attempt
               /\ browse'[r].gated = browse[r].gated \union {browse[r].request}
               /\ unasked' = unasked
            \/ /\ refused' = refused \union {r}
               /\ browse'[r].at = "failed" /\ browse'[r].gated = {}
               /\ browse'[r].kind = "unknown" /\ unasked' = unasked \ {r}
         /\ \A q \in Requests \ {browse[r].request} : decisions'[q] = decisions[q]
         /\ decisions' \in [Requests -> Seq(Presses)]
         /\ UNCHANGED <<browser, asked, prompted, pressed, performed, browserTickets>>
<1>1. /\ browse[r].at = "waiting" /\ decisions[browse[r].request] # <<>>
      /\ decisions' = [decisions EXCEPT ![browse[r].request] = Tail(@)]
      /\ UNCHANGED <<browser, asked, prompted, pressed, performed, browserTickets>>
  BY DEF Decided
<1>2. /\ \A q \in Requests \ {browse[r].request} : decisions'[q] = decisions[q]
      /\ decisions' \in [Requests -> Seq(Presses)]
  <2>1. Tail(decisions[browse[r].request]) \in Seq(Presses)
    BY <1>1 DEF BrowserTypeOK
  <2> QED
    BY <1>1, <2>1 DEF BrowserTypeOK
<1>3. CASE Received(r) = "approve"
  <2>2. browse[r] \in BrowseStates
    BY DEF BrowserTypeOK
  <2> DEFINE next == [browse[r] EXCEPT
                        !.at = "running", !.gated = browse[r].gated \union {browse[r].request}]
  <2>3. /\ next \in BrowseStates /\ next.at = "running" /\ next.attempt = browse[r].attempt
        /\ next.gated = browse[r].gated \union {browse[r].request}
    BY <2>2 DEF BrowseStates, BrowseStages
  <2>4. browse' = [browse EXCEPT ![r] = next] /\ UNCHANGED <<refused, unasked>>
    BY <1>3 DEF Decided
  <2> HIDE DEF next
  <2>5. /\ browse' \in [BrowserRuns -> BrowseStates]
        /\ \A s \in BrowserRuns \ {r} : browse'[s] = browse[s]
        /\ browse'[r] = next
    BY <2>3, <2>4 DEF BrowserTypeOK
  <2> QED
    BY <1>1, <1>2, <1>3, <2>3, <2>4, <2>5 DEF Received
<1>4. CASE Received(r) # "approve"
  <2>1. FailsAs(r, "unknown") /\ refused' = refused \union {r}
    BY <1>4 DEF Decided
  <2> QED
    BY <1>1, <1>2, <2>1, FailsEffect DEF Kinds
<1> QED
  BY <1>3, <1>4

\* A step that leaves a run without writes let through and every request as it was.
QuietStep(r) ==
  /\ browse' \in [BrowserRuns -> BrowseStates]
  /\ browse'[r].at # "waiting" /\ browse'[r].gated = {} /\ unasked' = unasked \ {r}
  /\ \A s \in BrowserRuns \ {r} : browse'[s] = browse[s]
  /\ UNCHANGED <<asked, decisions, prompted, pressed, performed>>

\* Starts, failures and ends are quiet.
LEMMA QuietSteps ==
  ASSUME BrowserTypeOK, NEW r \in BrowserRuns,
         \/ StartBrowsing(r) \/ RetryBrowsing(r) \/ GiveUpBrowsing(r) \/ BrowsingEnds(r)
         \/ \E kind \in Kinds : ApprovalFails(r, kind) \/ BrowsingFails(r, kind)
  PROVE  QuietStep(r)
<1> USE DEF QuietStep, PromptsUntouched, StepIsOver
<1>1. CASE StartBrowsing(r)
  <2>1. /\ browse' = [browse EXCEPT ![r] = [NotStarted EXCEPT !.at = "running", !.attempt = 1]]
        /\ unasked' = unasked \ {r}
        /\ UNCHANGED <<asked, decisions, prompted, pressed, performed>>
    BY <1>1 DEF StartBrowsing
  <2> DEFINE run == [NotStarted EXCEPT !.at = "running", !.attempt = 1]
  <2>2. run \in BrowseStates /\ run.at = "running" /\ run.gated = {}
    BY RestingRuns DEF NotStarted
  <2>3. browse' = [browse EXCEPT ![r] = run]
    BY <2>1
  <2> HIDE DEF run
  <2> QED
    BY <2>1, <2>2, <2>3 DEF BrowserTypeOK
<1>2. CASE RetryBrowsing(r)
  <2>1. /\ browse' = [browse EXCEPT ![r] = [NotStarted EXCEPT !.at = "running", !.attempt = 2]]
        /\ unasked' = unasked \ {r}
        /\ UNCHANGED <<asked, decisions, prompted, pressed, performed>>
    BY <1>2 DEF RetryBrowsing
  <2> DEFINE run == [NotStarted EXCEPT !.at = "running", !.attempt = 2]
  <2>2. run \in BrowseStates /\ run.at = "running" /\ run.gated = {}
    BY RestingRuns DEF NotStarted
  <2>3. browse' = [browse EXCEPT ![r] = run]
    BY <2>1
  <2> HIDE DEF run
  <2> QED
    BY <2>1, <2>2, <2>3 DEF BrowserTypeOK
<1>3. CASE GiveUpBrowsing(r) \/ BrowsingEnds(r)
  <2>1. /\ browse' = [browse EXCEPT ![r] = [NotStarted EXCEPT !.at = "over"]]
        /\ unasked' = unasked \ {r}
        /\ UNCHANGED <<asked, decisions, prompted, pressed, performed>>
    BY <1>3 DEF GiveUpBrowsing, BrowsingEnds
  <2> QED
    BY <2>1, OverEffect
<1>4. ASSUME NEW kind \in Kinds, ApprovalFails(r, kind) \/ BrowsingFails(r, kind)
      PROVE  QuietStep(r)
  <2>1. FailsAs(r, kind) /\ UNCHANGED <<asked, decisions, prompted, pressed, performed>>
    BY <1>4 DEF ApprovalFails, BrowsingFails
  <2> QED
    BY <2>1, FailsEffect
<1> QED
  BY <1>1, <1>2, <1>3, <1>4

\* A step of the browser runs is quiet or does something to a request.
LEMMA StepShapes ==
  ASSUME BrowserTypeOK, BrowserNext
  PROVE  \/ \E r \in BrowserRuns :
              \/ QuietStep(r) \/ Decided(r) \/ PerformStep(r)
              \/ \E action \in Actions : AskOwner(r, action) \/ LetThrough(r, action)
         \/ \E q \in Requests : PromptEdited(q) \/ \E decision \in Presses : Press(q, decision)
BY QuietSteps DEF BrowserNext

\* A decision is read by the run that waits for it, from the complete list.
LEMMA FirstAnswer ==
  ASSUME BInv, NEW r \in BrowserRuns, browse[r].at = "waiting"
  PROVE  /\ browse[r].request \in Requests /\ AskedBy(browse[r].request, r)
         /\ browse[r].request \notin browse[r].gated
         /\ performed[browse[r].request] = 0
         /\ decisions[browse[r].request] = pressed[browse[r].request]
<1>1. /\ AskedBy(browse[r].request, r) /\ browse[r].request \notin browse[r].gated
      /\ performed[browse[r].request] = 0
      /\ decisions[browse[r].request] = pressed[browse[r].request]
  BY DEF BInv, WaitsForItsOwn
<1>2. Len(asked) <= RequestLimit /\ Len(asked) \in Nat
  BY DEF BInv, BrowserTypeOK
<1> QED
  BY <1>1, <1>2, BrowserBounds DEF AskedBy, Requests

\* Every step keeps the types.
LEMMA StepsKeepBrowserTypes ==
  ASSUME BInv, [BrowserNext]_browserVars
  PROVE  BrowserTypeOK'
<1> DEFINE Kept == BrowserTypeOK'
<1>a. BrowserTypeOK
  BY DEF BInv
<1> USE DEF BrowserTypeOK, PromptsUntouched, OwnerUntouched, StepIsOver, FailsAs
<1>1. ASSUME NEW r \in BrowserRuns, StartBrowsing(r) PROVE Kept
  <2>1. browse' \in [BrowserRuns -> BrowseStates]
    BY <1>1, <1>a, QuietSteps DEF QuietStep
  <2> QED
    BY <1>1, <1>a, <2>1 DEF StartBrowsing
<1>2. ASSUME NEW r \in BrowserRuns, NEW action, AskOwner(r, action) PROVE Kept
  <2>1. /\ asked' \in Seq(Asks) /\ Len(asked') \in Requests
        /\ browse' \in [BrowserRuns -> BrowseStates]
        /\ prompted' \in {prompted, prompted \union {Len(asked')}}
        /\ unasked' \subseteq unasked
        /\ UNCHANGED <<browser, decisions, pressed, performed, refused, browserTickets>>
    BY <1>2, <1>a, AskEffect
  <2>2. prompted' \subseteq Requests
    BY <1>a, <2>1
  <2>3. Len(asked') <= RequestLimit
    BY <2>1, BrowserBounds DEF Requests
  <2> QED
    BY <1>a, <2>1, <2>2, <2>3
<1>3. ASSUME NEW r \in BrowserRuns, Decided(r) PROVE Kept
  <2>1. browse[r].at = "waiting"
    BY <1>3 DEF Decided
  <2>2. browse[r].request \in Requests
    BY <2>1, FirstAnswer
  <2>3. /\ browse' \in [BrowserRuns -> BrowseStates]
        /\ decisions' \in [Requests -> Seq(Presses)]
        /\ refused' \in {refused, refused \union {r}}
        /\ unasked' \subseteq unasked
        /\ UNCHANGED <<browser, asked, prompted, pressed, performed, browserTickets>>
    BY <1>3, <1>a, <2>2, DecidedEffect
  <2> QED
    BY <1>a, <2>3
<1>4. ASSUME NEW r \in BrowserRuns, PerformStep(r) PROVE Kept
  <2>1. browse' \in [BrowserRuns -> BrowseStates]
    BY <1>4, <1>a DEF PerformStep, BrowseStates
  <2>2. performed' \in [Requests -> Nat]
    BY <1>4, <1>a DEF PerformStep
  <2> QED
    BY <1>4, <1>a, <2>1, <2>2 DEF PerformStep
<1>5. ASSUME NEW r \in BrowserRuns, NEW kind \in Kinds, ApprovalFails(r, kind) PROVE Kept
  <2>1. browse' \in [BrowserRuns -> BrowseStates]
    BY <1>5, <1>a, QuietSteps DEF QuietStep
  <2> QED
    BY <1>5, <1>a, <2>1 DEF ApprovalFails
<1>6. ASSUME NEW r \in BrowserRuns, NEW kind \in Kinds, BrowsingFails(r, kind) PROVE Kept
  <2>1. browse' \in [BrowserRuns -> BrowseStates]
    BY <1>6, <1>a, QuietSteps DEF QuietStep
  <2> QED
    BY <1>6, <1>a, <2>1 DEF BrowsingFails
<1>7. ASSUME NEW r \in BrowserRuns, RetryBrowsing(r) PROVE Kept
  <2>1. browse' \in [BrowserRuns -> BrowseStates]
    BY <1>7, <1>a, QuietSteps DEF QuietStep
  <2> QED
    BY <1>7, <1>a, <2>1 DEF RetryBrowsing
<1>8. ASSUME NEW r \in BrowserRuns, GiveUpBrowsing(r) PROVE Kept
  <2>1. browse' \in [BrowserRuns -> BrowseStates]
    BY <1>8, <1>a, QuietSteps DEF QuietStep
  <2> QED
    BY <1>8, <1>a, <2>1 DEF GiveUpBrowsing
<1>9. ASSUME NEW r \in BrowserRuns, BrowsingEnds(r) PROVE Kept
  <2>1. browse' \in [BrowserRuns -> BrowseStates]
    BY <1>9, <1>a, QuietSteps DEF QuietStep
  <2> QED
    BY <1>9, <1>a, <2>1 DEF BrowsingEnds
<1>10. ASSUME NEW q \in Requests, PromptEdited(q) PROVE Kept
  BY <1>10, <1>a DEF PromptEdited
<1>11. ASSUME NEW q \in Requests, NEW decision \in Presses, Press(q, decision) PROVE Kept
  <2>1. /\ pressed' \in [Requests -> Seq(Presses)] /\ decisions' \in [Requests -> Seq(Presses)]
    BY <1>11, <1>a DEF Press
  <2> QED
    BY <1>11, <1>a, <2>1 DEF Press
<1>12. CASE UNCHANGED browserVars
  BY <1>12, <1>a DEF browserVars
<1>13. ASSUME NEW r \in BrowserRuns, NEW action, LetThrough(r, action) PROVE Kept
  BY <1>13, <1>a DEF LetThrough
<1> QED
  BY <1>1, <1>2, <1>3, <1>4, <1>5, <1>6, <1>7, <1>8, <1>9, <1>10, <1>11, <1>12, <1>13
     DEF BrowserNext

\* Every step keeps the semaphore with the run at work and refusals final.
LEMMA StepsKeepWorkers ==
  ASSUME BInv, [BrowserNext]_browserVars
  PROVE  WorkersHoldTheBrowser' /\ RefusedAreOver'
<1> DEFINE Kept == WorkersHoldTheBrowser' /\ RefusedAreOver'
<1>a. BrowserTypeOK /\ WorkersHoldTheBrowser /\ RefusedAreOver /\ refused \subseteq BrowserRuns
  BY DEF BInv, BrowserTypeOK
<1>b. NotStarted.gated = {} /\ NotStarted.at = "new"
  BY DEF NotStarted
<1>c. ASSUME NEW r \in BrowserRuns, NEW action, AskOwner(r, action)
      PROVE  /\ browse[r].at = "running" /\ browser' = browser /\ refused' = refused
             /\ \A s \in BrowserRuns \ {r} : browse'[s] = browse[s]
             /\ \/ browse'[r].at = "waiting" /\ unasked' = unasked
                \/ browse'[r].at = "failed" /\ browse'[r].gated = {} /\ unasked' = unasked \ {r}
  BY <1>a, <1>c, AskEffect
<1> USE <1>a, NoRunIsNoRun DEF WorkersHoldTheBrowser, RefusedAreOver, OwnerUntouched
<1>1. ASSUME NEW r \in BrowserRuns, StartBrowsing(r) PROVE Kept
  <2>1. /\ browse[r].at = "new" /\ browser = NoRun /\ browser' = r /\ refused' = refused
        /\ browse' = [browse EXCEPT ![r] = [NotStarted EXCEPT !.at = "running", !.attempt = 1]]
    BY <1>1 DEF StartBrowsing
  <2>2. /\ browse'[r].gated = {} /\ unasked' = unasked \ {r}
        /\ \A s \in BrowserRuns \ {r} : browse'[s] = browse[s]
    BY <1>1, QuietSteps DEF QuietStep
  <2> QED
    BY <2>1, <2>2
<1>2. ASSUME NEW r \in BrowserRuns, NEW action, AskOwner(r, action) PROVE Kept
  BY <1>2, <1>c
<1>3. ASSUME NEW r \in BrowserRuns, Decided(r) PROVE Kept
  <2>1. browse[r].at = "waiting" /\ browse[r].request \in Requests
    BY <1>3, FirstAnswer DEF Decided
  <2>2. /\ browser' = browser
        /\ \A s \in BrowserRuns \ {r} : browse'[s] = browse[s]
        /\ \/ browse'[r].at = "running" /\ refused' = refused /\ unasked' = unasked
           \/ /\ browse'[r].at = "failed" /\ browse'[r].gated = {} /\ unasked' = unasked \ {r}
              /\ browse'[r].kind = "unknown" /\ refused' = refused \union {r}
    BY <1>3, <2>1, DecidedEffect
  <2> QED
    BY <2>1, <2>2
<1>4. ASSUME NEW r \in BrowserRuns, PerformStep(r) PROVE Kept
  <2>1. /\ browse[r].at = "running" /\ browser' = browser /\ refused' = refused
        /\ browse' = [browse EXCEPT ![r].gated = {}] /\ unasked' = unasked \ {r}
    BY <1>4 DEF PerformStep, StepIsOver
  <2>2. /\ browse'[r].at = "running" /\ browse'[r].gated = {}
        /\ \A s \in BrowserRuns \ {r} : browse'[s] = browse[s]
    BY <2>1 DEF BrowserTypeOK, BrowseStates
  <2> QED
    BY <2>1, <2>2
<1>5. ASSUME NEW r \in BrowserRuns, NEW kind \in Kinds, ApprovalFails(r, kind) PROVE Kept
  <2>1. /\ browse[r].at = "waiting" /\ browser' = browser /\ refused' = refused
    BY <1>5 DEF ApprovalFails
  <2>2. /\ browse'[r].gated = {} /\ unasked' = unasked \ {r}
        /\ \A s \in BrowserRuns \ {r} : browse'[s] = browse[s]
    BY <1>5, QuietSteps DEF QuietStep
  <2> QED
    BY <2>1, <2>2
<1>6. ASSUME NEW r \in BrowserRuns, NEW kind \in Kinds, BrowsingFails(r, kind) PROVE Kept
  <2>1. /\ browse[r].at \in {"running", "waiting"} /\ browser' = browser /\ refused' = refused
    BY <1>6 DEF BrowsingFails
  <2>2. /\ browse'[r].gated = {} /\ unasked' = unasked \ {r}
        /\ \A s \in BrowserRuns \ {r} : browse'[s] = browse[s]
    BY <1>6, QuietSteps DEF QuietStep
  <2> QED
    BY <2>1, <2>2
<1>7. ASSUME NEW r \in BrowserRuns, RetryBrowsing(r) PROVE Kept
  <2>1. /\ browse[r].at = "failed" /\ browse[r].kind \in Retryable
        /\ browser' = browser /\ refused' = refused
    BY <1>7 DEF RetryBrowsing
  <2>2. /\ browse'[r].gated = {} /\ unasked' = unasked \ {r}
        /\ \A s \in BrowserRuns \ {r} : browse'[s] = browse[s]
    BY <1>7, QuietSteps DEF QuietStep
  <2> QED
    BY <2>1, <2>2 DEF Retryable
<1>8. ASSUME NEW r \in BrowserRuns, GiveUpBrowsing(r) PROVE Kept
  <2>1. /\ browse[r].at = "failed" /\ browser' = NoRun /\ refused' = refused
        /\ browse' = [browse EXCEPT ![r] = [NotStarted EXCEPT !.at = "over"]]
        /\ unasked' = unasked \ {r}
    BY <1>8 DEF GiveUpBrowsing, StepIsOver
  <2> QED
    BY <2>1, OverEffect
<1>9. ASSUME NEW r \in BrowserRuns, BrowsingEnds(r) PROVE Kept
  <2>1. /\ browse[r].at \in {"running", "waiting", "failed"}
        /\ browser' = NoRun /\ refused' = refused
        /\ browse' = [browse EXCEPT ![r] = [NotStarted EXCEPT !.at = "over"]]
        /\ unasked' = unasked \ {r}
    BY <1>9 DEF BrowsingEnds, StepIsOver
  <2> QED
    BY <2>1, OverEffect
<1>10. ASSUME NEW q \in Requests, PromptEdited(q) PROVE Kept
  BY <1>10 DEF PromptEdited
<1>11. ASSUME NEW q \in Requests, NEW decision \in Presses, Press(q, decision) PROVE Kept
  BY <1>11 DEF Press
<1>12. CASE UNCHANGED browserVars
  BY <1>12 DEF browserVars
<1>13. ASSUME NEW r \in BrowserRuns, NEW action, LetThrough(r, action) PROVE Kept
  BY <1>13 DEF LetThrough, PromptsUntouched
<1> QED
  BY <1>1, <1>2, <1>3, <1>4, <1>5, <1>6, <1>7, <1>8, <1>9, <1>10, <1>11, <1>12, <1>13
     DEF BrowserNext

\* Every step keeps what is known of the requests.
LEMMA StepsKeepRequests ==
  ASSUME BInv, BrowserTypeOK', [BrowserNext]_browserVars
  PROVE  WaitsForItsOwn' /\ GatedAreApproved' /\ NewRequestsAreBlank' /\ PerformedAreApproved'
<1> DEFINE Kept == WaitsForItsOwn' /\ GatedAreApproved' /\ NewRequestsAreBlank'
                   /\ PerformedAreApproved'
<1>a. /\ BrowserTypeOK /\ WaitsForItsOwn /\ GatedAreApproved /\ NewRequestsAreBlank
      /\ PerformedAreApproved /\ WorkersHoldTheBrowser
  BY DEF BInv
<1>b. /\ asked \in Seq(Asks) /\ Len(asked) \in Nat /\ Len(asked) <= RequestLimit
      /\ decisions \in [Requests -> Seq(Presses)] /\ pressed \in [Requests -> Seq(Presses)]
      /\ performed \in [Requests -> Nat]
      /\ \A r \in BrowserRuns : browse[r].gated \subseteq Requests
  BY <1>a DEF BrowserTypeOK, BrowseStates
<1>c. \A r \in BrowserRuns : browse[r].at = "waiting" => browse[r].request \in Requests
  BY FirstAnswer
<1>1. ASSUME NEW r \in BrowserRuns, QuietStep(r) PROVE Kept
  <2>1. /\ browse'[r].at # "waiting" /\ browse'[r].gated = {}
        /\ \A s \in BrowserRuns \ {r} : browse'[s] = browse[s]
        /\ UNCHANGED <<asked, decisions, prompted, pressed, performed>>
    BY <1>1 DEF QuietStep
  <2>2. WaitsForItsOwn'
    BY <2>1, <1>a DEF WaitsForItsOwn, AskedBy
  <2>3. GatedAreApproved'
    BY <2>1, <1>a DEF GatedAreApproved, AskedBy, Approved
  <2>4. NewRequestsAreBlank' /\ PerformedAreApproved'
    BY <2>1, <1>a DEF NewRequestsAreBlank, PerformedAreApproved, Approved
  <2> QED
    BY <2>2, <2>3, <2>4
<1>2. ASSUME NEW r \in BrowserRuns, NEW action, AskOwner(r, action) PROVE Kept
  <2>1. /\ Len(asked') = Len(asked) + 1 /\ Len(asked') \in Requests
        /\ \A q \in 1..Len(asked) : asked'[q] = asked[q]
        /\ asked'[Len(asked')] = [run |-> r, attempt |-> browse[r].attempt]
        /\ \A s \in BrowserRuns \ {r} : browse'[s] = browse[s]
        /\ \/ /\ browse'[r].at = "waiting" /\ browse'[r].request = Len(asked')
              /\ browse'[r].gated = browse[r].gated /\ browse'[r].attempt = browse[r].attempt
              /\ prompted' = prompted \union {Len(asked')}
           \/ /\ browse'[r].at = "failed" /\ browse'[r].gated = {} /\ prompted' = prompted
        /\ UNCHANGED <<decisions, pressed, performed>>
    BY <1>2, <1>a, AskEffect
  <2>2. Len(asked') \in Nat /\ Len(asked') \notin 1..Len(asked)
    BY <2>1, <1>b
  <2>3. \A s \in BrowserRuns : \A q :
          browse'[s].attempt = browse[s].attempt /\ AskedBy(q, s) => AskedBy(q, s)'
    BY <2>1, <2>2, <1>b DEF AskedBy
  <2>4. /\ pressed[Len(asked')] = <<>> /\ decisions[Len(asked')] = <<>>
        /\ performed[Len(asked')] = 0
    BY <2>1, <1>a, <1>b DEF NewRequestsAreBlank
  <2>5. \A s \in BrowserRuns : Len(asked') \notin browse[s].gated
    BY <2>2, <1>a DEF GatedAreApproved, AskedBy
  <2>6. WaitsForItsOwn'
    <3>1. ASSUME NEW s \in BrowserRuns \ {r}, browse'[s].at = "waiting"
          PROVE  /\ AskedBy(browse[s].request, s)' /\ browse'[s].request \notin browse'[s].gated
                 /\ performed'[browse'[s].request] = 0
                 /\ decisions'[browse'[s].request] = pressed'[browse'[s].request]
      <4>1. browse'[s] = browse[s] /\ UNCHANGED <<decisions, pressed, performed>>
        BY <2>1
      <4> QED
        BY <3>1, <4>1, <2>3, <1>a DEF WaitsForItsOwn
    <3>2. ASSUME browse'[r].at = "waiting"
          PROVE  /\ AskedBy(browse[r].request, r)' /\ browse'[r].request \notin browse'[r].gated
                 /\ performed'[browse'[r].request] = 0
                 /\ decisions'[browse'[r].request] = pressed'[browse'[r].request]
      <4>1. /\ browse'[r].request = Len(asked') /\ browse'[r].gated = browse[r].gated
            /\ browse'[r].attempt = browse[r].attempt
            /\ asked'[Len(asked')] = [run |-> r, attempt |-> browse[r].attempt]
            /\ UNCHANGED <<decisions, pressed, performed>>
        BY <3>2, <2>1
      <4>2. Len(asked') \in 1..Len(asked')
        BY <2>1, <2>2, <1>b
      <4> QED
        BY <4>1, <4>2, <2>4, <2>5 DEF AskedBy
    <3> QED
      BY <3>1, <3>2 DEF WaitsForItsOwn
  <2>7. GatedAreApproved'
    <3>1. \A s \in BrowserRuns : browse'[s].gated = {} \/
            (browse'[s].gated = browse[s].gated /\ browse'[s].attempt = browse[s].attempt)
      BY <2>1
    <3>2. UNCHANGED <<pressed, performed>>
      BY <2>1
    <3> QED
      BY <3>1, <3>2, <2>3, <1>a DEF GatedAreApproved, Approved
  <2>8. NewRequestsAreBlank'
    <3>1. \A q \in Requests : q > Len(asked') => q > Len(asked) /\ q # Len(asked')
      BY <2>1, <1>b DEF Requests
    <3>2. /\ UNCHANGED <<decisions, pressed, performed>>
          /\ prompted' \in {prompted, prompted \union {Len(asked')}}
      BY <2>1
    <3> QED
      BY <3>1, <3>2, <1>a DEF NewRequestsAreBlank
  <2>9. PerformedAreApproved'
    BY <2>1, <1>a DEF PerformedAreApproved, Approved
  <2> QED
    BY <2>6, <2>7, <2>8, <2>9
<1>3. ASSUME NEW r \in BrowserRuns, Decided(r) PROVE Kept
  <2>1. browse[r].at = "waiting" /\ browse[r].request \in Requests
    BY <1>3, <1>c DEF Decided
  <2>2. /\ AskedBy(browse[r].request, r) /\ performed[browse[r].request] = 0
        /\ decisions[browse[r].request] = pressed[browse[r].request]
        /\ browser = r
    BY <2>1, <1>a, FirstAnswer DEF WorkersHoldTheBrowser
  <2>3. /\ decisions[browse[r].request] # <<>>
        /\ \A s \in BrowserRuns \ {r} : browse'[s] = browse[s]
        /\ \/ /\ Head(decisions[browse[r].request]) = "approve"
              /\ browse'[r].at = "running" /\ browse'[r].attempt = browse[r].attempt
              /\ browse'[r].gated = browse[r].gated \union {browse[r].request}
           \/ browse'[r].at = "failed" /\ browse'[r].gated = {}
        /\ \A q \in Requests \ {browse[r].request} : decisions'[q] = decisions[q]
        /\ UNCHANGED <<asked, prompted, pressed, performed>>
    BY <1>3, <1>a, <2>1, DecidedEffect
  <2>4. Head(decisions[browse[r].request]) = "approve" => Approved(browse[r].request)
    BY <2>1, <2>2, <2>3, <1>b DEF Approved
  <2>5. \A s \in BrowserRuns \ {r} : browse[s].at # "waiting"
    BY <2>2, <1>a DEF WorkersHoldTheBrowser
  <2>6. WaitsForItsOwn'
    BY <2>3, <2>5 DEF WaitsForItsOwn
  <2>7. GatedAreApproved'
    BY <2>2, <2>3, <2>4, <1>a DEF GatedAreApproved, AskedBy, Approved
  <2>8. NewRequestsAreBlank' /\ PerformedAreApproved'
    BY <2>2, <2>3, <1>a, <1>b DEF NewRequestsAreBlank, PerformedAreApproved, Approved, AskedBy
  <2> QED
    BY <2>6, <2>7, <2>8
<1>4. ASSUME NEW r \in BrowserRuns, PerformStep(r) PROVE Kept
  <2>1. /\ browse[r].at = "running" /\ browse' = [browse EXCEPT ![r].gated = {}]
        /\ performed' = [q \in Requests |->
             IF q \in browse[r].gated THEN performed[q] + 1 ELSE performed[q]]
        /\ UNCHANGED <<asked, decisions, prompted, pressed>>
    BY <1>4 DEF PerformStep, PromptsUntouched
  <2>2. /\ browse'[r].at = "running" /\ browse'[r].gated = {}
        /\ \A s \in BrowserRuns \ {r} : browse'[s] = browse[s]
    BY <2>1, <1>a DEF BrowserTypeOK, BrowseStates
  <2>3. \A s \in BrowserRuns \ {r} : browse[s].gated = {} /\ browse[s].at # "waiting"
    BY <2>1, <1>a DEF WorkersHoldTheBrowser
  <2>4. WaitsForItsOwn' /\ GatedAreApproved'
    BY <2>2, <2>3 DEF WaitsForItsOwn, GatedAreApproved
  <2>5. \A q \in browse[r].gated : q \in 1..Len(asked) /\ Approved(q) /\ performed[q] = 0
    BY <1>a DEF GatedAreApproved, AskedBy
  <2>6. NewRequestsAreBlank' /\ PerformedAreApproved'
    BY <2>1, <2>5, <1>a, <1>b DEF NewRequestsAreBlank, PerformedAreApproved, Approved
  <2> QED
    BY <2>4, <2>6
<1>5. ASSUME NEW q \in Requests, PromptEdited(q) PROVE Kept
  BY <1>5, <1>a, <1>b DEF PromptEdited, WaitsForItsOwn, GatedAreApproved, NewRequestsAreBlank,
     PerformedAreApproved, AskedBy, Approved
<1>6. ASSUME NEW q \in Requests, NEW decision \in Presses, Press(q, decision) PROVE Kept
  <2>1. /\ pressed'[q] = Append(pressed[q], decision)
        /\ decisions'[q] = Append(decisions[q], decision)
        /\ \A o \in Requests \ {q} : pressed'[o] = pressed[o] /\ decisions'[o] = decisions[o]
        /\ q \in prompted /\ UNCHANGED <<browse, asked, prompted, performed>>
    BY <1>6, <1>b DEF Press
  <2>2. \A o \in Requests : Approved(o) => Approved(o)'
    <3>1. Approved(q) => Approved(q)'
      <4>1. pressed[q] \in Seq(Presses) /\ decision \in Presses
        BY <1>b
      <4>2. pressed[q] # <<>> => pressed'[q] # <<>> /\ pressed'[q][1] = pressed[q][1]
        BY <4>1, <2>1
      <4> QED
        BY <4>2 DEF Approved
    <3>2. \A o \in Requests \ {q} : Approved(o) => Approved(o)'
      BY <2>1 DEF Approved
    <3> QED
      BY <3>1, <3>2
  <2>3. WaitsForItsOwn'
    <3>1. \A o \in Requests : decisions[o] = pressed[o] => decisions'[o] = pressed'[o]
      BY <2>1
    <3>2. \A s \in BrowserRuns : \A o : AskedBy(o, s) => AskedBy(o, s)'
      BY <2>1 DEF AskedBy
    <3>3. UNCHANGED <<browse, performed>>
      BY <2>1
    <3> QED
      BY <3>1, <3>2, <3>3, <1>a, <1>c DEF WaitsForItsOwn
  <2>4. GatedAreApproved'
    BY <2>1, <2>2, <1>a, <1>b DEF GatedAreApproved, AskedBy
  <2>5. NewRequestsAreBlank' /\ PerformedAreApproved'
    BY <2>1, <2>2, <1>a DEF NewRequestsAreBlank, PerformedAreApproved
  <2> QED
    BY <2>3, <2>4, <2>5
<1>7. CASE UNCHANGED browserVars
  BY <1>7, <1>a DEF browserVars, WaitsForItsOwn, GatedAreApproved, NewRequestsAreBlank,
     PerformedAreApproved, AskedBy, Approved
<1>8. ASSUME NEW r \in BrowserRuns, NEW action, LetThrough(r, action) PROVE Kept
  <2>1. UNCHANGED <<browse, asked, decisions, prompted, pressed, performed>>
    BY <1>8 DEF LetThrough, PromptsUntouched
  <2> QED
    BY <2>1, <1>a DEF WaitsForItsOwn, GatedAreApproved, NewRequestsAreBlank,
       PerformedAreApproved, AskedBy, Approved
<1> QED
  BY <1>1, <1>2, <1>3, <1>4, <1>5, <1>6, <1>7, <1>8, <1>a, StepShapes

-----------------------------------------------------------------------------
\* A write the gate recognises is carried out once and for an approved request, and
\* nothing of a run after a refusal, for any number of runs, requests and presses.
THEOREM OnlyApprovedWrites == BrowserSpec => []WritesAreApproved
<1>1. BInv /\ [BrowserNext]_browserVars => BInv'
  BY StepsKeepBrowserTypes, StepsKeepWorkers, StepsKeepRequests DEF BInv
<1> QED
  BY <1>1, BrowserStartsSafe, BInvImplies, PTL DEF BrowserSpec

-----------------------------------------------------------------------------
(* The system of ApprovalsMC.                                              *)

\* A behaviour of the whole is a behaviour of every part: they share no variable.
LEMMA ApprovalsRunTheirParts ==
  ApprovalsSpec => ApprovalSpec /\ PendingSpec /\ BrowserSpec
<1>1. ApprovalsInit => ApprovalInit /\ PendingInit /\ BrowserInit
  BY DEF ApprovalsInit
<1>2. [ApprovalsNext]_approvalsVars =>
        [ApprovalNext]_approvalVars /\ [PendingNext]_pendingVars /\ [BrowserNext]_browserVars
  <2>1. CASE Only("patch") /\ ApprovalNext
    BY <2>1 DEF Only
  <2>2. CASE Only("offer") /\ PendingNext
    BY <2>2 DEF Only
  <2>3. CASE Only("browser") /\ BrowserNext
    BY <2>3 DEF Only
  <2>4. CASE UNCHANGED approvalsVars
    BY <2>4 DEF approvalsVars
  <2>5. QED
    BY <2>1, <2>2, <2>3, <2>4 DEF ApprovalsNext
<1>3. QED
  BY <1>1, <1>2, PTL DEF ApprovalsSpec, ApprovalSpec, PendingSpec, BrowserSpec

\* The four properties of the three gates at once, whatever the others do meanwhile:
\* nothing a gate asks for is done without the owner's yes, or by two calls for one.
THEOREM ApprovalsAreSafe ==
  ApprovalsSpec => [](/\ DeployedIsLive /\ ChallengeUsedOnce
                      /\ CarriedOutOnce /\ WritesAreApproved)
BY ApprovalsRunTheirParts, DeployedStaysLive, ChallengesAreUsedOnce,
   ConfirmedOnceCarriedOutOnce, OnlyApprovedWrites, PTL

==============================================================================
