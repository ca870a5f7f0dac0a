----------------------------- MODULE ApprovalsMC ------------------------------
(***************************************************************************)
(* What the owner is asked before it is done: patches, the writes of a     *)
(* browser run, and mails and tasks drafted in a turn.  The parts share no *)
(* variable: a behaviour is one of one part.                               *)
(***************************************************************************)
EXTENDS RepairApproval, PendingActions, BrowserGate, TLC

VARIABLE part

approvalsVars ==
  <<approvalVars, pendingVars, browserVars, part>>

ApprovalsInit ==
  /\ part \in {"patch", "offer", "browser"}
  /\ ApprovalInit /\ PendingInit /\ BrowserInit

\* Only part p moves.
Only(p) ==
  /\ part = p /\ UNCHANGED part
  /\ p # "patch" => UNCHANGED approvalVars
  /\ p # "offer" => UNCHANGED pendingVars
  /\ p # "browser" => UNCHANGED browserVars

ApprovalsNext ==
  \/ Only("patch") /\ ApprovalNext
  \/ Only("offer") /\ PendingNext
  \/ Only("browser") /\ BrowserNext

ApprovalsSpec == ApprovalsInit /\ [][ApprovalsNext]_approvalsVars

-----------------------------------------------------------------------------
(* Values of the constants                                                 *)

CONSTANTS c1, b1, p1, p2, f1, f2

\* p1 edits a line of f1 and adds to f2; p2 adds to f1 only.
SharedFile ==
  (p1 :> (f1 :> "replace" @@ f2 :> "insert")) @@ (p2 :> (f1 :> "insert" @@ f2 :> "none"))
===============================================================================
