---------------------------- MODULE JobContract ----------------------------
(***************************************************************************)
(* What a background job promises its user, whatever ends it: it is        *)
(* started once, runs, and stops for good.                                 *)
(***************************************************************************)
CONSTANT Jobs
VARIABLE phase

Init == phase = [j \in Jobs |-> "absent"]

Start(j) ==
  /\ phase[j] = "absent"
  /\ phase' = [phase EXCEPT ![j] = "running"]

Stop(j) ==
  /\ phase[j] = "running"
  /\ phase' = [phase EXCEPT ![j] = "stopped"]

Next == \E j \in Jobs : Start(j) \/ Stop(j)

Spec == Init /\ [][Next]_phase
=============================================================================
