------------------------------ MODULE OwnFilesMC ------------------------------
(***************************************************************************)
(* What the program writes into its own files while it runs: the patches   *)
(* of the pipeline, next to the owner's, the agents that come up with them, *)
(* the fixes applied without asking, the skill files and the tools.        *)
(* The parts share no variable: a behaviour is one of one part.            *)
(***************************************************************************)
EXTENDS RepairPipelineMC, RepairAgents, SkillShelf, ToolShelf

CONSTANTS a1, sk1, sk2

VARIABLE part

fileVars == <<vars, agentVars, fixVars, shelfVars, toolVars, part>>

FilesInit ==
  /\ part \in {"repair", "agents", "fixes", "shelf", "tools"}
  /\ Init /\ AgentInit /\ FixInit /\ ShelfInit /\ ToolInit

\* Only part p moves.
Only(p) ==
  /\ part = p /\ UNCHANGED part
  /\ p # "repair" => UNCHANGED vars
  /\ p # "agents" => UNCHANGED agentVars
  /\ p # "fixes" => UNCHANGED fixVars
  /\ p # "shelf" => UNCHANGED shelfVars
  /\ p # "tools" => UNCHANGED toolVars

FilesNext ==
  \/ Only("repair") /\ Next
  \/ Only("agents") /\ AgentNext
  \/ Only("fixes") /\ FixNext
  \/ Only("shelf") /\ ShelfNext
  \/ Only("tools") /\ ToolNext

\* A sound patch, one with a security pattern, one out of its scope with the test
\* plan the programmer is told to default to, and one it is unsure of.
SomeProposals ==
  {[diff |-> "sound", tests |-> "pytest", confidence |-> 7],
   [diff |-> "dangerous", tests |-> "none", confidence |-> 7],
   [diff |-> "astray", tests |-> "verify_file", confidence |-> 7],
   [diff |-> "unclean", tests |-> "pytest", confidence |-> 2]}

Clearing(k) == [action |-> "clear_redis_key", key |-> k]
Other(a) == [action |-> a, key |-> "none"]
SomeFixes ==
  {<<Clearing(sk1), Clearing(sk2)>>, <<Clearing(sk1), Other("set_env_var")>>,
   <<Clearing(sk1), Other("update_yaml")>>, <<>>}

FilesSpec == FilesInit /\ [][FilesNext]_fileVars

\* Type invariant of every part.
FilesTypeOK == TypeOK /\ AgentTypeOK /\ ShelfTypeOK /\ ToolTypeOK
===============================================================================
