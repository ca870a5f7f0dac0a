------------------------------ MODULE SkillShelf ------------------------------
(***************************************************************************)
(* Skills as files, and the registry a user's turns are offered them from: *)
(* the skill routes of orchestration/api.py, skills/loader.py and          *)
(* skills/registry.py, the registry cache of agents/orchestrator.py, and   *)
(* the skills agents/org_agent.py writes when it sets a project up.        *)
(*                                                                         *)
(* The files belong to two processes.  The bot keeps one registry per user *)
(* for half a minute; it is dropped early by a set-up and by the command   *)
(* /skills reload, and not by the dashboard, which clears the cache of its *)
(* own process.  Building a registry awaits the persona before the files   *)
(* are read and the account after.                                         *)
(***************************************************************************)
EXTENDS Naturals, FiniteSets

CONSTANTS
  UserSkills,     \* slugs of skills under user_skills/
  Workspace,      \* ids of the Google Workspace skills
  ShelfTurns,     \* turns of the user that can be under way at once
  CacheTtl,       \* _REGISTRY_CACHE_TTL (30 s), in ticks
  ShelfFaults     \* bound: writes that fail, ends of the process

ASSUME CacheTtlIsPositive == CacheTtl \in Nat \ {0}
ASSUME ShelfFaultsIsNatural == ShelfFaults \in Nat

VARIABLES
  shelf,       \* slug -> what is on disk
  unchanged,   \* slug -> ticks since it was written, or since the cache was cleared
  registry,    \* the cached registry of the user
  shelfTurn,   \* the turns under way
  setup,       \* a project set-up: not running, running, running and has written skills
  shelfFaults

shelfVars == <<shelf, unchanged, registry, shelfTurn, setup, shelfFaults>>

\* On disk: nothing, a directory without SKILL.md, or a skill.  The tags of a skill
\* survive the way to the file and back, or do not.
Contents == {"nothing", "bare", "plain", "spoiled"}
Loadable == {"plain", "spoiled"}
NoRegistry == [age |-> CacheTtl, holds |-> [s \in UserSkills |-> "nothing"], blind |-> {}]
ShelfIdle == [at |-> "idle", holds |-> [s \in UserSkills |-> "nothing"], blind |-> {}]
\* What a message can name: a skill by its tag or by a routing hint.
Mentions == [by : {"tag", "hint"}, of : UserSkills] \union [by : {"hint"}, of : Workspace]

ShelfTypeOK ==
  /\ shelf \in [UserSkills -> Contents]
  /\ unchanged \in [UserSkills -> 0..CacheTtl]
  /\ registry \in [age : 0..CacheTtl, holds : [UserSkills -> Contents],
                   blind : SUBSET UserSkills]
  /\ shelfTurn \in [ShelfTurns -> [at : {"idle", "persona", "account"},
                      holds : [UserSkills -> Contents], blind : SUBSET UserSkills]]
  /\ setup \in {"idle", "running", "wrote"}
  /\ shelfFaults \in 0..ShelfFaults

ShelfInit ==
  /\ shelf = [s \in UserSkills |-> "nothing"]
  /\ unchanged = [s \in UserSkills |-> CacheTtl]
  /\ registry = NoRegistry
  /\ shelfTurn = [t \in ShelfTurns |-> ShelfIdle]
  /\ setup = "idle" /\ shelfFaults = 0

ShelfFault == shelfFaults < ShelfFaults /\ shelfFaults' = shelfFaults + 1

\* A turn that has read the files does not see what is written after.
Put(s, what) ==
  /\ shelf' = [shelf EXCEPT ![s] = what]
  /\ unchanged' = [unchanged EXCEPT ![s] = 0]
  /\ shelfTurn' = [t \in ShelfTurns |->
       IF shelfTurn[t].at = "account" THEN [shelfTurn[t] EXCEPT !.blind = @ \union {s}]
                                      ELSE shelfTurn[t]]

\* The handlers join the tags of a skill with nothing between them, so the loader
\* reads two or more as one that no word of a message equals.
DashboardWrites(tagCount) == IF tagCount > 1 THEN "spoiled" ELSE "plain"

\* create_skill: a directory of that name, with or without a skill, is a conflict.
CreateSkill(s, tagCount) ==
  /\ shelf[s] = "nothing"
  /\ Put(s, DashboardWrites(tagCount))
  /\ UNCHANGED <<registry, setup, shelfFaults>>

\* The directory is made and its file is not; nothing removes the directory.
CreateSkillFails(s) ==
  /\ shelf[s] = "nothing" /\ ShelfFault
  /\ Put(s, "bare")
  /\ UNCHANGED <<registry, setup>>

\* update_skill reads the skill and writes the whole file again.  Tags that are not
\* given are those the loader read: what is spoiled stays so.
UpdateSkill(s, tagCount) ==
  /\ shelf[s] \in Loadable
  /\ Put(s, IF tagCount = 0 THEN shelf[s] ELSE DashboardWrites(tagCount))
  /\ UNCHANGED <<registry, setup, shelfFaults>>

\* delete_skill removes the directory, a bare one too.
DeleteSkill(s) ==
  /\ shelf[s] # "nothing"
  /\ Put(s, "nothing")
  /\ UNCHANGED <<registry, setup, shelfFaults>>

\* setup_org_project in the bot.  _write_skill_md never touches a directory that is
\* there; it quotes the tags, and the loader leaves the quotes in.
StartSetup ==
  /\ setup = "idle"
  /\ setup' = "running"
  /\ UNCHANGED <<shelf, unchanged, registry, shelfTurn, shelfFaults>>

SetupWritesSkill(s) ==
  /\ setup # "idle" /\ shelf[s] = "nothing"
  /\ Put(s, "spoiled")
  /\ setup' = "wrote"
  /\ UNCHANGED <<registry, shelfFaults>>

\* The cache is cleared when a skill was written; a set-up that is broken off
\* leaves it.
Drop == registry' = NoRegistry /\ unchanged' = [s \in UserSkills |-> CacheTtl]

\* A bug: the registry of before is used on.
FinishQuietly ==
  /\ setup # "idle"
  /\ setup' = "idle"
  /\ unchanged' = [s \in UserSkills |-> CacheTtl]
  /\ UNCHANGED <<shelf, registry, shelfTurn, shelfFaults>>

FinishSetup ==
  /\ setup # "idle"
  /\ setup' = "idle"
  /\ IF setup = "wrote" THEN Drop ELSE UNCHANGED <<registry, unchanged>>
  /\ UNCHANGED <<shelf, shelfTurn, shelfFaults>>

SetupBreaksOff ==
  /\ setup # "idle" /\ ShelfFault
  /\ setup' = "idle"
  /\ UNCHANGED <<shelf, unchanged, registry, shelfTurn>>

\* /skills reload.
ReloadCommand ==
  /\ Drop
  /\ UNCHANGED <<shelf, shelfTurn, setup, shelfFaults>>

\* /skills: what it deletes stays in the registry until it is told to reload.
SkillsCommand == ReloadCommand \/ \E s \in UserSkills : DeleteSkill(s)

\* match_skills: internal skills always, what the message names, the whole workspace
\* with any part of it; everything when the message names nothing.
Matched(holds, google, said) ==
  LET there == {s \in UserSkills : holds[s] \in Loadable}
      work  == IF google THEN Workspace ELSE {}
      hit   == {s \in there : \/ [by |-> "hint", of |-> s] \in said
                              \/ [by |-> "tag", of |-> s] \in said /\ holds[s] = "plain"}
      drive == {s \in work : [by |-> "hint", of |-> s] \in said}
  IN  IF hit \union drive = {} THEN there \union work
      ELSE hit \union (IF drive = {} THEN {} ELSE work)

\* create_orchestrator_async takes a registry that is young enough as it is.
\* Otherwise it reads the persona, then the files, then the account; and the new
\* registry is cached whatever has been cleared in between.
StartBuild(t) ==
  /\ shelfTurn[t].at = "idle" /\ registry.age = CacheTtl
  /\ shelfTurn' = [shelfTurn EXCEPT ![t].at = "persona"]
  /\ UNCHANGED <<shelf, unchanged, registry, setup, shelfFaults>>

LoadSkills(t) ==
  /\ shelfTurn[t].at = "persona"
  /\ shelfTurn' = [shelfTurn EXCEPT ![t] = [at |-> "account", holds |-> shelf, blind |-> {}]]
  /\ UNCHANGED <<shelf, unchanged, registry, setup, shelfFaults>>

StoreRegistry(t) ==
  /\ shelfTurn[t].at = "account"
  /\ registry' = [age |-> 0, holds |-> shelfTurn[t].holds, blind |-> shelfTurn[t].blind]
  /\ shelfTurn' = [shelfTurn EXCEPT ![t] = ShelfIdle]
  /\ UNCHANGED <<shelf, unchanged, setup, shelfFaults>>

ShelfTick ==
  /\ registry' = IF registry.age + 1 < CacheTtl THEN [registry EXCEPT !.age = @ + 1]
                                                ELSE NoRegistry
  /\ unchanged' = [s \in UserSkills |->
                     IF unchanged[s] < CacheTtl THEN unchanged[s] + 1 ELSE CacheTtl]
  /\ UNCHANGED <<shelf, shelfTurn, setup, shelfFaults>>

ShelfCrash ==
  /\ ShelfFault
  /\ Drop
  /\ shelfTurn' = [t \in ShelfTurns |-> ShelfIdle]
  /\ setup' = "idle"
  /\ UNCHANGED <<shelf>>

ShelfNext ==
  \/ \E s \in UserSkills :
       \/ \E n \in 0..2 : CreateSkill(s, n) \/ UpdateSkill(s, n)
       \/ CreateSkillFails(s) \/ DeleteSkill(s) \/ SetupWritesSkill(s)
  \/ StartSetup \/ FinishSetup \/ SetupBreaksOff \/ SkillsCommand
  \/ \E t \in ShelfTurns : StartBuild(t) \/ LoadSkills(t) \/ StoreRegistry(t)
  \/ ShelfTick \/ ShelfCrash

ShelfSpec == ShelfInit /\ [][ShelfNext]_shelfVars

(***************************************************************************)
(* Properties.                                                             *)
(***************************************************************************)

\* What the set-up promises (org_agent.py:1627, "participate in routing on the very
\* next turn"), and what the cache's life promises of the dashboard's writes: a
\* message that names a skill is offered it exactly if the file is there, for every
\* file left alone since the cache was cleared or for as long as a registry lives,
\* whatever else the message names -- except the files written while the turn that
\* built the registry had read them and not yet stored it.  A slug that is the id of
\* a Google skill is that skill's: it is registered last.
RegistryIsCurrent ==
  registry.age < CacheTtl =>
    \A s \in UserSkills \ (registry.blind \union Workspace), google \in BOOLEAN,
       other \in Mentions :
      unchanged[s] = CacheTtl =>
        (s \in Matched(registry.holds, google, {[by |-> "hint", of |-> s], other})
           <=> shelf[s] \in Loadable)
=============================================================================
