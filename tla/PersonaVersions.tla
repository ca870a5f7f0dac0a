---------------------------- MODULE PersonaVersions ----------------------------
(***************************************************************************)
(* The persona of one user as numbered versions, of which one is active:   *)
(* memory/persona.py, written by the command /persona, by the dashboard,   *)
(* by the interview and by the weekly curator.                             *)
(*                                                                         *)
(* A writer reads the active persona, thinks, and stores a new version in  *)
(* one transaction: deactivate what is active, read the last number,       *)
(* insert.  PostgreSQL lets an UPDATE wait for a row another transaction   *)
(* has locked, looks at that row again and at no row that is new.          *)
(* A persona is the set of changes it holds.                               *)
(***************************************************************************)
EXTENDS Naturals, FiniteSets, FiniteSetsExt

CONSTANTS
  PersonaWriters,  \* coroutines that write the persona
  ChangeLimit      \* bound: changes ever made

ASSUME ChangeLimitIsNatural == ChangeLimit \in Nat

VARIABLES
  versions,   \* the rows: number, changes held, active
  persona,    \* what each writer has read and is about to store
  changes,    \* changes made so far
  crossed,    \* history: two transactions were under way at once
  overwritten \* history: changes dropped by a known cause

personaVars == <<versions, persona, changes, crossed, overwritten>>

Changes == 1..ChangeLimit
Rows == [number : Nat, holds : SUBSET Changes, active : BOOLEAN, id : Nat]
NoWriter == [at |-> "idle", by |-> "command", base |-> {}, holds |-> {}, stale |-> FALSE,
             targets |-> {}, number |-> 0, left |-> 0]
InStore == {"updating", "locked", "numbered"}

PersonaTypeOK ==
  /\ versions \subseteq Rows
  /\ persona \in [PersonaWriters ->
       [at : {"idle", "thinking"} \union InStore,
        by : {"command", "dashboard", "interview", "curator"},
        base : SUBSET Changes, holds : SUBSET Changes, stale : BOOLEAN,
        targets : SUBSET Nat, number : Nat, left : 0..2]]
  /\ changes \in 0..ChangeLimit
  /\ crossed \in BOOLEAN /\ overwritten \subseteq Changes

PersonaInit ==
  /\ versions = {} /\ changes = 0
  /\ persona = [w \in PersonaWriters |-> NoWriter]
  /\ crossed = FALSE /\ overwritten = {}

Active == {v \in versions : v.active}
LastNumber == IF versions = {} THEN 0 ELSE Max({v.number : v \in versions})
Held == UNION {v.holds : v \in Active}

\* get_active_persona: none, or the one; with two it raises, and the writer with it.
Readable == Cardinality(Active) <= 1

\* update_persona_field of a command.
ReadForCommand(w) ==
  /\ persona[w].at = "idle" /\ Readable /\ changes < ChangeLimit
  /\ persona' = [persona EXCEPT ![w] = [NoWriter EXCEPT !.at = "thinking", !.base = Held]]
  /\ UNCHANGED <<versions, changes, crossed, overwritten>>

\* An interview that starts from an empty persona.
ReadNothing(w) ==
  /\ persona[w].at = "idle" /\ Readable /\ changes < ChangeLimit
  /\ persona' = [persona EXCEPT ![w] = [NoWriter EXCEPT !.at = "thinking", !.by = "interview"]]
  /\ UNCHANGED <<versions, changes, crossed, overwritten>>

\* _apply_synthesis_to_persona of a session of the interview.
ReadForInterview(w) ==
  /\ persona[w].at = "idle" /\ Readable /\ changes < ChangeLimit
  /\ persona' = [persona EXCEPT ![w] =
       [NoWriter EXCEPT !.at = "thinking", !.by = "interview", !.base = Held]]
  /\ UNCHANGED <<versions, changes, crossed, overwritten>>

\* run_weekly_curation reads once for up to two adjustments and a profile update,
\* and makes none when there is no persona.
ReadForCuration(w, n) ==
  /\ persona[w].at = "idle" /\ Readable /\ Active # {} /\ changes < ChangeLimit
  /\ persona' = [persona EXCEPT ![w] =
       [NoWriter EXCEPT !.at = "thinking", !.by = "curator", !.base = Held, !.left = n]]
  /\ UNCHANGED <<versions, changes, crossed, overwritten>>

\* update_persona of the dashboard stores what its form holds.
DashboardStores(w) ==
  /\ persona[w].at = "idle" /\ changes < ChangeLimit
  /\ persona' = [persona EXCEPT ![w] = [NoWriter EXCEPT !.at = "thinking", !.by = "dashboard"]]
  /\ UNCHANGED <<versions, changes, crossed, overwritten>>

\* create_persona_version: the rows its UPDATE sees ...
BeginStore(w) ==
  /\ persona[w].at = "thinking" /\ changes < ChangeLimit
  /\ changes' = changes + 1
  /\ persona' = [persona EXCEPT ![w].at = "updating",
                                ![w].holds = persona[w].base \union {changes'},
                                ![w].targets = {v.id : v \in Active}]
  /\ crossed' = (crossed \/ \E o \in PersonaWriters : persona[o].at \in InStore)
  /\ UNCHANGED <<versions, overwritten>>

\* ... which it locks once nobody else has them ...
Locked == UNION {persona[o].targets : o \in {o \in PersonaWriters : persona[o].at \in {"locked", "numbered"}}}

DeactivateOld(w) ==
  /\ persona[w].at = "updating" /\ persona[w].targets \intersect Locked = {}
  /\ persona' = [persona EXCEPT ![w].at = "locked"]
  /\ UNCHANGED <<versions, changes, crossed, overwritten>>

ReadLastNumber(w) ==
  /\ persona[w].at = "locked"
  /\ persona' = [persona EXCEPT ![w].at = "numbered",
                                ![w].number = LastNumber + 1]
  /\ UNCHANGED <<versions, changes, crossed, overwritten>>

\* ... and the commit.  The curator goes on with what it read at first.
Replaced(w) == UNION {v.holds : v \in {v \in Active : v.id \in persona[w].targets}}
CommitVersion(w) ==
  /\ persona[w].at = "numbered"
  /\ LET me   == persona[w]
         kept == {IF v.id \in me.targets THEN [v EXCEPT !.active = FALSE] ELSE v : v \in versions}
     IN  /\ versions' = kept \union {[number |-> me.number, holds |-> me.holds, active |-> TRUE,
                                      id |-> Cardinality(versions) + 1]}
         /\ overwritten' = overwritten \union
              IF me.stale \/ me.by = "dashboard" THEN Replaced(w) \ me.holds ELSE {}
  /\ persona' = [v \in PersonaWriters |->
       IF v # w THEN [persona[v] EXCEPT !.stale = @ \/ persona[v].at # "idle"]
       ELSE IF persona[w].left = 0 THEN NoWriter
       ELSE [persona[w] EXCEPT !.at = "thinking", !.left = @ - 1, !.stale = TRUE]]
  /\ UNCHANGED <<changes, crossed>>

\* The writer fails or its process ends: nothing is stored.
StoreFails(w) ==
  /\ persona[w].at # "idle"
  /\ persona' = [persona EXCEPT ![w] = NoWriter]
  /\ UNCHANGED <<versions, changes, crossed, overwritten>>

PersonaNext ==
  \E w \in PersonaWriters :
    \/ ReadForCommand(w) \/ ReadForInterview(w) \/ DashboardStores(w)
    \/ \E n \in 0..2 : ReadForCuration(w, n)
    \/ BeginStore(w) \/ DeactivateOld(w) \/ ReadLastNumber(w) \/ CommitVersion(w)
    \/ StoreFails(w)

PersonaSpec == PersonaInit /\ [][PersonaNext]_personaVars

(***************************************************************************)
(* Properties.                                                             *)
(***************************************************************************)

\* As long as no two transactions crossed there is one active persona, it is the
\* newest and no number is given twice ("deactivating the previous one",
\* persona.py:63).  A change that was stored is in the active persona until a
\* writer that had read before it, the curator's second version or the
\* dashboard's form replaced it.
OnePersonaWithItsChanges ==
  ~crossed =>
    /\ versions # {} => Cardinality(Active) = 1
    /\ \A v, u \in versions : v.number = u.number => v = u
    /\ \A v \in Active, u \in versions :
         u.number <= v.number /\ u.holds \subseteq v.holds \union overwritten
=============================================================================
