------------------------------- MODULE OrgBoard -------------------------------
(***************************************************************************)
(* Organizations come and go, and with them the tools and skills only they *)
(* use: the dashboard's handlers (orchestration/api.py) and the bot's      *)
(* tools (agents/org_agent.py).  What happens inside one organization is   *)
(* OrgWork.                                                                *)
(*                                                                         *)
(* delete_org reads which tools are exclusive and whether there is a       *)
(* holding organization, and acts on that in a later commit; between the   *)
(* two any other handler may commit.                                       *)
(***************************************************************************)
EXTENDS Naturals, FiniteSets

CONSTANTS
  OrgLimit,    \* bound: organizations ever created
  HoldLimit,   \* bound: holding organizations ever created
  MemberLimit, \* bound: agents ever
  OrgTools,    \* tools and skills an agent may be given
  Protected,   \* PROTECTED_TOOLS, _RESERVED_SKILL_IDS
  Deleters,    \* delete_org requests that can be under way at once
  NoOrg, Gone

ASSUME OrgLimitIsNatural == OrgLimit \in Nat
ASSUME HoldLimitIsNatural == HoldLimit \in Nat
ASSUME MemberLimitIsNatural == MemberLimit \in Nat
ASSUME ProtectedAreTools == Protected \subseteq OrgTools
ASSUME MarksAreNoIds ==
  NoOrg \notin Nat /\ Gone \notin Nat /\ NoOrg # Gone /\ "nobody" \notin Deleters

VARIABLES
  orgs,        \* id -> status, and whether it is the holding organization
  orgMembers,     \* id -> its organization and what tools_config lets it use
  toolRows,    \* rows of the tools table
  toolDirs,    \* plugin and skill directories
  deleters,    \* what each deletion under way has read
  forsaken     \* history: what a known cause took

boardVars == <<orgs, orgMembers, toolRows, toolDirs, deleters, forsaken>>

Orgs == 1..OrgLimit + HoldLimit
OrgMembers == 1..MemberLimit
NoSuchOrg == [status |-> "absent", holding |-> FALSE]
DeletedOrg == [status |-> "deleted", holding |-> FALSE]
NoSuchMember == [org |-> NoOrg, uses |-> {}]
DeletedMember == [org |-> Gone, uses |-> {}]
NoDeletion == [org |-> NoOrg, of |-> {}, stale |-> FALSE, retain |-> {}, doomed |-> {},
               holding |-> NoOrg]

BoardTypeOK ==
  /\ orgs \in [Orgs -> [status : {"absent", "in_use", "archived", "deleted"},
                        holding : BOOLEAN]]
  /\ orgMembers \in [OrgMembers -> [org : Orgs \union {NoOrg, Gone}, uses : SUBSET OrgTools]]
  /\ toolRows \subseteq OrgTools /\ toolDirs \subseteq OrgTools
  /\ deleters \in [Deleters -> [org : Orgs \union {NoOrg},
                     of : SUBSET (OrgTools \union {"holding"}), stale : BOOLEAN,
                     retain : SUBSET OrgMembers, doomed : SUBSET OrgTools,
                     holding : Orgs \union {NoOrg}]]
  /\ forsaken \subseteq OrgTools \union {"holding"}

BoardInit ==
  /\ orgs = [o \in Orgs |-> NoSuchOrg]
  /\ orgMembers = [a \in OrgMembers |-> NoSuchMember]
  /\ toolRows = OrgTools /\ toolDirs = OrgTools
  /\ deleters = [d \in Deleters |-> NoDeletion]
  /\ forsaken = {}

Live(o) == o \in Orgs /\ orgs[o].status \notin {"absent", "deleted"}
Stands(a) == orgMembers[a].org \in Orgs
\* Ids are given in order and never twice.
FirstUnused(ids) ==
  {o \in ids : orgs[o] = NoSuchOrg /\ \A p \in ids : p < o => orgs[p] # NoSuchOrg}
NextOrg(o) == o \in FirstUnused(1..OrgLimit)
NextMember(a) ==
  orgMembers[a] = NoSuchMember /\ \A b \in 1..a - 1 : orgMembers[b] # NoSuchMember
MembersOf(o) == {a \in OrgMembers : orgMembers[a].org = o}
Holdings == {o \in Orgs : orgs[o].holding}
UsedBy(group) == UNION {orgMembers[a].uses : a \in group}

\* A commit on x makes what a deletion under way has read of x stale.
MakesStale(except, things) ==
  [d \in Deleters |-> IF d # except /\ deleters[d].of \intersect things # {}
                      THEN [deleters[d] EXCEPT !.stale = TRUE] ELSE deleters[d]]

\* create_org, create_organization.
CreateOrg(o) ==
  /\ NextOrg(o)
  /\ orgs' = [orgs EXCEPT ![o].status = "in_use"]
  /\ UNCHANGED <<orgMembers, toolRows, toolDirs, deleters, forsaken>>

\* create_org_via_wizard: the organization and an agent in one transaction.
CreateOrgViaWizard(o, a) ==
  /\ NextOrg(o) /\ NextMember(a)
  /\ orgs' = [orgs EXCEPT ![o].status = "in_use"]
  /\ orgMembers' = [orgMembers EXCEPT ![a].org = o]
  /\ UNCHANGED <<toolRows, toolDirs, deleters, forsaken>>

\* pause_org, resume_org, and update_organization, which also archives.  Nothing
\* here tells a paused organization from an active one: both are in use.
SetOrgStatus(o, status) ==
  /\ Live(o) /\ orgs[o].status # status
  /\ orgs' = [orgs EXCEPT ![o].status = status]
  /\ deleters' = MakesStale("nobody", UsedBy(MembersOf(o)))
  /\ UNCHANGED <<orgMembers, toolRows, toolDirs, forsaken>>

\* /orgs delete: the row, and with it its agents; what they used stays, nothing is
\* retained, and the holding organization is deleted like any other.
DropByCommand(o) ==
  /\ Live(o)
  /\ orgs' = [orgs EXCEPT ![o] = DeletedOrg]
  /\ orgMembers' = [a \in OrgMembers |-> IF a \in MembersOf(o) THEN DeletedMember
                                                             ELSE orgMembers[a]]
  /\ UNCHANGED <<toolRows, toolDirs, deleters, forsaken>>

\* /orgs pause, resume and delete.
OrgsCommand(o) == SetOrgStatus(o, "in_use") \/ DropByCommand(o)

\* create_org_agent, add_org_agent, update_org_agent: tools_config as it comes.
SetMember(o, a, uses) ==
  /\ Live(o) /\ (orgMembers[a].org = o \/ NextMember(a))
  /\ orgMembers' = [orgMembers EXCEPT ![a] = [org |-> o, uses |-> uses]]
  /\ deleters' = MakesStale("nobody", uses)
  /\ UNCHANGED <<orgs, toolRows, toolDirs, forsaken>>

\* delete_org_agent; what it may race with is OrgWork's.
DeleteMember(a) ==
  /\ Stands(a)
  /\ orgMembers' = [orgMembers EXCEPT ![a] = DeletedMember]
  /\ UNCHANGED <<orgs, toolRows, toolDirs, deleters, forsaken>>

\* _collect_exclusive_resources asks the agents of organizations not archived.
Asked == {a \in OrgMembers : Stands(a) /\ orgs[orgMembers[a].org].status # "archived"}
\* A bug: what the agents of other organizations use is not taken away.
UsedHere(o) == UsedBy(Asked \intersect MembersOf(o))

Exclusive(o) ==
  UsedBy(Asked \intersect MembersOf(o)) \ UsedBy(Asked \ MembersOf(o))

\* delete_org, the reads.  _ensure_holding_org raises when it finds two.
ReadOrg(d, o, retain) ==
  /\ deleters[d] = NoDeletion /\ Live(o) /\ retain \subseteq MembersOf(o)
  /\ retain # {} => Cardinality(Holdings) <= 1
  /\ LET doomed == Exclusive(o) \ Protected
     IN  deleters' = [deleters EXCEPT ![d] =
           [org |-> o, stale |-> FALSE, retain |-> retain, doomed |-> doomed,
            of |-> doomed \union (IF retain = {} THEN {} ELSE {"holding"}),
            holding |-> IF retain = {} \/ Holdings = {} THEN NoOrg
                        ELSE CHOOSE h \in Holdings : TRUE]]
  /\ UNCHANGED <<orgs, orgMembers, toolRows, toolDirs, forsaken>>

\* Where the retained agents go: the holding organization that was read, or one
\* that is made now.
Refuge(w) ==
  IF w.retain = {} THEN {NoOrg}
  ELSE IF w.holding # NoOrg THEN {h \in {w.holding} : Live(h) /\ h # w.org}
  ELSE FirstUnused(OrgLimit + 1..OrgLimit + HoldLimit)

\* Tools taken from an agent that was retained, or whose organization sits
\* archived: they were exclusive all the same.
TakenFromTheAbsent(w, kept, gone) ==
  {x \in w.doomed : \E a \in OrgMembers \ gone :
     /\ x \in orgMembers[a].uses
     /\ a \in kept \/ orgs[orgMembers[a].org].status = "archived"}

\* delete_org, the commit.
DeleteOrg(d) ==
  LET w    == deleters[d]
      kept == w.retain \intersect MembersOf(w.org)
      gone == MembersOf(w.org) \ kept
  IN  /\ Live(w.org)
      /\ \E h \in Refuge(w) :
           /\ orgs' = [o \in Orgs |->
                IF o = w.org THEN DeletedOrg
                ELSE IF o = h /\ w.holding = NoOrg
                THEN [status |-> "archived", holding |-> TRUE] ELSE orgs[o]]
           /\ orgMembers' = [a \in OrgMembers |-> IF a \in gone THEN DeletedMember
                            ELSE IF a \in kept THEN [orgMembers[a] EXCEPT !.org = h]
                            ELSE orgMembers[a]]
           /\ deleters' = [MakesStale(d, UsedBy(kept) \union
                                          IF h \in Orgs \ Holdings THEN {"holding"} ELSE {})
                             EXCEPT ![d] = NoDeletion]
      /\ toolRows' = toolRows \ w.doomed
      /\ toolDirs' = toolDirs \ w.doomed
      /\ forsaken' = forsaken \union TakenFromTheAbsent(w, kept, gone)
                     \union (IF w.stale THEN w.of ELSE {})

\* The directories of doomed tools go before the commit; a commit that fails,
\* or finds the organization or its refuge deleted, brings none of them back.
DeletionFails(d) ==
  /\ deleters[d] # NoDeletion
  /\ toolDirs' = toolDirs \ deleters[d].doomed
  /\ forsaken' = forsaken \union deleters[d].doomed
  /\ deleters' = [deleters EXCEPT ![d] = NoDeletion]
  /\ UNCHANGED <<orgs, orgMembers, toolRows>>

BoardNext ==
  \/ \E o \in Orgs :
       \/ CreateOrg(o)
       \/ \E a \in OrgMembers : CreateOrgViaWizard(o, a)
       \/ \E status \in {"in_use", "archived"} : SetOrgStatus(o, status)
       \/ OrgsCommand(o)
       \/ \E a \in OrgMembers, uses \in SUBSET toolRows : SetMember(o, a, uses)
       \/ \E d \in Deleters, retain \in SUBSET OrgMembers : ReadOrg(d, o, retain)
  \/ \E a \in OrgMembers : DeleteMember(a)
  \/ \E d \in Deleters : DeleteOrg(d) \/ DeletionFails(d)

BoardSpec == BoardInit /\ [][BoardNext]_boardVars

(***************************************************************************)
(* Properties.                                                             *)
(***************************************************************************)

\* Deleting organizations in any overlap takes no tool, row or directory, from
\* an agent that stays, and leaves one holding organization, except by a known
\* cause: the agent was retained or sat in an archived organization, the
\* deletion acted on what another handler had changed since, or its commit
\* failed after the directories were gone.
DeletionSparesOthers ==
  /\ \A a \in OrgMembers : orgMembers[a].uses \subseteq (toolRows \intersect toolDirs) \union forsaken
  /\ "holding" \in forsaken \/ Cardinality(Holdings) <= 1
=============================================================================
