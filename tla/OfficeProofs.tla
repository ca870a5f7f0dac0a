---------------------------- MODULE OfficeProofs -----------------------------
(***************************************************************************)
(* What the dashboard and the bot's organization tools change together,    *)
(* for any constants: the work in an organization, the organizations, a    *)
(* project's plan, the creation wizards and what the bot sets up; at the   *)
(* end, with the pipeline of RepairProofs, the parts of OfficeMC as one    *)
(* system.                                                                 *)
(***************************************************************************)
EXTENDS OfficeMC, RepairProofs, FiniteSetTheorems, SequenceTheorems, WellFoundedInduction, TLAPS

-----------------------------------------------------------------------------
(* The work in an organization.  A handler whose read is not stale still   *)
(* finds the row as it read it, so what it writes agrees with the rest of  *)
(* the row.                                                                *)

\* What a handler under way knows, as long as nobody has changed it.
IsFresh(k) ==
  /\ k.does = "task" => \E t \in OrgTasks :
       /\ k.of = {t} /\ k.want \in Wants
       /\ ~k.stale => /\ TaskStored(t) /\ k.read.status = orgTasks[t].status
                      /\ k.read.dated = orgTasks[t].dated
  /\ k.does = "gate" => \E g \in OrgGates :
       k.of = {g} /\ (~k.stale => orgGates[g].status = "pending")
  /\ k.does = "agent" => \E a \in OrgStaff :
       k.of = {a, "org"} /\ (~k.stale => orgStatus # "active")

ClerksAreFresh == \A c \in OrgClerks : IsFresh(orgClerks[c])

\* A gate is decided by its readers only, each once.
GateReaders(g) == {c \in OrgClerks : orgClerks[c].does = "gate" /\ orgClerks[c].of = {g}}
Undecided(g) == orgGates[g].status \in {"absent", "pending"}

GatesAreCounted ==
  \A g \in OrgGates :
    /\ Undecided(g) => orgGates[g].decisions = 0
    /\ orgGates[g].decisions + Cardinality(GateReaders(g)) <= Cardinality(OrgClerks)

WorkInv == WorkTypeOK /\ ClerksAreFresh /\ GatesAreCounted /\ RowsAgree

ClerkRecords ==
  [does : {"nothing", "task", "gate", "agent"},
   of : SUBSET (OrgStaff \union OrgTasks \union OrgGates \union {"org"}),
   stale : BOOLEAN, want : Wants \union {"none"},
   read : [status : {"absent", "pending", "in_progress", "completed"}, dated : BOOLEAN]]

\* A clerk at rest.
LEMMA IdleClerk == ClerkIdle \in ClerkRecords /\ ClerkIdle.does = "nothing"
BY DEF ClerkIdle, ClerkRecords, NoTaskRead, Wants

\* A commit leaves the clerks as they are, but for what it makes stale.
LEMMA TouchedClerks ==
  ASSUME WorkTypeOK, NEW except, NEW things
  PROVE  LET f == TouchClerks(except, things) IN
         /\ f \in [OrgClerks -> ClerkRecords]
         /\ \A c \in OrgClerks :
              /\ f[c].does = orgClerks[c].does /\ f[c].of = orgClerks[c].of
              /\ f[c].want = orgClerks[c].want /\ f[c].read = orgClerks[c].read
              /\ ~f[c].stale => ~orgClerks[c].stale
              /\ ~f[c].stale => c = except \/ orgClerks[c].of \intersect things = {}
<1>1. orgClerks \in [OrgClerks -> ClerkRecords]
  BY DEF WorkTypeOK, ClerkRecords
<1> DEFINE f == TouchClerks(except, things)
<1>2. ASSUME NEW c \in OrgClerks
      PROVE  /\ f[c] \in ClerkRecords
             /\ f[c].does = orgClerks[c].does /\ f[c].of = orgClerks[c].of
             /\ f[c].want = orgClerks[c].want /\ f[c].read = orgClerks[c].read
             /\ ~f[c].stale => ~orgClerks[c].stale
             /\ ~f[c].stale => c = except \/ orgClerks[c].of \intersect things = {}
  <2>1. PICK old \in ClerkRecords : old = orgClerks[c]
    BY <1>1
  <2>2. PICK new : new = [old EXCEPT !.stale = TRUE]
    OBVIOUS
  <2>3. /\ new \in ClerkRecords /\ new.stale /\ new.does = old.does /\ new.of = old.of
        /\ new.want = old.want /\ new.read = old.read
    BY <2>2 DEF ClerkRecords
  <2>4. f[c] = IF c # except /\ old.of \intersect things # {} THEN new ELSE old
    BY <2>1, <2>2 DEF TouchClerks
  <2>5. CASE c # except /\ old.of \intersect things # {}
    BY <2>1, <2>3, <2>4, <2>5
  <2>6. CASE ~(c # except /\ old.of \intersect things # {})
    BY <2>1, <2>4, <2>6
  <2> QED
    BY <2>5, <2>6
<1>3. f \in [OrgClerks -> ClerkRecords]
  <2>1. f = [c \in OrgClerks |-> f[c]]
    BY DEF TouchClerks
  <2> HIDE DEF f
  <2> QED
    BY <1>2, <2>1
<1> QED
  BY <1>2, <1>3

\* Whoever is not made stale knows as much as before.
LEMMA OthersStayFresh ==
  ASSUME WorkTypeOK, NEW things, NEW except, NEW c \in OrgClerks \ {except},
         IsFresh(orgClerks[c]),
         orgClerks'[c] = TouchClerks(except, things)[c],
         \A t \in OrgTasks \ things : TaskStored(t) =>
           orgTasks'[t].status = orgTasks[t].status /\ orgTasks'[t].dated = orgTasks[t].dated,
         \A g \in OrgGates \ things :
           orgGates[g].status = "pending" => orgGates'[g].status = "pending",
         "org" \in things \/ orgStatus' = orgStatus \/ orgStatus' # "active"
  PROVE  IsFresh(orgClerks[c])'
<1>1. /\ orgClerks'[c].does = orgClerks[c].does /\ orgClerks'[c].of = orgClerks[c].of
      /\ orgClerks'[c].want = orgClerks[c].want /\ orgClerks'[c].read = orgClerks[c].read
      /\ ~orgClerks'[c].stale => /\ ~orgClerks[c].stale
                                 /\ orgClerks[c].of \intersect things = {}
  BY TouchedClerks
<1>2. CASE orgClerks[c].does = "task"
  <2>1. PICK t \in OrgTasks :
          /\ orgClerks[c].of = {t} /\ orgClerks[c].want \in Wants
          /\ ~orgClerks[c].stale => /\ TaskStored(t)
                                    /\ orgClerks[c].read.status = orgTasks[t].status
                                    /\ orgClerks[c].read.dated = orgTasks[t].dated
    BY <1>2 DEF IsFresh
  <2>2. QED
    BY <1>1, <1>2, <2>1 DEF IsFresh, TaskStored
<1>3. CASE orgClerks[c].does = "gate"
  <2>1. PICK g \in OrgGates :
          /\ orgClerks[c].of = {g}
          /\ ~orgClerks[c].stale => orgGates[g].status = "pending"
    BY <1>3 DEF IsFresh
  <2>2. QED
    BY <1>1, <1>3, <2>1 DEF IsFresh
<1>4. CASE orgClerks[c].does = "agent"
  <2>1. PICK a \in OrgStaff :
          /\ orgClerks[c].of = {a, "org"}
          /\ ~orgClerks[c].stale => orgStatus # "active"
    BY <1>4 DEF IsFresh
  <2>2. QED
    BY <1>1, <1>4, <2>1 DEF IsFresh
<1>5. CASE orgClerks[c].does \notin {"task", "gate", "agent"}
  BY <1>1, <1>5 DEF IsFresh
<1>6. QED
  BY <1>2, <1>3, <1>4, <1>5

\* Fewer readers and no decision: the count stays.
LEMMA CountsStay ==
  ASSUME WorkTypeOK, GatesAreCounted, NEW g \in OrgGates,
         GateReaders(g)' \subseteq GateReaders(g),
         orgGates'[g].decisions \in {0, orgGates[g].decisions},
         Undecided(g)' => Undecided(g) \/ orgGates'[g].decisions = 0
  PROVE  /\ Undecided(g)' => orgGates'[g].decisions = 0
         /\ orgGates'[g].decisions + Cardinality(GateReaders(g)') <= Cardinality(OrgClerks)
<1>1. /\ IsFiniteSet(GateReaders(g)) /\ Cardinality(GateReaders(g)) \in Nat
      /\ Cardinality(GateReaders(g)') <= Cardinality(GateReaders(g))
      /\ Cardinality(GateReaders(g)') \in Nat /\ Cardinality(OrgClerks) \in Nat
  BY ClerksAreFinite, FS_Subset, FS_CardinalityType DEF GateReaders
<1>2. orgGates[g].decisions \in Nat
  BY <1>1 DEF WorkTypeOK
<1>3. QED
  BY <1>1, <1>2 DEF GatesAreCounted

\* A step that takes no decision and lets nobody new read a gate, and leaves the rows
\* as they agree.
LEMMA QuietWork ==
  ASSUME WorkInv, WorkTypeOK', ClerksAreFresh', RowsAgree',
         \A g \in OrgGates :
           /\ GateReaders(g)' \subseteq GateReaders(g)
           /\ orgGates'[g].decisions \in {0, orgGates[g].decisions}
           /\ Undecided(g)' => Undecided(g) \/ orgGates'[g].decisions = 0
  PROVE  WorkInv'
<1>1. GatesAreCounted'
  BY CountsStay DEF WorkInv, GatesAreCounted
<1>2. QED
  BY <1>1 DEF WorkInv

\* What other handlers have read of a row goes stale when the row changes, and the
\* handler that changed it is done.
LEMMA CommitsKeepFresh ==
  ASSUME WorkInv, NEW things,
         \/ orgClerks' = TouchClerks("nobody", things)
         \/ \E c \in OrgClerks : ClerkDone(c, things)
         \/ orgClerks' = orgClerks /\ things = {},
         \A t \in OrgTasks \ things : TaskStored(t) =>
           orgTasks'[t].status = orgTasks[t].status /\ orgTasks'[t].dated = orgTasks[t].dated,
         \A g \in OrgGates \ things :
           orgGates[g].status = "pending" => orgGates'[g].status = "pending",
         "org" \in things \/ orgStatus' = orgStatus \/ orgStatus' # "active"
  PROVE  /\ orgClerks' \in [OrgClerks -> ClerkRecords]
         /\ ClerksAreFresh'
         /\ \A g \in OrgGates : GateReaders(g)' \subseteq GateReaders(g)
<1> USE DEF WorkInv
<1>0. orgClerks \in [OrgClerks -> ClerkRecords]
  BY DEF WorkTypeOK, ClerkRecords
<1>1. CASE orgClerks' = TouchClerks("nobody", things)
  <2>1. \A c \in OrgClerks : IsFresh(orgClerks[c])'
    BY <1>1, ClerksAreFinite, OthersStayFresh DEF ClerksAreFresh
  <2>2. \A g \in OrgGates : GateReaders(g)' = GateReaders(g)
    BY <1>1, TouchedClerks DEF GateReaders
  <2>3. QED
    BY <1>1, <2>1, <2>2, TouchedClerks DEF ClerksAreFresh
<1>2. ASSUME NEW d \in OrgClerks, ClerkDone(d, things)
      PROVE  /\ orgClerks' \in [OrgClerks -> ClerkRecords]
             /\ ClerksAreFresh'
             /\ \A g \in OrgGates : GateReaders(g)' \subseteq GateReaders(g)
  <2>1. /\ orgClerks' \in [OrgClerks -> ClerkRecords]
        /\ orgClerks'[d] = ClerkIdle
        /\ \A c \in OrgClerks \ {d} : orgClerks'[c] = TouchClerks(d, things)[c]
    BY <1>2, IdleClerk, TouchedClerks DEF ClerkDone
  <2>2. \A c \in OrgClerks \ {d} : IsFresh(orgClerks[c])'
    BY <2>1, OthersStayFresh DEF ClerksAreFresh
  <2>3. IsFresh(orgClerks[d])'
    BY <2>1, IdleClerk DEF IsFresh
  <2>4. \A g \in OrgGates : GateReaders(g)' \subseteq GateReaders(g)
    BY <2>1, IdleClerk, TouchedClerks DEF GateReaders
  <2>5. QED
    BY <2>1, <2>2, <2>3, <2>4 DEF ClerksAreFresh
<1>3. CASE orgClerks' = orgClerks /\ things = {}
  <2>1. \A c \in OrgClerks : orgClerks'[c] = TouchClerks("nobody", things)[c]
    BY <1>3 DEF TouchClerks
  <2>2. \A c \in OrgClerks : IsFresh(orgClerks[c])'
    BY <2>1, ClerksAreFinite, OthersStayFresh DEF ClerksAreFresh
  <2>3. \A g \in OrgGates : GateReaders(g)' = GateReaders(g)
    BY <1>3 DEF GateReaders
  <2>4. QED
    BY <1>0, <1>3, <2>2, <2>3 DEF ClerksAreFresh
<1>4. QED
  BY <1>1, <1>2, <1>3

\* The organization, its agents, and new rows.
LEMMA OrganizationSteps ==
  ASSUME WorkInv,
         \/ \E status \in {"active", "paused", "archived"} : SetWorkStatus(status)
         \/ \E a \in OrgStaff : AddAgent(a)
         \/ DeleteWork
  PROVE  WorkInv'
<1> USE DEF WorkInv
<1>1. ASSUME NEW status \in {"active", "paused", "archived"}, SetWorkStatus(status)
      PROVE  WorkInv'
  <2>1. /\ orgStatus' = status
        /\ orgClerks' = TouchClerks("nobody", {"org"})
        /\ UNCHANGED <<orgStaff, orgFormer, orgTasks, orgGates, workCollided, workLost>>
    BY <1>1 DEF SetWorkStatus
  <2>2. /\ orgClerks' \in [OrgClerks -> ClerkRecords] /\ ClerksAreFresh'
        /\ \A g \in OrgGates : GateReaders(g)' \subseteq GateReaders(g)
    BY <2>1, CommitsKeepFresh
  <2>3. WorkTypeOK' /\ RowsAgree'
    BY <2>1, <2>2 DEF WorkTypeOK, ClerkRecords, RowsAgree
  <2>4. QED
    BY <2>1, <2>2, <2>3, QuietWork DEF Undecided
<1>2. ASSUME NEW a \in OrgStaff, AddAgent(a)
      PROVE  WorkInv'
  <2>1. /\ a \notin orgFormer /\ orgStaff' = orgStaff \union {a}
        /\ UNCHANGED <<orgStatus, orgFormer, orgTasks, orgGates, orgClerks, workCollided,
                       workLost>>
    BY <1>2 DEF AddAgent
  <2>2. /\ orgClerks' \in [OrgClerks -> ClerkRecords] /\ ClerksAreFresh'
        /\ \A g \in OrgGates : GateReaders(g)' \subseteq GateReaders(g)
    BY <2>1, CommitsKeepFresh
  <2>3. WorkTypeOK' /\ RowsAgree'
    BY <2>1, <2>2 DEF WorkTypeOK, ClerkRecords, RowsAgree
  <2>4. QED
    BY <2>1, <2>2, <2>3, QuietWork DEF Undecided
<1>3. CASE DeleteWork
  <2> DEFINE things == orgStaff \union OrgTasks \union OrgGates \union {"org"}
  <2>1. /\ orgStatus' = "deleted"
        /\ orgStaff' = {} /\ orgFormer' = orgFormer \union orgStaff
        /\ orgTasks' = [t \in OrgTasks |-> IF TaskStored(t) THEN DeletedTask ELSE orgTasks[t]]
        /\ orgGates' = [g \in OrgGates |-> NewGate]
        /\ orgClerks' = TouchClerks("nobody", things)
        /\ UNCHANGED <<workCollided, workLost>>
    BY <1>3 DEF DeleteWork
  <2>2. OrgTasks \subseteq things /\ OrgGates \subseteq things /\ "org" \in things
    OBVIOUS
  <2> HIDE DEF things
  <2>3. /\ orgClerks' \in [OrgClerks -> ClerkRecords] /\ ClerksAreFresh'
        /\ \A g \in OrgGates : GateReaders(g)' \subseteq GateReaders(g)
    BY <2>1, <2>2, CommitsKeepFresh
  <2>4. /\ DeletedTask \in TaskRows /\ DeletedTask.status = "deleted" /\ ~DeletedTask.dated
        /\ NewGate.status = "absent" /\ NewGate.decisions = 0
    BY DEF DeletedTask, NoSuchTask, NewGate, TaskRows
  <2>5. orgTasks' \in [OrgTasks -> TaskRows]
    BY <2>1, <2>4 DEF WorkTypeOK
  <2>6. 0 \in 0..Cardinality(OrgClerks)
    BY ClerksAreFinite, FS_CardinalityType
  <2>7. orgGates' \in [OrgGates -> [status : {"absent", "pending", "approved", "rejected"},
                                    decisions : 0..Cardinality(OrgClerks)]]
    BY <2>1, <2>6 DEF NewGate
  <2>8. WorkTypeOK'
    BY <2>1, <2>3, <2>5, <2>7 DEF WorkTypeOK, ClerkRecords
  <2>9. RowsAgree'
    BY <2>1, <2>4 DEF RowsAgree
  <2>10. \A g \in OrgGates : orgGates'[g].decisions = 0
    BY <2>1, <2>4
  <2>11. QED
    BY <2>3, <2>8, <2>9, <2>10, QuietWork
<1>4. QED
  BY <1>1, <1>2, <1>3

\* Rows and gates that come, and tasks that go.
LEMMA RowSteps ==
  ASSUME WorkInv,
         \/ \E t \in OrgTasks : \/ DeleteOrgTask(t)
                                \/ \E a \in OrgStaff \union {NoAgent} : CreateOrgTask(t, a)
         \/ \E g \in OrgGates : CreateGate(g)
  PROVE  WorkInv'
<1> USE DEF WorkInv
<1>1. ASSUME NEW t \in OrgTasks, NEW a \in OrgStaff \union {NoAgent}, CreateOrgTask(t, a)
      PROVE  WorkInv'
  <2> DEFINE new == [agent |-> a, dated |-> FALSE,
                     status |-> IF a = NoAgent THEN "pending" ELSE "in_progress"]
  <2>1. /\ ~TaskStored(t) /\ orgTasks' = [orgTasks EXCEPT ![t] = new]
        /\ UNCHANGED <<orgStatus, orgStaff, orgFormer, orgGates, orgClerks, workCollided,
                       workLost>>
    BY <1>1 DEF CreateOrgTask, TaskStored, NoSuchTask
  <2>2. new \in TaskRows /\ new.status # "completed" /\ ~new.dated
    BY DEF TaskRows
  <2> HIDE DEF new
  <2>3. /\ orgClerks' \in [OrgClerks -> ClerkRecords] /\ ClerksAreFresh'
        /\ \A g \in OrgGates : GateReaders(g)' \subseteq GateReaders(g)
    BY <2>1, CommitsKeepFresh DEF WorkTypeOK
  <2>4. WorkTypeOK' /\ RowsAgree'
    BY <2>1, <2>2, <2>3 DEF WorkTypeOK, ClerkRecords, RowsAgree
  <2>5. QED
    BY <2>1, <2>3, <2>4, QuietWork DEF Undecided
<1>2. ASSUME NEW t \in OrgTasks, DeleteOrgTask(t)
      PROVE  WorkInv'
  <2>1. /\ orgTasks' = [orgTasks EXCEPT ![t] = DeletedTask]
        /\ orgClerks' = TouchClerks("nobody", {t})
        /\ UNCHANGED <<orgStatus, orgStaff, orgFormer, orgGates, workCollided, workLost>>
    BY <1>2 DEF DeleteOrgTask
  <2>2. DeletedTask \in TaskRows /\ DeletedTask.status = "deleted" /\ ~DeletedTask.dated
    BY DEF DeletedTask, NoSuchTask, TaskRows
  <2>3. /\ orgClerks' \in [OrgClerks -> ClerkRecords] /\ ClerksAreFresh'
        /\ \A g \in OrgGates : GateReaders(g)' \subseteq GateReaders(g)
    BY <2>1, CommitsKeepFresh DEF WorkTypeOK
  <2>4. WorkTypeOK' /\ RowsAgree'
    BY <2>1, <2>2, <2>3 DEF WorkTypeOK, ClerkRecords, RowsAgree
  <2>5. QED
    BY <2>1, <2>3, <2>4, QuietWork DEF Undecided
<1>3. ASSUME NEW g \in OrgGates, CreateGate(g)
      PROVE  WorkInv'
  <2>1. /\ orgGates[g].status = "absent"
        /\ orgGates' = [orgGates EXCEPT ![g].status = "pending"]
        /\ UNCHANGED <<orgStatus, orgStaff, orgFormer, orgTasks, orgClerks, workCollided,
                       workLost>>
    BY <1>3 DEF CreateGate
  <2>2. /\ orgClerks' \in [OrgClerks -> ClerkRecords] /\ ClerksAreFresh'
        /\ \A h \in OrgGates : GateReaders(h)' \subseteq GateReaders(h)
    BY <2>1, CommitsKeepFresh DEF WorkTypeOK
  <2>3. WorkTypeOK'
    BY <2>1, <2>2 DEF WorkTypeOK, ClerkRecords
  <2>4. \A h \in OrgGates : /\ orgGates'[h].decisions = orgGates[h].decisions
                            /\ Undecided(h)' => Undecided(h)
    BY <2>1 DEF WorkTypeOK, Undecided
  <2>5. RowsAgree'
    BY <2>1, <2>4 DEF RowsAgree
  <2>6. QED
    BY <2>2, <2>3, <2>4, <2>5, QuietWork
<1>4. QED
  BY <1>1, <1>2, <1>3

\* A handler that reads a task or an agent, or gives up on what is gone.
LEMMA ReadsAreFresh ==
  ASSUME WorkInv, NEW c \in OrgClerks, NEW k \in ClerkRecords,
         orgClerks[c] = ClerkIdle, orgClerks' = [orgClerks EXCEPT ![c] = k],
         UNCHANGED <<orgStatus, orgStaff, orgFormer, orgTasks, orgGates, workCollided, workLost>>,
         IsFresh(k)
  PROVE  WorkTypeOK' /\ ClerksAreFresh' /\ RowsAgree'
<1> USE DEF WorkInv
<1>1. WorkTypeOK'
  BY DEF WorkTypeOK, ClerkRecords
<1>2. \A d \in OrgClerks : orgClerks'[d] = IF d = c THEN k ELSE orgClerks[d]
  BY DEF WorkTypeOK
<1>3. \A d \in OrgClerks : IsFresh(orgClerks'[d])
  BY <1>2 DEF ClerksAreFresh
<1>4. ClerksAreFresh'
  BY <1>3 DEF ClerksAreFresh, IsFresh, TaskStored
<1>5. QED
  BY <1>1, <1>4 DEF RowsAgree

\* The reads.
LEMMA ReadSteps ==
  ASSUME WorkInv, NEW c \in OrgClerks,
         \/ \E t \in OrgTasks, want \in Wants : ReadOrgTask(c, t, want)
         \/ \E g \in OrgGates : ReadGate(c, g)
         \/ \E a \in OrgStaff : ReadAgent(c, a)
  PROVE  WorkInv'
<1> USE DEF WorkInv
<1>1. ASSUME NEW t \in OrgTasks, NEW want \in Wants, ReadOrgTask(c, t, want)
      PROVE  WorkInv'
  <2> DEFINE k == [does |-> "task", of |-> {t}, stale |-> FALSE, want |-> want,
                   read |-> [status |-> orgTasks[t].status, dated |-> orgTasks[t].dated]]
  <2>1. /\ TaskStored(t) /\ orgClerks[c] = ClerkIdle
        /\ orgClerks' = [orgClerks EXCEPT ![c] = k]
        /\ UNCHANGED <<orgStatus, orgStaff, orgFormer, orgTasks, orgGates, workCollided,
                       workLost>>
    BY <1>1 DEF ReadOrgTask
  <2>2. orgTasks[t].status \in {"absent", "pending", "in_progress", "completed"}
        /\ orgTasks[t].dated \in BOOLEAN
    BY <2>1 DEF WorkTypeOK, TaskRows, TaskStored
  <2>3. k \in ClerkRecords
    BY <2>2 DEF ClerkRecords
  <2>4. IsFresh(k)
    BY <2>1 DEF IsFresh
  <2>5. k.does = "task"
    OBVIOUS
  <2> HIDE DEF k
  <2>6. WorkTypeOK' /\ ClerksAreFresh' /\ RowsAgree'
    BY <2>1, <2>3, <2>4, ReadsAreFresh
  <2>7. \A g \in OrgGates : GateReaders(g)' \subseteq GateReaders(g)
    BY <2>1, <2>5 DEF GateReaders, WorkTypeOK
  <2>8. QED
    BY <2>1, <2>6, <2>7, QuietWork DEF Undecided
<1>2. ASSUME NEW a \in OrgStaff, ReadAgent(c, a)
      PROVE  WorkInv'
  <2> DEFINE k == [ClerkIdle EXCEPT !.does = "agent", !.of = {a, "org"}]
  <2>1. /\ orgStatus # "active" /\ orgClerks[c] = ClerkIdle
        /\ orgClerks' = [orgClerks EXCEPT ![c] = k]
        /\ UNCHANGED <<orgStatus, orgStaff, orgFormer, orgTasks, orgGates, workCollided,
                       workLost>>
    BY <1>2 DEF ReadAgent
  <2>2. k \in ClerkRecords /\ k.does = "agent" /\ k.of = {a, "org"}
    BY IdleClerk DEF ClerkRecords
  <2> HIDE DEF k
  <2>3. IsFresh(k)
    BY <2>1, <2>2 DEF IsFresh
  <2>4. WorkTypeOK' /\ ClerksAreFresh' /\ RowsAgree'
    BY <2>1, <2>2, <2>3, ReadsAreFresh
  <2>5. \A g \in OrgGates : GateReaders(g)' \subseteq GateReaders(g)
    BY <2>1, <2>2 DEF GateReaders, WorkTypeOK
  <2>6. QED
    BY <2>1, <2>4, <2>5, QuietWork DEF Undecided
<1>3. ASSUME NEW g \in OrgGates, ReadGate(c, g)
      PROVE  WorkInv'
  <2> DEFINE k == [ClerkIdle EXCEPT !.does = "gate", !.of = {g}]
  <2>1. /\ orgGates[g].status = "pending" /\ orgClerks[c] = ClerkIdle
        /\ orgClerks' = [orgClerks EXCEPT ![c] = k]
        /\ UNCHANGED <<orgStatus, orgStaff, orgFormer, orgTasks, orgGates, workCollided,
                       workLost>>
    BY <1>3 DEF ReadGate
  <2>2. k \in ClerkRecords /\ k.does = "gate" /\ k.of = {g}
    BY IdleClerk DEF ClerkRecords
  <2> HIDE DEF k
  <2>3. IsFresh(k)
    BY <2>1, <2>2 DEF IsFresh
  <2>4. WorkTypeOK' /\ ClerksAreFresh' /\ RowsAgree'
    BY <2>1, <2>2, <2>3, ReadsAreFresh
  <2>5. \A h \in OrgGates \ {g} : GateReaders(h)' \subseteq GateReaders(h)
    BY <2>1, <2>2 DEF GateReaders, WorkTypeOK
  <2>6. \A h \in OrgGates \ {g} :
          /\ Undecided(h)' => orgGates'[h].decisions = 0
          /\ orgGates'[h].decisions + Cardinality(GateReaders(h)') <= Cardinality(OrgClerks)
    BY <2>1, <2>5, CountsStay DEF Undecided
  <2>7. orgGates'[g].decisions = 0
    BY <2>1 DEF GatesAreCounted, Undecided
  <2>8. GateReaders(g)' \subseteq OrgClerks
    BY DEF GateReaders
  <2>9. /\ Cardinality(GateReaders(g)') <= Cardinality(OrgClerks)
        /\ Cardinality(GateReaders(g)') \in Nat
    BY <2>8, ClerksAreFinite, FS_Subset, FS_CardinalityType
  <2>10. GatesAreCounted'
    BY <2>6, <2>7, <2>9 DEF GatesAreCounted
  <2>11. QED
    BY <2>4, <2>10
<1>4. QED
  BY <1>1, <1>2, <1>3

\* A task is written.
LEMMA CommitTaskStep ==
  ASSUME WorkInv, NEW c \in OrgClerks, NEW a \in OrgStaff \union {NoAgent},
         CommitOrgTask(c, a)
  PROVE  WorkInv'
<1> USE DEF WorkInv
<1>1. PICK t \in OrgTasks :
        /\ orgClerks[c].of = {t} /\ orgClerks[c].want \in Wants
        /\ ~orgClerks[c].stale => /\ TaskStored(t)
                                  /\ orgClerks[c].read.status = orgTasks[t].status
                                  /\ orgClerks[c].read.dated = orgTasks[t].dated
  BY DEF CommitOrgTask, ClerksAreFresh, IsFresh
<1>2. orgClerks[c] \in ClerkRecords
  BY DEF WorkTypeOK, ClerkRecords
<1> DEFINE read == orgClerks[c].read
           want == orgClerks[c].want
           status == WrittenStatus(read, want)
           dated == WrittenDate(read, want)
<1>3. UNCHANGED <<orgStatus, orgStaff, orgFormer, orgGates, workLost>>
  BY DEF CommitOrgTask
<1>4. CASE ~TaskStored(t)
  <2>1. UNCHANGED <<orgTasks, workCollided>> /\ ClerkDone(c, {})
    BY <1>1, <1>4 DEF CommitOrgTask
  <2>2. /\ orgClerks' \in [OrgClerks -> ClerkRecords] /\ ClerksAreFresh'
        /\ \A g \in OrgGates : GateReaders(g)' \subseteq GateReaders(g)
    BY <1>3, <2>1, CommitsKeepFresh
  <2>3. WorkTypeOK' /\ RowsAgree'
    BY <1>3, <2>1, <2>2 DEF WorkTypeOK, ClerkRecords, RowsAgree
  <2>4. QED
    BY <1>3, <2>2, <2>3, QuietWork DEF Undecided, WorkTypeOK
<1>5. CASE TaskStored(t)
  <2>1. /\ orgTasks' = [orgTasks EXCEPT
             ![t].status = IF status # read.status THEN status ELSE @,
             ![t].dated  = IF dated # read.dated \/ Completes(want) THEN dated ELSE @,
             ![t].agent  = IF want = "assign" THEN a ELSE @]
        /\ WorkCollides(c, t) /\ ClerkDone(c, {t})
    BY <1>1, <1>5 DEF CommitOrgTask
  <2>2. /\ status \in {"absent", "pending", "in_progress", "completed"} /\ dated \in BOOLEAN
        /\ status = "absent" => status = read.status
    BY <1>1, <1>2 DEF WrittenStatus, WrittenDate, Completes, Wants, ClerkRecords
  <2>3. ~orgClerks[c].stale /\ (read.status = "completed" <=> read.dated)
          => (status = "completed" <=> dated)
    BY <1>1, <1>2 DEF WrittenStatus, WrittenDate, Completes, Wants, ClerkRecords
  <2>4. orgTasks[t] \in TaskRows /\ read.dated \in BOOLEAN
    BY <1>2 DEF WorkTypeOK, ClerkRecords
  <2> HIDE DEF status, dated
  <2>5. /\ orgTasks'[t].status = IF status # read.status THEN status ELSE orgTasks[t].status
        /\ orgTasks'[t].dated = IF dated # read.dated \/ Completes(want)
                                THEN dated ELSE orgTasks[t].dated
        /\ \A u \in OrgTasks \ {t} : orgTasks'[u] = orgTasks[u]
    BY <2>1, <2>4 DEF TaskRows, WorkTypeOK
  <2>6. orgTasks' \in [OrgTasks -> TaskRows]
    BY <2>1, <2>2, <2>4 DEF TaskRows, WorkTypeOK
  <2>7. /\ orgClerks' \in [OrgClerks -> ClerkRecords] /\ ClerksAreFresh'
        /\ \A g \in OrgGates : GateReaders(g)' \subseteq GateReaders(g)
    BY <1>3, <2>1, <2>5, CommitsKeepFresh
  <2>8. workCollided' = IF orgClerks[c].stale THEN workCollided \union {t} ELSE workCollided
    BY <2>1 DEF WorkCollides
  <2>9. WorkTypeOK'
    BY <1>3, <2>6, <2>7, <2>8 DEF WorkTypeOK, ClerkRecords
  <2>10. t \notin workCollided' => (orgTasks'[t].status = "completed" <=> orgTasks'[t].dated)
    <3>1. SUFFICES ASSUME t \notin workCollided'
                   PROVE  orgTasks'[t].status = "completed" <=> orgTasks'[t].dated
      OBVIOUS
    <3>2. t \notin workCollided /\ ~orgClerks[c].stale
      BY <2>8, <3>1
    <3>3. read.status = "completed" <=> read.dated
      BY <1>1, <3>2 DEF RowsAgree
    <3>4. orgTasks'[t].status = status /\ orgTasks'[t].dated = dated
      BY <1>1, <2>5, <3>2
    <3>5. QED
      BY <2>3, <3>2, <3>3, <3>4
  <2>11. RowsAgree'
    BY <1>3, <2>5, <2>8, <2>10 DEF RowsAgree
  <2>12. QED
    BY <1>3, <2>7, <2>9, <2>11, QuietWork DEF Undecided, WorkTypeOK
<1>6. QED
  BY <1>4, <1>5

\* An agent goes; its tasks are nobody's.
LEMMA DeleteAgentStep ==
  ASSUME WorkInv, NEW c \in OrgClerks, DeleteAgent(c)
  PROVE  WorkInv'
<1> USE DEF WorkInv
<1>1. PICK a \in OrgStaff : /\ orgClerks[c].of = {a, "org"} /\ a # "org"
                            /\ ~orgClerks[c].stale => orgStatus # "active"
  BY DEF DeleteAgent, ClerksAreFresh, IsFresh
<1>2. UNCHANGED <<orgStatus, orgGates>>
  BY DEF DeleteAgent
<1>3. CASE a \notin orgStaff
  <2>1. UNCHANGED <<orgStaff, orgFormer, orgTasks, workCollided, workLost>> /\ ClerkDone(c, {})
    BY <1>1, <1>3 DEF DeleteAgent
  <2>2. /\ orgClerks' \in [OrgClerks -> ClerkRecords] /\ ClerksAreFresh'
        /\ \A g \in OrgGates : GateReaders(g)' \subseteq GateReaders(g)
    BY <1>2, <2>1, CommitsKeepFresh
  <2>3. WorkTypeOK' /\ RowsAgree'
    BY <1>2, <2>1, <2>2 DEF WorkTypeOK, ClerkRecords, RowsAgree
  <2>4. QED
    BY <1>2, <2>2, <2>3, QuietWork DEF Undecided, WorkTypeOK
<1>4. CASE a \in orgStaff
  <2>1. /\ orgStaff' = orgStaff \ {a} /\ orgFormer' = orgFormer \union {a}
        /\ orgTasks' = [t \in OrgTasks |-> IF orgTasks[t].agent = a
                                    THEN [orgTasks[t] EXCEPT !.agent = NoAgent] ELSE orgTasks[t]]
        /\ workLost' = IF orgStatus = "active" THEN workLost \union {a} ELSE workLost
        /\ WorkCollides(c, a) /\ ClerkDone(c, {a})
    BY <1>1, <1>4 DEF DeleteAgent
  <2>2. /\ orgTasks' \in [OrgTasks -> TaskRows]
        /\ \A t \in OrgTasks : /\ orgTasks'[t].status = orgTasks[t].status
                               /\ orgTasks'[t].dated = orgTasks[t].dated
    BY <2>1 DEF WorkTypeOK, TaskRows
  <2>3. /\ orgClerks' \in [OrgClerks -> ClerkRecords] /\ ClerksAreFresh'
        /\ \A g \in OrgGates : GateReaders(g)' \subseteq GateReaders(g)
    BY <1>2, <2>1, <2>2, CommitsKeepFresh
  <2>4. workCollided' = IF orgClerks[c].stale THEN workCollided \union {a} ELSE workCollided
    BY <2>1 DEF WorkCollides
  <2>5. WorkTypeOK'
    BY <1>2, <2>1, <2>2, <2>3, <2>4 DEF WorkTypeOK, ClerkRecords
  <2>6. RowsAgree'
    BY <1>1, <1>2, <2>1, <2>2, <2>4 DEF RowsAgree
  <2>7. QED
    BY <1>2, <2>3, <2>5, <2>6, QuietWork DEF Undecided, WorkTypeOK
<1>5. QED
  BY <1>3, <1>4

\* A gate is decided: only a reader that is stale decides it again.
LEMMA DecideGateStep ==
  ASSUME WorkInv, NEW c \in OrgClerks, NEW decision \in {"approved", "rejected"},
         DecideGate(c, decision)
  PROVE  WorkInv'
<1> USE DEF WorkInv
<1>1. PICK g \in OrgGates :
        /\ orgClerks[c].of = {g} /\ orgClerks[c].does = "gate"
        /\ ~orgClerks[c].stale => orgGates[g].status = "pending"
  BY DEF DecideGate, ClerksAreFresh, IsFresh
<1>2. UNCHANGED <<orgStatus, orgStaff, orgFormer, orgTasks, workLost>>
  BY DEF DecideGate
<1>3. CASE orgGates[g].status = "absent"
  <2>1. UNCHANGED <<orgGates, workCollided>> /\ ClerkDone(c, {})
    BY <1>1, <1>3 DEF DecideGate
  <2>2. /\ orgClerks' \in [OrgClerks -> ClerkRecords] /\ ClerksAreFresh'
        /\ \A h \in OrgGates : GateReaders(h)' \subseteq GateReaders(h)
    BY <1>2, <2>1, CommitsKeepFresh
  <2>3. WorkTypeOK' /\ RowsAgree'
    BY <1>2, <2>1, <2>2 DEF WorkTypeOK, ClerkRecords, RowsAgree
  <2>4. QED
    BY <2>1, <2>2, <2>3, QuietWork DEF Undecided, WorkTypeOK
<1>4. CASE orgGates[g].status # "absent"
  <2>1. /\ orgGates' = [orgGates EXCEPT ![g].status = decision, ![g].decisions = @ + 1]
        /\ WorkCollides(c, g) /\ ClerkDone(c, {g})
    BY <1>1, <1>4 DEF DecideGate
  <2>2. /\ orgGates'[g].status = decision
        /\ orgGates'[g].decisions = orgGates[g].decisions + 1
        /\ \A h \in OrgGates \ {g} : orgGates'[h] = orgGates[h]
        /\ \A h \in OrgGates : orgGates[h].decisions \in Nat
    BY <2>1, ClerksAreFinite, FS_CardinalityType DEF WorkTypeOK
  <2>3. /\ orgClerks' \in [OrgClerks -> ClerkRecords] /\ ClerksAreFresh'
        /\ \A h \in OrgGates : GateReaders(h)' \subseteq GateReaders(h)
    BY <1>2, <2>1, <2>2, CommitsKeepFresh
  <2>4. c \in GateReaders(g) /\ c \notin GateReaders(g)'
    <3>1. orgClerks'[c] = ClerkIdle
      BY <2>1, TouchedClerks DEF ClerkDone
    <3>2. QED
      BY <1>1, <3>1, IdleClerk DEF GateReaders
  <2>5. Cardinality(GateReaders(g)') + 1 <= Cardinality(GateReaders(g))
    <3>1. IsFiniteSet(GateReaders(g))
      BY ClerksAreFinite, FS_Subset DEF GateReaders
    <3>2. /\ GateReaders(g)' \subseteq GateReaders(g) \ {c}
          /\ IsFiniteSet(GateReaders(g) \ {c})
          /\ Cardinality(GateReaders(g) \ {c}) = Cardinality(GateReaders(g)) - 1
      BY <2>3, <2>4, <3>1, FS_RemoveElement
    <3>3. Cardinality(GateReaders(g)') <= Cardinality(GateReaders(g) \ {c})
      BY <3>2, FS_Subset
    <3>4. QED
      BY <3>1, <3>2, <3>3, FS_CardinalityType, FS_Subset
  <2>6. /\ Cardinality(GateReaders(g)') \in Nat /\ Cardinality(GateReaders(g)) \in Nat
        /\ Cardinality(OrgClerks) \in Nat
    <3>1. GateReaders(g) \subseteq OrgClerks /\ GateReaders(g)' \subseteq OrgClerks
      BY DEF GateReaders
    <3>2. QED
      BY <3>1, ClerksAreFinite, FS_Subset, FS_CardinalityType
  <2>7. orgGates'[g].decisions + Cardinality(GateReaders(g)') <= Cardinality(OrgClerks)
    BY <2>2, <2>5, <2>6 DEF GatesAreCounted
  <2>8. \A h \in OrgGates \ {g} :
          /\ Undecided(h)' => orgGates'[h].decisions = 0
          /\ orgGates'[h].decisions + Cardinality(GateReaders(h)') <= Cardinality(OrgClerks)
    BY <2>2, <2>3, CountsStay DEF Undecided
  <2>9. GatesAreCounted'
    BY <2>2, <2>7, <2>8 DEF GatesAreCounted, Undecided
  <2>10. workCollided' = IF orgClerks[c].stale THEN workCollided \union {g} ELSE workCollided
    BY <2>1 DEF WorkCollides
  <2>11. orgGates' \in [OrgGates -> [status : {"absent", "pending", "approved", "rejected"},
                                     decisions : 0..Cardinality(OrgClerks)]]
    BY <2>1, <2>2, <2>6, <2>7 DEF WorkTypeOK
  <2>12. WorkTypeOK'
    BY <1>2, <2>3, <2>10, <2>11 DEF WorkTypeOK, ClerkRecords
  <2>13. g \notin workCollided' => orgGates'[g].decisions <= 1
    BY <1>1, <2>2, <2>10 DEF GatesAreCounted, Undecided
  <2>14. RowsAgree'
    BY <1>2, <2>2, <2>10, <2>13 DEF RowsAgree
  <2>15. QED
    BY <2>3, <2>9, <2>12, <2>14
<1>5. QED
  BY <1>3, <1>4

\* The invariant of the work.
THEOREM WorkInvariant == WorkSpec => []WorkInv
<1>1. WorkInit => WorkInv
  <2>1. SUFFICES ASSUME WorkInit PROVE WorkInv
    OBVIOUS
  <2>2. 0 \in 0..Cardinality(OrgClerks) /\ Cardinality(OrgClerks) \in Nat
    BY ClerksAreFinite, FS_CardinalityType
  <2>3. NoSuchTask \in TaskRows /\ NoSuchTask.status = "absent" /\ ~NoSuchTask.dated
    BY DEF NoSuchTask, TaskRows
  <2>4. ClerkIdle \in ClerkRecords /\ ClerkIdle.does = "nothing"
    BY IdleClerk
  <2>5. WorkTypeOK
    <3>1. NewGate \in [status : {"absent", "pending", "approved", "rejected"},
                       decisions : 0..Cardinality(OrgClerks)]
      BY <2>2 DEF NewGate
    <3>2. orgClerks \in [OrgClerks -> ClerkRecords]
      BY <2>1, <2>4 DEF WorkInit
    <3>3. orgTasks \in [OrgTasks -> TaskRows]
      BY <2>1, <2>3 DEF WorkInit
    <3>4. orgGates \in [OrgGates -> [status : {"absent", "pending", "approved", "rejected"},
                                     decisions : 0..Cardinality(OrgClerks)]]
      BY <2>1, <3>1 DEF WorkInit
    <3>5. /\ orgStatus \in {"active", "paused", "archived", "deleted"}
          /\ orgStaff \subseteq OrgStaff /\ orgFormer \subseteq OrgStaff
          /\ orgStaff \intersect orgFormer = {}
          /\ workCollided \subseteq OrgStaff \union OrgTasks \union OrgGates
          /\ workLost \subseteq OrgStaff
      BY <2>1 DEF WorkInit
    <3>6. QED
      BY <3>2, <3>3, <3>4, <3>5 DEF WorkTypeOK, ClerkRecords
  <2>6. ClerksAreFresh
    BY <2>1, <2>4 DEF WorkInit, ClerksAreFresh, IsFresh
  <2>7. \A g \in OrgGates : GateReaders(g) = {}
    BY <2>1, <2>4 DEF WorkInit, GateReaders
  <2>8. GatesAreCounted
    <3>1. \A g \in OrgGates : orgGates[g].decisions = 0
      BY <2>1 DEF WorkInit, NewGate
    <3>2. \A g \in OrgGates : Cardinality(GateReaders(g)) = 0
      BY <2>7, FS_EmptySet
    <3>3. QED
      BY <2>2, <3>1, <3>2 DEF GatesAreCounted
  <2>9. RowsAgree
    BY <2>1, <2>3 DEF WorkInit, RowsAgree, NewGate
  <2>10. QED
    BY <2>5, <2>6, <2>8, <2>9 DEF WorkInv
<1>2. WorkInv /\ [WorkNext]_workVars => WorkInv'
  <2>1. SUFFICES ASSUME WorkInv, [WorkNext]_workVars PROVE WorkInv'
    OBVIOUS
  <2>2. CASE UNCHANGED workVars
    <3>1. \A g \in OrgGates : GateReaders(g)' = GateReaders(g)
      BY <2>2 DEF workVars, GateReaders
    <3>2. GatesAreCounted'
      BY <2>1, <2>2, <3>1 DEF workVars, WorkInv, GatesAreCounted, Undecided
    <3>3. ClerksAreFresh'
      BY <2>1, <2>2 DEF workVars, WorkInv, ClerksAreFresh, IsFresh, TaskStored
    <3>4. WorkTypeOK' /\ RowsAgree'
      BY <2>1, <2>2 DEF workVars, WorkInv, WorkTypeOK, RowsAgree
    <3>5. QED
      BY <3>2, <3>3, <3>4 DEF WorkInv
  <2>3. CASE WorkNext
    <3>1. CASE \/ \E status \in {"active", "paused", "archived"} : SetWorkStatus(status)
               \/ \E a \in OrgStaff : AddAgent(a)
               \/ DeleteWork
      BY <2>1, <3>1, OrganizationSteps
    <3>2. CASE \/ \E t \in OrgTasks : \/ DeleteOrgTask(t)
                                      \/ \E a \in OrgStaff \union {NoAgent} : CreateOrgTask(t, a)
               \/ \E g \in OrgGates : CreateGate(g)
      BY <2>1, <3>2, RowSteps
    <3>3. CASE \E c \in OrgClerks :
                 \/ \E t \in OrgTasks, want \in Wants : ReadOrgTask(c, t, want)
                 \/ \E g \in OrgGates : ReadGate(c, g)
                 \/ \E a \in OrgStaff : ReadAgent(c, a)
      BY <2>1, <3>3, ReadSteps
    <3>4. CASE \E c \in OrgClerks :
                 \/ \E a \in OrgStaff \union {NoAgent} : CommitOrgTask(c, a)
                 \/ DeleteAgent(c)
                 \/ \E decision \in {"approved", "rejected"} : DecideGate(c, decision)
      BY <2>1, <3>4, CommitTaskStep, DeleteAgentStep, DecideGateStep
    <3>5. QED
      BY <2>3, <3>1, <3>2, <3>3, <3>4 DEF WorkNext
  <2>4. QED
    BY <2>1, <2>2, <2>3
<1>3. QED
  BY <1>1, <1>2, PTL DEF WorkSpec

\* Whatever handlers the organization's work goes through, in whatever order: a row
\* contradicts itself only where one of them wrote from a row another had changed.
THEOREM RowsAlwaysAgree == WorkSpec => []RowsAgree
BY WorkInvariant, PTL DEF WorkInv

-----------------------------------------------------------------------------
(* Organizations that come and go.  What a deletion takes was exclusive    *)
(* when it was read; as long as nobody has touched it since, only agents   *)
(* of that organization, or of an archived one, use it.                    *)

EmptyMembers == \A a \in OrgMembers : ~Stands(a) => orgMembers[a].uses = {}
MembersStand == \A a \in OrgMembers : Stands(a) => Live(orgMembers[a].org)
RowsHaveDirs == toolRows \subseteq toolDirs \union forsaken
UsesAreRows ==
  \A a \in OrgMembers : orgMembers[a].uses \subseteq (toolRows \intersect toolDirs) \union forsaken
OneHolding == "holding" \in forsaken \/ \A g, h \in Holdings : g = h
HoldingsAreThere == \A o \in Holdings : orgs[o].status # "absent"

\* What a deletion under way has read still holds unless it is stale.
IsSparing(w) ==
  /\ w.doomed \subseteq w.of
  /\ w.retain # {} => "holding" \in w.of
  /\ w.org \in Orgs => orgs[w.org].status # "absent"
  /\ Live(w.org) /\ ~w.stale =>
       /\ \A a \in OrgMembers : orgMembers[a].uses \intersect w.doomed # {} =>
            \/ orgMembers[a].org = w.org
            \/ orgs[orgMembers[a].org].status = "archived"
       /\ w.retain # {} /\ w.holding = NoOrg => Holdings = {}

DeletersAreSparing == \A d \in Deleters : IsSparing(deleters[d])

BoardInv ==
  /\ BoardTypeOK /\ EmptyMembers /\ MembersStand /\ RowsHaveDirs /\ UsesAreRows
  /\ OneHolding /\ HoldingsAreThere /\ DeletersAreSparing

OrgRecords == [status : {"absent", "in_use", "archived", "deleted"}, holding : BOOLEAN]
MemberRecords == [org : Orgs \union {NoOrg, Gone}, uses : SUBSET OrgTools]
DeletionRecords ==
  [org : Orgs \union {NoOrg}, of : SUBSET (OrgTools \union {"holding"}), stale : BOOLEAN,
   retain : SUBSET OrgMembers, doomed : SUBSET OrgTools, holding : Orgs \union {NoOrg}]

\* The marks for no organization are no organizations.
LEMMA BoardMarks ==
  /\ NoOrg \notin Orgs /\ Gone \notin Orgs
  /\ NoDeletion \in DeletionRecords /\ NoDeletion.org \notin Orgs /\ NoDeletion.doomed = {}
  /\ NoDeletion.retain = {}
  /\ DeletedMember \in MemberRecords /\ NoSuchMember \in MemberRecords
  /\ DeletedMember.org \notin Orgs /\ NoSuchMember.org \notin Orgs
  /\ DeletedMember.uses = {} /\ NoSuchMember.uses = {}
  /\ NoSuchOrg \in OrgRecords /\ DeletedOrg \in OrgRecords
  /\ NoSuchOrg.status = "absent" /\ ~NoSuchOrg.holding
  /\ DeletedOrg.status = "deleted" /\ ~DeletedOrg.holding
<1>1. NoOrg \notin Orgs /\ Gone \notin Orgs
  BY MarksAreNoIds, OrgLimitIsNatural, HoldLimitIsNatural DEF Orgs
<1>2. QED
  BY <1>1 DEF NoDeletion, DeletionRecords, DeletedMember, NoSuchMember, MemberRecords,
              NoSuchOrg, DeletedOrg, OrgRecords

\* A commit makes some of what deletions have read stale, and nothing else of it.
LEMMA DeletersTouched ==
  ASSUME BoardTypeOK, NEW except, NEW things
  PROVE  LET f == MakesStale(except, things) IN
         /\ f \in [Deleters -> DeletionRecords]
         /\ \A d \in Deleters :
              /\ f[d].org = deleters[d].org /\ f[d].of = deleters[d].of
              /\ f[d].retain = deleters[d].retain /\ f[d].doomed = deleters[d].doomed
              /\ f[d].holding = deleters[d].holding
              /\ ~f[d].stale => ~deleters[d].stale
              /\ ~f[d].stale => d = except \/ deleters[d].of \intersect things = {}
<1>1. deleters \in [Deleters -> DeletionRecords]
  BY DEF BoardTypeOK, DeletionRecords
<1>2. QED
  BY <1>1 DEF MakesStale, DeletionRecords

\* A deletion that was not made stale spares the agents it spared.
LEMMA SparingStays ==
  ASSUME BoardTypeOK, NEW things, NEW except, NEW d \in Deleters \ {except},
         IsSparing(deleters[d]), deleters'[d] = MakesStale(except, things)[d],
         \A o \in Orgs : orgs[o].status # "absent" =>
           orgs'[o].status # "absent" /\ (Live(o)' => Live(o)),
         \A a \in OrgMembers : \A x \in orgMembers'[a].uses \ things :
           /\ x \in orgMembers[a].uses /\ orgMembers'[a].org = orgMembers[a].org
           /\ orgs[orgMembers[a].org].status = "archived"
                => orgs'[orgMembers[a].org].status = "archived",
         "holding" \in things \/ Holdings' \subseteq Holdings
  PROVE  IsSparing(deleters[d])'
<1> DEFINE w == deleters[d]
<1>1. /\ deleters'[d].org = w.org /\ deleters'[d].of = w.of /\ deleters'[d].retain = w.retain
      /\ deleters'[d].doomed = w.doomed /\ deleters'[d].holding = w.holding
      /\ ~deleters'[d].stale => ~w.stale /\ w.of \intersect things = {}
  BY DeletersTouched
<1>2. /\ w.doomed \subseteq w.of /\ (w.retain # {} => "holding" \in w.of)
      /\ w.org \in Orgs => orgs[w.org].status # "absent"
  BY DEF IsSparing
<1>3. Orgs' = Orgs
  BY DEF Orgs
<1>4. w.org \in Orgs => orgs'[w.org].status # "absent"
  BY <1>2
<1>5. ASSUME Live(w.org)', ~deleters'[d].stale
      PROVE  /\ \A a \in OrgMembers : orgMembers'[a].uses \intersect w.doomed # {} =>
                  \/ orgMembers'[a].org = w.org
                  \/ orgs'[orgMembers'[a].org].status = "archived"
             /\ w.retain # {} /\ w.holding = NoOrg => Holdings' = {}
  <2>1. Live(w.org) /\ ~w.stale /\ w.of \intersect things = {}
    BY <1>1, <1>2, <1>3, <1>5 DEF Live
  <2>2. /\ \A a \in OrgMembers : orgMembers[a].uses \intersect w.doomed # {} =>
             \/ orgMembers[a].org = w.org
             \/ orgs[orgMembers[a].org].status = "archived"
        /\ w.retain # {} /\ w.holding = NoOrg => Holdings = {}
    BY <2>1 DEF IsSparing
  <2>3. ASSUME NEW a \in OrgMembers, orgMembers'[a].uses \intersect w.doomed # {}
        PROVE  \/ orgMembers'[a].org = w.org
               \/ orgs'[orgMembers'[a].org].status = "archived"
    <3>1. PICK x \in w.doomed : x \in orgMembers'[a].uses
      BY <2>3
    <3>2. x \notin things
      BY <1>2, <2>1
    <3>3. /\ x \in orgMembers[a].uses /\ orgMembers'[a].org = orgMembers[a].org
          /\ orgs[orgMembers[a].org].status = "archived"
               => orgs'[orgMembers[a].org].status = "archived"
      BY <3>1, <3>2
    <3>4. QED
      BY <2>2, <3>1, <3>3
  <2>4. w.retain # {} /\ w.holding = NoOrg => Holdings' = {}
    BY <1>2, <2>1, <2>2
  <2>5. QED
    BY <2>3, <2>4
<1>6. QED
  BY <1>1, <1>2, <1>3, <1>4, <1>5 DEF IsSparing

\* Organizations are created, paused, taken up, archived and dropped.
LEMMA OrgSteps ==
  ASSUME BoardInv, NEW o \in Orgs,
         \/ CreateOrg(o)
         \/ \E a \in OrgMembers : CreateOrgViaWizard(o, a)
         \/ \E status \in {"in_use", "archived"} : SetOrgStatus(o, status)
         \/ OrgsCommand(o)
  PROVE  BoardInv'
<1> USE DEF BoardInv
<1>a. /\ orgs \in [Orgs -> OrgRecords] /\ orgMembers \in [OrgMembers -> MemberRecords]
      /\ deleters \in [Deleters -> DeletionRecords]
  BY DEF BoardTypeOK, OrgRecords, MemberRecords, DeletionRecords
<1>b. Orgs' = Orgs /\ OrgMembers' = OrgMembers
  BY DEF Orgs, OrgMembers
<1>1. ASSUME NextOrg(o), orgs' = [orgs EXCEPT ![o].status = "in_use"],
             UNCHANGED <<toolRows, toolDirs, deleters, forsaken>>,
             orgMembers' \in [OrgMembers -> MemberRecords],
             \A a \in OrgMembers : /\ orgMembers'[a].uses = orgMembers[a].uses
                                   /\ \/ orgMembers'[a] = orgMembers[a]
                                      \/ orgMembers'[a].org = o /\ orgMembers[a].uses = {}
      PROVE  BoardInv'
  <2>1. /\ orgs[o].status = "absent" /\ ~orgs[o].holding /\ orgs' \in [Orgs -> OrgRecords]
        /\ orgs'[o].status = "in_use" /\ ~orgs'[o].holding
        /\ \A p \in Orgs \ {o} : orgs'[p] = orgs[p]
    BY <1>1, <1>a, BoardMarks DEF NextOrg, FirstUnused, OrgRecords
  <2>2. Holdings' = Holdings
    BY <1>b, <2>1 DEF Holdings
  <2>3. BoardTypeOK'
    BY <1>1, <1>a, <1>b, <2>1 DEF BoardTypeOK, OrgRecords, MemberRecords, DeletionRecords
  <2>4. EmptyMembers' /\ MembersStand'
    BY <1>1, <1>b, <2>1 DEF EmptyMembers, MembersStand, Stands, Live
  <2>5. RowsHaveDirs' /\ UsesAreRows'
    BY <1>1 DEF RowsHaveDirs, UsesAreRows
  <2>6. OneHolding' /\ HoldingsAreThere'
    BY <1>1, <2>1, <2>2 DEF OneHolding, HoldingsAreThere, Holdings
  <2>7. ASSUME NEW d \in Deleters
        PROVE  IsSparing(deleters[d])'
    <3> DEFINE w == deleters[d]
    <3>1. /\ w.doomed \subseteq w.of /\ (w.retain # {} => "holding" \in w.of)
          /\ w.org \in Orgs => orgs[w.org].status # "absent"
          /\ Live(w.org) /\ ~w.stale =>
               /\ \A a \in OrgMembers : orgMembers[a].uses \intersect w.doomed # {} =>
                    \/ orgMembers[a].org = w.org
                    \/ orgs[orgMembers[a].org].status = "archived"
               /\ w.retain # {} /\ w.holding = NoOrg => Holdings = {}
      BY DEF DeletersAreSparing, IsSparing
    <3>2. w.org \in Orgs => w.org # o /\ orgs'[w.org] = orgs[w.org]
      BY <2>1, <3>1
    <3>3. ASSUME NEW a \in OrgMembers, orgMembers'[a].uses \intersect w.doomed # {}
          PROVE  /\ orgMembers'[a] = orgMembers[a] /\ orgMembers[a].org \in Orgs \ {o}
                 /\ orgs'[orgMembers[a].org] = orgs[orgMembers[a].org]
      BY <1>1, <2>1, <3>3 DEF EmptyMembers, MembersStand, Stands, Live
    <3>4. QED
      BY <1>1, <1>b, <2>2, <3>1, <3>2, <3>3 DEF IsSparing, Live
  <2>8. QED
    BY <2>3, <2>4, <2>5, <2>6, <2>7 DEF DeletersAreSparing
<1>2. CASE CreateOrg(o)
  BY <1>1, <1>2, <1>a DEF CreateOrg
<1>3. ASSUME NEW a \in OrgMembers, CreateOrgViaWizard(o, a)
      PROVE  BoardInv'
  <2>1. /\ NextOrg(o) /\ orgMembers[a] = NoSuchMember
        /\ orgs' = [orgs EXCEPT ![o].status = "in_use"]
        /\ orgMembers' = [orgMembers EXCEPT ![a].org = o]
        /\ UNCHANGED <<toolRows, toolDirs, deleters, forsaken>>
    BY <1>3 DEF CreateOrgViaWizard, NextMember
  <2>2. /\ orgMembers' \in [OrgMembers -> MemberRecords]
        /\ \A b \in OrgMembers : /\ orgMembers'[b].uses = orgMembers[b].uses
                                 /\ \/ orgMembers'[b] = orgMembers[b]
                                    \/ orgMembers'[b].org = o /\ orgMembers[b].uses = {}
    BY <1>a, <2>1, BoardMarks DEF MemberRecords
  <2>3. QED
    BY <1>1, <2>1, <2>2
<1>4. ASSUME NEW status \in {"in_use", "archived"}, SetOrgStatus(o, status)
      PROVE  BoardInv'
  <2>1. /\ Live(o) /\ orgs' = [orgs EXCEPT ![o].status = status]
        /\ deleters' = MakesStale("nobody", UsedBy(MembersOf(o)))
        /\ UNCHANGED <<orgMembers, toolRows, toolDirs, forsaken>>
    BY <1>4 DEF SetOrgStatus
  <2>2. /\ orgs' \in [Orgs -> OrgRecords]
        /\ \A p \in Orgs : orgs'[p].holding = orgs[p].holding
        /\ orgs'[o].status = status /\ \A p \in Orgs \ {o} : orgs'[p] = orgs[p]
    BY <1>a, <2>1 DEF OrgRecords
  <2>3. Holdings' = Holdings
    BY <1>b, <2>2 DEF Holdings
  <2>4. BoardTypeOK'
    BY <1>b, <2>1, <2>2, DeletersTouched
       DEF BoardTypeOK, OrgRecords, MemberRecords, DeletionRecords
  <2>5. \A p \in Orgs : /\ orgs[p].status # "absent" => orgs'[p].status # "absent"
                        /\ Live(p)' <=> Live(p)
    BY <1>b, <2>1, <2>2 DEF Live
  <2>6. EmptyMembers' /\ MembersStand'
    BY <1>b, <2>1, <2>5 DEF EmptyMembers, MembersStand, Stands
  <2>7. RowsHaveDirs' /\ UsesAreRows' /\ OneHolding' /\ HoldingsAreThere'
    BY <2>1, <2>3, <2>5
       DEF RowsHaveDirs, UsesAreRows, OneHolding, HoldingsAreThere, Holdings
  <2>8. \A a \in OrgMembers : \A x \in orgMembers'[a].uses \ UsedBy(MembersOf(o)) :
          /\ x \in orgMembers[a].uses /\ orgMembers'[a].org = orgMembers[a].org
          /\ orgs[orgMembers[a].org].status = "archived"
               => orgs'[orgMembers[a].org].status = "archived"
    BY <2>1, <2>2 DEF UsedBy, MembersOf, EmptyMembers, Stands
  <2>9. \A d \in Deleters : IsSparing(deleters[d])'
    BY <2>1, <2>3, <2>5, <2>8, MarksAreNoIds, SparingStays DEF DeletersAreSparing
  <2>10. QED
    BY <2>4, <2>6, <2>7, <2>9 DEF DeletersAreSparing
<1>5. ASSUME DropByCommand(o) PROVE BoardInv'
  <2>1. /\ Live(o) /\ orgs' = [orgs EXCEPT ![o] = DeletedOrg]
        /\ orgMembers' = [a \in OrgMembers |-> IF a \in MembersOf(o) THEN DeletedMember
                                                                   ELSE orgMembers[a]]
        /\ UNCHANGED <<toolRows, toolDirs, deleters, forsaken>>
    BY <1>5 DEF DropByCommand
  <2>2. /\ orgs' \in [Orgs -> OrgRecords]
        /\ orgs'[o].status = "deleted" /\ ~orgs'[o].holding
        /\ \A p \in Orgs \ {o} : orgs'[p] = orgs[p]
    BY <1>a, <2>1 DEF OrgRecords, DeletedOrg
  <2>3. /\ orgMembers' \in [OrgMembers -> MemberRecords]
        /\ \A a \in OrgMembers :
             \/ orgMembers'[a] = DeletedMember
             \/ orgMembers'[a] = orgMembers[a] /\ orgMembers[a].org # o
    BY <1>a, <2>1, BoardMarks DEF MembersOf
  <2>4. BoardTypeOK'
    BY <1>b, <2>1, <2>2, <2>3 DEF BoardTypeOK, OrgRecords, MemberRecords, DeletionRecords
  <2>5. EmptyMembers' /\ MembersStand'
    BY <1>b, <2>2, <2>3, BoardMarks DEF EmptyMembers, MembersStand, Stands, Live
  <2>6. Holdings' \subseteq Holdings /\ \A p \in Orgs : orgs'[p].status # "absent" \/ p # o
    BY <1>b, <2>2 DEF Holdings
  <2>7. OneHolding' /\ HoldingsAreThere'
    BY <1>b, <2>1, <2>2, <2>6 DEF OneHolding, HoldingsAreThere, Holdings
  <2>8. RowsHaveDirs' /\ UsesAreRows'
    BY <2>1, <2>3, BoardMarks DEF RowsHaveDirs, UsesAreRows
  <2>9. ASSUME NEW d \in Deleters PROVE IsSparing(deleters[d])'
    <3> DEFINE w == deleters[d]
    <3>1. IsSparing(w)
      BY DEF DeletersAreSparing
    <3>2. ASSUME NEW a \in OrgMembers, orgMembers'[a].uses \intersect w.doomed # {}
          PROVE  /\ orgMembers'[a] = orgMembers[a] /\ orgMembers[a].org \in Orgs \ {o}
                 /\ orgs'[orgMembers[a].org] = orgs[orgMembers[a].org]
      BY <2>2, <2>3, <3>2, BoardMarks DEF EmptyMembers, Stands
    <3>3. QED
      BY <1>b, <2>1, <2>2, <2>6, <3>1, <3>2 DEF IsSparing, Live
  <2>10. QED
    BY <2>4, <2>5, <2>7, <2>8, <2>9 DEF DeletersAreSparing
<1>6. QED
  BY <1>2, <1>3, <1>4, <1>5 DEF OrgsCommand

\* Agents are given tools, and go.
LEMMA MemberSteps ==
  ASSUME BoardInv,
         \/ \E o \in Orgs, a \in OrgMembers, uses \in SUBSET toolRows : SetMember(o, a, uses)
         \/ \E a \in OrgMembers : DeleteMember(a)
  PROVE  BoardInv'
<1> USE DEF BoardInv
<1>a. /\ orgs \in [Orgs -> OrgRecords] /\ orgMembers \in [OrgMembers -> MemberRecords]
      /\ deleters \in [Deleters -> DeletionRecords] /\ toolRows \subseteq OrgTools
  BY DEF BoardTypeOK, OrgRecords, MemberRecords, DeletionRecords
<1>1. ASSUME NEW o \in Orgs, NEW a \in OrgMembers, NEW uses \in SUBSET toolRows,
             SetMember(o, a, uses)
      PROVE  BoardInv'
  <2> DEFINE m == [org |-> o, uses |-> uses]
  <2>1. /\ Live(o) /\ orgMembers' = [orgMembers EXCEPT ![a] = m]
        /\ deleters' = MakesStale("nobody", uses)
        /\ UNCHANGED <<orgs, toolRows, toolDirs, forsaken>>
    BY <1>1 DEF SetMember
  <2>2. m \in MemberRecords /\ m.org = o /\ m.uses = uses
    BY <1>a DEF MemberRecords
  <2> HIDE DEF m
  <2>3. /\ orgMembers' \in [OrgMembers -> MemberRecords] /\ orgMembers'[a] = m
        /\ \A b \in OrgMembers \ {a} : orgMembers'[b] = orgMembers[b]
    BY <1>a, <2>1, <2>2
  <2>4. BoardTypeOK'
    BY <2>1, <2>3, DeletersTouched DEF BoardTypeOK, OrgRecords, MemberRecords, DeletionRecords
  <2>5. EmptyMembers' /\ MembersStand'
    BY <2>1, <2>2, <2>3 DEF EmptyMembers, MembersStand, Stands, Live
  <2>6. RowsHaveDirs' /\ UsesAreRows' /\ OneHolding' /\ HoldingsAreThere'
    BY <2>1, <2>2, <2>3 DEF RowsHaveDirs, UsesAreRows, OneHolding, HoldingsAreThere, Holdings
  <2>7. \A b \in OrgMembers : \A x \in orgMembers'[b].uses \ uses :
          /\ x \in orgMembers[b].uses /\ orgMembers'[b].org = orgMembers[b].org
          /\ orgs[orgMembers[b].org].status = "archived"
               => orgs'[orgMembers[b].org].status = "archived"
    BY <2>1, <2>2, <2>3
  <2>8. /\ \A p \in Orgs : orgs[p].status # "absent" =>
             orgs'[p].status # "absent" /\ (Live(p)' => Live(p))
        /\ Holdings' \subseteq Holdings
    BY <2>1 DEF Live, Holdings, Orgs
  <2>9. \A d \in Deleters : IsSparing(deleters[d])'
    BY <2>1, <2>7, <2>8, MarksAreNoIds, SparingStays DEF DeletersAreSparing
  <2>10. QED
    BY <2>4, <2>5, <2>6, <2>9 DEF DeletersAreSparing
<1>2. ASSUME NEW a \in OrgMembers, DeleteMember(a)
      PROVE  BoardInv'
  <2>1. /\ orgMembers' = [orgMembers EXCEPT ![a] = DeletedMember]
        /\ UNCHANGED <<orgs, toolRows, toolDirs, deleters, forsaken>>
    BY <1>2 DEF DeleteMember
  <2>2. /\ orgMembers' \in [OrgMembers -> MemberRecords] /\ orgMembers'[a] = DeletedMember
        /\ \A b \in OrgMembers \ {a} : orgMembers'[b] = orgMembers[b]
    BY <1>a, <2>1, BoardMarks
  <2>3. BoardTypeOK'
    BY <2>1, <2>2 DEF BoardTypeOK, OrgRecords, MemberRecords, DeletionRecords
  <2>4. EmptyMembers' /\ MembersStand'
    BY <2>1, <2>2, BoardMarks DEF EmptyMembers, MembersStand, Stands, Live, Orgs
  <2>5. RowsHaveDirs' /\ UsesAreRows' /\ OneHolding' /\ HoldingsAreThere'
    BY <2>1, <2>2, BoardMarks
       DEF RowsHaveDirs, UsesAreRows, OneHolding, HoldingsAreThere, Holdings
  <2>6. \A d \in Deleters : IsSparing(deleters[d])'
    BY <2>1, <2>2, BoardMarks DEF DeletersAreSparing, IsSparing, Live, Holdings
  <2>7. QED
    BY <2>3, <2>4, <2>5, <2>6 DEF DeletersAreSparing
<1>3. QED
  BY <1>1, <1>2

\* A deletion reads.
LEMMA ReadOrgStep ==
  ASSUME BoardInv, NEW o \in Orgs, NEW d \in Deleters, NEW retain \in SUBSET OrgMembers,
         ReadOrg(d, o, retain)
  PROVE  BoardInv'
<1> USE DEF BoardInv
<1>1. /\ orgs \in [Orgs -> OrgRecords] /\ orgMembers \in [OrgMembers -> MemberRecords]
      /\ deleters \in [Deleters -> DeletionRecords]
  BY DEF BoardTypeOK, OrgRecords, MemberRecords, DeletionRecords
<1> DEFINE doomed == Exclusive(o) \ Protected
           w == [org |-> o, stale |-> FALSE, retain |-> retain, doomed |-> doomed,
                 of |-> doomed \union (IF retain = {} THEN {} ELSE {"holding"}),
                 holding |-> IF retain = {} \/ Holdings = {} THEN NoOrg
                             ELSE CHOOSE h \in Holdings : TRUE]
<1>2. /\ Live(o) /\ deleters' = [deleters EXCEPT ![d] = w]
      /\ UNCHANGED <<orgs, orgMembers, toolRows, toolDirs, forsaken>>
  BY DEF ReadOrg
<1>3. doomed \subseteq OrgTools
  BY <1>1 DEF Exclusive, UsedBy, Asked, MemberRecords
<1>4. (IF retain = {} \/ Holdings = {} THEN NoOrg ELSE CHOOSE h \in Holdings : TRUE)
        \in Orgs \union {NoOrg}
  BY DEF Holdings
<1>5. w \in DeletionRecords
  BY <1>3, <1>4 DEF DeletionRecords
<1>6. \A a \in OrgMembers : orgMembers[a].uses \intersect doomed # {} =>
        orgMembers[a].org = o \/ orgs[orgMembers[a].org].status = "archived"
  <2>1. SUFFICES ASSUME NEW a \in OrgMembers, NEW x \in orgMembers[a].uses, x \in doomed,
                        orgMembers[a].org # o, orgs[orgMembers[a].org].status # "archived"
                 PROVE  FALSE
    OBVIOUS
  <2>2. Stands(a)
    BY <2>1 DEF EmptyMembers
  <2>3. a \in Asked \ MembersOf(o)
    BY <2>1, <2>2 DEF Asked, MembersOf
  <2>4. QED
    BY <2>1, <2>3 DEF Exclusive, UsedBy
<1>7. retain # {} /\ w.holding = NoOrg => Holdings = {}
  BY BoardMarks DEF Holdings
<1>8. IsSparing(w)
  BY <1>2, <1>6, <1>7 DEF IsSparing, Live
<1> HIDE DEF w
<1>9. \A e \in Deleters : deleters'[e] = IF e = d THEN w ELSE deleters[e]
  BY <1>1, <1>2
<1>10. \A e \in Deleters : IsSparing(deleters'[e])
  BY <1>8, <1>9 DEF DeletersAreSparing
<1>11. DeletersAreSparing'
  BY <1>2, <1>10 DEF DeletersAreSparing, IsSparing, Live, Holdings
<1>12. BoardTypeOK'
  BY <1>1, <1>2, <1>5 DEF BoardTypeOK, OrgRecords, MemberRecords, DeletionRecords
<1>13. QED
  BY <1>2, <1>11, <1>12
     DEF EmptyMembers, MembersStand, Stands, Live, RowsHaveDirs, UsesAreRows, OneHolding,
         HoldingsAreThere, Holdings

\* A deletion gives up, and the directories it had taken are gone.
LEMMA DeletionFailsStep ==
  ASSUME BoardInv, NEW d \in Deleters, DeletionFails(d)
  PROVE  BoardInv'
<1> USE DEF BoardInv
<1>1. /\ toolDirs' = toolDirs \ deleters[d].doomed
      /\ forsaken' = forsaken \union deleters[d].doomed
      /\ deleters' = [deleters EXCEPT ![d] = NoDeletion]
      /\ UNCHANGED <<orgs, orgMembers, toolRows>>
  BY DEF DeletionFails
<1>2. deleters \in [Deleters -> DeletionRecords]
  BY DEF BoardTypeOK, DeletionRecords
<1>3. deleters[d].doomed \subseteq OrgTools
  BY <1>2 DEF DeletionRecords
<1>4. deleters' \in [Deleters -> DeletionRecords]
  BY <1>1, <1>2, BoardMarks
<1>5. BoardTypeOK'
  BY <1>1, <1>3, <1>4 DEF BoardTypeOK, DeletionRecords
<1>6. \A e \in Deleters : deleters'[e] = IF e = d THEN NoDeletion ELSE deleters[e]
  BY <1>1, <1>2
<1>7. IsSparing(NoDeletion)
  BY BoardMarks DEF IsSparing, Live
<1>8. \A e \in Deleters : IsSparing(deleters'[e])
  BY <1>6, <1>7 DEF DeletersAreSparing
<1>9. DeletersAreSparing'
  BY <1>1, <1>8 DEF DeletersAreSparing, IsSparing, Live, Holdings
<1>10. EmptyMembers' /\ MembersStand' /\ HoldingsAreThere'
  BY <1>1 DEF EmptyMembers, MembersStand, Stands, Live, HoldingsAreThere, Holdings
<1>11. RowsHaveDirs' /\ UsesAreRows' /\ OneHolding'
  BY <1>1 DEF RowsHaveDirs, UsesAreRows, OneHolding, Holdings
<1>12. QED
  BY <1>5, <1>9, <1>10, <1>11

\* A deletion commits.  What it takes from an agent that stays was taken by a known
\* cause, and the holding organization it makes is the only one, or it was stale.
LEMMA DeleteOrgStep ==
  ASSUME BoardInv, NEW d \in Deleters, DeleteOrg(d)
  PROVE  BoardInv'
<1> USE DEF BoardInv
<1> DEFINE w == deleters[d]
           kept == w.retain \intersect MembersOf(w.org)
           gone == MembersOf(w.org) \ kept
<1>a. /\ orgs \in [Orgs -> OrgRecords] /\ orgMembers \in [OrgMembers -> MemberRecords]
      /\ deleters \in [Deleters -> DeletionRecords]
  BY DEF BoardTypeOK, OrgRecords, MemberRecords, DeletionRecords
<1>b. Orgs' = Orgs /\ OrgMembers' = OrgMembers
  BY DEF Orgs, OrgMembers
<1>1. PICK h \in Refuge(w) :
        /\ orgs' = [o \in Orgs |->
             IF o = w.org THEN DeletedOrg
             ELSE IF o = h /\ w.holding = NoOrg
             THEN [status |-> "archived", holding |-> TRUE] ELSE orgs[o]]
        /\ orgMembers' = [a \in OrgMembers |-> IF a \in gone THEN DeletedMember
                         ELSE IF a \in kept THEN [orgMembers[a] EXCEPT !.org = h]
                         ELSE orgMembers[a]]
        /\ deleters' = [MakesStale(d, UsedBy(kept) \union
                                       IF h \in Orgs \ Holdings THEN {"holding"} ELSE {})
                          EXCEPT ![d] = NoDeletion]
  BY DEF DeleteOrg
<1>2. /\ Live(w.org) /\ w.org \in Orgs
      /\ toolRows' = toolRows \ w.doomed /\ toolDirs' = toolDirs \ w.doomed
      /\ forsaken' = forsaken \union TakenFromTheAbsent(w, kept, gone)
                     \union (IF w.stale THEN w.of ELSE {})
  BY DEF DeleteOrg, Live
<1>3. w \in DeletionRecords /\ IsSparing(w)
  BY <1>a DEF DeletersAreSparing
<1> DEFINE made == h \in Orgs /\ w.holding = NoOrg
           things == UsedBy(kept) \union IF h \in Orgs \ Holdings THEN {"holding"} ELSE {}
           archive == [status |-> "archived", holding |-> TRUE]
\* Where the agents go.
<1>4. /\ made => orgs[h].status = "absent" /\ ~orgs[h].holding /\ w.retain # {}
      /\ kept # {} => h \in Orgs /\ h # w.org /\ (made \/ Live(h))
      /\ h \in Orgs => h # w.org
  <2>1. \A ids \in SUBSET Orgs : \A p \in FirstUnused(ids) :
          p \in Orgs /\ orgs[p].status = "absent" /\ ~orgs[p].holding
    BY BoardMarks DEF FirstUnused
  <2>2. OrgLimit + 1..OrgLimit + HoldLimit \subseteq Orgs
    BY OrgLimitIsNatural, HoldLimitIsNatural DEF Orgs
  <2>3. CASE w.retain = {}
    BY <2>3, BoardMarks DEF Refuge
  <2>4. CASE w.retain # {} /\ w.holding # NoOrg
    BY <2>4 DEF Refuge, Live
  <2>5. CASE w.retain # {} /\ w.holding = NoOrg
    BY <1>2, <2>1, <2>2, <2>5 DEF Refuge, Live
  <2>6. QED
    BY <2>3, <2>4, <2>5
<1>5. /\ orgs' \in [Orgs -> OrgRecords]
      /\ orgs'[w.org] = DeletedOrg
      /\ \A o \in Orgs \ {w.org} : orgs'[o] = IF made /\ o = h THEN archive ELSE orgs[o]
  BY <1>1, <1>2, <1>a, BoardMarks DEF OrgRecords
<1>6. \A o \in Orgs : /\ orgs[o].status # "absent" =>
                           orgs'[o].status # "absent" /\ (Live(o)' => Live(o))
                      /\ Live(o) /\ o # w.org => Live(o)' /\ orgs'[o] = orgs[o]
  BY <1>4, <1>5, <1>b, BoardMarks DEF Live
<1>7. /\ orgMembers' \in [OrgMembers -> MemberRecords]
      /\ \A a \in gone : orgMembers'[a] = DeletedMember
      /\ \A a \in kept : orgMembers'[a].org = h /\ orgMembers'[a].uses = orgMembers[a].uses
      /\ \A a \in OrgMembers \ MembersOf(w.org) : orgMembers'[a] = orgMembers[a]
      /\ gone \subseteq OrgMembers /\ kept \subseteq OrgMembers
      /\ gone \union kept = MembersOf(w.org)
  BY <1>1, <1>4, <1>a, BoardMarks DEF MembersOf, MemberRecords
<1>8. /\ deleters' \in [Deleters -> DeletionRecords] /\ deleters'[d] = NoDeletion
      /\ \A e \in Deleters \ {d} : deleters'[e] = MakesStale(d, things)[e]
  BY <1>1, DeletersTouched, BoardMarks
<1>9. made => "holding" \in things
  BY <1>4 DEF Holdings
<1>10. Holdings' \subseteq IF made THEN Holdings \union {h} ELSE Holdings
  BY <1>5, <1>b, BoardMarks DEF Holdings
<1> HIDE DEF things, made, archive
<1>11. BoardTypeOK'
  BY <1>2, <1>3, <1>5, <1>7, <1>8, <1>b
     DEF BoardTypeOK, OrgRecords, MemberRecords, DeletionRecords, TakenFromTheAbsent
<1>12. EmptyMembers'
  <2>1. SUFFICES ASSUME NEW a \in OrgMembers, orgMembers'[a].org \notin Orgs
                 PROVE  orgMembers'[a].uses = {}
    BY <1>b DEF EmptyMembers, Stands
  <2>2. CASE a \in gone
    BY <1>7, <2>2, BoardMarks
  <2>3. CASE a \in kept
    BY <1>4, <1>7, <2>1, <2>3
  <2>4. CASE a \notin MembersOf(w.org)
    BY <1>7, <2>1, <2>4 DEF EmptyMembers, Stands
  <2>5. QED
    BY <1>7, <2>2, <2>3, <2>4
<1>13. MembersStand'
  <2>1. SUFFICES ASSUME NEW a \in OrgMembers, orgMembers'[a].org \in Orgs
                 PROVE  Live(orgMembers[a].org)'
    BY <1>b DEF MembersStand, Stands
  <2>2. CASE a \in gone
    BY <1>7, <2>1, <2>2, BoardMarks
  <2>3. CASE a \in kept
    <3>1. orgMembers'[a].org = h /\ h \in Orgs /\ h # w.org /\ (made \/ Live(h))
      BY <1>4, <1>7, <2>3
    <3>2. Live(h)'
      BY <1>5, <1>6, <1>b, <3>1 DEF Live, archive
    <3>3. QED
      BY <3>1, <3>2 DEF Live
  <2>4. CASE a \notin MembersOf(w.org)
    <3>1. orgMembers'[a] = orgMembers[a] /\ orgMembers[a].org # w.org
      BY <1>7, <2>4 DEF MembersOf
    <3>2. Live(orgMembers[a].org) /\ orgs'[orgMembers[a].org] = orgs[orgMembers[a].org]
      BY <1>6, <2>1, <3>1 DEF MembersStand, Stands
    <3>3. QED
      BY <1>b, <2>1, <3>1, <3>2 DEF Live
  <2>5. QED
    BY <1>7, <2>2, <2>3, <2>4
\* What is taken.
<1>14. \A a \in OrgMembers \ gone : \A x \in orgMembers[a].uses \intersect w.doomed :
         x \in forsaken'
  <2>1. SUFFICES ASSUME NEW a \in OrgMembers \ gone, NEW x \in orgMembers[a].uses,
                        x \in w.doomed
                 PROVE  x \in forsaken'
    OBVIOUS
  <2>2. CASE w.stale
    BY <1>2, <1>3, <2>1, <2>2 DEF IsSparing
  <2>3. CASE ~w.stale
    <3>1. orgMembers[a].org = w.org \/ orgs[orgMembers[a].org].status = "archived"
      BY <1>2, <1>3, <2>1, <2>3 DEF IsSparing
    <3>2. orgMembers[a].org = w.org => a \in kept
      BY DEF MembersOf
    <3>3. x \in TakenFromTheAbsent(w, kept, gone)
      BY <2>1, <3>1, <3>2 DEF TakenFromTheAbsent
    <3>4. QED
      BY <1>2, <3>3
  <2>4. QED
    BY <2>2, <2>3
<1>15. UsesAreRows'
  <2>1. SUFFICES ASSUME NEW a \in OrgMembers, NEW x \in orgMembers'[a].uses
                 PROVE  x \in (toolRows' \intersect toolDirs') \union forsaken'
    BY <1>b DEF UsesAreRows
  <2>2. a \notin gone /\ x \in orgMembers[a].uses
    BY <1>7, BoardMarks
  <2>3. x \in (toolRows \intersect toolDirs) \union forsaken
    BY <2>2 DEF UsesAreRows
  <2>4. QED
    BY <1>2, <1>14, <2>2, <2>3
<1>16. RowsHaveDirs'
  BY <1>2 DEF RowsHaveDirs
<1>17. OneHolding' /\ HoldingsAreThere'
  <2>1. CASE ~made
    BY <1>2, <1>6, <1>10, <2>1 DEF OneHolding, HoldingsAreThere, Holdings
  <2>2. CASE made
    <3>1. w.stale => "holding" \in forsaken'
      BY <1>2, <1>3, <1>4, <2>2 DEF IsSparing
    <3>2. ~w.stale => Holdings' \subseteq {h}
      BY <1>2, <1>3, <1>4, <1>10, <2>2 DEF IsSparing, made
    <3>3. orgs'[h].status # "absent"
      BY <1>4, <1>5, <2>2 DEF made, archive
    <3>4. QED
      BY <1>6, <1>10, <2>2, <3>1, <3>2, <3>3 DEF OneHolding, HoldingsAreThere, Holdings
  <2>3. QED
    BY <2>1, <2>2
\* The other deletions under way.
<1>18. \A a \in OrgMembers : \A x \in orgMembers'[a].uses \ things :
         /\ x \in orgMembers[a].uses /\ orgMembers'[a].org = orgMembers[a].org
         /\ orgs[orgMembers[a].org].status = "archived"
              => orgs'[orgMembers[a].org].status = "archived"
  <2>1. SUFFICES ASSUME NEW a \in OrgMembers, NEW x \in orgMembers'[a].uses, x \notin things
                 PROVE  /\ x \in orgMembers[a].uses /\ orgMembers'[a].org = orgMembers[a].org
                        /\ orgs[orgMembers[a].org].status = "archived"
                             => orgs'[orgMembers[a].org].status = "archived"
    OBVIOUS
  <2>2. a \notin gone
    BY <1>7, BoardMarks
  <2>3. a \notin kept
    BY <1>7, <2>1 DEF things, UsedBy
  <2>4. a \notin MembersOf(w.org) /\ orgMembers'[a] = orgMembers[a]
    BY <1>7, <2>2, <2>3
  <2>5. orgMembers[a].org \in Orgs \ {w.org} /\ Live(orgMembers[a].org)
    BY <2>1, <2>4 DEF EmptyMembers, MembersStand, Stands, MembersOf
  <2>6. QED
    BY <1>6, <2>1, <2>4, <2>5
<1>19. \A e \in Deleters : IsSparing(deleters[e])'
  <2>1. \A e \in Deleters \ {d} : IsSparing(deleters[e])'
    BY <1>6, <1>8, <1>9, <1>10, <1>18, SparingStays DEF DeletersAreSparing
  <2>2. IsSparing(deleters[d])'
    BY <1>8, <1>b, BoardMarks DEF IsSparing, Live
  <2>3. QED
    BY <2>1, <2>2
<1>20. QED
  BY <1>11, <1>12, <1>13, <1>15, <1>16, <1>17, <1>19 DEF DeletersAreSparing

\* The invariant of the organizations.
THEOREM BoardInvariant == BoardSpec => []BoardInv
<1>1. BoardInit => BoardInv
  <2>1. SUFFICES ASSUME BoardInit PROVE BoardInv
    OBVIOUS
  <2>2. /\ orgs \in [Orgs -> OrgRecords] /\ orgMembers \in [OrgMembers -> MemberRecords]
        /\ deleters \in [Deleters -> DeletionRecords]
        /\ \A d \in Deleters : deleters[d] = NoDeletion
        /\ \A a \in OrgMembers : orgMembers[a] = NoSuchMember
        /\ \A o \in Orgs : orgs[o] = NoSuchOrg
        /\ toolRows = OrgTools /\ toolDirs = OrgTools /\ forsaken = {}
    BY <2>1, BoardMarks DEF BoardInit
  <2>3. BoardTypeOK
    BY <2>2 DEF BoardTypeOK, OrgRecords, MemberRecords, DeletionRecords
  <2>4. EmptyMembers /\ MembersStand /\ RowsHaveDirs /\ UsesAreRows
    BY <2>2, BoardMarks DEF EmptyMembers, MembersStand, Stands, RowsHaveDirs, UsesAreRows
  <2>5. Holdings = {}
    BY <2>2, BoardMarks DEF Holdings
  <2>6. IsSparing(NoDeletion)
    BY BoardMarks DEF IsSparing, Live
  <2>7. QED
    BY <2>2, <2>3, <2>4, <2>5, <2>6
       DEF BoardInv, OneHolding, HoldingsAreThere, DeletersAreSparing
<1>2. BoardInv /\ [BoardNext]_boardVars => BoardInv'
  <2>1. SUFFICES ASSUME BoardInv, [BoardNext]_boardVars PROVE BoardInv'
    OBVIOUS
  <2>2. CASE UNCHANGED boardVars
    <3>1. UNCHANGED <<orgs, orgMembers, toolRows, toolDirs, deleters, forsaken>>
      BY <2>2 DEF boardVars
    <3>2. DeletersAreSparing'
      BY <2>1, <3>1 DEF BoardInv, DeletersAreSparing, IsSparing, Live, Holdings
    <3>3. BoardTypeOK' /\ EmptyMembers' /\ MembersStand' /\ RowsHaveDirs' /\ UsesAreRows'
      BY <2>1, <3>1 DEF BoardInv, BoardTypeOK, EmptyMembers, MembersStand, Stands, Live,
                        RowsHaveDirs, UsesAreRows
    <3>4. OneHolding' /\ HoldingsAreThere'
      BY <2>1, <3>1 DEF BoardInv, OneHolding, HoldingsAreThere, Holdings
    <3>5. QED
      BY <3>2, <3>3, <3>4 DEF BoardInv
  <2>3. CASE BoardNext
    BY <2>1, <2>3, OrgSteps, MemberSteps, ReadOrgStep, DeleteOrgStep, DeletionFailsStep
       DEF BoardNext
  <2>4. QED
    BY <2>1, <2>2, <2>3
<1>3. QED
  BY <1>1, <1>2, PTL DEF BoardSpec

\* However deletions of organizations overlap, and whatever the other handlers do
\* meanwhile: no tool is taken from an agent that stays, and there is one holding
\* organization, except by a known cause.
THEOREM DeletionsSpareOthers == BoardSpec => []DeletionSparesOthers
<1>1. BoardInv => DeletionSparesOthers
  <2>1. SUFFICES ASSUME BoardInv, "holding" \notin forsaken
                 PROVE  Cardinality(Holdings) <= 1
    BY DEF BoardInv, UsesAreRows, DeletionSparesOthers
  <2>2. \A g, h \in Holdings : g = h
    BY <2>1 DEF BoardInv, OneHolding
  <2>3. CASE Holdings = {}
    BY <2>3, FS_EmptySet
  <2>4. CASE Holdings # {}
    <3>1. PICK h \in Holdings : TRUE
      BY <2>4
    <3>2. Holdings = {h}
      BY <2>2, <3>1
    <3>3. Cardinality({h}) = 1
      BY FS_Singleton
    <3>4. QED
      BY <3>2, <3>3
  <2>5. QED
    BY <2>3, <2>4
<1>2. QED
  BY <1>1, BoardInvariant, PTL

-----------------------------------------------------------------------------
(* The creation wizards.  A session in the dictionary has stored as often  *)
(* as it has saves that only have to answer; alone, that is at most once.  *)

Storing(s) == {r \in Requests : request[r].on = s /\ request[r].at = "storing"}
Ending(s) == {r \in Requests : request[r].on = s /\ request[r].at = "ending"}

IsCounted(s) ==
  /\ stored[s] + Cardinality(Storing(s)) <= Cardinality(Requests)
  /\ reported[s] <= 1
  /\ wizard[s].open => /\ wizard[s].kind # "none" /\ reported[s] = 0
                       /\ stored[s] = Cardinality(Ending(s))
  /\ wizard[s].kind = "none" => stored[s] = 0 /\ reported[s] = 0
  /\ wizard[s].kind # "none" => Requests # {}
  /\ SavesOf(s) # {} => wizard[s].kind \in {"tool", "agent"}

\* No save is under way, or one is, with the session still there.
IsAlone(s) ==
  \/ /\ SavesOf(s) = {} /\ stored[s] = reported[s] /\ stored[s] <= 1
     /\ wizard[s].open => stored[s] = 0
  \/ \E r \in Requests :
       /\ SavesOf(s) = {r} /\ wizard[s].open /\ reported[s] = 0
       /\ request[r].at = "storing" => stored[s] = 0
       /\ request[r].at = "ending" => stored[s] = 1

SavesAreCounted == \A s \in Sessions : IsCounted(s)
SavesAreAlone == \A s \in Sessions \ contested : IsAlone(s)

WizInv == WizardTypeOK /\ SavesAreCounted /\ SavesAreAlone

WizardRecords ==
  [kind : {"none", "skill", "tool", "agent"}, open : BOOLEAN, asked : 0..MaxAsked,
   answers : 0..MaxAnswers, draft : {"none", "sound", "specification", "critical"}]
RequestRecords ==
  [at : {"idle", "starting", "asking", "generating", "storing", "ending"}, on : Sessions]

\* The saves of a session are storing or ending, and there are no more of them than
\* requests.
LEMMA SavesBounded ==
  ASSUME NEW s \in Sessions
  PROVE  /\ SavesOf(s) = Storing(s) \union Ending(s)
         /\ IsFiniteSet(Storing(s)) /\ IsFiniteSet(Ending(s))
         /\ Cardinality(Storing(s)) \in Nat /\ Cardinality(Ending(s)) \in Nat
         /\ Cardinality(Requests) \in Nat
         /\ Cardinality(Storing(s)) <= Cardinality(Requests)
         /\ \A r \in Requests : r \notin SavesOf(s) =>
              Cardinality(Storing(s)) + Cardinality(Ending(s)) + 1 <= Cardinality(Requests)
<1>1. /\ SavesOf(s) = Storing(s) \union Ending(s)
      /\ Storing(s) \intersect Ending(s) = {}
      /\ Storing(s) \subseteq Requests /\ Ending(s) \subseteq Requests
  BY DEF SavesOf, Storing, Ending
<1>2. /\ IsFiniteSet(Storing(s)) /\ IsFiniteSet(Ending(s))
      /\ Cardinality(Storing(s)) <= Cardinality(Requests)
  BY <1>1, RequestsAreFinite, FS_Subset
<1>3. /\ Cardinality(Storing(s)) \in Nat /\ Cardinality(Ending(s)) \in Nat
      /\ Cardinality(Requests) \in Nat
  BY <1>2, RequestsAreFinite, FS_CardinalityType
<1>4. Cardinality(SavesOf(s)) = Cardinality(Storing(s)) + Cardinality(Ending(s))
  <2>1. Cardinality(Storing(s) \union Ending(s))
          = Cardinality(Storing(s)) + Cardinality(Ending(s))
            - Cardinality(Storing(s) \intersect Ending(s))
    BY <1>2, FS_Union
  <2>2. Cardinality(Storing(s) \intersect Ending(s)) = 0
    BY <1>1, FS_EmptySet
  <2>3. QED
    BY <1>1, <1>3, <2>1, <2>2
<1>5. ASSUME NEW r \in Requests, r \notin SavesOf(s)
      PROVE  Cardinality(SavesOf(s)) + 1 <= Cardinality(Requests)
  <2>1. SavesOf(s) \subseteq Requests \ {r}
    BY <1>1, <1>5
  <2>2. /\ IsFiniteSet(Requests \ {r})
        /\ Cardinality(Requests \ {r}) = Cardinality(Requests) - 1
    BY <1>5, RequestsAreFinite, FS_RemoveElement
  <2>3. Cardinality(SavesOf(s)) <= Cardinality(Requests \ {r})
    BY <2>1, <2>2, FS_Subset
  <2>4. QED
    BY <1>3, <1>4, <2>2, <2>3
<1>6. QED
  BY <1>1, <1>2, <1>3, <1>4, <1>5

\* A request turns to something else.
LEMMA Requested ==
  ASSUME WizardTypeOK, NEW r \in Requests, NEW k \in RequestRecords,
         request' = [request EXCEPT ![r] = k]
  PROVE  /\ request' \in [Requests -> RequestRecords] /\ request'[r] = k
         /\ \A q \in Requests \ {r} : request'[q] = request[q]
         /\ \A s \in Sessions :
              /\ IF k.on = s /\ k.at = "storing" THEN Storing(s)' = Storing(s) \union {r}
                                                 ELSE Storing(s)' = Storing(s) \ {r}
              /\ IF k.on = s /\ k.at = "ending" THEN Ending(s)' = Ending(s) \union {r}
                                                ELSE Ending(s)' = Ending(s) \ {r}
              /\ IF k.on = s /\ k.at \in {"storing", "ending"}
                 THEN SavesOf(s)' = SavesOf(s) \union {r} ELSE SavesOf(s)' = SavesOf(s) \ {r}
              /\ r \notin Storing(s) => Storing(s) \ {r} = Storing(s)
              /\ r \notin Ending(s) => Ending(s) \ {r} = Ending(s)
              /\ r \in SavesOf(s) => SavesOf(s) \union {r} = SavesOf(s)
<1>1. request \in [Requests -> RequestRecords]
  BY DEF WizardTypeOK, RequestRecords
<1>2. /\ request' \in [Requests -> RequestRecords] /\ request'[r] = k
      /\ \A q \in Requests \ {r} : request'[q] = request[q]
  BY <1>1
<1>3. QED
  BY <1>2 DEF Storing, Ending, SavesOf

\* A request at rest.
LEMMA RestingRequest == NoRequest \in RequestRecords /\ NoRequest.at = "idle"
BY RequestsAreFinite DEF NoRequest, RequestRecords

\* A session nothing of which changes.
LEMMA SessionStays ==
  ASSUME NEW s \in Sessions, IsCounted(s),
         wizard'[s].kind = wizard[s].kind, wizard'[s].open = wizard[s].open,
         stored'[s] = stored[s], reported'[s] = reported[s],
         Storing(s)' = Storing(s), Ending(s)' = Ending(s)
  PROVE  IsCounted(s)' /\ (IsAlone(s) => IsAlone(s)')
<1>1. SavesOf(s)' = SavesOf(s)
  BY DEF SavesOf, Storing, Ending
<1>2. \A r \in Requests : SavesOf(s) = {r} =>
        (request'[r].at = "storing" <=> request[r].at = "storing")
        /\ (request'[r].at = "ending" <=> request[r].at = "ending")
  BY <1>1 DEF SavesOf, Storing, Ending
<1>3. IsCounted(s)'
  BY <1>1 DEF IsCounted
<1>4. IsAlone(s) => IsAlone(s)'
  BY <1>1, <1>2 DEF IsAlone
<1>5. QED
  BY <1>3, <1>4

\* A step of one session leaves the others.
LEMMA OneSession ==
  ASSUME WizInv, WizardTypeOK', NEW s0 \in Sessions, IsCounted(s0)',
         s0 \in contested' \/ IsAlone(s0)', contested \subseteq contested',
         \A s \in Sessions \ {s0} :
           /\ wizard'[s] = wizard[s] /\ stored'[s] = stored[s] /\ reported'[s] = reported[s]
           /\ Storing(s)' = Storing(s) /\ Ending(s)' = Ending(s)
  PROVE  WizInv'
<1>1. \A s \in Sessions \ {s0} : IsCounted(s)' /\ (s \notin contested' => IsAlone(s)')
  BY SessionStays DEF WizInv, SavesAreCounted, SavesAreAlone
<1>2. QED
  BY <1>1 DEF WizInv, SavesAreCounted, SavesAreAlone

\* A step that saves nothing and at most begins a session.
LEMMA CalmStep ==
  ASSUME WizInv, WizardTypeOK', NothingSaved,
         \A s \in Sessions :
           /\ Storing(s)' = Storing(s) /\ Ending(s)' = Ending(s)
           /\ \/ wizard'[s].kind = wizard[s].kind /\ wizard'[s].open = wizard[s].open
              \/ wizard[s].kind = "none" /\ wizard'[s].kind # "none" /\ Requests # {}
  PROVE  WizInv'
<1> USE DEF WizInv
<1>1. UNCHANGED <<stored, reported, contested>>
  BY DEF NothingSaved
<1>2. ASSUME NEW s \in Sessions, wizard'[s].kind = wizard[s].kind,
             wizard'[s].open = wizard[s].open
      PROVE  IsCounted(s)' /\ (IsAlone(s) => IsAlone(s)')
  BY <1>1, <1>2, SessionStays DEF SavesAreCounted
<1>3. ASSUME NEW s \in Sessions, wizard[s].kind = "none", wizard'[s].kind # "none",
             Requests # {}
      PROVE  IsCounted(s)' /\ IsAlone(s)'
  <2>1. /\ SavesOf(s) = {} /\ stored[s] = 0 /\ reported[s] = 0
    BY <1>3 DEF SavesAreCounted, IsCounted
  <2>2. Storing(s) = {} /\ Ending(s) = {} /\ SavesOf(s)' = {}
    BY <2>1, SavesBounded DEF SavesOf, Storing, Ending
  <2>3. Cardinality(Storing(s)') = 0 /\ Cardinality(Ending(s)') = 0
    BY <2>2, FS_EmptySet
  <2>4. Cardinality(Requests) \in Nat
    BY SavesBounded
  <2>5. QED
    BY <1>1, <1>3, <2>1, <2>2, <2>3, <2>4 DEF IsCounted, IsAlone
<1>4. QED
  BY <1>1, <1>2, <1>3 DEF SavesAreCounted, SavesAreAlone

\* Sessions begin, ask, are answered and draft.
LEMMA InterviewSteps ==
  ASSUME WizInv, NEW r \in Requests,
         \/ \E s \in Sessions : \/ StartSkill(r, s) \/ StartTool(r, s) \/ StartAgent(r, s)
                                \/ AnswerSkill(r, s) \/ AnswerTool(r, s) \/ AnswerAgent(r, s)
         \/ \E n \in 0..MaxAsked : Questions(r, n) \/ AsksOn(r, n)
         \/ IsReady(r) \/ ModelFails(r)
         \/ \E parsed \in BOOLEAN : GenerateSkill(r, parsed)
         \/ \E reply \in SUBSET {"specification"}, code \in {"sound", "critical"} :
              GenerateTool(r, reply, code)
         \/ GenerateAgent(r)
  PROVE  WizInv'
<1> USE DEF WizInv
<1>a. /\ wizard \in [Sessions -> WizardRecords] /\ request \in [Requests -> RequestRecords]
      /\ wizardFaults \in 0..WizardFaults /\ request[r].on \in Sessions
  BY DEF WizardTypeOK, WizardRecords, RequestRecords
<1>b. MaxAsked \in Nat /\ MaxAnswers \in Nat /\ WizardFaults \in Nat
  BY WizardBoundsAreNatural
\* All of them leave the saves alone.
<1>1. ASSUME request[r].at \notin {"storing", "ending"}, NEW k \in RequestRecords,
             k.at \notin {"storing", "ending"}, request' = [request EXCEPT ![r] = k],
             wizard' \in [Sessions -> WizardRecords], wizardFaults' \in 0..WizardFaults,
             NothingSaved,
             \A s \in Sessions :
               \/ wizard'[s].kind = wizard[s].kind /\ wizard'[s].open = wizard[s].open
               \/ wizard[s].kind = "none" /\ wizard'[s].kind # "none"
      PROVE  WizInv'
  <2>1. /\ request' \in [Requests -> RequestRecords]
        /\ \A s \in Sessions : Storing(s)' = Storing(s) /\ Ending(s)' = Ending(s)
    <3>1. \A s \in Sessions : r \notin Storing(s) /\ r \notin Ending(s)
      BY <1>1 DEF Storing, Ending
    <3>2. QED
      BY <1>1, <3>1, Requested
  <2>2. WizardTypeOK'
    BY <1>1, <2>1 DEF WizardTypeOK, NothingSaved, WizardRecords, RequestRecords
  <2>3. QED
    BY <1>1, <2>1, <2>2, CalmStep
<1>2. ASSUME NEW s \in Sessions, NEW k \in {"skill", "tool", "agent"}, Begins(r, s, k)
      PROVE  WizInv'
  <2> DEFINE begun == [NoWizard EXCEPT !.kind = k, !.open = TRUE]
             asks == [at |-> "starting", on |-> s]
  <2>1. /\ request[r].at = "idle" /\ wizard[s].kind = "none"
        /\ wizard' = [wizard EXCEPT ![s] = begun] /\ request' = [request EXCEPT ![r] = asks]
        /\ NothingSaved /\ UNCHANGED wizardFaults
    BY <1>2 DEF Begins, Awaits
  <2>2. begun \in WizardRecords /\ begun.kind = k
    <3>1. 0 \in 0..MaxAsked /\ 0 \in 0..MaxAnswers
      BY <1>b
    <3>2. NoWizard \in WizardRecords
      BY <3>1 DEF NoWizard, WizardRecords
    <3>3. QED
      BY <3>2 DEF WizardRecords
  <2>3. asks \in RequestRecords /\ asks.at = "starting"
    BY DEF RequestRecords
  <2> HIDE DEF begun, asks
  <2>4. QED
    BY <1>1, <1>a, <2>1, <2>2, <2>3
<1>3. ASSUME NEW s \in Sessions, NEW isEnough \in BOOLEAN, Records(r, s, isEnough)
      PROVE  WizInv'
  <2> DEFINE asks == [at |-> IF isEnough THEN "generating" ELSE "asking", on |-> s]
  <2>1. /\ request[r].at = "idle" /\ wizard[s].answers < MaxAnswers
        /\ wizard' = [wizard EXCEPT ![s].answers = @ + 1]
        /\ request' = [request EXCEPT ![r] = asks]
        /\ NothingSaved /\ UNCHANGED wizardFaults
    BY <1>3 DEF Records, Awaits
  <2>2. asks \in RequestRecords /\ asks.at \in {"generating", "asking"}
    BY DEF RequestRecords
  <2>3. wizard' \in [Sessions -> WizardRecords]
    BY <1>a, <1>b, <2>1 DEF WizardRecords
  <2>4. \A q \in Sessions : wizard'[q].kind = wizard[q].kind /\ wizard'[q].open = wizard[q].open
    BY <1>a, <2>1 DEF WizardRecords
  <2> HIDE DEF asks
  <2>5. QED
    BY <1>1, <1>a, <2>1, <2>2, <2>3, <2>4
<1>4. ASSUME NEW w \in WizardRecords, NEW s \in Sessions,
             w.kind = wizard[s].kind, w.open = wizard[s].open,
             request[r].at \notin {"storing", "ending"},
             wizard' = [wizard EXCEPT ![s] = w], Returns(r), NothingSaved,
             wizardFaults' \in 0..WizardFaults
      PROVE  WizInv'
  <2>1. wizard' \in [Sessions -> WizardRecords]
    BY <1>a, <1>4
  <2>2. \A q \in Sessions : wizard'[q].kind = wizard[q].kind /\ wizard'[q].open = wizard[q].open
    BY <1>a, <1>4
  <2>3. QED
    BY <1>1, <1>4, <2>1, <2>2, RestingRequest DEF Returns
<1>5. ASSUME NEW n \in 0..MaxAsked, Questions(r, n) \/ AsksOn(r, n)
      PROVE  WizInv'
  <2> DEFINE s == request[r].on
             m == IF Questions(r, n) THEN n ELSE wizard[s].asked + n
             w == [wizard[s] EXCEPT !.asked = m]
  <2>1. m \in 0..MaxAsked
    BY <1>5, <1>a, <1>b DEF AsksOn, WizardRecords
  <2>2. w \in WizardRecords /\ w.kind = wizard[s].kind /\ w.open = wizard[s].open
    BY <1>a, <2>1 DEF WizardRecords
  <2>3. /\ wizard' = [wizard EXCEPT ![s] = w] /\ Returns(r) /\ NothingSaved
        /\ UNCHANGED wizardFaults /\ request[r].at \notin {"storing", "ending"}
    BY <1>5 DEF Questions, AsksOn
  <2> HIDE DEF w
  <2>4. QED
    BY <1>4, <1>a, <2>2, <2>3
<1>6. CASE IsReady(r)
  <2> DEFINE asks == [at |-> "generating", on |-> request[r].on]
  <2>1. /\ request[r].at = "asking" /\ request' = [request EXCEPT ![r] = asks]
        /\ NothingSaved /\ UNCHANGED <<wizard, wizardFaults>>
    BY <1>6 DEF IsReady, Awaits
  <2>2. asks \in RequestRecords /\ asks.at = "generating"
    BY <1>a DEF RequestRecords
  <2> HIDE DEF asks
  <2>3. QED
    BY <1>1, <1>a, <2>1, <2>2
<1>7. CASE ModelFails(r)
  <2>1. /\ request[r].at \in {"starting", "asking", "generating"} /\ Returns(r)
        /\ NothingSaved /\ UNCHANGED wizard /\ wizardFaults' \in 0..WizardFaults
    BY <1>7, <1>a, <1>b DEF ModelFails, WizardFault
  <2>2. QED
    BY <1>1, <1>a, <2>1, RestingRequest DEF Returns
<1>8. ASSUME NEW d \in {"none", "sound", "specification", "critical"}, Drafts(r, d),
             request[r].at = "generating"
      PROVE  WizInv'
  <2> DEFINE s == request[r].on
             w == [wizard[s] EXCEPT !.draft = d]
  <2>1. w \in WizardRecords /\ w.kind = wizard[s].kind /\ w.open = wizard[s].open
    BY <1>a DEF WizardRecords
  <2>2. /\ wizard' = [wizard EXCEPT ![s] = w] /\ Returns(r) /\ NothingSaved
        /\ UNCHANGED wizardFaults
    BY <1>8 DEF Drafts
  <2> HIDE DEF w
  <2>3. QED
    BY <1>4, <1>8, <1>a, <2>1, <2>2
<1>9. ASSUME NEW s \in Sessions, AnswerSkill(r, s) \/ AnswerTool(r, s) \/ AnswerAgent(r, s)
      PROVE  WizInv'
  <2>1. \/ Records(r, s, wizard[s].answers + 1 >= wizard[s].asked)
        \/ Records(r, s, wizard[s].answers + 1 >= 3)
    BY <1>9 DEF AnswerSkill, AnswerTool, AnswerAgent
  <2>2. /\ (wizard[s].answers + 1 >= wizard[s].asked) \in BOOLEAN
        /\ (wizard[s].answers + 1 >= 3) \in BOOLEAN
    OBVIOUS
  <2>3. QED
    BY <1>3, <2>1, <2>2
<1>10. ASSUME \/ \E parsed \in BOOLEAN : GenerateSkill(r, parsed)
              \/ \E reply \in SUBSET {"specification"}, code \in {"sound", "critical"} :
                   GenerateTool(r, reply, code)
              \/ GenerateAgent(r)
       PROVE  WizInv'
  <2>1. wizard[request[r].on].draft \in {"none", "sound", "specification", "critical"}
    BY <1>a DEF WizardRecords
  <2>2. \E d \in {"none", "sound", "specification", "critical"} :
          Drafts(r, d) /\ request[r].at = "generating"
    BY <1>10, <2>1 DEF GenerateSkill, GenerateTool, GenerateAgent, Generating, CodeIn
  <2>3. QED
    BY <1>8, <2>2
<1>11. QED
  BY <1>2, <1>5, <1>6, <1>7, <1>9, <1>10 DEF StartSkill, StartTool, StartAgent

\* A skill is saved: without a pause, so nothing comes between.
LEMMA SaveSkillStep ==
  ASSUME WizInv, NEW s \in Sessions, NEW edits \in BOOLEAN, SaveSkill(s, edits)
  PROVE  WizInv'
<1> USE DEF WizInv
<1>1. /\ wizard[s].open /\ wizard[s].kind = "skill"
      /\ wizard' = [wizard EXCEPT ![s].open = FALSE]
      /\ stored' = [stored EXCEPT ![s] = @ + 1]
      /\ reported' = [reported EXCEPT ![s] = @ + 1]
      /\ UNCHANGED <<request, contested, wizardFaults>>
  BY DEF SaveSkill, Open
<1>2. /\ wizard \in [Sessions -> WizardRecords]
      /\ stored \in [Sessions -> 0..Cardinality(Requests)]
      /\ reported \in [Sessions -> 0..Cardinality(Requests)]
  BY DEF WizardTypeOK, WizardRecords
<1>3. SavesOf(s) = {} /\ reported[s] = 0 /\ stored[s] = Cardinality(Ending(s)) /\ Requests # {}
  BY <1>1 DEF SavesAreCounted, IsCounted
<1>4. Storing(s) = {} /\ Ending(s) = {}
  BY <1>3, SavesBounded
<1>5. /\ stored[s] = 0 /\ Cardinality(Storing(s)) = 0
      /\ Cardinality(Requests) \in Nat /\ Cardinality(Requests) # 0
  BY <1>3, <1>4, FS_EmptySet, RequestsAreFinite, SavesBounded
<1>6. \A q \in Sessions : /\ Storing(q)' = Storing(q) /\ Ending(q)' = Ending(q)
                          /\ SavesOf(q)' = SavesOf(q)
  BY <1>1 DEF Storing, Ending, SavesOf
<1>7. /\ stored'[s] = 1 /\ reported'[s] = 1 /\ ~wizard'[s].open /\ wizard'[s].kind = "skill"
      /\ wizard' \in [Sessions -> WizardRecords]
      /\ \A q \in Sessions \ {s} : /\ wizard'[q] = wizard[q] /\ stored'[q] = stored[q]
                                   /\ reported'[q] = reported[q]
  <2>1. stored'[s] = 1 /\ reported'[s] = 1
    BY <1>1, <1>2, <1>3, <1>5
  <2>2. /\ ~wizard'[s].open /\ wizard'[s].kind = "skill"
        /\ wizard' \in [Sessions -> WizardRecords]
    BY <1>1, <1>2 DEF WizardRecords
  <2>3. QED
    BY <1>1, <2>1, <2>2
<1>8. /\ stored' \in [Sessions -> 0..Cardinality(Requests)]
      /\ reported' \in [Sessions -> 0..Cardinality(Requests)]
  BY <1>1, <1>2, <1>3, <1>5
<1>9. WizardTypeOK'
  BY <1>1, <1>7, <1>8 DEF WizardTypeOK, WizardRecords
<1>10. Cardinality(Storing(s)') = 0 /\ SavesOf(s)' = {}
  BY <1>3, <1>5, <1>6
<1>11. IsCounted(s)' /\ IsAlone(s)'
  BY <1>3, <1>5, <1>7, <1>10 DEF IsCounted, IsAlone
<1>12. QED
  BY <1>1, <1>6, <1>7, <1>9, <1>11, OneSession

\* A request that stores.
LEMMA RequestedStores ==
  ASSUME WizardTypeOK, NEW r \in Requests, NEW s \in Sessions, request[r].at = "idle",
         request' = [request EXCEPT ![r] = [at |-> "storing", on |-> s]]
  PROVE  /\ request' \in [Requests -> RequestRecords] /\ request'[r].at = "storing"
         /\ \A q \in Sessions \ {s} : Storing(q)' = Storing(q) /\ Ending(q)' = Ending(q)
         /\ Storing(s)' = Storing(s) \union {r} /\ Ending(s)' = Ending(s)
         /\ SavesOf(s)' = SavesOf(s) \union {r}
         /\ \A q \in Sessions : r \notin Storing(q) /\ r \notin Ending(q) /\ r \notin SavesOf(q)
<1>1. request \in [Requests -> RequestRecords]
  BY DEF WizardTypeOK, RequestRecords
<1>2. [at |-> "storing", on |-> s] \in RequestRecords
  BY DEF RequestRecords
<1>3. /\ request' \in [Requests -> RequestRecords]
      /\ request'[r].at = "storing" /\ request'[r].on = s
      /\ \A q \in Requests \ {r} : request'[q] = request[q]
  BY <1>1, <1>2
<1>4. QED
  BY <1>3 DEF Storing, Ending, SavesOf

\* A save begins to store.
LEMMA SaveBegins ==
  ASSUME WizInv, NEW r \in Requests, NEW s \in Sessions, Saves(r, s),
         wizard[s].open, wizard[s].kind \in {"tool", "agent"},
         wizard' \in [Sessions -> WizardRecords],
         wizard'[s].kind = wizard[s].kind, wizard'[s].open = wizard[s].open,
         \A q \in Sessions \ {s} : wizard'[q] = wizard[q]
  PROVE  WizInv'
<1> USE DEF WizInv
<1>1. /\ request[r].at = "idle"
      /\ request' = [request EXCEPT ![r] = [at |-> "storing", on |-> s]]
      /\ contested' = IF SavesOf(s) = {} THEN contested ELSE contested \union {s}
      /\ UNCHANGED <<stored, reported, wizardFaults>>
  BY DEF Saves, Awaits
<1>2. /\ request' \in [Requests -> RequestRecords] /\ request'[r].at = "storing"
      /\ \A q \in Sessions \ {s} : Storing(q)' = Storing(q) /\ Ending(q)' = Ending(q)
      /\ Storing(s)' = Storing(s) \union {r} /\ Ending(s)' = Ending(s)
      /\ SavesOf(s)' = SavesOf(s) \union {r}
      /\ \A q \in Sessions : r \notin Storing(q) /\ r \notin Ending(q) /\ r \notin SavesOf(q)
  BY <1>1, RequestedStores
<1>3. /\ reported[s] = 0 /\ stored[s] = Cardinality(Ending(s)) /\ Requests # {}
  BY DEF SavesAreCounted, IsCounted
<1>4. /\ Cardinality(Storing(s)') = Cardinality(Storing(s)) + 1
      /\ Cardinality(Storing(s)) + Cardinality(Ending(s)) + 1 <= Cardinality(Requests)
      /\ Cardinality(Storing(s)) \in Nat /\ Cardinality(Ending(s)) \in Nat
      /\ Cardinality(Requests) \in Nat
  BY <1>2, SavesBounded, FS_AddElement
<1>5. IsCounted(s)'
  BY <1>1, <1>2, <1>3, <1>4 DEF IsCounted
<1>6. s \in contested' \/ IsAlone(s)'
  <2>1. CASE SavesOf(s) # {}
    BY <1>1, <2>1
  <2>2. CASE SavesOf(s) = {} /\ s \notin contested
    <3>1. stored[s] = 0
      BY <2>2 DEF SavesAreAlone, IsAlone
    <3>2. SavesOf(s)' = {r}
      BY <1>2, <2>2
    <3>3. QED
      BY <1>1, <1>2, <1>3, <3>1, <3>2 DEF IsAlone
  <2>3. QED
    BY <1>1, <2>1, <2>2
<1>7. WizardTypeOK'
  BY <1>1, <1>2 DEF WizardTypeOK, WizardRecords, RequestRecords
<1>8. QED
  BY <1>1, <1>2, <1>5, <1>6, <1>7, OneSession

\* Tools and agents are saved.
LEMMA SaveSteps ==
  ASSUME WizInv, NEW r \in Requests, NEW s \in Sessions,
         \/ \E code \in {"none", "sound", "critical"} : SaveTool(r, s, code)
         \/ SaveAgent(r, s)
  PROVE  WizInv'
<1> USE DEF WizInv
<1>a. wizard \in [Sessions -> WizardRecords]
  BY DEF WizardTypeOK, WizardRecords
<1>1. CASE SaveAgent(r, s)
  BY <1>1, <1>a, SaveBegins DEF SaveAgent, Open
<1>2. ASSUME NEW code \in {"none", "sound", "critical"}, SaveTool(r, s, code)
      PROVE  WizInv'
  <2>1. PICK d : d = IF code = "none" THEN wizard[s].draft ELSE code
    OBVIOUS
  <2>2. d \in {"none", "sound", "specification", "critical"}
    BY <1>a, <2>1 DEF WizardRecords
  <2>3. /\ wizard[s].open /\ wizard[s].kind = "tool"
        /\ wizard' = [wizard EXCEPT ![s].draft = d]
        /\ IF d = "critical" THEN NothingSaved /\ UNCHANGED <<request, wizardFaults>>
                             ELSE Saves(r, s)
    BY <1>2, <2>1 DEF SaveTool, Open
  <2>4. /\ wizard' \in [Sessions -> WizardRecords]
        /\ wizard'[s].kind = wizard[s].kind /\ wizard'[s].open = wizard[s].open
        /\ \A q \in Sessions \ {s} : wizard'[q] = wizard[q]
    BY <1>a, <2>2, <2>3 DEF WizardRecords
  <2>5. CASE d # "critical"
    BY <2>3, <2>4, <2>5, SaveBegins
  <2>6. CASE d = "critical"
    <3>1. NothingSaved /\ UNCHANGED <<request, wizardFaults>>
      BY <2>3, <2>6
    <3>2. \A q \in Sessions : Storing(q)' = Storing(q) /\ Ending(q)' = Ending(q)
      BY <3>1 DEF Storing, Ending
    <3>3. WizardTypeOK'
      BY <2>4, <3>1 DEF WizardTypeOK, WizardRecords, NothingSaved
    <3>4. QED
      BY <2>4, <3>1, <3>2, <3>3, CalmStep
  <2>7. QED
    BY <2>5, <2>6
<1>3. QED
  BY <1>1, <1>2

\* What was drafted is stored.
LEMMA StoredStep ==
  ASSUME WizInv, NEW r \in Requests, Stored(r)
  PROVE  WizInv'
<1> USE DEF WizInv
<1>1. PICK s \in Sessions : s = request[r].on
  BY DEF WizardTypeOK
<1> DEFINE k == [at |-> "ending", on |-> s]
<1>2. /\ request[r].at = "storing" /\ request[r].on = s
      /\ stored' = [stored EXCEPT ![s] = @ + 1] /\ request' = [request EXCEPT ![r] = k]
      /\ UNCHANGED <<wizard, reported, contested, wizardFaults>>
  BY <1>1 DEF Stored, Awaits
<1>3. k \in RequestRecords /\ k.on = s /\ k.at = "ending"
  BY DEF RequestRecords
<1> HIDE DEF k
<1>4. /\ r \in Storing(s) /\ r \notin Ending(s) /\ r \in SavesOf(s)
      /\ \A q \in Sessions \ {s} : r \notin Storing(q) /\ r \notin Ending(q)
  BY <1>2 DEF Storing, Ending, SavesOf
<1>5. /\ request' \in [Requests -> RequestRecords] /\ request'[r] = k
      /\ \A q \in Sessions \ {s} : Storing(q)' = Storing(q) /\ Ending(q)' = Ending(q)
      /\ Storing(s)' = Storing(s) \ {r} /\ Ending(s)' = Ending(s) \union {r}
      /\ SavesOf(s)' = SavesOf(s)
  BY <1>2, <1>3, <1>4, Requested
<1>6. /\ Cardinality(Storing(s)') = Cardinality(Storing(s)) - 1
      /\ Cardinality(Ending(s)') = Cardinality(Ending(s)) + 1
      /\ Cardinality(Storing(s)) \in Nat /\ Cardinality(Ending(s)) \in Nat
      /\ Cardinality(Requests) \in Nat
      /\ Cardinality(Storing(s)') \in Nat
  <2>1. /\ IsFiniteSet(Storing(s)) /\ IsFiniteSet(Storing(s) \ {r}) /\ IsFiniteSet(Ending(s))
        /\ Cardinality(Storing(s)) \in Nat /\ Cardinality(Ending(s)) \in Nat
        /\ Cardinality(Requests) \in Nat
    BY SavesBounded, FS_RemoveElement
  <2>2. /\ Cardinality(Storing(s) \ {r}) = Cardinality(Storing(s)) - 1
        /\ Cardinality(Storing(s) \ {r}) \in Nat
    BY <1>4, <2>1, FS_RemoveElement, FS_CardinalityType
  <2>3. Cardinality(Ending(s) \union {r}) = Cardinality(Ending(s)) + 1
    BY <1>4, <2>1, FS_AddElement
  <2>4. QED
    BY <1>5, <2>1, <2>2, <2>3
<1>7. /\ stored \in [Sessions -> 0..Cardinality(Requests)]
      /\ stored[s] + Cardinality(Storing(s)) <= Cardinality(Requests)
  BY DEF WizardTypeOK, SavesAreCounted, IsCounted
<1>8. /\ stored' \in [Sessions -> 0..Cardinality(Requests)]
      /\ stored'[s] = stored[s] + 1
      /\ \A q \in Sessions \ {s} : stored'[q] = stored[q]
  <2>1. stored[s] + 1 \in 0..Cardinality(Requests)
    BY <1>6, <1>7
  <2>2. QED
    BY <1>2, <1>7, <2>1
<1>9. WizardTypeOK'
  BY <1>2, <1>5, <1>8 DEF WizardTypeOK, WizardRecords, RequestRecords
<1>10. IsCounted(s)'
  <2>1. IsCounted(s) /\ wizard' = wizard /\ reported' = reported /\ SavesOf(s)' = SavesOf(s)
    BY <1>2, <1>5 DEF SavesAreCounted
  <2>2. stored[s] \in Nat
    BY <1>6, <1>7
  <2>3. stored'[s] + Cardinality(Storing(s)') <= Cardinality(Requests)
    BY <1>6, <1>7, <1>8, <2>2
  <2>4. stored[s] = Cardinality(Ending(s)) => stored'[s] = Cardinality(Ending(s)')
    BY <1>6, <1>8
  <2>5. wizard[s].kind # "none"
    BY <1>4, <2>1 DEF IsCounted
  <2>6. QED
    BY <2>1, <2>3, <2>4, <2>5 DEF IsCounted
<1>11. s \in contested' \/ IsAlone(s)'
  <2>1. SUFFICES ASSUME s \notin contested PROVE IsAlone(s)'
    BY <1>2
  <2>2. /\ SavesOf(s) = {r} /\ wizard[s].open /\ reported[s] = 0 /\ stored[s] = 0
    BY <1>2, <1>4, <2>1 DEF SavesAreAlone, IsAlone
  <2>3. QED
    BY <1>2, <1>3, <1>5, <1>8, <2>2 DEF IsAlone
<1>12. QED
  BY <1>2, <1>5, <1>8, <1>9, <1>10, <1>11, OneSession

\* A save is answered, or refused.
LEMMA AnswerSteps ==
  ASSUME WizInv, NEW r \in Requests, EndSave(r) \/ RefuseAgent(r) \/ RefuseTool(r)
  PROVE  WizInv'
<1> USE DEF WizInv
<1>1. PICK s \in Sessions : s = request[r].on
  BY DEF WizardTypeOK
<1>a. /\ wizard \in [Sessions -> WizardRecords]
      /\ stored \in [Sessions -> 0..Cardinality(Requests)]
      /\ reported \in [Sessions -> 0..Cardinality(Requests)]
      /\ wizardFaults \in 0..WizardFaults /\ WizardFaults \in Nat
  BY WizardBoundsAreNatural DEF WizardTypeOK, WizardRecords
<1>2. /\ request[r].on = s /\ request[r].at \in {"storing", "ending"}
      /\ request' = [request EXCEPT ![r] = NoRequest]
      /\ contested \subseteq contested' /\ contested' \subseteq contested \union {s}
      /\ wizardFaults' \in 0..WizardFaults /\ UNCHANGED stored
  BY <1>1, <1>a DEF EndSave, RefuseAgent, RefuseTool, Returns, Answered, WizardFault
<1>3. /\ r \in SavesOf(s)
      /\ \A q \in Sessions \ {s} : r \notin Storing(q) /\ r \notin Ending(q)
  BY <1>2 DEF Storing, Ending, SavesOf
<1>4. /\ request' \in [Requests -> RequestRecords]
      /\ \A q \in Sessions \ {s} : Storing(q)' = Storing(q) /\ Ending(q)' = Ending(q)
      /\ Storing(s)' = Storing(s) \ {r} /\ Ending(s)' = Ending(s) \ {r}
      /\ SavesOf(s)' = SavesOf(s) \ {r}
  BY <1>2, <1>3, RestingRequest, Requested
<1>5. /\ Cardinality(Storing(s)') \in Nat /\ Cardinality(Storing(s)) \in Nat
      /\ Cardinality(Storing(s)') <= Cardinality(Storing(s))
      /\ Cardinality(Requests) \in Nat /\ Cardinality(Requests) # 0
  <2>1. IsFiniteSet(Storing(s)) /\ Cardinality(Storing(s)) \in Nat
        /\ Cardinality(Requests) \in Nat /\ Cardinality(Requests) # 0
    BY SavesBounded, RequestsAreFinite, FS_EmptySet
  <2>2. QED
    BY <1>4, <2>1, FS_Subset, FS_CardinalityType
<1>6. wizard[s].kind \in {"tool", "agent"} /\ reported[s] <= 1
      /\ stored[s] + Cardinality(Storing(s)) <= Cardinality(Requests)
      /\ (wizard[s].open => reported[s] = 0 /\ stored[s] = Cardinality(Ending(s)))
  BY <1>3 DEF SavesAreCounted, IsCounted
<1>7. CASE EndSave(r) \/ RefuseTool(r)
  <2>1. /\ reported' = IF wizard[s].open THEN [reported EXCEPT ![s] = @ + 1] ELSE reported
        /\ wizard' = [wizard EXCEPT ![s].open = FALSE]
        /\ \/ request[r].at = "ending" /\ contested' = contested
           \/ s \in contested'
    BY <1>1, <1>7 DEF EndSave, RefuseTool, Answered
  <2>2. /\ wizard' \in [Sessions -> WizardRecords] /\ ~wizard'[s].open
        /\ wizard'[s].kind = wizard[s].kind
        /\ \A q \in Sessions \ {s} : wizard'[q] = wizard[q]
    BY <1>a, <2>1 DEF WizardRecords
  <2>3. /\ reported' \in [Sessions -> 0..Cardinality(Requests)]
        /\ reported'[s] = IF wizard[s].open THEN 1 ELSE reported[s]
        /\ \A q \in Sessions \ {s} : reported'[q] = reported[q]
    BY <1>a, <1>5, <1>6, <2>1
  <2>4. WizardTypeOK'
    BY <1>a, <1>2, <1>4, <2>2, <2>3 DEF WizardTypeOK, WizardRecords, RequestRecords
  <2>5. stored'[s] + Cardinality(Storing(s)') <= Cardinality(Requests)
    BY <1>a, <1>2, <1>5, <1>6
  <2>6. IsCounted(s)'
    BY <1>5, <1>6, <2>2, <2>3, <2>5, RequestsAreFinite DEF IsCounted
  <2>7. s \in contested' \/ IsAlone(s)'
    <3>1. SUFFICES ASSUME s \notin contested' PROVE IsAlone(s)'
      OBVIOUS
    <3>2. SavesOf(s) = {r} /\ wizard[s].open /\ stored[s] = 1
      BY <1>2, <1>3, <2>1, <3>1 DEF SavesAreAlone, IsAlone
    <3>3. SavesOf(s)' = {} /\ stored'[s] = 1 /\ reported'[s] = 1
      BY <1>2, <1>4, <2>3, <3>2
    <3>4. QED
      BY <2>2, <3>3 DEF IsAlone
  <2>8. QED
    BY <1>2, <1>4, <2>2, <2>3, <2>4, <2>6, <2>7, OneSession
<1>8. CASE RefuseAgent(r)
  <2>1. /\ request[r].at = "storing" /\ UNCHANGED <<wizard, reported, contested>>
    BY <1>8 DEF RefuseAgent
  <2>2. r \notin Ending(s)
    BY <2>1 DEF Ending
  <2>3. WizardTypeOK'
    BY <1>2, <1>4, <2>1 DEF WizardTypeOK, RequestRecords
  <2>4. stored'[s] + Cardinality(Storing(s)') <= Cardinality(Requests)
    BY <1>a, <1>2, <1>5, <1>6
  <2>5. IsCounted(s)'
    <3>1. Ending(s)' = Ending(s)
      BY <1>4, <2>2
    <3>2. wizard' = wizard /\ reported' = reported /\ stored' = stored
      BY <1>2, <2>1
    <3>3. QED
      BY <1>4, <1>6, <2>4, <3>1, <3>2, RequestsAreFinite DEF SavesAreCounted, IsCounted
  <2>6. s \in contested' \/ IsAlone(s)'
    <3>1. SUFFICES ASSUME s \notin contested PROVE IsAlone(s)'
      BY <2>1
    <3>2. SavesOf(s) = {r} /\ wizard[s].open /\ stored[s] = 0 /\ reported[s] = 0
      BY <1>2, <1>3, <2>1, <3>1 DEF SavesAreAlone, IsAlone
    <3>3. SavesOf(s)' = {}
      BY <1>4, <3>2
    <3>4. QED
      BY <1>2, <2>1, <3>2, <3>3 DEF IsAlone
  <2>7. QED
    BY <1>2, <1>4, <2>1, <2>3, <2>5, <2>6, OneSession
<1>9. QED
  BY <1>7, <1>8

\* A session is cancelled.
LEMMA CancelStep ==
  ASSUME WizInv, NEW s \in Sessions, NEW k \in {"skill", "tool", "agent"}, Cancels(s, k)
  PROVE  WizInv'
<1> USE DEF WizInv
<1>1. /\ wizard' = [wizard EXCEPT ![s].open = FALSE]
      /\ contested' = IF SavesOf(s) = {} THEN contested ELSE contested \union {s}
      /\ UNCHANGED <<request, stored, reported, wizardFaults>>
  BY DEF Cancels
<1>2. wizard \in [Sessions -> WizardRecords]
  BY DEF WizardTypeOK, WizardRecords
<1>3. /\ wizard' \in [Sessions -> WizardRecords] /\ ~wizard'[s].open
      /\ wizard'[s].kind = wizard[s].kind
      /\ \A q \in Sessions \ {s} : wizard'[q] = wizard[q]
  BY <1>1, <1>2 DEF WizardRecords
<1>4. \A q \in Sessions : /\ Storing(q)' = Storing(q) /\ Ending(q)' = Ending(q)
                          /\ SavesOf(q)' = SavesOf(q)
  BY <1>1 DEF Storing, Ending, SavesOf
<1>5. WizardTypeOK'
  BY <1>1, <1>3 DEF WizardTypeOK, WizardRecords
<1>6. IsCounted(s)'
  BY <1>1, <1>3, <1>4 DEF SavesAreCounted, IsCounted
<1>7. s \in contested' \/ IsAlone(s)'
  <2>1. SUFFICES ASSUME s \notin contested' PROVE IsAlone(s)'
    OBVIOUS
  <2>2. SavesOf(s) = {} /\ stored[s] = reported[s] /\ stored[s] <= 1
    BY <1>1, <2>1 DEF SavesAreAlone, IsAlone
  <2>3. QED
    BY <1>1, <1>3, <1>4, <2>2 DEF IsAlone
<1>8. QED
  BY <1>1, <1>3, <1>4, <1>5, <1>6, <1>7, OneSession

\* The process starts again.
LEMMA WizardRestartStep ==
  ASSUME WizInv, WizardRestart
  PROVE  WizInv'
<1> USE DEF WizInv
<1>1. /\ wizard' = [s \in Sessions |-> [wizard[s] EXCEPT !.open = FALSE]]
      /\ request' = [r \in Requests |-> NoRequest]
      /\ contested' = contested \union {s \in Sessions : SavesOf(s) # {}}
      /\ UNCHANGED <<stored, reported>> /\ wizardFaults' \in 0..WizardFaults
  BY WizardBoundsAreNatural DEF WizardRestart, WizardFault, WizardTypeOK
<1>2. /\ wizard \in [Sessions -> WizardRecords]
      /\ stored \in [Sessions -> 0..Cardinality(Requests)]
  BY DEF WizardTypeOK, WizardRecords
<1>3. /\ wizard' \in [Sessions -> WizardRecords]
      /\ \A s \in Sessions : ~wizard'[s].open /\ wizard'[s].kind = wizard[s].kind
  BY <1>1, <1>2 DEF WizardRecords
<1>4. request' \in [Requests -> RequestRecords]
  BY <1>1, RestingRequest
<1>5. \A s \in Sessions : Storing(s)' = {} /\ SavesOf(s)' = {}
  BY <1>1, RestingRequest DEF Storing, SavesOf
<1>6. WizardTypeOK'
  BY <1>1, <1>3, <1>4 DEF WizardTypeOK, WizardRecords, RequestRecords
<1>7. ASSUME NEW s \in Sessions
      PROVE  IsCounted(s)'
  <2>1. Cardinality(Storing(s)') = 0
    BY <1>5, FS_EmptySet
  <2>2. stored[s] + 0 <= Cardinality(Requests)
    BY <1>2, SavesBounded
  <2>3. QED
    BY <1>1, <1>3, <1>5, <2>1, <2>2 DEF SavesAreCounted, IsCounted
<1>8. ASSUME NEW s \in Sessions, s \notin contested'
      PROVE  IsAlone(s)'
  <2>1. SavesOf(s) = {} /\ stored[s] = reported[s] /\ stored[s] <= 1
    BY <1>1, <1>8 DEF SavesAreAlone, IsAlone
  <2>2. QED
    BY <1>1, <1>3, <1>5, <2>1 DEF IsAlone
<1>9. QED
  BY <1>6, <1>7, <1>8 DEF SavesAreCounted, SavesAreAlone

\* The invariant of the wizards.
THEOREM WizardInvariant == WizardSpec => []WizInv
<1>1. WizardInit => WizInv
  <2>1. SUFFICES ASSUME WizardInit PROVE WizInv
    OBVIOUS
  <2>2. NoWizard \in WizardRecords /\ NoWizard.kind = "none" /\ ~NoWizard.open
    <3>1. 0 \in 0..MaxAsked /\ 0 \in 0..MaxAnswers
      BY WizardBoundsAreNatural
    <3>2. QED
      BY <3>1 DEF NoWizard, WizardRecords
  <2>3. /\ wizard \in [Sessions -> WizardRecords] /\ request \in [Requests -> RequestRecords]
        /\ \A s \in Sessions : wizard[s].kind = "none" /\ ~wizard[s].open
        /\ \A s \in Sessions : stored[s] = 0 /\ reported[s] = 0
        /\ contested = {} /\ wizardFaults = 0
    BY <2>1, <2>2, RestingRequest DEF WizardInit
  <2>4. /\ stored \in [Sessions -> 0..Cardinality(Requests)]
        /\ reported \in [Sessions -> 0..Cardinality(Requests)]
    <3>1. 0 \in 0..Cardinality(Requests)
      BY RequestsAreFinite, FS_CardinalityType
    <3>2. QED
      BY <2>1, <3>1 DEF WizardInit
  <2>5. wizardFaults \in 0..WizardFaults
    BY <2>3, WizardBoundsAreNatural
  <2>6. WizardTypeOK
    BY <2>3, <2>4, <2>5 DEF WizardTypeOK, WizardRecords, RequestRecords
  <2>7. \A s \in Sessions : Storing(s) = {} /\ SavesOf(s) = {}
    BY <2>1, RestingRequest DEF WizardInit, Storing, SavesOf
  <2>8. ASSUME NEW s \in Sessions
        PROVE  IsCounted(s) /\ IsAlone(s)
    <3>1. Cardinality(Storing(s)) = 0 /\ Cardinality(Requests) \in Nat
      BY <2>7, FS_EmptySet, SavesBounded
    <3>2. QED
      BY <2>3, <2>7, <3>1 DEF IsCounted, IsAlone
  <2>9. QED
    BY <2>6, <2>8 DEF WizInv, SavesAreCounted, SavesAreAlone
<1>2. WizInv /\ [WizardNext]_wizardVars => WizInv'
  <2>1. SUFFICES ASSUME WizInv, [WizardNext]_wizardVars PROVE WizInv'
    OBVIOUS
  <2>2. CASE UNCHANGED wizardVars
    <3>1. \A s \in Sessions : Storing(s)' = Storing(s) /\ Ending(s)' = Ending(s)
      BY <2>2 DEF wizardVars, Storing, Ending
    <3>2. WizardTypeOK' /\ NothingSaved /\ wizard' = wizard
      BY <2>1, <2>2 DEF wizardVars, WizInv, WizardTypeOK, NothingSaved
    <3>3. QED
      BY <2>1, <3>1, <3>2, CalmStep
  <2>3. CASE WizardNext
    <3>1. CASE \E r \in Requests :
                 \/ \E s \in Sessions :
                      \/ StartSkill(r, s) \/ StartTool(r, s) \/ StartAgent(r, s)
                      \/ AnswerSkill(r, s) \/ AnswerTool(r, s) \/ AnswerAgent(r, s)
                 \/ \E n \in 0..MaxAsked : Questions(r, n) \/ AsksOn(r, n)
                 \/ IsReady(r) \/ ModelFails(r)
                 \/ \E parsed \in BOOLEAN : GenerateSkill(r, parsed)
                 \/ \E reply \in SUBSET {"specification"}, code \in {"sound", "critical"} :
                      GenerateTool(r, reply, code)
                 \/ GenerateAgent(r)
      BY <2>1, <3>1, InterviewSteps
    <3>2. CASE \E r \in Requests, s \in Sessions :
                 \/ \E code \in {"none", "sound", "critical"} : SaveTool(r, s, code)
                 \/ SaveAgent(r, s)
      BY <2>1, <3>2, SaveSteps
    <3>3. CASE \E r \in Requests : Stored(r) \/ EndSave(r) \/ RefuseAgent(r) \/ RefuseTool(r)
      BY <2>1, <3>3, StoredStep, AnswerSteps
    <3>4. CASE \E s \in Sessions : \/ \E edits \in BOOLEAN : SaveSkill(s, edits)
                                   \/ CancelSkill(s) \/ CancelTool(s) \/ CancelAgent(s)
      BY <2>1, <3>4, SaveSkillStep, CancelStep DEF CancelSkill, CancelTool, CancelAgent
    <3>5. CASE WizardRestart
      BY <2>1, <3>5, WizardRestartStep
    <3>6. QED
      BY <2>3, <3>1, <3>2, <3>3, <3>4, <3>5 DEF WizardNext
  <2>4. QED
    BY <2>1, <2>2, <2>3
<1>3. QED
  BY <1>1, <1>2, PTL DEF WizardSpec

\* Whatever requests meet in a session of a wizard: what was stored of it is what was
\* reported, once at most, but for the overlaps and cuts that are known.
THEOREM SavesAreToldTruly == WizardSpec => []SavesAreTold
<1>1. WizInv => SavesAreTold
  BY DEF WizInv, SavesAreAlone, IsAlone, SavesAreTold
<1>2. QED
  BY <1>1, WizardInvariant, PTL

-----------------------------------------------------------------------------
(* A project from plan to rows.  What a validation said is said of the     *)
(* plan as it is, and what was stored is what the plan's agents were       *)
(* stored under.                                                           *)

DraftNames == {d.name : d \in AgentDrafts}
AgentRecords == [name : DraftNames, skills : {"known", "unknown"},
                 tools : {"builtin", "plugin", "unknown"}]
TaskRecords == [agent : {d.agent : d \in TaskDrafts} \union DraftNames, trigger : Triggers]
StoredNames == {<<n, FALSE>> : n \in OldNames \union {m[1] : m \in DraftNames}}

\* Every task names an agent of the plan, or none at all.
TasksAreNamed ==
  \A i \in DOMAIN draft.tasks : draft.tasks[i].agent \in AgentNames(draft.agents) \union {NoName}

PlanIsTyped ==
  /\ draft.agents \in Lists(AgentRecords) /\ draft.tasks \in Lists(TaskRecords)
  /\ planStage \in PlanStages /\ planPass \in 0..MAX_REPAIR_ITERATIONS
  /\ planValid \in {"unknown", "valid", "invalid"}
  /\ agentRows \in Seq(StoredNames) /\ Len(agentRows) <= Len(draft.agents)

PlanIsRepaired ==
  /\ planValid # "unknown" => planValid = Validated(draft)
  /\ planStage = "drafted" => planPass = 0
  /\ planPass > 0 => TasksAreNamed

PlanIsStored ==
  /\ planStage \in {"drafted", "repairing", "repaired"} => agentRows = <<>>
  /\ planStage \notin {"scheduling", "done"} => taskRows = <<>>
  /\ planStage # "done" => alarms = {} /\ told = 0
  /\ planStage \in {"scheduling", "done"} =>
       /\ Len(agentRows) = Len(draft.agents)
       /\ taskRows = [i \in DOMAIN draft.tasks |-> AgentOf(draft.tasks[i].agent)]
  /\ planStage = "done" => /\ alarms \subseteq DOMAIN draft.tasks /\ told \in 0..Len(draft.tasks)
                           /\ Malformed = {} => told = Cardinality(alarms)

PlanInv == PlanIsTyped /\ PlanIsRepaired /\ PlanIsStored

\* A list is a sequence of one or two.
LEMMA ListsAreSequences ==
  ASSUME NEW S, NEW f \in Lists(S)
  PROVE  /\ f \in Seq(S) /\ Len(f) \in 1..2 /\ DOMAIN f = 1..Len(f)
         /\ \A i \in DOMAIN f : f[i] \in S
<1>1. PICK n \in 1..2 : f \in [1..n -> S]
  BY DEF Lists
<1>2. f \in Seq(S) /\ Len(f) = n
  BY <1>1
<1>3. QED
  BY <1>1, <1>2

\* One of two numbers.
LEMMA OneOrTwo ==
  ASSUME NEW n \in 1..2, NEW m \in Nat, m <= n
  PROVE  m \in 0..2
OBVIOUS

\* What is no longer than a list has two at most.
LEMMA NotLonger ==
  ASSUME NEW S, NEW f \in Lists(S), NEW T, NEW g \in Seq(T), Len(g) <= Len(f)
  PROVE  Len(g) \in 0..2 /\ DOMAIN g = 1..Len(g)
<1>1. f \in Seq(S) /\ Len(f) \in 1..2
  BY ListsAreSequences
<1>2. Len(g) \in Nat /\ DOMAIN g = 1..Len(g)
  OBVIOUS
<1>3. QED
  BY <1>1, <1>2, OneOrTwo

\* A function on the numbers of a list is a list.
LEMMA ListsOver ==
  ASSUME NEW S, NEW T, NEW f \in Lists(S), NEW g, g \in [DOMAIN f -> T]
  PROVE  g \in Lists(T) /\ DOMAIN g = DOMAIN f /\ Len(g) = Len(f)
<1>1. DOMAIN f = 1..Len(f) /\ Len(f) \in 1..2
  BY ListsAreSequences
<1>2. g \in Lists(T)
  BY <1>1 DEF Lists
<1>3. DOMAIN g = DOMAIN f /\ DOMAIN g = 1..Len(g) /\ Len(g) \in 1..2
  BY <1>2, ListsAreSequences
<1>4. QED
  BY <1>1, <1>2, <1>3

\* What a model drafts has the fields of agents and tasks.
LEMMA DraftsAreTyped ==
  /\ AgentDrafts \subseteq AgentRecords /\ TaskDrafts \subseteq TaskRecords
  /\ \A m \in DraftNames : m = <<m[1], m[2]>> /\ m[2] \in BOOLEAN
<1>1. ASSUME NEW d \in AgentDrafts
      PROVE  d \in AgentRecords /\ d.name = <<d.name[1], d.name[2]>> /\ d.name[2] \in BOOLEAN
  <2>1. /\ d = [name |-> <<d.name[1], d.name[2]>>, skills |-> d.skills, tools |-> d.tools]
        /\ d.name[2] \in BOOLEAN /\ d.skills \in {"known", "unknown"}
        /\ d.tools \in {"builtin", "plugin", "unknown"}
    BY AgentDraftsAreTyped
  <2>2. d.name = <<d.name[1], d.name[2]>> /\ d.name \in DraftNames
    BY <2>1 DEF DraftNames
  <2>3. d = [name |-> d.name, skills |-> d.skills, tools |-> d.tools]
    BY <2>1, <2>2
  <2>4. QED
    BY <2>1, <2>2, <2>3 DEF AgentRecords
<1>2. ASSUME NEW d \in TaskDrafts
      PROVE  d \in TaskRecords
  <2>1. d = [agent |-> d.agent, trigger |-> d.trigger] /\ d.trigger \in Triggers
    BY TaskDraftsAreTyped DEF Triggers
  <2>2. QED
    BY <2>1 DEF TaskRecords
<1>3. QED
  BY <1>1, <1>2 DEF DraftNames

\* The agent found under a name is stored under that name.
LEMMA AgentFound ==
  ASSUME PlanIsTyped, NEW name
  PROVE  /\ AgentOf(name) \in 0..Len(draft.agents)
         /\ AgentOf(name) # 0 => /\ AgentOf(name) \in DOMAIN agentRows
                                 /\ agentRows[AgentOf(name)] = name
         /\ AgentOf(name) = 0 => \A i \in DOMAIN agentRows : agentRows[i] # name
<1> DEFINE named == {i \in DOMAIN agentRows : agentRows[i] = name}
<1>1. /\ DOMAIN agentRows = 1..Len(agentRows) /\ Len(agentRows) \in 0..2
      /\ Len(agentRows) <= Len(draft.agents) /\ Len(draft.agents) \in 1..2
  BY ListsAreSequences, NotLonger DEF PlanIsTyped
<1>2. AgentOf(name) = IF named = {} THEN 0 ELSE CHOOSE i \in named : \A j \in named : j <= i
  BY DEF AgentOf
<1>3. named # {} => \E i \in named : \A j \in named : j <= i
  <2>1. named \subseteq 1..2
    BY <1>1
  <2>2. CASE 2 \in named
    BY <2>1, <2>2
  <2>3. CASE 2 \notin named
    BY <2>1, <2>3
  <2>4. QED
    BY <2>2, <2>3
<1>4. named # {} => AgentOf(name) \in named
  BY <1>2, <1>3
<1>5. \A i \in named : i \in 0..Len(draft.agents) /\ i # 0 /\ i \in DOMAIN agentRows
  BY <1>1
<1>6. 0 \in 0..Len(draft.agents)
  BY <1>1
<1>7. CASE named = {}
  BY <1>2, <1>6, <1>7
<1>8. CASE named # {}
  BY <1>4, <1>5, <1>8
<1>9. QED
  BY <1>7, <1>8

\* The type invariant.
LEMMA PlansAreTyped ==
  ASSUME PlanInv
  PROVE  PlanTypeOK
<1> USE DEF PlanInv
<1>1. /\ draft.agents \in Seq(AgentRecords) /\ draft.tasks \in Seq(TaskRecords)
      /\ \A i \in DOMAIN draft.agents : draft.agents[i] \in AgentRecords
      /\ \A i \in DOMAIN draft.tasks : draft.tasks[i] \in TaskRecords
      /\ Len(draft.agents) \in 1..2 /\ Len(draft.tasks) \in 1..2
      /\ DOMAIN draft.tasks = 1..Len(draft.tasks)
  BY ListsAreSequences DEF PlanIsTyped
<1>2. taskRows \in Seq(0..Len(draft.agents))
  <2>1. CASE planStage \notin {"scheduling", "done"}
    BY <2>1 DEF PlanIsStored
  <2>2. CASE planStage \in {"scheduling", "done"}
    BY <1>1, <2>2, AgentFound DEF PlanIsStored
  <2>3. QED
    BY <2>1, <2>2
<1>3. alarms \subseteq DOMAIN draft.tasks /\ told \in 0..Len(draft.tasks)
  BY <1>1 DEF PlanIsStored
<1>4. QED
  BY <1>1, <1>2, <1>3 DEF PlanTypeOK, PlanIsTyped, AgentRecords, TaskRecords

\* A plan is validated and repaired.
LEMMA RepairSteps ==
  ASSUME PlanInv, ValidatePlan \/ DeepRepair \/ StartRepair \/ RepairPass
  PROVE  PlanInv'
<1> USE DEF PlanInv
<1>1. CASE ValidatePlan
  <2>1. /\ planStage \in {"drafted", "repaired"} /\ planValid' = Validated(draft)
        /\ UNCHANGED <<draft, planStage, planPass, agentRows, taskRows, alarms, told>>
    BY <1>1 DEF ValidatePlan
  <2>2. Validated(draft)' = Validated(draft) /\ planValid' \in {"valid", "invalid"}
    BY <2>1 DEF Validated, AgentNames
  <2>3. PlanIsTyped' /\ PlanIsRepaired'
    BY <2>1, <2>2 DEF PlanIsTyped, PlanIsRepaired, TasksAreNamed, AgentNames
  <2>4. QED
    BY <2>1, <2>3 DEF PlanIsStored
<1>2. CASE DeepRepair
  <2>1. PICK agents, tasks :
          /\ DOMAIN agents = DOMAIN draft.agents /\ DOMAIN tasks = DOMAIN draft.tasks
          /\ agents \in [DOMAIN draft.agents ->
               UNION {UNION {UNION {DeepTools(a) : a \in DeepSkills(draft.agents[i])} :
                             i \in DOMAIN draft.agents}}]
          /\ tasks \in [DOMAIN draft.tasks ->
               UNION {DeepSchedule(draft.tasks[i]) : i \in DOMAIN draft.tasks}]
          /\ draft' = [agents |-> agents, tasks |-> tasks]
          /\ planValid' = Validated(draft')
    BY <1>2 DEF DeepRepair, Lists
  <2>2. /\ planStage = "drafted" /\ planStage' = "repaired"
        /\ UNCHANGED <<planPass, agentRows, taskRows, alarms, told>>
    BY <1>2 DEF DeepRepair
  <2>3. \A a \in AgentRecords :
          UNION {DeepTools(b) : b \in DeepSkills(a)} \subseteq AgentRecords
    <3>1. \A a \in AgentRecords : DeepSkills(a) \subseteq AgentRecords
      BY DEF DeepSkills, AgentRecords
    <3>2. \A a \in AgentRecords : DeepTools(a) \subseteq AgentRecords
      BY DEF DeepTools, AgentRecords
    <3>3. QED
      BY <3>1, <3>2
  <2>4. \A t \in TaskRecords : DeepSchedule(t) \subseteq TaskRecords
    BY DEF DeepSchedule, TaskRecords, Triggers
  <2>5. /\ agents \in [DOMAIN draft.agents -> AgentRecords]
        /\ tasks \in [DOMAIN draft.tasks -> TaskRecords]
    BY <2>1, <2>3, <2>4, ListsAreSequences DEF PlanIsTyped
  <2>6. /\ agents \in Lists(AgentRecords) /\ tasks \in Lists(TaskRecords)
        /\ Len(agents) = Len(draft.agents)
    BY <2>5, ListsOver DEF PlanIsTyped
  <2>7. planValid' \in {"valid", "invalid"}
    BY <2>1 DEF Validated
  <2>8. QED
    BY <2>1, <2>2, <2>6, <2>7 DEF PlanIsTyped, PlanIsRepaired, PlanIsStored, PlanStages
<1>3. CASE StartRepair
  <2>1. /\ planStage = "drafted" /\ planStage' = "repairing"
        /\ UNCHANGED <<draft, planPass, planValid, agentRows, taskRows, alarms, told>>
    BY <1>3 DEF StartRepair
  <2>2. Validated(draft)' = Validated(draft)
    BY <2>1 DEF Validated, AgentNames
  <2>3. PlanIsTyped' /\ PlanIsRepaired'
    BY <2>1, <2>2
       DEF PlanIsTyped, PlanIsRepaired, TasksAreNamed, AgentNames, PlanStages
  <2>4. QED
    BY <2>1, <2>3 DEF PlanIsStored
<1>4. CASE RepairPass
  <2>1. PICK closest \in AgentNames(draft.agents) :
          draft' = [agents |-> [i \in DOMAIN draft.agents |-> FixedAgent(draft.agents[i])],
                    tasks |-> [i \in DOMAIN draft.tasks |-> FixedTask(draft.tasks[i], closest)]]
    BY <1>4 DEF RepairPass
  <2>2. /\ planStage = "repairing" /\ planPass < MAX_REPAIR_ITERATIONS
        /\ planPass' = planPass + 1 /\ planValid' = Validated(draft')
        /\ planStage' \in {"repaired", "repairing"}
        /\ UNCHANGED <<agentRows, taskRows, alarms, told>>
    BY <1>4 DEF RepairPass
  <2>3. /\ \A i \in DOMAIN draft.agents : draft.agents[i] \in AgentRecords
        /\ \A i \in DOMAIN draft.tasks : draft.tasks[i] \in TaskRecords
        /\ draft.agents \in Lists(AgentRecords) /\ draft.tasks \in Lists(TaskRecords)
    BY ListsAreSequences DEF PlanIsTyped
  <2>4. closest \in DraftNames
    BY <2>3 DEF AgentNames, AgentRecords
  <2>5. \A a \in AgentRecords : FixedAgent(a) \in AgentRecords /\ FixedAgent(a).name = a.name
    BY DEF FixedAgent, AgentRecords
  <2>6. \A t \in TaskRecords :
          /\ FixedTask(t, closest) \in TaskRecords
          /\ FixedTask(t, closest).agent = IF Orphan(t) THEN closest ELSE t.agent
    BY <2>4 DEF FixedTask, TaskRecords, Triggers
  <2>7. /\ draft'.agents \in [DOMAIN draft.agents -> AgentRecords]
        /\ draft'.tasks \in [DOMAIN draft.tasks -> TaskRecords]
        /\ \A i \in DOMAIN draft.agents : draft'.agents[i].name = draft.agents[i].name
        /\ \A i \in DOMAIN draft.tasks :
             draft'.tasks[i].agent = IF Orphan(draft.tasks[i]) THEN closest
                                     ELSE draft.tasks[i].agent
    BY <2>1, <2>3, <2>5, <2>6
  <2>8. /\ draft'.agents \in Lists(AgentRecords) /\ draft'.tasks \in Lists(TaskRecords)
        /\ Len(draft'.agents) = Len(draft.agents)
        /\ DOMAIN draft'.agents = DOMAIN draft.agents /\ DOMAIN draft'.tasks = DOMAIN draft.tasks
    BY <2>3, <2>7, ListsOver
  <2>9. AgentNames(draft'.agents) = AgentNames(draft.agents)
    BY <2>7, <2>8 DEF AgentNames
  <2>10. TasksAreNamed'
    BY <2>7, <2>8, <2>9 DEF TasksAreNamed, Orphan
  <2>11. planValid' \in {"valid", "invalid"}
    BY <2>2 DEF Validated
  <2>12. PlanIsTyped'
    BY <2>2, <2>8, <2>11 DEF PlanIsTyped, PlanStages, MAX_REPAIR_ITERATIONS
  <2>13. PlanIsRepaired'
    BY <2>2, <2>10 DEF PlanIsRepaired
  <2>14. QED
    BY <2>2, <2>12, <2>13 DEF PlanIsStored
<1>5. QED
  BY <1>1, <1>2, <1>3, <1>4

\* A plan is set up.
LEMMA SetUpSteps ==
  ASSUME PlanInv,
         \/ \E by \in {"dashboard", "bot"} : StartSetUp(by)
         \/ DashboardAddsAgent \/ BotAddsAgent \/ DashboardAddsTasks \/ BotAddsTasks
         \/ WriteAlarms
  PROVE  PlanInv'
<1> USE DEF PlanInv
<1>a. /\ draft.agents \in Seq(AgentRecords) /\ draft.tasks \in Seq(TaskRecords)
      /\ \A i \in DOMAIN draft.agents : draft.agents[i] \in AgentRecords
      /\ Len(draft.agents) \in 1..2 /\ Len(draft.tasks) \in 1..2
      /\ DOMAIN draft.agents = 1..Len(draft.agents) /\ DOMAIN draft.tasks = 1..Len(draft.tasks)
      /\ agentRows \in Seq(StoredNames) /\ Len(agentRows) \in Nat
  BY ListsAreSequences DEF PlanIsTyped
<1>b. ASSUME UNCHANGED <<draft, planPass, planValid>>, planStage' # "drafted"
      PROVE  PlanIsRepaired'
  <2>1. Validated(draft)' = Validated(draft)
    BY <1>b DEF Validated, AgentNames
  <2>2. QED
    BY <1>b, <2>1 DEF PlanIsRepaired, TasksAreNamed, AgentNames
<1>1. ASSUME NEW by \in {"dashboard", "bot"}, StartSetUp(by)
      PROVE  PlanInv'
  <2>1. /\ planStage \in {"drafted", "repaired"} /\ planStage' = by
        /\ UNCHANGED <<draft, planPass, planValid, agentRows, taskRows, alarms, told>>
    BY <1>1 DEF StartSetUp
  <2>2. PlanIsTyped' /\ PlanIsStored'
    BY <2>1 DEF PlanIsTyped, PlanIsStored, PlanStages
  <2>3. QED
    BY <1>b, <2>1, <2>2
<1>2. ASSUME NEW name \in StoredNames, AddAgentRow(name), planStage \in {"dashboard", "bot"}
      PROVE  PlanInv'
  <2>1. /\ Len(agentRows) < Len(draft.agents) /\ agentRows' = Append(agentRows, name)
        /\ UNCHANGED <<draft, planStage, planPass, planValid, taskRows, alarms, told>>
    BY <1>2 DEF AddAgentRow
  <2>2. agentRows' \in Seq(StoredNames) /\ Len(agentRows') = Len(agentRows) + 1
    BY <1>a, <2>1
  <2>3. PlanIsTyped'
    BY <1>a, <2>1, <2>2 DEF PlanIsTyped
  <2>4. PlanIsStored'
    BY <1>2, <2>1 DEF PlanIsStored
  <2>5. QED
    BY <1>2, <1>b, <2>1, <2>3, <2>4
<1>3. ASSUME Len(agentRows) < Len(draft.agents)
      PROVE  NextAgent.name \in DraftNames
  <2>1. Len(agentRows) + 1 \in DOMAIN draft.agents
    BY <1>3, <1>a
  <2>2. QED
    BY <1>a, <2>1 DEF NextAgent, AgentRecords
<1>4. CASE DashboardAddsAgent
  <2>1. Len(agentRows) < Len(draft.agents)
    BY <1>4 DEF DashboardAddsAgent, AddAgentRow
  <2>2. Stripped(NextAgent.name) \in StoredNames
    BY <1>3, <2>1 DEF Stripped, StoredNames
  <2>3. QED
    BY <1>2, <1>4, <2>2 DEF DashboardAddsAgent
<1>5. CASE BotAddsAgent
  <2>1. planStage = "bot" /\ Len(agentRows) < Len(draft.agents)
    BY <1>5 DEF BotAddsAgent
  <2>2. \A i \in DOMAIN agentRows :
          agentRows[i][1] \in OldNames \union {m[1] : m \in DraftNames}
    <3>1. \A x \in StoredNames : x[1] \in OldNames \union {m[1] : m \in DraftNames}
      <4>1. SUFFICES ASSUME NEW x \in StoredNames
                     PROVE  x[1] \in OldNames \union {m[1] : m \in DraftNames}
        OBVIOUS
      <4>2. PICK n \in OldNames \union {m[1] : m \in DraftNames} : x = <<n, FALSE>>
        BY DEF StoredNames
      <4>3. x[1] = n
        BY <4>2
      <4>4. QED
        BY <4>3
    <3>2. \A i \in DOMAIN agentRows : agentRows[i] \in StoredNames
      BY <1>a
    <3>3. QED
      BY <3>1, <3>2
  <2>3. \A n \in Candidates : <<n, FALSE>> \in StoredNames
    BY <2>2 DEF Candidates, StoredNames
  <2>4. <<NextAgent.name[1], FALSE>> \in StoredNames
    BY <1>3, <2>1 DEF StoredNames
  <2>5. \E name \in StoredNames : AddAgentRow(name)
    BY <1>5, <2>3, <2>4 DEF BotAddsAgent, SimilarNames
  <2>6. QED
    BY <1>2, <2>1, <2>5
<1>6. ASSUME NEW next \in {"scheduling", "done"}, AddTaskRows(next),
             planStage \in {"dashboard", "bot"}
      PROVE  PlanInv'
  <2>1. /\ Len(agentRows) = Len(draft.agents) /\ planStage' = next
        /\ taskRows' = [i \in DOMAIN draft.tasks |-> AgentOf(draft.tasks[i].agent)]
        /\ UNCHANGED <<draft, planPass, planValid, agentRows, alarms, told>>
    BY <1>6 DEF AddTaskRows
  <2>2. \A name : AgentOf(name)' = AgentOf(name)
    BY <2>1 DEF AgentOf
  <2>3. alarms = {} /\ told = 0 /\ Cardinality({}) = 0
    BY <1>6, FS_EmptySet DEF PlanIsStored
  <2>4. taskRows' = [i \in DOMAIN draft'.tasks |-> AgentOf(draft.tasks[i].agent)']
    BY <2>1 DEF AgentOf
  <2>5. PlanIsTyped'
    BY <1>6, <2>1 DEF PlanIsTyped, PlanStages
  <2>6. PlanIsStored'
    BY <1>6, <1>a, <2>1, <2>3, <2>4 DEF PlanIsStored
  <2>7. QED
    BY <1>6, <1>b, <2>1, <2>5, <2>6
<1>7. CASE DashboardAddsTasks \/ BotAddsTasks
  BY <1>6, <1>7 DEF DashboardAddsTasks, BotAddsTasks
<1>8. CASE WriteAlarms
  <2> DEFINE all == {i \in DOMAIN draft.tasks : Scheduled(i)}
             counted == {i \in DOMAIN draft.tasks : Scheduled(i) /\ \A j \in Malformed : i < j}
  <2>1. /\ planStage = "scheduling" /\ planStage' = "done" /\ told' = Cardinality(counted)
        /\ alarms' = IF Malformed = {} THEN all ELSE {}
        /\ UNCHANGED <<draft, planPass, planValid, agentRows, taskRows>>
    BY <1>8 DEF WriteAlarms
  <2>2. told' \in 0..Len(draft.tasks)
    <3>1. /\ IsFiniteSet(DOMAIN draft.tasks)
          /\ Cardinality(DOMAIN draft.tasks) = Len(draft.tasks)
      <4>1. IsFiniteSet(1..Len(draft.tasks))
            /\ Cardinality(1..Len(draft.tasks)) = Len(draft.tasks)
        <5>1. Len(draft.tasks) = 1 \/ Len(draft.tasks) = 2
          BY <1>a
        <5>2. 1 \in Int /\ Len(draft.tasks) \in Int
          BY <5>1
        <5>3. /\ IsFiniteSet(1..Len(draft.tasks))
              /\ Cardinality(1..Len(draft.tasks))
                   = IF 1 > Len(draft.tasks) THEN 0 ELSE Len(draft.tasks) - 1 + 1
          BY <5>2, FS_Interval
        <5>4. QED
          BY <5>1, <5>3
      <4>2. QED
        BY <1>a, <4>1
    <3>2. /\ IsFiniteSet(counted) /\ Cardinality(counted) <= Len(draft.tasks)
      BY <3>1, FS_Subset
    <3>3. Cardinality(counted) \in Nat
      BY <3>2, FS_CardinalityType
    <3>4. QED
      BY <1>a, <2>1, <3>2, <3>3
  <2>3. Malformed' = Malformed
    BY <2>1 DEF Malformed
  <2>4. Malformed = {} => told' = Cardinality(alarms')
    <3>1. Malformed = {} => counted = all
      OBVIOUS
    <3>2. QED
      BY <2>1, <3>1
  <2>5. taskRows' = [i \in DOMAIN draft'.tasks |-> AgentOf(draft.tasks[i].agent)']
    BY <2>1 DEF AgentOf, PlanIsStored
  <2>6. PlanIsTyped'
    BY <2>1 DEF PlanIsTyped, PlanStages
  <2>7. alarms' \subseteq DOMAIN draft'.tasks /\ Len(agentRows') = Len(draft'.agents)
    BY <2>1 DEF PlanIsStored
  <2>8. PlanIsStored'
    BY <2>1, <2>2, <2>3, <2>4, <2>5, <2>7 DEF PlanIsStored
  <2>9. QED
    BY <1>b, <2>1, <2>6, <2>8
<1>9. QED
  BY <1>1, <1>4, <1>5, <1>7, <1>8

\* The invariant of the plan.
THEOREM PlanInvariant == PlanSpec => []PlanInv
<1>1. PlanInit => PlanInv
  <2>1. SUFFICES ASSUME PlanInit PROVE PlanInv
    OBVIOUS
  <2>2. draft.agents \in Lists(AgentDrafts) /\ draft.tasks \in Lists(TaskDrafts)
    BY <2>1 DEF PlanInit, DraftedPlans
  <2>3. draft.agents \in Lists(AgentRecords) /\ draft.tasks \in Lists(TaskRecords)
    BY <2>2, DraftsAreTyped DEF Lists
  <2>4. Len(draft.agents) \in 1..2
    BY <2>3, ListsAreSequences
  <2>5. PlanIsTyped
    BY <2>1, <2>3, <2>4 DEF PlanInit, PlanIsTyped, PlanStages, MAX_REPAIR_ITERATIONS
  <2>6. QED
    BY <2>1, <2>5 DEF PlanInit, PlanInv, PlanIsRepaired, PlanIsStored
<1>2. PlanInv /\ [PlanNext]_planVars => PlanInv'
  <2>1. SUFFICES ASSUME PlanInv, [PlanNext]_planVars PROVE PlanInv'
    OBVIOUS
  <2>2. CASE UNCHANGED planVars
    <3>1. /\ UNCHANGED <<draft, planStage, planPass, planValid, agentRows, taskRows, alarms, told>>
          /\ Validated(draft)' = Validated(draft) /\ Malformed' = Malformed
      BY <2>2 DEF planVars, Validated, AgentNames, Malformed
    <3>2. [i \in DOMAIN draft.tasks |-> AgentOf(draft.tasks[i].agent)]'
            = [i \in DOMAIN draft.tasks |-> AgentOf(draft.tasks[i].agent)]
      BY <3>1 DEF AgentOf
    <3>3. PlanIsTyped' /\ PlanIsRepaired'
      BY <2>1, <3>1
         DEF PlanInv, PlanIsTyped, PlanIsRepaired, TasksAreNamed, AgentNames
    <3>4. PlanIsStored'
      BY <2>1, <3>1, <3>2 DEF PlanInv, PlanIsStored
    <3>5. QED
      BY <3>3, <3>4 DEF PlanInv
  <2>3. CASE PlanNext
    BY <2>1, <2>3, RepairSteps, SetUpSteps DEF PlanNext
  <2>4. QED
    BY <2>1, <2>2, <2>3
<1>3. QED
  BY <1>1, <1>2, PTL DEF PlanSpec

\* Whatever is drafted, validated, repaired and set up, by the dashboard or the bot: a
\* plan called valid is stored whole, but for the causes that are known.
THEOREM ValidPlansStayWhole == PlanSpec => []ValidPlansAreStoredWhole
<1>1. ASSUME PlanInv PROVE ValidPlansAreStoredWhole
  <2> USE DEF PlanInv
  <2>a. /\ \A i \in DOMAIN draft.agents : draft.agents[i] \in AgentRecords
        /\ DOMAIN draft.agents = 1..Len(draft.agents) /\ Len(draft.agents) \in Nat
        /\ DOMAIN agentRows = 1..Len(agentRows)
    BY <1>1, ListsAreSequences DEF PlanIsTyped
  <2>1. ASSUME planStage = "done", ~Renamed
        PROVE  /\ planValid = "valid" => Unassigned \subseteq {i \in DOMAIN taskRows : Padded(i)}
               /\ \A i \in DOMAIN taskRows \ Unassigned :
                    Stripped(draft.agents[taskRows[i]].name) = Stripped(draft.tasks[i].agent)
               /\ Malformed = {} => told = Cardinality(alarms)
    <3>1. /\ Len(agentRows) = Len(draft.agents)
          /\ DOMAIN taskRows = DOMAIN draft.tasks
          /\ \A i \in DOMAIN taskRows : taskRows[i] = AgentOf(draft.tasks[i].agent)
          /\ Malformed = {} => told = Cardinality(alarms)
      BY <1>1, <2>1 DEF PlanIsStored
    <3>2. \A j \in DOMAIN agentRows : agentRows[j] = Stripped(draft.agents[j].name)
      BY <2>1 DEF Renamed
    <3>3. ASSUME NEW i \in Unassigned, planValid = "valid"
          PROVE  i \in DOMAIN taskRows /\ Padded(i)
      <4>1. i \in DOMAIN taskRows /\ AgentOf(draft.tasks[i].agent) = 0
        BY <3>1 DEF Unassigned
      <4>2. PICK j \in DOMAIN draft.agents : draft.tasks[i].agent = draft.agents[j].name
        BY <1>1, <3>1, <3>3, <4>1 DEF PlanIsRepaired, Validated, AgentNames
      <4>3. draft.tasks[i].agent # Stripped(draft.agents[j].name)
        BY <1>1, <2>a, <3>1, <3>2, <4>1, AgentFound
      <4>4. draft.agents[j].name \in DraftNames
        BY <2>a DEF AgentRecords
      <4>5. draft.tasks[i].agent[2]
        BY <4>2, <4>3, <4>4, DraftsAreTyped DEF Stripped
      <4>6. QED
        BY <4>1, <4>5, NoNameHasNoBlanks DEF Padded
    <3>4. ASSUME NEW i \in DOMAIN taskRows \ Unassigned
          PROVE  Stripped(draft.agents[taskRows[i]].name) = Stripped(draft.tasks[i].agent)
      <4>1. taskRows[i] # 0 /\ taskRows[i] = AgentOf(draft.tasks[i].agent)
        BY <3>1 DEF Unassigned
      <4>2. taskRows[i] \in DOMAIN agentRows /\ agentRows[taskRows[i]] = draft.tasks[i].agent
        BY <1>1, <4>1, AgentFound
      <4>3. draft.tasks[i].agent = Stripped(draft.agents[taskRows[i]].name)
        BY <3>2, <4>2
      <4>4. QED
        BY <4>3 DEF Stripped
    <3>5. QED
      BY <3>1, <3>3, <3>4
  <2>2. ASSUME planStage = "repaired", planPass > 0, planValid = "invalid"
        PROVE  \E i \in DOMAIN draft.tasks : draft.tasks[i].agent = NoName
    BY <1>1, <2>2 DEF PlanIsRepaired, TasksAreNamed, Validated
  <2>3. QED
    BY <2>1, <2>2 DEF ValidPlansAreStoredWhole
<1>2. QED
  BY <1>1, PlanInvariant, PTL

-----------------------------------------------------------------------------
(* What the bot sets up.  What a set-up found is there, or was, from its   *)
(* look to its verdicts; who it adds is at home in its organization until  *)
(* they are rows like the others.                                          *)

RowRecords ==
  [org : BotOrgs \union {NoHome}, name : BotNames, uses : SUBSET Wares, found : SUBSET Wares]
BotTaskRows ==
  [org : BotOrgs \union {NoHome}, agent : Nat, status : {"pending", "in_progress", "completed"}]
Shelves == [skills : SUBSET BotSkills, rows : SUBSET BotTools, dirs : SUBSET BotTools]
Gifts == UNION {[D -> SUBSET Wares] : D \in SUBSET Nat}
SetUpRecords ==
  [at : {"idle", "agents", "tools", "skills", "look", "write", "over"}, plan : BotPlans,
   org : BotOrgs \union {NoHome}, crew : Seq(RowRecords), given : Gifts, next : Nat,
   told : SUBSET Wares, known : SUBSET Wares]

BotIsTyped ==
  /\ botOrg \in [BotOrgs -> OrgStates]
  /\ botAgent \in Seq(RowRecords) /\ botTask \in Seq(BotTaskRows)
  /\ botShelf \in Shelves /\ botSetUp \in [SetUps -> SetUpRecords]
  /\ botJob \in [BotJobs -> [row : BOOLEAN, entry : BOOLEAN]]
  /\ botCalls \in 0..MaxBotCalls /\ botMissed \in SUBSET Wares

\* What is there, or was.
Found == Reserved \union botShelf.skills \union botShelf.dirs \union botMissed
IsSound(w) ==
  /\ w.told \subseteq botShelf.skills \union botMissed /\ w.known \subseteq Found
  /\ \A k \in DOMAIN w.crew : w.crew[k].org = w.org /\ w.crew[k].found = {}
SetUpsAreKept == \A s \in SetUps : IsSound(botSetUp[s])
VerdictsAreSo ==
  \A i \in DOMAIN botAgent : botAgent[i].org # NoHome => botAgent[i].found \subseteq Found
RowsAreFiles == botShelf.rows \subseteq botShelf.dirs \union botMissed
TasksAreHome ==
  \A t \in DOMAIN botTask :
    /\ botTask[t].agent \in 0..Len(botAgent)
    /\ botTask[t].agent # NoMember => botAgent[botTask[t].agent].org = botTask[t].org

BotInv ==
  /\ BotIsTyped /\ SetUpsAreKept /\ VerdictsAreSo /\ RowsAreFiles /\ TasksAreHome

\* Every set on which a relation is well founded has a minimal element.
LEMMA MinimalElement ==
  ASSUME NEW N, NEW R, IsWellFoundedOn(R, N)
  PROVE  \A S \in SUBSET N : S # {} => \E i \in S : \A k \in S : <<k, i>> \notin R
BY WFMin

\* A set of numbers has a least one.
LEMMA LeastNumber ==
  ASSUME NEW S, S \subseteq Nat, S # {}
  PROVE  \E i \in S : \A k \in S : i <= k
<1> DEFINE R == {pair \in Nat \X Nat : pair[1] < pair[2]}
<1>1. IsWellFoundedOn(R, Nat)
  BY NatLessThanWellFounded DEF OpToRel
<1>2. PICK i \in S : \A k \in S : <<k, i>> \notin R
  <2> HIDE DEF R
  <2>1. \A T \in SUBSET Nat : T # {} => \E i \in T : \A k \in T : <<k, i>> \notin R
    BY <1>1, MinimalElement, Zenon
  <2>2. QED
    BY <2>1, Zenon
<1>3. ASSUME NEW k \in S
      PROVE  i <= k
  <2>1. k \in Nat /\ i \in Nat
    OBVIOUS
  <2>2. <<k, i>> \in Nat \X Nat => ~ (k < i)
    BY <1>2
  <2>3. QED
    BY <2>1, <2>2
<1>4. QED
  BY <1>3

\* A function on the numbers of a sequence is one as long.
LEMMA RowsOver ==
  ASSUME NEW S, NEW T, NEW q \in Seq(S), NEW g, g \in [DOMAIN q -> T]
  PROVE  g \in Seq(T) /\ Len(g) = Len(q) /\ DOMAIN g = DOMAIN q
<1>1. DOMAIN q = 1..Len(q) /\ Len(q) \in Nat
  OBVIOUS
<1>2. QED
  BY <1>1

\* The type invariant, and the property.
LEMMA BotInvIsEnough ==
  ASSUME BotInv
  PROVE  BotTypeOK /\ SetUpsAreSound
<1>1. /\ DOMAIN botAgent = 1..Len(botAgent) /\ DOMAIN botTask = 1..Len(botTask)
      /\ \A i \in DOMAIN botAgent : botAgent[i] \in RowRecords
      /\ \A t \in DOMAIN botTask : botTask[t] \in BotTaskRows
      /\ \A s \in SetUps : botSetUp[s] \in SetUpRecords
      /\ botShelf \in Shelves
  BY DEF BotInv, BotIsTyped
<1>2. BotTypeOK
  BY <1>1 DEF BotInv, BotIsTyped, BotTypeOK, TasksAreHome, RowRecords, BotTaskRows, SetUpRecords,
              Shelves
<1>3. SetUpsAreSound
  BY DEF BotInv, SetUpsAreSound, StaysAtHome, FoundIsThere, TasksAreHome, VerdictsAreSo, Found
<1>4. QED
  BY <1>2, <1>3

\* What is there is forgotten by nobody who found it.
LEMMA NothingIsForgotten ==
  ASSUME botShelf.skills \union botMissed \subseteq (botShelf.skills \union botMissed)',
         botShelf.dirs \union botMissed \subseteq (botShelf.dirs \union botMissed)'
  PROVE  /\ Found \subseteq Found' /\ \A w : IsSound(w) => IsSound(w)'
         /\ SetUpsAreKept /\ UNCHANGED botSetUp => SetUpsAreKept'
         /\ VerdictsAreSo /\ UNCHANGED botAgent => VerdictsAreSo'
<1>1. Found \subseteq Found'
  BY DEF Found
<1>2. \A w : IsSound(w) => IsSound(w)'
  BY <1>1 DEF IsSound
<1>3. SetUpsAreKept /\ UNCHANGED botSetUp => SetUpsAreKept'
  BY <1>2 DEF SetUpsAreKept, IsSound
<1>4. VerdictsAreSo /\ UNCHANGED botAgent => VerdictsAreSo'
  BY <1>1 DEF VerdictsAreSo
<1>5. QED
  BY <1>1, <1>2, <1>3, <1>4

\* A tool of an organization, or the dashboard, changes its rows of organizations, of
\* schedules, of tasks or of agents.
LEMMA RowToolSteps ==
  ASSUME BotInv, UNCHANGED <<botShelf, botSetUp, botMissed>>, botCalls' \in 0..MaxBotCalls,
         \/ \E o \in BotOrgs :
              \/ CreateOrganization(o)
              \/ \E status \in {"active", "paused", "archived"} : UpdateOrganization(o, status)
              \/ \E name \in BotNames, x \in Wares : AddOrgAgent(o, name, {x})
              \/ \E i \in 0..MaxBotAgents : AddOrgTask(o, i)
              \/ \E t \in 1..MaxBotTasks :
                   CompleteOrgTask(o, t) \/ \E i \in 1..MaxBotAgents : AssignOrgTask(o, t, i)
              \/ \E j \in BotJobs : ScheduleOrgTask(o, j) \/ CancelOrgSchedule(o, j)
         \/ \E j \in BotJobs : KeepReminder(j)
         \/ \E i \in 1..MaxBotAgents, x \in Wares : EditAgent(i, {x})
  PROVE  BotInv'
<1> USE DEF BotInv
<1>a. /\ DOMAIN botAgent = 1..Len(botAgent) /\ DOMAIN botTask = 1..Len(botTask)
      /\ Len(botAgent) \in Nat /\ Len(botTask) \in Nat
      /\ \A i \in DOMAIN botAgent : botAgent[i] \in RowRecords
      /\ \A t \in DOMAIN botTask : botTask[t] \in BotTaskRows
  BY DEF BotIsTyped
<1>b. SetUpsAreKept' /\ RowsAreFiles' /\ (UNCHANGED botAgent => VerdictsAreSo')
  BY NothingIsForgotten DEF RowsAreFiles
<1>c. UNCHANGED <<botAgent, botTask>> => TasksAreHome'
  BY DEF TasksAreHome
<1>1. ASSUME UNCHANGED <<botAgent, botTask, botJob>>, botOrg' \in [BotOrgs -> OrgStates]
      PROVE  BotInv'
  BY <1>1, <1>b, <1>c DEF BotIsTyped
<1>2. ASSUME NEW o \in BotOrgs,
             \/ CreateOrganization(o)
             \/ \E status \in {"active", "paused", "archived"} : UpdateOrganization(o, status)
      PROVE  BotInv'
  <2>1. /\ UNCHANGED <<botAgent, botTask, botJob>>
        /\ \E status \in OrgStates : botOrg' = [botOrg EXCEPT ![o] = status]
    BY <1>2 DEF CreateOrganization, UpdateOrganization, OrgStates
  <2>2. QED
    BY <1>1, <2>1 DEF BotIsTyped
<1>3. ASSUME NEW j \in BotJobs, NEW o \in BotOrgs,
             ScheduleOrgTask(o, j) \/ CancelOrgSchedule(o, j)
      PROVE  BotInv'
  <2>1. /\ UNCHANGED <<botOrg, botAgent, botTask>>
        /\ \E e \in BOOLEAN : botJob' = [botJob EXCEPT ![j].entry = e]
    BY <1>3 DEF ScheduleOrgTask, CancelOrgSchedule
  <2>2. botJob' \in [BotJobs -> [row : BOOLEAN, entry : BOOLEAN]]
    BY <2>1 DEF BotIsTyped
  <2>3. QED
    BY <1>b, <1>c, <2>1, <2>2 DEF BotIsTyped
<1>4. ASSUME UNCHANGED <<botOrg, botAgent, botJob>>, botTask' \in Seq(BotTaskRows), TasksAreHome'
      PROVE  BotInv'
  BY <1>4, <1>b DEF BotIsTyped
<1>5. ASSUME NEW o \in BotOrgs, NEW i \in 0..MaxBotAgents, AddOrgTask(o, i)
      PROVE  BotInv'
  <2>1. /\ UNCHANGED <<botOrg, botAgent, botJob>> /\ botTask' = Append(botTask, NewTask(o, i))
        /\ i = NoMember \/ (i \in DOMAIN botAgent /\ botAgent[i].org = o)
    BY <1>5 DEF AddOrgTask, Member
  <2>2. NewTask(o, i) \in BotTaskRows /\ NewTask(o, i).agent = i /\ NewTask(o, i).org = o
    BY BotBoundsAreNatural DEF NewTask, BotTaskRows
  <2>3. /\ botTask' \in Seq(BotTaskRows) /\ DOMAIN botTask' = 1..(Len(botTask) + 1)
        /\ botTask'[Len(botTask) + 1] = NewTask(o, i)
        /\ \A t \in DOMAIN botTask : botTask'[t] = botTask[t]
    BY <1>a, <2>1, <2>2 DEF BotIsTyped
  <2>4. TasksAreHome'
    <3>1. SUFFICES ASSUME NEW t \in DOMAIN botTask'
                   PROVE  /\ botTask'[t].agent \in 0..Len(botAgent)
                          /\ botTask'[t].agent # NoMember =>
                               botAgent[botTask'[t].agent].org = botTask'[t].org
      BY <2>1 DEF TasksAreHome
    <3>2. CASE t \in DOMAIN botTask
      BY <2>3, <3>2 DEF TasksAreHome
    <3>3. CASE t = Len(botTask) + 1
      BY <1>a, <2>1, <2>2, <2>3, <3>3 DEF NoMember
    <3>4. QED
      BY <1>a, <2>3, <3>2, <3>3
  <2>5. QED
    BY <1>4, <2>1, <2>3, <2>4
<1>6. ASSUME NEW o \in BotOrgs, NEW t, CompleteOrgTask(o, t)
      PROVE  BotInv'
  <2>1. /\ UNCHANGED <<botOrg, botAgent, botJob>> /\ t \in DOMAIN botTask
        /\ botTask' = [botTask EXCEPT ![t].status = "completed"]
    BY <1>6 DEF CompleteOrgTask, TaskOf
  <2>2. botTask' \in [DOMAIN botTask -> BotTaskRows]
    BY <1>a, <2>1 DEF BotTaskRows
  <2>3. botTask' \in Seq(BotTaskRows) /\ DOMAIN botTask' = DOMAIN botTask
    BY <2>2, RowsOver DEF BotIsTyped
  <2>4. \A u \in DOMAIN botTask : /\ botTask'[u].agent = botTask[u].agent
                                  /\ botTask'[u].org = botTask[u].org
    BY <1>a, <2>1 DEF BotTaskRows
  <2>5. TasksAreHome'
    BY <2>1, <2>3, <2>4 DEF TasksAreHome
  <2>6. QED
    BY <1>4, <2>1, <2>3, <2>5
<1>7. ASSUME NEW o \in BotOrgs, NEW t, NEW i \in 1..MaxBotAgents, AssignOrgTask(o, t, i)
      PROVE  BotInv'
  <2>1. /\ UNCHANGED <<botOrg, botAgent, botJob>> /\ t \in DOMAIN botTask
        /\ botTask[t].org = o /\ i \in DOMAIN botAgent /\ botAgent[i].org = o
    BY <1>7 DEF AssignOrgTask, TaskOf, Member
  <2>2. i \in Nat /\ i \in 0..Len(botAgent)
    BY <1>a, <2>1
  <2>3. PICK status \in {"pending", "in_progress", "completed"} :
          botTask' = [u \in DOMAIN botTask |->
                        IF u = t THEN [botTask[t] EXCEPT !.agent = i, !.status = status]
                        ELSE botTask[u]]
    <3>1. botTask[t].status \in {"pending", "in_progress", "completed"}
      BY <1>a, <2>1 DEF BotTaskRows
    <3>2. botTask' = [botTask EXCEPT ![t].agent = i,
                        ![t].status = IF @ = "pending" THEN "in_progress" ELSE @]
      BY <1>7 DEF AssignOrgTask
    <3>3. CASE botTask[t].status = "pending"
      BY <3>2, <3>3
    <3>4. CASE botTask[t].status # "pending"
      BY <3>1, <3>2, <3>4
    <3>5. QED
      BY <3>3, <3>4
  <2>4. [botTask[t] EXCEPT !.agent = i, !.status = status] \in BotTaskRows
    BY <1>a, <2>1, <2>2 DEF BotTaskRows
  <2>5. botTask' \in [DOMAIN botTask -> BotTaskRows]
    BY <1>a, <2>3, <2>4
  <2>6. botTask' \in Seq(BotTaskRows) /\ DOMAIN botTask' = DOMAIN botTask
    BY <2>5, RowsOver DEF BotIsTyped
  <2>7. /\ botTask'[t].agent = i /\ botTask'[t].org = o
        /\ \A u \in DOMAIN botTask \ {t} : botTask'[u] = botTask[u]
    BY <1>a, <2>1, <2>3 DEF BotTaskRows
  <2>8. TasksAreHome'
    BY <2>1, <2>2, <2>6, <2>7 DEF TasksAreHome
  <2>9. QED
    BY <1>4, <2>1, <2>6, <2>8
<1>8. ASSUME NEW o \in BotOrgs, NEW name \in BotNames, NEW x \in Wares, AddOrgAgent(o, name, {x})
      PROVE  BotInv'
  <2>1. /\ UNCHANGED <<botOrg, botTask, botJob>>
        /\ botAgent' = Append(botAgent, NewAgent(o, name, {x}))
    BY <1>8 DEF AddOrgAgent
  <2>2. NewAgent(o, name, {x}) \in RowRecords /\ NewAgent(o, name, {x}).found = {}
    BY DEF NewAgent, RowRecords
  <2>3. /\ botAgent' \in Seq(RowRecords) /\ Len(botAgent') = Len(botAgent) + 1
        /\ DOMAIN botAgent' = 1..(Len(botAgent) + 1)
        /\ botAgent'[Len(botAgent) + 1] = NewAgent(o, name, {x})
        /\ \A i \in DOMAIN botAgent : botAgent'[i] = botAgent[i]
    BY <1>a, <2>1, <2>2 DEF BotIsTyped
  <2>4. Found' = Found
    BY DEF Found
  <2>5. VerdictsAreSo'
    <3>1. \A i \in DOMAIN botAgent' : i \in DOMAIN botAgent \/ i = Len(botAgent) + 1
      BY <1>a, <2>3
    <3>2. botAgent'[Len(botAgent) + 1].found = {}
      BY <2>2, <2>3
    <3>3. QED
      BY <2>3, <2>4, <3>1, <3>2 DEF VerdictsAreSo
  <2>6. TasksAreHome'
    BY <1>a, <2>1, <2>3 DEF TasksAreHome, NoMember
  <2>7. QED
    BY <1>b, <2>1, <2>3, <2>5, <2>6 DEF BotIsTyped
<1>9. ASSUME NEW i, NEW x \in Wares, EditAgent(i, {x})
      PROVE  BotInv'
  <2>1. /\ UNCHANGED <<botOrg, botTask, botJob>> /\ i \in DOMAIN botAgent
        /\ botAgent' = [botAgent EXCEPT ![i].uses = {x}]
    BY <1>9 DEF EditAgent
  <2>2. botAgent' \in [DOMAIN botAgent -> RowRecords]
    BY <1>a, <2>1 DEF RowRecords
  <2>3. /\ botAgent' \in Seq(RowRecords) /\ DOMAIN botAgent' = DOMAIN botAgent
        /\ Len(botAgent') = Len(botAgent)
    BY <2>2, RowsOver DEF BotIsTyped
  <2>4. \A k \in DOMAIN botAgent : /\ botAgent'[k].org = botAgent[k].org
                                   /\ botAgent'[k].found = botAgent[k].found
    BY <1>a, <2>1 DEF RowRecords
  <2>5. Found' = Found
    BY DEF Found
  <2>6. VerdictsAreSo'
    BY <2>3, <2>4, <2>5 DEF VerdictsAreSo
  <2>7. TasksAreHome'
    BY <1>a, <2>1, <2>3, <2>4 DEF TasksAreHome, NoMember
  <2>8. QED
    BY <1>b, <2>1, <2>3, <2>6, <2>7 DEF BotIsTyped
<1>10. QED
  <2>1. ASSUME NEW o \in BotOrgs,
               \/ CreateOrganization(o)
               \/ \E status \in {"active", "paused", "archived"} : UpdateOrganization(o, status)
               \/ \E name \in BotNames, x \in Wares : AddOrgAgent(o, name, {x})
               \/ \E i \in 0..MaxBotAgents : AddOrgTask(o, i)
               \/ \E t \in 1..MaxBotTasks :
                    CompleteOrgTask(o, t) \/ \E i \in 1..MaxBotAgents : AssignOrgTask(o, t, i)
               \/ \E j \in BotJobs : ScheduleOrgTask(o, j) \/ CancelOrgSchedule(o, j)
        PROVE  BotInv'
    BY <1>2, <1>3, <1>5, <1>6, <1>7, <1>8, <2>1
  <2>2. ASSUME NEW j \in BotJobs, KeepReminder(j)
        PROVE  BotInv'
    <3>1. /\ UNCHANGED <<botOrg, botAgent, botTask>>
          /\ botJob' = [botJob EXCEPT ![j] = [row |-> TRUE, entry |-> TRUE]]
      BY <2>2 DEF KeepReminder
    <3>2. botJob' \in [BotJobs -> [row : BOOLEAN, entry : BOOLEAN]]
      BY <3>1 DEF BotIsTyped
    <3>3. QED
      BY <1>b, <1>c, <3>1, <3>2 DEF BotIsTyped
  <2>3. QED
    BY <1>9, <2>1, <2>2

\* The dashboard takes agents or an organization away; wares come and go.
LEMMA DropAndWareSteps ==
  ASSUME BotInv, UNCHANGED botSetUp, botCalls' \in 0..MaxBotCalls,
         \/ \E o \in BotOrgs :
              \/ DropOrg(o)
              \/ \E w \in BotTools, outcome \in {"recorded", "unrecorded", "refused"} :
                   CreateOrgTool(o, w, outcome)
         \/ \E i \in 1..MaxBotAgents : DropAgent(i)
         \/ \E x \in Wares : RemoveWare(x)
  PROVE  BotInv'
<1> USE DEF BotInv
<1>a. /\ DOMAIN botAgent = 1..Len(botAgent) /\ DOMAIN botTask = 1..Len(botTask)
      /\ Len(botAgent) \in Nat /\ Len(botTask) \in Nat
      /\ \A i \in DOMAIN botAgent : botAgent[i] \in RowRecords
      /\ \A t \in DOMAIN botTask : botTask[t] \in BotTaskRows
  BY DEF BotIsTyped
<1>b. ASSUME UNCHANGED <<botShelf, botMissed, botJob>>, botOrg' \in [BotOrgs -> OrgStates],
             NEW gone \in SUBSET DOMAIN botAgent, NEW off \in SUBSET DOMAIN botTask,
             botAgent' = [i \in DOMAIN botAgent |->
                            IF i \in gone THEN [botAgent[i] EXCEPT !.org = NoHome] ELSE botAgent[i]],
             botTask' \in [DOMAIN botTask -> BotTaskRows],
             \A t \in off : botTask'[t].agent = NoMember,
             \A t \in DOMAIN botTask \ off :
               botTask'[t] = botTask[t] /\ botTask[t].agent \notin gone
      PROVE  BotInv'
  <2>1. botAgent' \in [DOMAIN botAgent -> RowRecords]
    BY <1>a, <1>b DEF RowRecords
  <2>2. /\ botAgent' \in Seq(RowRecords) /\ DOMAIN botAgent' = DOMAIN botAgent
        /\ Len(botAgent') = Len(botAgent)
    BY <2>1, RowsOver DEF BotIsTyped
  <2>3. botTask' \in Seq(BotTaskRows) /\ DOMAIN botTask' = DOMAIN botTask
    BY <1>b, RowsOver DEF BotIsTyped
  <2>4. /\ \A i \in gone : botAgent'[i].org = NoHome
        /\ \A i \in DOMAIN botAgent \ gone : botAgent'[i] = botAgent[i]
    BY <1>a, <1>b DEF RowRecords
  <2>5. SetUpsAreKept' /\ RowsAreFiles' /\ Found' = Found
    BY <1>b DEF SetUpsAreKept, IsSound, RowsAreFiles, Found
  <2>6. VerdictsAreSo'
    BY <2>2, <2>4, <2>5 DEF VerdictsAreSo
  <2>7. TasksAreHome'
    <3>1. SUFFICES ASSUME NEW t \in DOMAIN botTask
                   PROVE  /\ botTask'[t].agent \in 0..Len(botAgent)
                          /\ botTask'[t].agent # NoMember =>
                               botAgent'[botTask'[t].agent].org = botTask'[t].org
      BY <2>2, <2>3 DEF TasksAreHome
    <3>2. CASE t \in off
      BY <1>a, <1>b, <3>2 DEF NoMember
    <3>3. CASE t \notin off
      <4>1. botTask'[t] = botTask[t] /\ botTask[t].agent \notin gone
        BY <1>b, <3>3
      <4>2. botTask[t].agent # NoMember => botTask[t].agent \in DOMAIN botAgent \ gone
        BY <1>a, <4>1 DEF TasksAreHome, NoMember
      <4>3. QED
        BY <2>4, <4>1, <4>2 DEF TasksAreHome
    <3>4. QED
      BY <3>2, <3>3
  <2>8. QED
    BY <1>b, <2>2, <2>3, <2>5, <2>6, <2>7 DEF BotIsTyped
<1>1. ASSUME NEW i, DropAgent(i)
      PROVE  BotInv'
  <2> DEFINE off == {t \in DOMAIN botTask : botTask[t].agent = i}
  <2>1. /\ i \in DOMAIN botAgent /\ UNCHANGED <<botOrg, botShelf, botMissed, botJob>>
        /\ botAgent' = [botAgent EXCEPT ![i].org = NoHome]
        /\ botTask' = [t \in DOMAIN botTask |->
                         IF t \in off THEN [botTask[t] EXCEPT !.agent = NoMember] ELSE botTask[t]]
    BY <1>1 DEF DropAgent
  <2>2. botAgent' = [k \in DOMAIN botAgent |->
                       IF k \in {i} THEN [botAgent[k] EXCEPT !.org = NoHome] ELSE botAgent[k]]
    BY <2>1
  <2>3. \A t \in DOMAIN botTask : [botTask[t] EXCEPT !.agent = NoMember] \in BotTaskRows
    BY <1>a DEF BotTaskRows, NoMember
  <2>4. botTask' \in [DOMAIN botTask -> BotTaskRows]
    BY <1>a, <2>1, <2>3
  <2>5. /\ \A t \in off : botTask'[t].agent = NoMember
        /\ \A t \in DOMAIN botTask \ off : botTask'[t] = botTask[t] /\ botTask[t].agent \notin {i}
    BY <1>a, <2>1 DEF BotTaskRows
  <2>6. botOrg' \in [BotOrgs -> OrgStates] /\ off \in SUBSET DOMAIN botTask
    BY <2>1 DEF BotIsTyped
  <2> HIDE DEF off
  <2>7. QED
    BY <1>b, <2>1, <2>2, <2>4, <2>5, <2>6
<1>2. ASSUME NEW o \in BotOrgs, DropOrg(o)
      PROVE  BotInv'
  <2> DEFINE off == {t \in DOMAIN botTask : botTask[t].org = o}
             gone == {i \in DOMAIN botAgent : botAgent[i].org = o}
  <2>1. /\ UNCHANGED <<botShelf, botMissed, botJob>> /\ botOrg' = [botOrg EXCEPT ![o] = "deleted"]
        /\ botAgent' = [i \in DOMAIN botAgent |->
                          IF i \in gone THEN [botAgent[i] EXCEPT !.org = NoHome] ELSE botAgent[i]]
        /\ botTask' = [t \in DOMAIN botTask |->
                         IF t \in off THEN [botTask[t] EXCEPT !.org = NoHome, !.agent = NoMember]
                         ELSE botTask[t]]
    BY <1>2 DEF DropOrg
  <2>2. \A t \in DOMAIN botTask : /\ [botTask[t] EXCEPT !.org = NoHome, !.agent = NoMember] \in BotTaskRows
                                  /\ [botTask[t] EXCEPT !.org = NoHome, !.agent = NoMember].agent = NoMember
    BY <1>a DEF BotTaskRows, NoMember
  <2>3. botTask' \in [DOMAIN botTask -> BotTaskRows]
    BY <1>a, <2>1, <2>2
  <2>4. \A t \in off : botTask'[t].agent = NoMember
    BY <2>1, <2>2
  <2>5. \A t \in DOMAIN botTask \ off : botTask[t].agent \notin gone
    BY <1>a DEF TasksAreHome, NoMember
  <2>6. /\ botOrg' \in [BotOrgs -> OrgStates] /\ off \in SUBSET DOMAIN botTask
        /\ gone \in SUBSET DOMAIN botAgent /\ \A t \in DOMAIN botTask \ off : botTask'[t] = botTask[t]
    BY <2>1 DEF BotIsTyped, OrgStates
  <2> HIDE DEF off, gone
  <2>7. QED
    BY <1>b, <2>1, <2>3, <2>4, <2>5, <2>6
<1>3. ASSUME UNCHANGED <<botOrg, botAgent, botTask, botJob>>, RowsAreFiles',
             botShelf' \in Shelves, botMissed' \in SUBSET Wares,
             botShelf.skills \union botMissed \subseteq (botShelf.skills \union botMissed)',
             botShelf.dirs \union botMissed \subseteq (botShelf.dirs \union botMissed)'
      PROVE  BotInv'
  <2>1. SetUpsAreKept' /\ VerdictsAreSo'
    BY <1>3, NothingIsForgotten
  <2>2. QED
    BY <1>3, <2>1 DEF BotIsTyped, TasksAreHome
<1>4. ASSUME NEW o \in BotOrgs, NEW w \in BotTools, NEW outcome, CreateOrgTool(o, w, outcome)
      PROVE  BotInv'
  <2>1. /\ UNCHANGED <<botOrg, botAgent, botTask, botJob, botMissed>>
        /\ botShelf' = Generated(botShelf, w, outcome)
    BY <1>4 DEF CreateOrgTool
  <2>2. /\ botShelf' \in Shelves /\ botShelf'.skills = botShelf.skills
        /\ botShelf.dirs \subseteq botShelf'.dirs
        /\ botShelf'.rows \subseteq botShelf'.dirs \union botMissed
    BY <2>1 DEF BotIsTyped, Shelves, Generated, RowsAreFiles
  <2>3. QED
    BY <1>3, <2>1, <2>2 DEF RowsAreFiles, BotIsTyped
<1>5. ASSUME NEW x \in Wares, RemoveWare(x)
      PROVE  BotInv'
  <2>1. /\ UNCHANGED <<botOrg, botAgent, botTask, botJob>> /\ botMissed' = botMissed \union {x}
        /\ botShelf' = [skills |-> botShelf.skills \ {x}, dirs |-> botShelf.dirs \ {x},
                        rows |-> botShelf.rows \ {x}]
    BY <1>5 DEF RemoveWare
  <2>2. botShelf' \in Shelves /\ botMissed' \in SUBSET Wares
    BY <2>1 DEF BotIsTyped, Shelves
  <2>3. RowsAreFiles'
    BY <2>1 DEF RowsAreFiles
  <2>4. QED
    BY <1>3, <2>1, <2>2, <2>3
<1>6. QED
  BY <1>1, <1>2, <1>4, <1>5

\* A set-up that has not begun has found nothing and added nobody.
LEMMA FreshSetUps ==
  /\ NotBegun \in SetUpRecords /\ [NotBegun EXCEPT !.at = "over"] \in SetUpRecords
  /\ \A p \in BotPlans, o \in BotOrgs :
       [NotBegun EXCEPT !.at = "agents", !.plan = p, !.org = o] \in SetUpRecords
  /\ \A w : w.told = {} /\ w.known = {} /\ w.crew = <<>> => IsSound(w)
<1>1. (CHOOSE p \in BotPlans : TRUE) \in BotPlans
  BY BotPlansAreTyped
<1>2. <<>> \in Gifts
  <2>1. <<>> \in [{} -> SUBSET Wares]
    OBVIOUS
  <2>2. {} \in SUBSET Nat
    OBVIOUS
  <2>3. QED
    BY <2>1, <2>2 DEF Gifts
<1>3. <<>> \in Seq(RowRecords) /\ DOMAIN <<>> = {}
  OBVIOUS
<1>4. NotBegun \in SetUpRecords
  BY <1>1, <1>2, <1>3 DEF NotBegun, SetUpRecords
<1>5. [NotBegun EXCEPT !.at = "over"] \in SetUpRecords
  BY <1>4 DEF SetUpRecords
<1>6. \A p \in BotPlans, o \in BotOrgs :
        [NotBegun EXCEPT !.at = "agents", !.plan = p, !.org = o] \in SetUpRecords
  BY <1>4 DEF SetUpRecords
<1>7. \A w : w.told = {} /\ w.known = {} /\ w.crew = <<>> => IsSound(w)
  BY <1>3 DEF IsSound
<1>8. QED
  BY <1>4, <1>5, <1>6, <1>7

\* The agent a set-up finds to use again is one of those there are.
LEMMA HiresAreTyped ==
  ASSUME NEW rows \in Seq(RowRecords), NEW o \in BotOrgs \union {NoHome},
         NEW a \in [name : BotNames, uses : SUBSET Wares]
  PROVE  /\ Hired(rows, o, a) \in RowRecords
         /\ Hired(rows, o, a).org = o /\ Hired(rows, o, a).found = {}
<1>1. /\ DOMAIN rows \subseteq Nat /\ \A i \in DOMAIN rows : rows[i] \in RowRecords
  OBVIOUS
<1>2. CASE Similar(rows, a.name) = {}
  BY <1>2 DEF Hired, NewAgent, RowRecords
<1>3. CASE Similar(rows, a.name) # {}
  <2> DEFINE same == {i \in Similar(rows, a.name) : rows[i].name = a.name}
             all == IF same # {} THEN same ELSE Similar(rows, a.name)
  <2>1. Best(rows, a.name) = First(all)
    BY DEF Best
  <2>2. all \subseteq Similar(rows, a.name) /\ all # {}
    BY <1>3
  <2>3. Similar(rows, a.name) \subseteq DOMAIN rows
    BY DEF Similar
  <2> HIDE DEF all
  <2>4. all \subseteq Nat
    BY <1>1, <2>2, <2>3
  <2>5. \E i \in all : \A k \in all : i <= k
    BY <2>2, <2>4, LeastNumber
  <2>6. First(all) \in all
    BY <2>5 DEF First
  <2>7. rows[Best(rows, a.name)] \in RowRecords
    BY <1>1, <2>1, <2>2, <2>3, <2>6
  <2>8. Hired(rows, o, a) = NewAgent(o, rows[Best(rows, a.name)].name,
                                     rows[Best(rows, a.name)].uses \union a.uses)
    BY <1>3 DEF Hired
  <2>9. QED
    BY <2>7, <2>8 DEF NewAgent, RowRecords
<1>4. QED
  BY <1>2, <1>3

\* A set-up takes a step that leaves the rows alone.
LEMMA SetUpAlone ==
  ASSUME BotInv, UNCHANGED <<botOrg, botAgent, botTask, botJob, botCalls>>,
         botShelf' \in Shelves, botMissed' \in SUBSET Wares, RowsAreFiles',
         botShelf.skills \union botMissed \subseteq (botShelf.skills \union botMissed)',
         botShelf.dirs \union botMissed \subseteq (botShelf.dirs \union botMissed)',
         NEW s \in SetUps, NEW w \in SetUpRecords, IsSound(w)',
         botSetUp' = [botSetUp EXCEPT ![s] = w]
  PROVE  BotInv'
<1>1. (\A u : IsSound(u) => IsSound(u)') /\ VerdictsAreSo'
  BY NothingIsForgotten DEF BotInv
<1>2. SetUpsAreKept'
  <2>1. ASSUME NEW r \in SetUps
        PROVE  IsSound(botSetUp[r])'
    <3>1. CASE r = s
      <4>1. botSetUp'[r] = w
        BY <3>1 DEF BotInv, BotIsTyped
      <4>2. QED
        BY <4>1 DEF IsSound
    <3>2. CASE r # s
      <4>1. botSetUp'[r] = botSetUp[r] /\ IsSound(botSetUp[r])
        BY <3>2 DEF BotInv, BotIsTyped, SetUpsAreKept
      <4>2. QED
        BY <1>1, <4>1 DEF IsSound
    <3>3. QED
      BY <3>1, <3>2
  <2>2. QED
    BY <2>1 DEF SetUpsAreKept
<1>3. BotIsTyped' /\ TasksAreHome'
  BY DEF BotInv, BotIsTyped, TasksAreHome
<1>4. QED
  BY <1>1, <1>2, <1>3 DEF BotInv

\* Nothing but the set-up moves.
LEMMA OnlyTheSetUp ==
  ASSUME BotInv, UNCHANGED <<botOrg, botAgent, botTask, botJob, botCalls, botShelf, botMissed>>,
         NEW s \in SetUps, NEW w \in SetUpRecords, IsSound(w),
         botSetUp' = [botSetUp EXCEPT ![s] = w]
  PROVE  BotInv'
<1>1. IsSound(w)' /\ RowsAreFiles'
  BY DEF IsSound, Found, RowsAreFiles, BotInv
<1>2. botShelf' \in Shelves /\ botMissed' \in SUBSET Wares
  BY DEF BotInv, BotIsTyped
<1>3. QED
  BY <1>1, <1>2, SetUpAlone

\* A set-up begins, hires, goes over an empty stage, looks around, or is cut off.
LEMMA SetUpMoves ==
  ASSUME BotInv, UNCHANGED botCalls, NEW s \in SetUps,
         \/ \E p \in BotPlans, o \in BotOrgs : SetUpBegins(s, p, o)
         \/ HireNext(s) \/ SkipStage(s) \/ LookAround(s) \/ SetUpCut(s)
  PROVE  BotInv'
<1> DEFINE u == botSetUp[s]
<1>a. u \in SetUpRecords /\ IsSound(u) /\ botAgent \in Seq(RowRecords)
  BY DEF BotInv, BotIsTyped, SetUpsAreKept
<1> HIDE DEF u
<1>1. ASSUME NEW p \in BotPlans, NEW o \in BotOrgs, SetUpBegins(s, p, o)
      PROVE  BotInv'
  <2> DEFINE w == [NotBegun EXCEPT !.at = "agents", !.plan = p, !.org = o]
  <2>1. /\ UNCHANGED <<botOrg, botAgent, botTask, botJob, botShelf, botMissed>>
        /\ botSetUp' = [botSetUp EXCEPT ![s] = w]
    BY <1>1 DEF SetUpBegins
  <2>2. w \in SetUpRecords /\ w.told = {} /\ w.known = {} /\ w.crew = <<>>
    BY FreshSetUps DEF NotBegun
  <2> HIDE DEF w
  <2>3. QED
    BY <2>1, <2>2, FreshSetUps, OnlyTheSetUp
<1>2. CASE HireNext(s)
  <2> DEFINE a == u.plan.agents[Len(u.crew) + 1]
             h == Hired(Seen(s), u.org, a)
             w == [u EXCEPT !.crew = Append(@, h)]
  <2>1. /\ UNCHANGED <<botOrg, botAgent, botTask, botJob, botShelf, botMissed>>
        /\ botSetUp' = [botSetUp EXCEPT ![s].crew = Append(@, h)]
        /\ Len(u.crew) < Len(u.plan.agents)
    BY <1>2 DEF HireNext, u
  <2>2. /\ u.crew \in Seq(RowRecords) /\ u.org \in BotOrgs \union {NoHome}
        /\ u.plan.agents \in Seq([name : BotNames, uses : SUBSET Wares])
    BY <1>a, BotPlansAreTyped DEF SetUpRecords
  <2>3. Seen(s) \in Seq(RowRecords)
    BY <1>a, <2>2, ConcatProperties DEF Seen, u
  <2>4. a \in [name : BotNames, uses : SUBSET Wares]
    <3>1. Len(u.crew) \in Nat /\ Len(u.plan.agents) \in Nat
      BY <2>2, LenProperties
    <3>2. Len(u.crew) + 1 \in 1..Len(u.plan.agents)
      BY <2>1, <3>1
    <3>3. QED
      BY <2>2, <3>2, ElementOfSeq
  <2> HIDE DEF a
  <2>5. h \in RowRecords /\ h.org = u.org /\ h.found = {}
    <3>1. PICK rows, o, b : rows = Seen(s) /\ o = u.org /\ b = a
      OBVIOUS
    <3>2. /\ rows \in Seq(RowRecords) /\ o \in BotOrgs \union {NoHome}
          /\ b \in [name : BotNames, uses : SUBSET Wares] /\ h = Hired(rows, o, b)
      BY <2>2, <2>3, <2>4, <3>1
    <3>3. QED
      BY <3>1, <3>2, HiresAreTyped
  <2> HIDE DEF h
  <2>6. /\ Append(u.crew, h) \in Seq(RowRecords)
        /\ \A k \in DOMAIN Append(u.crew, h) :
             Append(u.crew, h)[k] = h \/ (k \in DOMAIN u.crew /\ Append(u.crew, h)[k] = u.crew[k])
    BY <2>2, <2>5
  <2>7. /\ w \in SetUpRecords /\ w.crew = Append(u.crew, h) /\ w.org = u.org
        /\ w.told = u.told /\ w.known = u.known
    BY <1>a, <2>6 DEF SetUpRecords
  <2>8. botSetUp' = [botSetUp EXCEPT ![s] = w]
    BY <2>1 DEF u
  <2> HIDE DEF w
  <2>9. IsSound(w)
    BY <1>a, <2>5, <2>6, <2>7 DEF IsSound
  <2>10. QED
    BY <2>1, <2>7, <2>8, <2>9, OnlyTheSetUp
<1>3. CASE SkipStage(s)
  <2>1. /\ UNCHANGED <<botOrg, botAgent, botTask, botJob, botShelf, botMissed>>
        /\ \E at \in {"skills", "look"} : botSetUp' = [botSetUp EXCEPT ![s].at = at]
    BY <1>3 DEF SkipStage
  <2>2. PICK at \in {"skills", "look"} : botSetUp' = [botSetUp EXCEPT ![s] = [u EXCEPT !.at = at]]
    BY <2>1 DEF u
  <2>3. [u EXCEPT !.at = at] \in SetUpRecords /\ IsSound([u EXCEPT !.at = at])
    BY <1>a DEF SetUpRecords, IsSound
  <2>4. QED
    BY <2>1, <2>2, <2>3, OnlyTheSetUp
<1>4. CASE LookAround(s)
  <2> DEFINE w == [u EXCEPT !.known = KnownWares(s), !.at = "write"]
  <2>1. /\ UNCHANGED <<botOrg, botAgent, botTask, botJob, botShelf, botMissed>>
        /\ botSetUp' = [botSetUp EXCEPT ![s] = w]
    BY <1>4 DEF LookAround, u
  <2>2. KnownWares(s) \subseteq Found
    BY <1>a DEF KnownWares, u, Found, IsSound, BotInv, RowsAreFiles
  <2>3. KnownWares(s) \subseteq Wares
    BY <1>a, ReservedAreSkills DEF KnownWares, u, SetUpRecords, BotInv, BotIsTyped, Shelves, Wares
  <2>4. /\ w \in SetUpRecords /\ w.known = KnownWares(s) /\ w.told = u.told
        /\ w.crew = u.crew /\ w.org = u.org
    BY <1>a, <2>3 DEF SetUpRecords
  <2> HIDE DEF w
  <2>5. IsSound(w)
    BY <1>a, <2>2, <2>4 DEF IsSound
  <2>6. QED
    BY <2>1, <2>4, <2>5, OnlyTheSetUp
<1>5. CASE SetUpCut(s)
  <2> DEFINE w == [NotBegun EXCEPT !.at = "over"]
  <2>1. /\ UNCHANGED <<botOrg, botAgent, botTask, botJob, botShelf, botMissed>>
        /\ botSetUp' = [botSetUp EXCEPT ![s] = w]
    BY <1>5 DEF SetUpCut
  <2>2. w \in SetUpRecords /\ w.told = {} /\ w.known = {} /\ w.crew = <<>>
    BY FreshSetUps DEF NotBegun
  <2> HIDE DEF w
  <2>3. QED
    BY <2>1, <2>2, FreshSetUps, OnlyTheSetUp
<1>6. QED
  BY <1>1, <1>2, <1>3, <1>4, <1>5

\* The next of the tools or of the skills.
LEMMA StagesAdvance ==
  ASSUME NEW s \in SetUps, botSetUp[s] \in SetUpRecords, NEW of, NEW then \in {"skills", "look"}
  PROVE  /\ Advanced(s, of, then) \in SetUpRecords
         /\ Advanced(s, of, then).told = botSetUp[s].told
         /\ Advanced(s, of, then).known = botSetUp[s].known
         /\ Advanced(s, of, then).crew = botSetUp[s].crew
         /\ Advanced(s, of, then).org = botSetUp[s].org
<1>1. CASE botSetUp[s].next < Len(of)
  BY <1>1 DEF Advanced, SetUpRecords
<1>2. CASE ~ (botSetUp[s].next < Len(of))
  BY <1>2 DEF Advanced, SetUpRecords
<1>3. QED
  BY <1>1, <1>2

\* A set-up makes its tools and its skills.
LEMMA SetUpMakes ==
  ASSUME BotInv, UNCHANGED botCalls, NEW s \in SetUps,
         \/ \E outcome \in {"recorded", "unrecorded", "refused"} : SetUpTool(s, outcome)
         \/ \E written \in BOOLEAN : SetUpSkill(s, written)
  PROVE  BotInv'
<1> DEFINE u == botSetUp[s]
<1>a. /\ u \in SetUpRecords /\ IsSound(u) /\ botShelf \in Shelves
      /\ botMissed \in SUBSET Wares /\ RowsAreFiles
  BY DEF BotInv, BotIsTyped, SetUpsAreKept
<1>b. u.plan.tools \in Seq(BotTools) /\ u.plan.skills \in Seq(BotSkills)
  BY <1>a, BotPlansAreTyped DEF SetUpRecords
<1> HIDE DEF u
<1>1. ASSUME NEW outcome, SetUpTool(s, outcome)
      PROVE  BotInv'
  <2> DEFINE t == u.plan.tools[u.next]
  <2>0. PICK w : w = Advanced(s, u.plan.tools, "skills")
    OBVIOUS
  <2>1. /\ UNCHANGED <<botOrg, botAgent, botTask, botJob, botMissed>>
        /\ botShelf' = botShelf \/ botShelf' = Generated(botShelf, t, outcome)
        /\ botSetUp' = [botSetUp EXCEPT ![s] = w] /\ u.next \in DOMAIN u.plan.tools
    BY <1>1, <2>0 DEF SetUpTool, Current, u
  <2>2. t \in BotTools
    BY <1>b, <2>1
  <2>3. /\ w \in SetUpRecords /\ w.told = u.told /\ w.known = u.known
        /\ w.crew = u.crew /\ w.org = u.org
    BY <1>a, <2>0, StagesAdvance DEF u
  <2> HIDE DEF t
  <2>4. /\ botShelf' \in Shelves /\ botShelf'.skills = botShelf.skills
        /\ botShelf.dirs \subseteq botShelf'.dirs
        /\ botShelf'.rows \subseteq botShelf'.dirs \union botMissed
    <3>1. CASE botShelf' = botShelf
      BY <1>a, <3>1 DEF Shelves, RowsAreFiles
    <3>2. CASE botShelf' = Generated(botShelf, t, outcome)
      BY <1>a, <2>2, <3>2 DEF Shelves, Generated, RowsAreFiles
    <3>3. QED
      BY <2>1, <3>1, <3>2
  <2>5. IsSound(w)'
    BY <1>a, <2>1, <2>3, <2>4 DEF IsSound, Found
  <2>6. /\ RowsAreFiles' /\ botMissed' \in SUBSET Wares
        /\ botShelf.skills \union botMissed \subseteq (botShelf.skills \union botMissed)'
        /\ botShelf.dirs \union botMissed \subseteq (botShelf.dirs \union botMissed)'
    BY <1>a, <2>1, <2>4 DEF RowsAreFiles
  <2>7. QED
    BY <2>1, <2>3, <2>4, <2>5, <2>6, SetUpAlone
<1>2. ASSUME NEW written \in BOOLEAN, SetUpSkill(s, written)
      PROVE  BotInv'
  <2> DEFINE k     == u.plan.skills[u.next]
             next  == Advanced(s, u.plan.skills, "look")
             alike == \E f \in botShelf.skills : Near(f, k)
  <2>0. PICK w : w = IF k \notin Reserved /\ (alike \/ written)
                     THEN [next EXCEPT !.told = @ \union {k}] ELSE next
    OBVIOUS
  <2>1. /\ UNCHANGED <<botOrg, botAgent, botTask, botJob>> /\ u.next \in DOMAIN u.plan.skills
        /\ botSetUp' = [botSetUp EXCEPT ![s] = w]
        /\ botShelf' = IF k \notin Reserved /\ ~alike /\ written
                       THEN [botShelf EXCEPT !.skills = @ \union {k}] ELSE botShelf
        /\ botMissed' = IF k \notin Reserved /\ alike /\ k \notin botShelf.skills
                        THEN botMissed \union {k} ELSE botMissed
    BY <1>2, <2>0 DEF SetUpSkill, Current, u
  <2>2. k \in BotSkills /\ k \in Wares
    BY <1>b, <2>1 DEF Wares
  <2>3. /\ next \in SetUpRecords /\ next.told = u.told /\ next.known = u.known
        /\ next.crew = u.crew /\ next.org = u.org
    BY <1>a, StagesAdvance DEF u
  <2> HIDE DEF k, next, alike
  <2>4. /\ w \in SetUpRecords /\ w.known = u.known /\ w.crew = u.crew /\ w.org = u.org
        /\ w.told = IF k \notin Reserved /\ (alike \/ written) THEN u.told \union {k} ELSE u.told
    BY <2>0, <2>2, <2>3 DEF SetUpRecords
  <2>5. /\ botShelf' \in Shelves /\ botShelf'.dirs = botShelf.dirs /\ botShelf'.rows = botShelf.rows
        /\ botShelf.skills \subseteq botShelf'.skills
        /\ botMissed \subseteq botMissed' /\ botMissed' \in SUBSET Wares
    BY <1>a, <2>1, <2>2 DEF Shelves
  <2>6. w.told \subseteq botShelf'.skills \union botMissed'
    <3>1. u.told \subseteq botShelf.skills \union botMissed
      BY <1>a DEF IsSound
    <3>2. k \notin Reserved /\ (alike \/ written) => k \in botShelf'.skills \union botMissed'
      BY <1>a, <2>1 DEF Shelves
    <3>3. QED
      BY <2>4, <2>5, <3>1, <3>2
  <2>7. IsSound(w)'
    BY <1>a, <2>4, <2>5, <2>6 DEF IsSound, Found
  <2>8. RowsAreFiles'
    BY <1>a, <2>5 DEF RowsAreFiles
  <2>9. /\ botShelf.skills \union botMissed \subseteq (botShelf.skills \union botMissed)'
        /\ botShelf.dirs \union botMissed \subseteq (botShelf.dirs \union botMissed)'
    BY <2>5
  <2>10. QED
    BY <2>1, <2>4, <2>5, <2>7, <2>8, <2>9, SetUpAlone
<1>3. QED
  BY <1>1, <1>2

\* A task that a set-up gives to one of these agents is in the agent's organization.
IsHired(task, rows, o) ==
  /\ task.org = o
  /\ task.agent = NoMember \/ (task.agent \in DOMAIN rows /\ rows[task.agent].org = o)

\* Of a set-up's agents, one of each name is in the team; a task's name finds one of
\* them or nobody.
LEMMA TeamsAreHome ==
  ASSUME NEW rows \in Seq(RowRecords), NEW old \in Nat, NEW name
  PROVE  /\ Team(rows, old) \subseteq DOMAIN rows /\ Team(rows, old) \subseteq Nat
         /\ \A i \in Team(rows, old) : i > old
         /\ \/ Named(rows, Team(rows, old), name) = NoMember
            \/ Named(rows, Team(rows, old), name) \in Team(rows, old)
<1>1. DOMAIN rows \subseteq Nat
  OBVIOUS
<1>2. /\ Team(rows, old) \subseteq DOMAIN rows /\ \A i \in Team(rows, old) : i > old
  BY DEF Team
<1>3. \/ Named(rows, Team(rows, old), name) = NoMember
      \/ Named(rows, Team(rows, old), name) \in Team(rows, old)
  BY DEF Named
<1>4. QED
  BY <1>1, <1>2, <1>3

\* The organization, its agents and its tasks are committed.
LEMMA SetUpRowsCommit ==
  ASSUME BotInv, UNCHANGED botCalls, NEW s \in SetUps, SetUpCommits(s)
  PROVE  BotInv'
<1> DEFINE u == botSetUp[s]
<1>a. /\ u \in SetUpRecords /\ IsSound(u) /\ botAgent \in Seq(RowRecords)
      /\ botTask \in Seq(BotTaskRows) /\ botOrg \in [BotOrgs -> OrgStates]
  BY DEF BotInv, BotIsTyped, SetUpsAreKept
<1>b. PICK rows, team, old, hires :
        /\ rows = Seen(s) /\ old = Len(botAgent) /\ team = Team(rows, old)
        /\ hires = [k \in DOMAIN u.plan.tasks |->
                      NewTask(u.org, Named(rows, team, u.plan.tasks[k]))]
  OBVIOUS
<1>1. /\ UNCHANGED <<botShelf, botJob, botMissed>> /\ botAgent' = rows /\ botTask' = botTask \o hires
      /\ botSetUp' = [botSetUp EXCEPT ![s].at = "tools", ![s].crew = <<>>,
                                      ![s].given = [i \in team |-> rows[i].uses]]
      /\ botOrg' = [botOrg EXCEPT ![u.org] = IF @ = "absent" THEN "active" ELSE @]
  BY <1>b DEF SetUpCommits
<1> HIDE DEF u
<1>2. /\ u.crew \in Seq(RowRecords) /\ u.org \in BotOrgs \union {NoHome}
      /\ u.plan.tasks \in Seq(BotNames)
  BY <1>a, BotPlansAreTyped DEF SetUpRecords
<1>3. /\ old \in Nat /\ Len(u.crew) \in Nat /\ DOMAIN botAgent = 1..old
      /\ DOMAIN u.crew = 1..Len(u.crew)
      /\ Len(botTask) \in Nat /\ DOMAIN botTask = 1..Len(botTask)
      /\ \A t \in DOMAIN botTask : botTask[t] \in BotTaskRows
  BY <1>a, <1>b, <1>2, LenProperties
<1>4. /\ rows \in Seq(RowRecords) /\ Len(rows) = old + Len(u.crew)
      /\ \A i \in 1..old + Len(u.crew) :
           rows[i] = IF i <= old THEN botAgent[i] ELSE u.crew[i - old]
  BY <1>a, <1>b, <1>2, ConcatProperties DEF Seen, u
<1>5. /\ DOMAIN rows = 1..old + Len(u.crew)
      /\ \A i \in 1..old : i \in DOMAIN rows /\ rows[i] = botAgent[i]
      /\ \A i \in DOMAIN rows : i > old => rows[i].org = u.org /\ rows[i].found = {}
      /\ \A i \in DOMAIN rows : rows[i] \in RowRecords
  <2>1. DOMAIN rows = 1..old + Len(u.crew) /\ \A i \in DOMAIN rows : rows[i] \in RowRecords
    BY <1>4, LenProperties
  <2>2. \A i \in 1..old : i \in DOMAIN rows /\ rows[i] = botAgent[i]
    BY <1>3, <1>4, <2>1
  <2>3. ASSUME NEW i \in DOMAIN rows, i > old
        PROVE  rows[i].org = u.org /\ rows[i].found = {}
    <3>1. i - old \in DOMAIN u.crew /\ rows[i] = u.crew[i - old]
      BY <1>3, <1>4, <2>1, <2>3
    <3>2. QED
      BY <1>a, <3>1 DEF IsSound
  <2>4. QED
    BY <2>1, <2>2, <2>3
<1>6. /\ team \subseteq DOMAIN rows /\ team \subseteq Nat /\ \A i \in team : i > old
      /\ \A name : Named(rows, team, name) = NoMember \/ Named(rows, team, name) \in team
  BY <1>b, <1>3, <1>4, TeamsAreHome
<1>7. hires \in Seq(BotTaskRows) /\ \A k \in DOMAIN hires : IsHired(hires[k], rows, u.org)
  <2>1. ASSUME NEW k \in DOMAIN u.plan.tasks
        PROVE  /\ NewTask(u.org, Named(rows, team, u.plan.tasks[k])) \in BotTaskRows
               /\ IsHired(NewTask(u.org, Named(rows, team, u.plan.tasks[k])), rows, u.org)
    <3>1. PICK i : i = Named(rows, team, u.plan.tasks[k])
      OBVIOUS
    <3>2. i = NoMember \/ (i \in DOMAIN rows /\ i \in Nat /\ rows[i].org = u.org)
      BY <1>5, <1>6, <3>1
    <3>3. i \in Nat
      BY <3>2 DEF NoMember
    <3>4. /\ NewTask(u.org, i) \in BotTaskRows /\ NewTask(u.org, i).agent = i
          /\ NewTask(u.org, i).org = u.org
      BY <1>2, <3>3 DEF NewTask, BotTaskRows
    <3>5. QED
      BY <3>1, <3>2, <3>4 DEF IsHired
  <2>2. hires \in [DOMAIN u.plan.tasks -> BotTaskRows]
    BY <1>b, <2>1
  <2>3. hires \in Seq(BotTaskRows) /\ DOMAIN hires = DOMAIN u.plan.tasks
    BY <1>2, <2>2, RowsOver
  <2>4. QED
    BY <1>b, <2>1, <2>3
<1>8. /\ botTask' \in Seq(BotTaskRows)
      /\ \A t \in DOMAIN botTask' : \/ t \in DOMAIN botTask /\ botTask'[t] = botTask[t]
                                    \/ IsHired(botTask'[t], rows, u.org)
  <2>1. PICK n \in Nat : n = Len(hires) /\ DOMAIN hires = 1..n
    BY <1>7, LenProperties
  <2>2. /\ botTask' \in Seq(BotTaskRows) /\ Len(botTask') = Len(botTask) + n
        /\ \A t \in 1..Len(botTask) + n :
             botTask'[t] = IF t <= Len(botTask) THEN botTask[t] ELSE hires[t - Len(botTask)]
    BY <1>a, <1>1, <1>7, <2>1, ConcatProperties
  <2>3. DOMAIN botTask' = 1..Len(botTask) + n
    BY <2>2, LenProperties
  <2>4. ASSUME NEW t \in DOMAIN botTask', t > Len(botTask)
        PROVE  IsHired(botTask'[t], rows, u.org)
    <3>1. t - Len(botTask) \in DOMAIN hires /\ botTask'[t] = hires[t - Len(botTask)]
      BY <1>3, <2>1, <2>2, <2>3, <2>4
    <3>2. QED
      BY <1>7, <3>1
  <2>5. ASSUME NEW t \in DOMAIN botTask', t <= Len(botTask)
        PROVE  t \in DOMAIN botTask /\ botTask'[t] = botTask[t]
    BY <1>3, <2>2, <2>3, <2>5
  <2>6. \A t \in DOMAIN botTask' : t > Len(botTask) \/ t <= Len(botTask)
    BY <1>3, <2>3
  <2>7. QED
    BY <2>2, <2>4, <2>5, <2>6
<1>9. TasksAreHome'
  <2>1. SUFFICES ASSUME NEW t \in DOMAIN botTask'
                 PROVE  /\ botTask'[t].agent \in 0..Len(rows)
                        /\ botTask'[t].agent # NoMember =>
                             rows[botTask'[t].agent].org = botTask'[t].org
    BY <1>1 DEF TasksAreHome
  <2>2. CASE t \in DOMAIN botTask /\ botTask'[t] = botTask[t]
    <3>1. /\ botTask[t].agent \in 0..old
          /\ botTask[t].agent # NoMember => botAgent[botTask[t].agent].org = botTask[t].org
      BY <1>b, <2>2 DEF BotInv, TasksAreHome
    <3>2. QED
      BY <1>3, <1>4, <1>5, <2>2, <3>1 DEF NoMember
  <2>3. CASE IsHired(botTask'[t], rows, u.org)
    BY <1>3, <1>4, <1>5, <2>3 DEF IsHired, NoMember
  <2>4. QED
    BY <1>8, <2>2, <2>3
<1>10. Found' = Found /\ RowsAreFiles'
  BY <1>1 DEF Found, RowsAreFiles, BotInv
<1>11. VerdictsAreSo'
  <2>1. SUFFICES ASSUME NEW i \in DOMAIN rows, rows[i].org # NoHome
                 PROVE  rows[i].found \subseteq Found
    BY <1>1, <1>10 DEF VerdictsAreSo
  <2>2. CASE i <= old
    <3>1. i \in DOMAIN botAgent /\ rows[i] = botAgent[i]
      BY <1>3, <1>5, <2>2
    <3>2. QED
      BY <2>1, <3>1 DEF VerdictsAreSo, BotInv
  <2>3. CASE i > old
    BY <1>5, <2>3
  <2>4. i <= old \/ i > old
    BY <1>3, <1>5
  <2>5. QED
    BY <2>2, <2>3, <2>4
<1>12. PICK w : /\ w = [u EXCEPT !.at = "tools", !.crew = <<>>,
                                 !.given = [i \in team |-> rows[i].uses]]
                /\ botSetUp' = [botSetUp EXCEPT ![s] = w]
  BY <1>1 DEF u
<1>13. w \in SetUpRecords /\ w.told = u.told /\ w.known = u.known /\ w.crew = <<>>
  <2>1. [i \in team |-> rows[i].uses] \in Gifts
    <3>1. [i \in team |-> rows[i].uses] \in [team -> SUBSET Wares]
      BY <1>5, <1>6 DEF RowRecords
    <3>2. QED
      BY <1>6, <3>1 DEF Gifts
  <2>2. <<>> \in Seq(RowRecords)
    OBVIOUS
  <2>3. QED
    BY <1>a, <1>12, <2>1, <2>2 DEF SetUpRecords
<1>14. SetUpsAreKept'
  <2>1. ASSUME NEW r \in SetUps
        PROVE  IsSound(botSetUp[r])'
    <3>1. CASE r = s
      <4>1. botSetUp'[r] = w /\ DOMAIN <<>> = {}
        BY <1>12, <3>1 DEF BotInv, BotIsTyped
      <4>2. QED
        BY <1>a, <1>1, <1>10, <1>13, <4>1 DEF IsSound
    <3>2. CASE r # s
      <4>1. botSetUp'[r] = botSetUp[r] /\ IsSound(botSetUp[r])
        BY <1>12, <3>2 DEF BotInv, BotIsTyped, SetUpsAreKept
      <4>2. QED
        BY <1>1, <1>10, <4>1 DEF IsSound
    <3>3. QED
      BY <3>1, <3>2
  <2>2. QED
    BY <2>1 DEF SetUpsAreKept
<1>15. botOrg' \in [BotOrgs -> OrgStates]
  BY <1>a, <1>1 DEF OrgStates
<1>16. BotIsTyped'
  <2>1. botSetUp' \in [SetUps -> SetUpRecords]
    BY <1>12, <1>13 DEF BotIsTyped, BotInv
  <2>2. /\ botAgent' \in Seq(RowRecords) /\ botTask' \in Seq(BotTaskRows)
        /\ UNCHANGED <<botShelf, botJob, botMissed, botCalls>>
    BY <1>1, <1>4, <1>8
  <2>3. QED
    BY <1>15, <2>1, <2>2 DEF BotIsTyped, BotInv
<1>17. QED
  BY <1>9, <1>10, <1>11, <1>14, <1>16 DEF BotInv

\* The verdicts are written.
LEMMA VerdictsWritten ==
  ASSUME BotInv, UNCHANGED botCalls, NEW s \in SetUps, WriteVerdicts(s)
  PROVE  BotInv'
<1> DEFINE u == botSetUp[s]
<1>a. /\ u \in SetUpRecords /\ IsSound(u) /\ botAgent \in Seq(RowRecords)
      /\ \A i \in DOMAIN botAgent : botAgent[i] \in RowRecords
  BY DEF BotInv, BotIsTyped, SetUpsAreKept
<1>b. PICK given, mine : given = u.given /\ mine = DOMAIN given
  OBVIOUS
<1>c. PICK w : w = [NotBegun EXCEPT !.at = "over"]
  OBVIOUS
<1>1. /\ UNCHANGED <<botOrg, botTask, botShelf, botJob, botMissed>>
      /\ botSetUp' = [botSetUp EXCEPT ![s] = w]
      /\ \/ UNCHANGED botAgent
         \/ botAgent' = [i \in DOMAIN botAgent |->
                           IF i \in mine
                           THEN [botAgent[i] EXCEPT !.uses = given[i],
                                                    !.found = given[i] \intersect u.known]
                           ELSE botAgent[i]]
  BY <1>b, <1>c DEF WriteVerdicts
<1> HIDE DEF u
<1>2. \A i \in mine : given[i] \subseteq Wares
  <2>1. PICK D \in SUBSET Nat : given \in [D -> SUBSET Wares]
    BY <1>a, <1>b DEF SetUpRecords, Gifts
  <2>2. QED
    BY <1>b, <2>1
<1>3. u.known \subseteq Found
  BY <1>a DEF IsSound
<1>4. /\ w \in SetUpRecords /\ IsSound(w) /\ w.told = {} /\ w.known = {} /\ w.crew = <<>>
  BY <1>c, FreshSetUps DEF NotBegun
<1>5. CASE UNCHANGED botAgent
  BY <1>1, <1>4, <1>5, OnlyTheSetUp
<1>6. CASE botAgent' = [i \in DOMAIN botAgent |->
                          IF i \in mine
                          THEN [botAgent[i] EXCEPT !.uses = given[i],
                                                   !.found = given[i] \intersect u.known]
                          ELSE botAgent[i]]
  <2>1. ASSUME NEW i \in DOMAIN botAgent
        PROVE  /\ botAgent'[i] \in RowRecords /\ botAgent'[i].org = botAgent[i].org
               /\ botAgent'[i].found \subseteq botAgent[i].found \union u.known
    <3>1. CASE i \in mine
      <4>1. botAgent'[i] = [botAgent[i] EXCEPT !.uses = given[i],
                                               !.found = given[i] \intersect u.known]
        BY <1>6, <3>1
      <4>2. given[i] \subseteq Wares /\ botAgent[i] \in RowRecords
        BY <1>a, <1>2, <3>1
      <4>3. QED
        BY <4>1, <4>2 DEF RowRecords
    <3>2. CASE i \notin mine
      BY <1>6, <1>a, <3>2
    <3>3. QED
      BY <3>1, <3>2
  <2>2. botAgent' \in [DOMAIN botAgent -> RowRecords]
    BY <1>6, <2>1
  <2>3. /\ botAgent' \in Seq(RowRecords) /\ DOMAIN botAgent' = DOMAIN botAgent
        /\ Len(botAgent') = Len(botAgent) /\ DOMAIN botAgent = 1..Len(botAgent)
        /\ Len(botAgent) \in Nat
    BY <1>a, <2>2, RowsOver, LenProperties
  <2>4. Found' = Found /\ RowsAreFiles'
    BY <1>1 DEF Found, RowsAreFiles, BotInv
  <2>5. VerdictsAreSo'
    <3>1. SUFFICES ASSUME NEW i \in DOMAIN botAgent, botAgent'[i].org # NoHome
                   PROVE  botAgent'[i].found \subseteq Found
      BY <2>3, <2>4 DEF VerdictsAreSo
    <3>2. botAgent[i].found \subseteq Found
      BY <2>1, <3>1 DEF VerdictsAreSo, BotInv
    <3>3. botAgent'[i].found \subseteq botAgent[i].found \union u.known
      BY <2>1, <3>1
    <3>4. QED
      BY <1>3, <3>2, <3>3
  <2>6. TasksAreHome'
    <3>1. SUFFICES ASSUME NEW t \in DOMAIN botTask
                   PROVE  /\ botTask[t].agent \in 0..Len(botAgent)
                          /\ botTask[t].agent # NoMember =>
                               botAgent'[botTask[t].agent].org = botTask[t].org
      BY <1>1, <2>3 DEF TasksAreHome
    <3>2. /\ botTask[t].agent \in 0..Len(botAgent)
          /\ botTask[t].agent # NoMember => botAgent[botTask[t].agent].org = botTask[t].org
      BY DEF TasksAreHome, BotInv
    <3>3. botTask[t].agent # NoMember => botTask[t].agent \in DOMAIN botAgent
      BY <2>3, <3>2 DEF NoMember
    <3>4. QED
      BY <2>1, <3>2, <3>3
  <2>7. SetUpsAreKept'
    <3>1. ASSUME NEW r \in SetUps
          PROVE  IsSound(botSetUp[r])'
      <4>1. botSetUp'[r] = w \/ botSetUp'[r] = botSetUp[r]
        BY <1>1 DEF BotInv, BotIsTyped
      <4>2. IsSound(botSetUp'[r])
        BY <1>4, <4>1 DEF SetUpsAreKept, BotInv
      <4>3. QED
        BY <1>1, <2>4, <4>2 DEF IsSound
    <3>2. QED
      BY <3>1 DEF SetUpsAreKept
  <2>8. BotIsTyped'
    BY <1>1, <1>4, <2>3 DEF BotIsTyped, BotInv
  <2>9. QED
    BY <2>4, <2>5, <2>6, <2>7, <2>8 DEF BotInv
<1>7. QED
  BY <1>1, <1>5, <1>6

\* The invariant of what the bot sets up.
THEOREM BotInvariant == BotSpec => []BotInv
<1>1. BotInit => BotInv
  <2>1. SUFFICES ASSUME BotInit PROVE BotInv
    OBVIOUS
  <2>2. /\ botAgent = <<>> /\ botTask = <<>> /\ botShelf = [skills |-> {}, rows |-> {}, dirs |-> {}]
        /\ botMissed = {} /\ botCalls = 0 /\ botSetUp = [s \in SetUps |-> NotBegun]
        /\ botOrg = [o \in BotOrgs |-> IF o \in NotOwned THEN "active" ELSE "absent"]
        /\ botJob = [j \in BotJobs |-> [row |-> FALSE, entry |-> FALSE]]
    BY <2>1 DEF BotInit
  <2>3. /\ <<>> \in Seq(RowRecords) /\ <<>> \in Seq(BotTaskRows) /\ DOMAIN <<>> = {}
    OBVIOUS
  <2>4. botSetUp \in [SetUps -> SetUpRecords] /\ SetUpsAreKept
    <3>1. NotBegun \in SetUpRecords /\ IsSound(NotBegun)
      BY FreshSetUps DEF NotBegun
    <3>2. QED
      BY <2>2, <3>1 DEF SetUpsAreKept
  <2>5. /\ botOrg \in [BotOrgs -> OrgStates] /\ botShelf \in Shelves
        /\ botJob \in [BotJobs -> [row : BOOLEAN, entry : BOOLEAN]]
        /\ botCalls \in 0..MaxBotCalls
    BY <2>2, BotBoundsAreNatural DEF OrgStates, Shelves
  <2>6. VerdictsAreSo /\ RowsAreFiles /\ TasksAreHome
    BY <2>2, <2>3 DEF VerdictsAreSo, RowsAreFiles, TasksAreHome
  <2>7. BotIsTyped
    BY <2>2, <2>3, <2>4, <2>5 DEF BotIsTyped
  <2>8. QED
    BY <2>4, <2>6, <2>7 DEF BotInv
<1>2. BotInv /\ [BotNext]_botVars => BotInv'
  <2>1. SUFFICES ASSUME BotInv, [BotNext]_botVars PROVE BotInv'
    OBVIOUS
  <2>2. CASE UNCHANGED botVars
    <3>1. UNCHANGED <<botOrg, botAgent, botTask, botShelf, botSetUp, botJob, botCalls, botMissed>>
      BY <2>2 DEF botVars
    <3>2. Found' = Found
      BY <3>1 DEF Found
    <3>3. QED
      BY <2>1, <3>1, <3>2
         DEF BotInv, BotIsTyped, SetUpsAreKept, IsSound, VerdictsAreSo, RowsAreFiles, TasksAreHome
  <2>3. CASE botCalls < MaxBotCalls /\ botCalls' = botCalls + 1 /\ BotCall
    <3>1. botCalls' \in 0..MaxBotCalls
      BY <2>1, <2>3, BotBoundsAreNatural DEF BotInv, BotIsTyped
    <3>2. ASSUME NEW o \in BotOrgs,
                 \/ CreateOrganization(o) \/ DropOrg(o)
                 \/ \E status \in {"active", "paused", "archived"} : UpdateOrganization(o, status)
                 \/ \E name \in BotNames, x \in Wares : AddOrgAgent(o, name, {x})
                 \/ \E i \in 0..MaxBotAgents : AddOrgTask(o, i)
                 \/ \E t \in 1..MaxBotTasks :
                      CompleteOrgTask(o, t) \/ \E i \in 1..MaxBotAgents : AssignOrgTask(o, t, i)
                 \/ \E j \in BotJobs : ScheduleOrgTask(o, j) \/ CancelOrgSchedule(o, j)
                 \/ \E w \in BotTools, outcome \in {"recorded", "unrecorded", "refused"} :
                      CreateOrgTool(o, w, outcome)
          PROVE  BotInv'
      <4>1. CASE DropOrg(o) \/ \E w \in BotTools, outcome \in {"recorded", "unrecorded", "refused"} :
                   CreateOrgTool(o, w, outcome)
        <5>1. UNCHANGED botSetUp
          BY <4>1 DEF DropOrg, CreateOrgTool
        <5>2. QED
          BY <2>1, <3>1, <4>1, <5>1, DropAndWareSteps
      <4>2. CASE \/ CreateOrganization(o)
                 \/ \E status \in {"active", "paused", "archived"} : UpdateOrganization(o, status)
                 \/ \E name \in BotNames, x \in Wares : AddOrgAgent(o, name, {x})
                 \/ \E i \in 0..MaxBotAgents : AddOrgTask(o, i)
                 \/ \E t \in 1..MaxBotTasks :
                      CompleteOrgTask(o, t) \/ \E i \in 1..MaxBotAgents : AssignOrgTask(o, t, i)
                 \/ \E j \in BotJobs : ScheduleOrgTask(o, j) \/ CancelOrgSchedule(o, j)
        <5>1. UNCHANGED <<botShelf, botSetUp, botMissed>>
          BY <4>2 DEF CreateOrganization, UpdateOrganization, AddOrgAgent, AddOrgTask,
                      CompleteOrgTask, AssignOrgTask, ScheduleOrgTask, CancelOrgSchedule
        <5>2. QED
          BY <2>1, <3>1, <4>2, <5>1, RowToolSteps
      <4>3. QED
        BY <3>2, <4>1, <4>2
    <3>3. ASSUME NEW j \in BotJobs, KeepReminder(j)
          PROVE  BotInv'
      <4>1. UNCHANGED <<botShelf, botSetUp, botMissed>>
        BY <3>3 DEF KeepReminder
      <4>2. QED
        BY <2>1, <3>1, <3>3, <4>1, RowToolSteps
    <3>4. ASSUME NEW i \in 1..MaxBotAgents, DropAgent(i) \/ \E x \in Wares : EditAgent(i, {x})
          PROVE  BotInv'
      <4>1. /\ UNCHANGED botSetUp
            /\ (\E x \in Wares : EditAgent(i, {x})) => UNCHANGED <<botShelf, botMissed>>
        BY <3>4 DEF DropAgent, EditAgent
      <4>2. CASE DropAgent(i)
        BY <2>1, <3>1, <4>1, <4>2, DropAndWareSteps
      <4>3. CASE \E x \in Wares : EditAgent(i, {x})
        BY <2>1, <3>1, <4>1, <4>3, RowToolSteps
      <4>4. QED
        BY <3>4, <4>2, <4>3
    <3>5. ASSUME NEW x \in Wares, RemoveWare(x)
          PROVE  BotInv'
      <4>1. UNCHANGED botSetUp
        BY <3>5 DEF RemoveWare
      <4>2. QED
        BY <2>1, <3>1, <3>5, <4>1, DropAndWareSteps
    <3>6. QED
      BY <2>3, <3>2, <3>3, <3>4, <3>5 DEF BotCall
  <2>4. ASSUME NEW s \in SetUps, SetUpStep(s), UNCHANGED botCalls
        PROVE  BotInv'
    BY <2>1, <2>4, SetUpMoves, SetUpMakes, SetUpRowsCommit, VerdictsWritten DEF SetUpStep
  <2>5. QED
    BY <2>1, <2>2, <2>3, <2>4 DEF BotNext
<1>3. QED
  BY <1>1, <1>2, PTL DEF BotSpec

\* Whatever set-ups, tools of the bot and handlers of the dashboard run between one
\* another: no set-up leaves an agent with a verdict that is not so, nor a task with an
\* agent of another organization.
THEOREM SetUpsStaySound == BotSpec => []SetUpsAreSound
<1>1. BotInv => SetUpsAreSound
  BY BotInvIsEnough
<1>2. QED
  BY <1>1, BotInvariant, PTL

-----------------------------------------------------------------------------
(* The parts as one system                                                 *)

\* Each part behaves as it does by itself: the others leave its variables alone.
LEMMA PartsAreThemselves ==
  OfficeSpec => Spec /\ WorkSpec /\ BoardSpec /\ PlanSpec /\ WizardSpec /\ BotSpec
<1>1. OfficeInit => Init /\ WorkInit /\ BoardInit /\ PlanInit /\ WizardInit /\ BotInit
  BY DEF OfficeInit
<1>2. [OfficeNext]_officeVars =>
        /\ [Next]_vars /\ [WorkNext]_workVars /\ [BoardNext]_boardVars
        /\ [PlanNext]_planVars /\ [WizardNext]_wizardVars /\ [BotNext]_botVars
  <2>1. SUFFICES ASSUME [OfficeNext]_officeVars
                 PROVE  /\ [Next]_vars /\ [WorkNext]_workVars /\ [BoardNext]_boardVars
                        /\ [PlanNext]_planVars /\ [WizardNext]_wizardVars /\ [BotNext]_botVars
    OBVIOUS
  <2>2. CASE UNCHANGED officeVars
    BY <2>2 DEF officeVars
  <2>3. CASE Only("repair") /\ Next
    BY <2>3 DEF Only
  <2>4. CASE Only("work") /\ WorkNext
    BY <2>4 DEF Only
  <2>5. CASE Only("board") /\ BoardNext
    BY <2>5 DEF Only
  <2>6. CASE Only("plan") /\ PlanNext
    BY <2>6 DEF Only
  <2>7. CASE Only("wizards") /\ WizardNext
    BY <2>7 DEF Only
  <2>8. CASE Only("bot") /\ BotNext
    BY <2>8 DEF Only
  <2>9. QED
    BY <2>1, <2>2, <2>3, <2>4, <2>5, <2>6, <2>7, <2>8 DEF OfficeNext
<1>3. QED
  BY <1>1, <1>2, PTL DEF OfficeSpec, Spec, WorkSpec, BoardSpec, PlanSpec, WizardSpec, BotSpec

\* Every part's state keeps its type.
THEOREM OfficeIsTyped == OfficeSpec => []OfficeTypeOK
<1>1. /\ RunInv => TypeOK
      /\ WorkInv => WorkTypeOK
      /\ BoardInv => BoardTypeOK
      /\ WizInv => WizardTypeOK
  BY DEF RunInv, WorkInv, BoardInv, WizInv
<1>2. (PlanInv => PlanTypeOK) /\ (BotInv => BotTypeOK)
  BY PlansAreTyped, BotInvIsEnough
<1>3. TypeOK /\ WorkTypeOK /\ BoardTypeOK /\ PlanTypeOK /\ WizardTypeOK /\ BotTypeOK
        => OfficeTypeOK
  BY DEF OfficeTypeOK
<1>4. QED
  BY <1>1, <1>2, <1>3, PartsAreThemselves, RunInvariant, WorkInvariant, BoardInvariant,
     PlanInvariant, WizardInvariant, BotInvariant, PTL

\* In every state of the whole, a fix that is called ready is in its files, the rows of an
\* organization agree, a deletion has spared the tools others use, a valid plan is stored
\* whole, the saves of a wizard are told as they went, and what a set-up says it found is
\* there.
THEOREM OfficeIsSafe ==
  OfficeSpec => [](/\ ReadyIsLive /\ RowsAgree /\ DeletionSparesOthers
                   /\ ValidPlansAreStoredWhole /\ SavesAreTold /\ SetUpsAreSound)
BY PartsAreThemselves, ReadyFixesAreLive, RowsAlwaysAgree, DeletionsSpareOthers, ValidPlansStayWhole,
   SavesAreToldTruly, SetUpsStaySound, PTL

==============================================================================
