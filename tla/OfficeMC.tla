------------------------------- MODULE OfficeMC -------------------------------
(***************************************************************************)
(* A repair in the pipeline and what the dashboard and the organization    *)
(* tools of the bot change together: the organizations, the work in one, a *)
(* project's plan on its way into the rows, the creation wizards, and what *)
(* the bot sets up by itself.  The parts share no variable: a behaviour is *)
(* one of one part.                                                        *)
(***************************************************************************)
EXTENDS RepairPipelineMC, OrgWork, OrgBoard, ProjectPlan, Wizards, BotOrgTools

VARIABLE part

officeVars == <<vars, workVars, boardVars, planVars, wizardVars, botVars, part>>

\* Plans are drawn up in one part only; in the others any one of them lies there.
OfficeInit ==
  /\ part \in {"repair", "work", "board", "plan", "wizards", "bot"}
  /\ Init /\ WorkInit /\ BoardInit /\ PlanInit /\ WizardInit /\ BotInit
  /\ part # "plan" => draft = CHOOSE d \in DraftedPlans : TRUE

\* Only part p moves.
Only(p) ==
  /\ part = p /\ UNCHANGED part
  /\ p # "repair" => UNCHANGED vars
  /\ p # "work" => UNCHANGED workVars
  /\ p # "board" => UNCHANGED boardVars
  /\ p # "plan" => UNCHANGED planVars
  /\ p # "wizards" => UNCHANGED wizardVars
  /\ p # "bot" => UNCHANGED botVars

OfficeNext ==
  \/ Only("repair") /\ Next
  \/ Only("work") /\ WorkNext
  \/ Only("board") /\ BoardNext
  \/ Only("plan") /\ PlanNext
  \/ Only("wizards") /\ WizardNext
  \/ Only("bot") /\ BotNext

OfficeSpec == OfficeInit /\ [][OfficeNext]_officeVars

\* Type invariant of every part.
OfficeTypeOK == TypeOK /\ WorkTypeOK /\ BoardTypeOK /\ PlanTypeOK /\ WizardTypeOK /\ BotTypeOK

-----------------------------------------------------------------------------
(* Values of the constants                                                 *)

\* A name, and whether it came with blanks around it.
Ana == <<"ana", FALSE>>
Nameless == <<"", FALSE>>
AFewAgents ==
  {[name |-> Ana, skills |-> "known", tools |-> "builtin"],
   [name |-> Ana, skills |-> "unknown", tools |-> "plugin"],
   [name |-> <<"anna", FALSE>>, skills |-> "known", tools |-> "unknown"],
   [name |-> <<"bob", TRUE>>, skills |-> "known", tools |-> "builtin"]}
AFewTasks ==
  {[agent |-> Ana, trigger |-> "none"], [agent |-> <<"anna", FALSE>>, trigger |-> "malformed"],
   [agent |-> <<"bob", TRUE>>, trigger |-> "good"],
   [agent |-> <<"ghost", FALSE>>, trigger |-> "odd"],
   [agent |-> Nameless, trigger |-> "missing"], [agent |-> Ana, trigger |-> "good"]}
Alike ==
  {<<n, n>> : n \in {"ana", "anna", "bob", "bobby", "ghost"}}
  \union {<<"ana", "anna">>, <<"anna", "ana">>, <<"bob", "bobby">>, <<"bobby", "bob">>}

\* Projects the bot sets up: agents that resemble each other, skills one of which is
\* built in, a tool; and one that resembles the first.
TwoProjects ==
  {[agents |-> <<[name |-> "ana", uses |-> {"mail", "fetch"}],
               [name |-> "anna", uses |-> {"gmail"}]>>,
    tasks |-> <<"ana", "anna">>, tools |-> <<"fetch">>, skills |-> <<"mail", "gmail">>],
   [agents |-> <<[name |-> "ana", uses |-> {"mails"}]>>,
    tasks |-> <<"ana">>, tools |-> <<>>, skills |-> <<"mails">>]}
NearOnes == {<<"ana", "anna">>, <<"anna", "ana">>, <<"mail", "mails">>, <<"mails", "mail">>}

\* Only safety is checked here.
Alikes == Permutations(OrgClerks)
=============================================================================
