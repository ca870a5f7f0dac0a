------------------------------ MODULE ToolShelf -------------------------------
(***************************************************************************)
(* Tools as plugin directories, their rows, and who offers them:           *)
(* agents/tool_factory_agent.py (creation), tools/sandbox.py (analysis and *)
(* test), tools/registry.py with skills/dynamic.py (what the bot offers),  *)
(* and the tool routes of orchestration/api.py.                            *)
(*                                                                         *)
(* The bot and the dashboard are two processes over the same directories.  *)
(* Each can create a tool; only the dashboard deletes one.  The bot loads  *)
(* every directory again whenever it builds a user's skills, and takes     *)
(* nothing out; the dashboard loads once, and takes out what it deletes.   *)
(***************************************************************************)
EXTENDS Naturals, FiniteSets

CONSTANTS
  Tools,        \* names of tools
  Protected,    \* built-in plugins: delete_tool refuses them
  Deletions,    \* requests to delete a tool
  ToolFaults    \* bound: time-outs, ends of a process, statements that fail

\* What deletes nothing.
NoTool == "none"

ASSUME ToolsAreNames == Tools # {} /\ NoTool \notin Tools
ASSUME ProtectedIsTools == Protected \subseteq Tools
ASSUME ToolFaultsIsNatural == ToolFaults \in Nat

VARIABLES
  plugin,      \* name -> the directory
  toolRow,     \* name -> its row: none, active, inactive
  maker,       \* process -> its creation
  deletion,    \* request -> the tool whose directory it has removed
  offered,     \* the tools the bot's registry holds
  listed,      \* the tools the dashboard's registry holds, once it has one
  disturbed,   \* names whose creation or deletion was cut short or crossed another
  toolFaults

toolVars ==
  <<plugin, toolRow, maker, deletion, offered, listed, disturbed, toolFaults>>

\* The processes that create tools, one at a time each: bot and dashboard.
Makers == {"bot", "board"}
\* A CLI tool, one that calls a system binary, and a module loaded into the process.
Kinds == {"cli", "binary", "function"}
\* What the analysis looks for in a CLI tool's code.
Features == {"syntax", "blocked", "subprocess", "shell", "unlisted"}
\* A directory: none, one without its manifest, one that has not passed its test, one
\* that has.
Nothing == [state |-> "nothing", kind |-> "cli", works |-> FALSE]
NoCreation == [at |-> "idle", tool |-> CHOOSE n \in Tools : TRUE]

ToolTypeOK ==
  /\ plugin \in [Tools -> [state : {"nothing", "broken", "untested", "passed"},
                           kind : Kinds, works : BOOLEAN]]
  /\ toolRow \in [Tools -> {"none", "active", "inactive"}]
  /\ maker \in [Makers -> [at : {"idle", "named", "testing", "registering"}, tool : Tools]]
  /\ deletion \in [Deletions -> Tools \union {NoTool}]
  /\ offered \subseteq Tools
  /\ listed = {NoTool} \/ listed \subseteq Tools
  /\ disturbed \subseteq Tools
  /\ toolFaults \in 0..ToolFaults

\* The built-in plugins are directories without a row.
ToolInit ==
  /\ plugin = [n \in Tools |-> IF n \in Protected
                                 THEN [state |-> "passed", kind |-> "function", works |-> TRUE]
                                 ELSE Nothing]
  /\ toolRow = [n \in Tools |-> "none"]
  /\ maker = [m \in Makers |-> NoCreation]
  /\ deletion = [d \in Deletions |-> NoTool]
  /\ offered = {} /\ listed = {NoTool} /\ disturbed = {} /\ toolFaults = 0

ToolFault == toolFaults < ToolFaults /\ toolFaults' = toolFaults + 1

\* A creation or a deletion of the name is under way.
MakersOf(n) == {m \in Makers : maker[m].at # "idle" /\ maker[m].tool = n}
DeletionsOf(n) == {d \in Deletions : deletion[d] = n}
Worked(n) == MakersOf(n) # {} \/ DeletionsOf(n) # {}

\* static_analysis.  The calls of code that does not parse are not looked at; that of
\* a subprocess is allowed to a tool that declares its binary, if the list has it.
Violations(code, declaresBinary) ==
  IF "syntax" \in code THEN {"syntax"}
  ELSE (code \intersect {"blocked"}) \union
       (IF "subprocess" \notin code THEN {}
        ELSE (code \intersect {"shell"}) \union
             (IF declaresBinary THEN code \intersect {"unlisted"} ELSE {"subprocess"}))

\* A name with a directory is taken, whatever is in it.
CheckName(m, n) ==
  /\ maker[m].at = "idle" /\ plugin[n].state = "nothing"
  /\ maker' = [maker EXCEPT ![m] = [at |-> "named", tool |-> n]]
  /\ UNCHANGED <<plugin, toolRow, deletion, offered, listed, disturbed, toolFaults>>

GivesUp(m) ==
  /\ maker[m].at = "named"
  /\ maker' = [maker EXCEPT ![m] = NoCreation]
  /\ UNCHANGED <<plugin, toolRow, deletion, offered, listed, disturbed, toolFaults>>

\* The directory, the code and the manifest, over those another process has written
\* since the name was checked.
Writes(m, kind, works) ==
  LET n == maker[m].tool IN
  /\ maker[m].at = "named"
  /\ plugin' = [plugin EXCEPT ![n] = [state |-> "untested", kind |-> kind, works |-> works]]
  /\ maker' = [maker EXCEPT ![m].at = "testing"]
  /\ disturbed' = IF MakersOf(n) # {m} \/ DeletionsOf(n) # {} \/ plugin[n].state # "nothing"
                    THEN disturbed \union {n} ELSE disturbed
  /\ UNCHANGED <<toolRow, deletion, offered, listed, toolFaults>>

\* _generate_cli_tool_impl analyses the code before it parses the parameters.
GenerateCli(m, kind, code, parsed, works) ==
  /\ kind \in {"cli", "binary"}
  /\ IF Violations(code, kind = "binary") # {} \/ ~parsed THEN GivesUp(m)
                                                          ELSE Writes(m, kind, works)

\* _generate_http_tool_impl analyses nothing.
GenerateHttp(m, parsed, works) ==
  IF parsed THEN Writes(m, "function", works) ELSE GivesUp(m)

\* run_cli_tool with --help: no file, a time-out and an exception are statuses too.
Answers(n) == plugin[n].state # "nothing" /\ plugin[n].works

\* test_tool_in_sandbox lets a tool pass whose binary is not installed, whatever its
\* code does; any other has ten seconds to print its help.
TestPasses(m) ==
  LET n == maker[m].tool IN
  /\ maker[m].at = "testing"
  /\ \/ Answers(n)
     \/ plugin[n].state # "nothing" /\ plugin[n].kind = "binary"
  /\ plugin' = [plugin EXCEPT ![n].state = "passed"]
  /\ maker' = [maker EXCEPT ![m].at = "registering"]
  /\ UNCHANGED <<toolRow, deletion, offered, listed, disturbed, toolFaults>>

\* A bug: what failed its test stays.
KeepFailed(m) ==
  /\ maker[m].at = "testing" /\ ~plugin[maker[m].tool].works
  /\ maker' = [maker EXCEPT ![m] = NoCreation]
  /\ UNCHANGED <<plugin, toolRow, deletion, offered, listed, disturbed, toolFaults>>

\* What fails its test is removed; a tool that works can fail it by being slow.
TestFails(m) ==
  LET n == maker[m].tool IN
  /\ maker[m].at = "testing"
  /\ IF Answers(n) THEN ToolFault ELSE UNCHANGED toolFaults
  /\ plugin' = [plugin EXCEPT ![n] = Nothing]
  /\ maker' = [maker EXCEPT ![m] = NoCreation]
  /\ UNCHANGED <<toolRow, deletion, offered, listed, disturbed>>

\* A row is added unless the name has one.
Register(m) ==
  LET n == maker[m].tool IN
  /\ maker[m].at = "registering"
  /\ toolRow' = [toolRow EXCEPT ![n] = IF @ = "none" THEN "active" ELSE @]
  /\ maker' = [maker EXCEPT ![m] = NoCreation]
  /\ UNCHANGED <<plugin, deletion, offered, listed, disturbed, toolFaults>>

\* The failure of the database is logged, and the tool announced.
RegisterFails(m) ==
  /\ maker[m].at = "registering" /\ ToolFault
  /\ maker' = [maker EXCEPT ![m] = NoCreation]
  /\ disturbed' = disturbed \union {maker[m].tool}
  /\ UNCHANGED <<plugin, toolRow, deletion, offered, listed>>

\* The names m has written files for.
Begun(m) == IF maker[m].at \in {"testing", "registering"} THEN {maker[m].tool} ELSE {}

\* The turn of the bot runs out of time: what is written stays.
CutOff ==
  /\ Begun("bot") # {} /\ ToolFault
  /\ maker' = [maker EXCEPT !["bot"] = NoCreation]
  /\ disturbed' = disturbed \union Begun("bot")
  /\ UNCHANGED <<plugin, toolRow, deletion, offered, listed>>

\* delete_tool finds the row and removes the directory; nothing is awaited between.
RemoveFiles(d, n) ==
  /\ deletion[d] = NoTool /\ toolRow[n] # "none" /\ n \notin Protected
  /\ plugin' = [plugin EXCEPT ![n] = Nothing]
  /\ deletion' = [deletion EXCEPT ![d] = n]
  /\ disturbed' = IF Worked(n) THEN disturbed \union {n} ELSE disturbed
  /\ UNCHANGED <<toolRow, maker, offered, listed, toolFaults>>

\* Some of the directory cannot be removed: an error, and the row stays.
RemoveFails(n) ==
  /\ toolRow[n] # "none" /\ n \notin Protected
  /\ plugin[n].state # "nothing" /\ ToolFault
  /\ plugin' = [plugin EXCEPT ![n].state = "broken"]
  /\ disturbed' = disturbed \union {n}
  /\ UNCHANGED <<toolRow, maker, deletion, offered, listed>>

\* _load_tool: a CLI tool is wrapped unseen, a module is executed.
Loads(n) ==
  /\ plugin[n].state \in {"untested", "passed"}
  /\ plugin[n].kind = "function" => plugin[n].works

\* load_all.
Held == {n \in Tools : Loads(n)}

\* The row goes, and the tool leaves the registry of the dashboard, which is made
\* for the purpose if there is none.  The bot's keeps it.
DeleteRow(d) ==
  LET n == deletion[d] IN
  /\ n # NoTool /\ toolRow[n] # "none"
  /\ toolRow' = [toolRow EXCEPT ![n] = "none"]
  /\ deletion' = [deletion EXCEPT ![d] = NoTool]
  /\ listed' = (IF listed = {NoTool} THEN Held ELSE listed) \ {n}
  /\ UNCHANGED <<plugin, maker, offered, disturbed, toolFaults>>

\* The statement fails, or finds the row deleted by another request.
DeleteRowFails(d) ==
  LET n == deletion[d] IN
  /\ n # NoTool
  /\ IF toolRow[n] = "none" THEN UNCHANGED <<disturbed, toolFaults>>
                            ELSE ToolFault /\ disturbed' = disturbed \union {n}
  /\ deletion' = [deletion EXCEPT ![d] = NoTool]
  /\ UNCHANGED <<plugin, toolRow, maker, offered, listed>>

\* update_tool: nothing that offers a tool reads the flag.
ToggleTool(n) ==
  /\ toolRow[n] # "none"
  /\ toolRow' = [toolRow EXCEPT ![n] = IF @ = "active" THEN "inactive" ELSE "active"]
  /\ UNCHANGED <<plugin, maker, deletion, offered, listed, disturbed, toolFaults>>

\* load_dynamic_skills: the bot's registry loads every directory again and keeps
\* what it held.
LoadAll ==
  /\ offered' = offered \union Held
  /\ UNCHANGED <<plugin, toolRow, maker, deletion, listed, disturbed, toolFaults>>

\* get_available_tools: the dashboard's registry loads once.
ListAvailable ==
  /\ listed = {NoTool}
  /\ listed' = Held
  /\ UNCHANGED <<plugin, toolRow, maker, deletion, offered, disturbed, toolFaults>>

\* A process ends, with what it had under way and its registry.
ToolCrash(m) ==
  /\ ToolFault
  /\ maker' = [maker EXCEPT ![m] = NoCreation]
  /\ IF m = "bot" THEN offered' = {} /\ UNCHANGED <<deletion, listed>>
                   ELSE /\ deletion' = [d \in Deletions |-> NoTool]
                        /\ listed' = {NoTool}
                        /\ UNCHANGED offered
  /\ disturbed' = disturbed \union Begun(m) \union
                    {n \in Tools : m = "board" /\ DeletionsOf(n) # {}}
  /\ UNCHANGED <<plugin, toolRow>>

ToolNext ==
  \/ \E m \in Makers :
       \/ \E n \in Tools : CheckName(m, n)
       \/ \E parsed, works \in BOOLEAN :
            \/ \E kind \in Kinds, code \in SUBSET Features :
                 GenerateCli(m, kind, code, parsed, works)
            \/ GenerateHttp(m, parsed, works)
       \/ TestPasses(m) \/ TestFails(m) \/ Register(m) \/ RegisterFails(m) \/ ToolCrash(m)
  \/ \E n \in Tools : RemoveFails(n) \/ ToggleTool(n)
  \/ \E d \in Deletions :
       \/ \E n \in Tools : RemoveFiles(d, n)
       \/ DeleteRow(d) \/ DeleteRowFails(d)
  \/ CutOff \/ LoadAll \/ ListAvailable

ToolSpec == ToolInit /\ [][ToolNext]_toolVars

(***************************************************************************)
(* Properties.                                                             *)
(***************************************************************************)

\* What a creation announces ("created and registered", tool_factory_agent.py:276)
\* and what a deletion promises ("removes DB row and the plugin directory"): while
\* nobody works on a name, it has a directory that passed its test and a row to
\* delete it by, or it has neither -- unless a creation or deletion of it was cut
\* short, could not write its row, or crossed another.
ToolsAreAccounted ==
  \A n \in Tools \ (Protected \union disturbed) :
    ~Worked(n) => \/ plugin[n].state = "passed" /\ toolRow[n] # "none"
                  \/ plugin[n].state = "nothing" /\ toolRow[n] = "none"
=============================================================================
