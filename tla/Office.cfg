CONSTANTS
  c1 = c1  r1 = r1  r2 = r2  p1 = p1  p2 = p2  f1 = f1  f2 = f2  e1 = e1  NoPlan = NoPlan
  Procs = {c1, r1, r2}
  Handlers = {}
  Chat = {}
  Runs = {r1, r2}
  Errors = {e1}
  Plans = {p1, p2}
  Files = {f1, f2}
  HunkKind <- SharedFile
  Edits = {}
  MaxAttempts = 2
  MaxStarts = 3
  TicketsStorable = TRUE
  MaxFaults = 1
  MaxChallenges = 0
  \* The work in an organization, and the organizations
  OrgStaff = {a1}
  OrgTasks = {t1}
  OrgGates = {g1}
  OrgClerks = {k1, k2}
  NoAgent = NoAgent
  OrgLimit = 2
  HoldLimit = 1
  MemberLimit = 2
  OrgTools = {x}
  Protected = {}
  Deleters = {k1, k2}
  NoOrg = NoOrg
  Gone = Gone
  \* A project's plan
  AgentDrafts <- AFewAgents
  TaskDrafts <- AFewTasks
  OldNames = {"bobby"}
  AreSimilar <- Alike
  NoName <- Nameless
  \* One session of a wizard, of any kind
  Sessions = {s1}
  Requests = {q1, q2, q3}
  MaxAsked = 2
  MaxAnswers = 3
  WizardFaults = 1
  \* What the bot sets up, with other calls between its commits
  BotOrgs = {o1, o2, o3}
  NotOwned = {o3}
  BotSkills = {"mail", "mails", "gmail"}
  Reserved = {"gmail"}
  BotTools = {"fetch"}
  BotNames = {"ana", "anna"}
  NearNames <- NearOnes
  BotPlans <- TwoProjects
  SetUps = {s1}
  BotJobs = {j1}
  MaxBotAgents = 3
  MaxBotTasks = 3
  MaxBotCalls = 3
SPECIFICATION OfficeSpec
SYMMETRY Alikes
INVARIANTS OfficeTypeOK ReadyIsLive RowsAgree DeletionSparesOthers ValidPlansAreStoredWhole SavesAreTold SetUpsAreSound
CHECK_DEADLOCK FALSE
