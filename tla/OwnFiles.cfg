CONSTANTS
  c1 = c1  r1 = r1  r2 = r2  p1 = p1  p2 = p2  f1 = f1  f2 = f2  e1 = e1  NoPlan = NoPlan
  Procs = {c1, r1}
  Handlers = {c1}
  Chat = {c1}
  Runs = {r1}
  Errors = {e1}
  Plans = {p1, p2}
  Files = {f1, f2}
  HunkKind <- SharedFile
  Edits = {}
  MaxAttempts = 2
  MaxStarts = 2
  TicketsStorable = TRUE
  MaxFaults = 0
  MaxChallenges = 1
  \* The agents: one pipeline, or one question to an agent, and the fixes
  a1 = a1  sk1 = sk1  sk2 = sk2
  AgentRuns = {a1}
  Confidences = {2, 3, 7}
  Proposals <- SomeProposals
  LastWords = {"none", "prose"}
  Unrecorded = Unrecorded
  NoCheckpoint = NoCheckpoint
  AnalysisKinds = {"text", "number", "list", "mapping"}
  MaxLateWrites = 3
  StaleKeys = {sk1, sk2}
  FixPlans <- SomeFixes
  \* Skills: one turn of the bot
  UserSkills = {s1, s2}
  Workspace = {"gmail"}
  ShelfTurns = {k1}
  CacheTtl = 2
  ShelfFaults = 1
  \* Tools: one of the user's and a built-in one
  Tools = {t1, t2}
  Protected = {t2}
  Deletions = {d1, d2}
  ToolFaults = 1
SPECIFICATION FilesSpec
INVARIANTS RejectedNeverShips RepairsAreEarned RegistryIsCurrent ToolsAreAccounted
CHECK_DEADLOCK FALSE
