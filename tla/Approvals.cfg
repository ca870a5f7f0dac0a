CONSTANTS
  c1 = c1  b1 = b1  p1 = p1  p2 = p2  f1 = f1  f2 = f2  NoPlan = NoPlan
  Procs = {c1, b1}
  Handlers = {c1, b1}
  Chat = {c1}
  Plans = {p1, p2}
  Files = {f1, f2}
  HunkKind <- SharedFile
  Edits = {"closed"}
  MaxFaults = 1
  MaxChallenges = 2
  \* Pending mail and task
  UserTurn = u
  JobTurns = {j1}
  DraftLimit = 2
  WishLimit = 1
  VersionLimit = 1
  CallAttempts = 3
  ConfirmFaults = 2
  \* Browser writes
  BrowserRuns = {r1, r2}
  NoRun = NoRun
  RequestLimit = 2
  PressLimit = 2
SPECIFICATION ApprovalsSpec
INVARIANTS
  DeployedIsLive
  ChallengeUsedOnce
  CarriedOutOnce
  WritesAreApproved
CHECK_DEADLOCK FALSE
