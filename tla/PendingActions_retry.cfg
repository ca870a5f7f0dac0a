\* One mail and one task, whose call may answer amiss once.
CONSTANTS
  UserTurn = u
  JobTurns = {}
  DraftLimit = 1
  WishLimit = 1
  VersionLimit = 0
  CallAttempts = 3
  ConfirmFaults = 1
SPECIFICATION PendingSpec
INVARIANT RetriesAreSafe
CHECK_DEADLOCK FALSE
