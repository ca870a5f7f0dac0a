\* DebugAnalysisModel as it is: analyzed_at is a datetime.
CONSTANTS
  AgentRuns = {"a1"}
  Confidences = {3, 7}
  Proposals = {}
  LastWords = {"none"}
  Unrecorded = Unrecorded
  NoCheckpoint = NoCheckpoint
  AnalysisKinds = {"text", "number", "list", "mapping", "time"}
  MaxLateWrites = 1
  StaleKeys = {}
  FixPlans = {}
SPECIFICATION RepairAgentsSpec
INVARIANT AnalysesAreFiled
CHECK_DEADLOCK FALSE
