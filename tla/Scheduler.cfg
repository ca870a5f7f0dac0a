\* One row with two overlapping ticks, two crashes, failed calls or purges.
CONSTANTS
  Jobs = {j1}
  Slots = {s1, s2}
  MaxIterations = 2
  MaxFaults = 2
  MaxOutages = 2
  User = user
  \* Health: a schedule of four runs, at most
  Bodies = {"reminder", "agent_task"}
  Propagating = {"reminder"}
  AlertAt = 3
  ReleaseLimit = 4
  Users = {user}
  HealthFaults = 1
SPECIFICATION FairSchedulerSpec
INVARIANTS
  SchedulerTypeOK
  NoFalseAlarm
  FailedAfterFaults
PROPERTIES
  ImplementsContract
  EveryJobStops
CHECK_DEADLOCK FALSE
