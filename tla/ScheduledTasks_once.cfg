\* The dashboard's test task, one press and no fault.
CONSTANTS
  brief = brief  once = once  test = test  c1 = c1  c2 = c2  d1 = d1
  SyncJob = SyncJob
  Tasks = {test}
  ChatTasks = {}
  Briefs = {}
  OneShots = {test}
  Chats = {}
  Dashboards = {d1}
  MaxRequests = 1
  MaxFaults = 0
SPECIFICATION Spec
INVARIANT OneShotFiresOnce
CHECK_DEADLOCK FALSE
