\* A morning brief and a one-shot reminder of the chat, a one-shot task of the
\* dashboard; two coroutines of the bot, one request of the API process.
CONSTANTS
  brief = brief  once = once  test = test  c1 = c1  c2 = c2  d1 = d1
  SyncJob = SyncJob
  Tasks = {brief, once, test}
  ChatTasks = {brief, once}
  Briefs = {brief}
  OneShots = {once, test}
  Chats = {c1, c2}
  Dashboards = {d1}
  MaxRequests = 3
  MaxFaults = 1
  \* The queue: two workers
  w1 = w1  w2 = w2  NoTicket = NoTicket
  Workers = {w1, w2}
  Tickets = {1, 2, 3}
  QueueFaults = 2
SPECIFICATION FairUpkeepSpec
INVARIANTS
  NoGhosts
  NoDoubleClaim
PROPERTIES
  SchedulesFollowRows
  ClaimableIsClaimed
CHECK_DEADLOCK FALSE
