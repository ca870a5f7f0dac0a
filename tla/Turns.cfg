CONSTANTS
  \* Two rows, so that the turn of a tick can create the second.
  Jobs = {p1, p2}
  Slots = {s1}
  MaxIterations = 2
  MaxFaults = 2
  MaxOutages = 1
  User = user
  \* A session
  ConvWriters = {p1, p2}
  MaxTurns = 2
  TurnLimit = 5
  ConvFaults = 1
  \* Reviews
  Reviews = {p1, p2}
  ReviewInterval = 2
  RefinementMax = 2
  CrystallizeAt = 2
  Workflows = {w1, w2}
  SlugOf <- OneSlug
  ReviewLimit = 4
  \* Interview and persona
  InterviewMessages = {p1, p2}
  FollowsUp <- TwoSessions
  SessionLimit = 3
  LogLimit = 8
  InterviewFaults = 2
  PersonaWriters = {p1, p2}
  ChangeLimit = 4
  \* Charges
  ImageCalls = {p1, p2}
  ChatCalls = {h1}
  DailyCap = 1
  LastDay = 1
  CallLimit <- FewCalls
  SpendFaults = 1
  \* Memory
  Facts = {p1, p2}
  RowLimit = 3
  PageSize = 3
  Budgets <- TwoBudgets
  Batches = 2
  SummaryMax = 1
  MemFaults = 1
  \* Routes
  Messages = 2
  JobTurns = {h1}
  Readings <- SomeReadings
  RouteFaults = 1
SPECIFICATION TurnsSpec
SYMMETRY Symmetry
INVARIANTS
  TurnsTypeOK
  RunningIsScheduled
  ConvAccounted
  LowTurnsAreReviewed
  InterviewsAreWhole
  OnePersonaWithItsChanges
  OverspendIsBounded
  FactsAreKept
  AnswersAreOnRecord
  ImagesGoWithTheirTurn
PROPERTY EditsSurvive
CHECK_DEADLOCK FALSE
