SPECIFICATION FairSpec
CONSTANTS
  Msgs = {1, 2, 3}
  NoMsg = NoMsg
  NoImage = NoImage
  Kind <- Album
  RateLimit = 2
  MaxQueues = 3
  MaxDeaths = 1
INVARIANTS OneTurnAtATime ConsumedOnce
PROPERTIES ImplementsLine TurnsInOrder AcceptedGetsItsTurn
CHECK_DEADLOCK FALSE
