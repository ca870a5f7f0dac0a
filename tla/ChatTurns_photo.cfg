SPECIFICATION Spec
CONSTANTS
  Msgs = {1, 2}
  NoMsg = NoMsg
  NoImage = NoImage
  Kind <- PhotoThenVoice
  RateLimit = 2
  MaxQueues = 1
  MaxDeaths = 0
INVARIANT NoBleeding
CHECK_DEADLOCK FALSE
