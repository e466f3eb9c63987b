\* One PATCH of either flag, an observation of the screen and the close: all
\* of them end, and so does the turn that a revocation concerns.
SPECIFICATION FairSpec
CONSTANTS
  Users = {}
  Intents = {p1}
  NoTurn = NoTurn
  Features = {"proactive", "vision"}
  Kinds = {"visual"}
  Writers = {w1}
  Publishers = {s1}
  Scheduler = Scheduler
  Closer = Closer
  Waiting = {TRUE}
  MayClose = TRUE
  MaxStamp = 1
PROPERTIES
  CallsReturn
  RevokedTurnEnds
CHECK_DEADLOCK FALSE
