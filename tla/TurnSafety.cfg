\* Two messages from two sessions, an intent, a caller of cancel, and a
\* caller of accept that is cancelled.
SPECIFICATION Spec
CONSTANTS
  u1 = u1
  u2 = u2
  p1 = p1
  home = home
  other = other
  Users = {u1, u2}
  Intents = {p1}
  NoTurn = NoTurn
  Interrupters = {i1}
  Sessions = {home, other}
  SessionOf <- MCSessionOf
  HasPipeline = TRUE
  MaxCallerCancels = 1
INVARIANTS
  OutputExclusive ProactiveYields SessionIndexAgrees CancellationHolds
  UserTurnIsProtected
PROPERTIES
  ImplementsArbiter
CHECK_DEADLOCK FALSE
