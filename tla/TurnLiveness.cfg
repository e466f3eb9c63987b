\* A message that preempts an intent, a caller of cancel, a caller of accept
\* that is cancelled, and again while it unwinds, and the shutdown.
SPECIFICATION FairSpec
CONSTANTS
  u1 = u1
  u2 = u2
  p1 = p1
  home = home
  other = other
  Users = {u1}
  Intents = {p1}
  NoTurn = NoTurn
  Interrupters = {i1}
  Sessions = {home, other}
  SessionOf <- MCSessionOf
  HasPipeline = TRUE
  MaxCallerCancels = 2
INVARIANTS
  LeaseHasOwner StoppedIsQuiet
PROPERTIES
  CallersReturn EndIsAnnounced
CHECK_DEADLOCK FALSE
