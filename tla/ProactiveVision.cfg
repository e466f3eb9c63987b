\* Two changes of the vision flag against two observations of the screen,
\* visual triggers and the scheduler.
SPECIFICATION Spec
SYMMETRY Symmetry
CONSTANTS
  Users = {}
  Intents = {p1, p2}
  NoTurn = NoTurn
  Features = {"vision"}
  Kinds = {"visual"}
  Writers = {w1, w2}
  Publishers = {s1}
  Scheduler = Scheduler
  Closer = Closer
  Waiting = {TRUE, FALSE}
  MayClose = FALSE
  MaxStamp = 2
INVARIANTS
  ReplayIsRejected
PROPERTIES
  SensitiveIsQuiet
CHECK_DEADLOCK FALSE
