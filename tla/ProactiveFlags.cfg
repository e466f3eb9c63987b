\* Two changes of the proactive flag, each by a PATCH or without one, against
\* the scheduler, a trigger, an explicit turn and the close.
SPECIFICATION Spec
SYMMETRY Symmetry
CONSTANTS
  Users = {u1}
  Intents = {p1, p2}
  NoTurn = NoTurn
  Features = {"proactive"}
  Kinds = {"task_complete"}
  Writers = {w1, w2}
  Publishers = {}
  Scheduler = Scheduler
  Closer = Closer
  Waiting = {TRUE, FALSE}
  MayClose = TRUE
  MaxStamp = 0
INVARIANTS
  SchedulerFollowsFlag
  ClosedIsQuiet
PROPERTIES
  BarrierIsSilent
CHECK_DEADLOCK FALSE
