\* Three expressions of which two have a hotkey, a queue of two, and two
\* faults of VTube Studio or the network.
SPECIFICATION BridgeSpec
CONSTANTS
  MaxExpressions = 3
  Mapped = {1, 2}
  Capacity = 2
  MaxFaults = 2
  Closer = {c1}
  None = None
INVARIANTS
  ExpressionsAreKept ClosedIsStill
PROPERTIES
  ExpressionsLeave
CHECK_DEADLOCK FALSE
