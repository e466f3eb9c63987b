\* A second start while the first one, stopped meanwhile, still opens its
\* stream.
SPECIFICATION VoiceSpec
CONSTANTS
  Call = {c1, c2, c3, c4}
  None = None
  MaxFrames = 1
  Disturbed = {}
  Patient = FALSE
INVARIANTS
  ClosedMicrophoneIsOff
CHECK_DEADLOCK FALSE
