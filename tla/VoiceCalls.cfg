\* Three calls of the recorder, two of which may be cancelled by their caller.
SPECIFICATION VoiceSpec
CONSTANTS
  Call = {c1, c2, c3}
  None = None
  MaxFrames = 1
  Disturbed = {c1, c2}
  Patient = TRUE
INVARIANTS
  MicrophoneIsGuarded SpeechIsWiped
PROPERTIES
  OnlyWantedIsSent VoiceCallsEnd
CHECK_DEADLOCK FALSE
