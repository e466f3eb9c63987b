\* Two calls of which one may be cancelled, and a cache for one file.
SPECIFICATION GptSpec
CONSTANTS
  c1 = c1
  c2 = c2
  k1 = k1
  k2 = k2
  None = None
  Call = {c1, c2}
  Key = {k1, k2}
  Jobs <- MCJobs
  Disturbed = {c1}
  Capacity = 1
INVARIANTS
  OneSynthesisPerKey AudioIsAccounted
PROPERTIES
  LeasedAudioStays SpeechEnds
CHECK_DEADLOCK FALSE
