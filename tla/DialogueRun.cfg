\* Two workers, two segments, two cancellations.
SPECIFICATION FairSpec
CONSTANTS
  w1 = w1
  w2 = w2
  Workers = {w1, w2}
  Stream = Stream
  Playback = Playback
  End = End
  MaxSegments = 2
  MaxCancels = 2
INVARIANTS
  AudioIsDiscarded CompletedIsSpoken OutcomeIsHonest
PROPERTIES
  ImplementsSpokenTurn RunsReturn
CHECK_DEADLOCK FALSE
