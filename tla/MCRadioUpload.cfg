SPECIFICATION UploadSpec
CONSTANTS
  Segment = {1, 2}
  NoSegment = NoSegment
  Skipped = {}
  Malformed = {}
  ParkLimit = 2
  AudioDays = 0
  TranscriptDays = 1
  MaxDay = 2
  MaxAttempts = 3
INVARIANTS TypeOK NoSilentLoss OneFinalMarker OrderKept
PROPERTIES ImplementsDelivery QueueIsDrained
