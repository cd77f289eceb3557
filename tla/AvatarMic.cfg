SPECIFICATION Spec
CONSTANTS
  MaxAsked = 2
  MaxStreams = 2
  MaxClips = 1
INVARIANTS MicReleased
CHECK_DEADLOCK FALSE
