SPECIFICATION Spec
CONSTANTS
  Segment = {s1}
  Worker = {w1}
  Editor = {e1}
  Text = {t1}
  MachineText = machine
  NoText = noText
  NoDay = noDay
  NoRow = noRow
  NoSegment = noSegment
  Watched = {machine}
  AudioDays = 1
  RowDays = 2
  KeepDays = 3
  MaxDay = 4
  MaxEdits = 2
INVARIANT
  CorrectedAudioKept
