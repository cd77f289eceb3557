SPECIFICATION ServicesSpec
CONSTANTS
  Segment = {s1}
  Worker = {w1, w2}
  Editor = {p1, p2}
  Text = {t1}
  MachineText = machine
  NoText = noText
  NoDay = noDay
  NoRow = noRow
  NoSegment = noSegment
  Watched = {machine, t1}
  AudioDays = 1
  RowDays = 2
  KeepDays = 3
  MaxDay = 4
  MaxEdits = 2
  RadioId = {r1, r2}
  Unnamed = Unnamed
  NoRecording = noRecording
  NoStamp = noStamp
  Silence = 2
  MaxSegment = 3
  Skip = 1
  Lookback = 2
  LastTick = 5
  MaxSignals = 2
  NoTime = noTime
  PollSeconds = 3
  CurrentAge = 1
  AnswerSeconds = 1
  AnswerPieces = 2
  SecretSeconds = 1
  LongestPause = 0
  Attempts = 2
  TokenLife = 2
  TokenMargin = 1
  LastTime = 10
  Event = {e1, e2, e3}
  Request = {q1, q2}
  Browser = {b1}
  NoArrival = noArrival
  CacheSize = 2
  QueueSize = 2
  MaxArrivals = 3
  MaxLives = 2
  MaxText = 6
  MaxPiece = 2
  Tenant = {n2, n3}
  NoTenant = noTenant
  NoCount = noCount
  DaysPerMonth = 2
  CallPage = 1
  KeptReports = 1
  CacheDays = 1
  Months = 2
  MaxReports = 2
  MaxCalls = 1
  Owner = {o1, o2}
  ReportMonth = {m1, m2}
  NoReport = noReport
  KeptMonthly = 2
  MaxMonthly = 3
INVARIANTS
  AllTypesOK
  AudioHonest
  CorrectionsSafe
  SignalBelongs
  BrowsersFollow
  CurrentIsRecent
  SourcesNeverSpoken
  OverIsWhole
SYMMETRY Handlers
CHECK_DEADLOCK FALSE
