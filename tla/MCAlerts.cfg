SPECIFICATION AlertsSpec
CONSTANTS
  Call = {c1}
  Scheduled = {c1}
  Waiting = waiting
  Threshold = 1
  Repeat = 2
  Retry = 1
  Absent = absent
  Responding = responding
  NoTime = noTime
  MaxTime = 5
  Incident = {i1}
  Unit = {u1, u2}
  NoAlert = noAlert
  MaxAssign = 2
  MaxPolls = 2
  MaxChoices = 1
  Talk = {k1, k2}
  NoTalk = noTalk
  MaxTimers = 2
  MaxAsked = 2
  MaxStreams = 2
  MaxClips = 1
  RadioCall = {1, 2, 3}
  FirstCalls = {1}
  NoiseCalls = {}
  RadioTab = {"all", "law"}
  ListedIn <- Listed
  StartTab = "all"
  FeedPage = 2
  ScanQueue = 1
  NoCall = noCall
  Entry = {1, 2, 3, 4, 5}
  FirstEntries = {1, 2}
  NarrowEntries = {1, 3, 5}
  ListPage = 2
  EditedEntries = {2, 4}
  MaxEdits = 1
INVARIANTS
  AllTypesOK
  NobodyForgotten
  NoSpeechOverTone
  InputNotLocked
  ScannerFollows
  FeedIsWhole
PROPERTIES
  RepeatsSpaced
  SettledAfterRun
  OnlyShownLeaves
CHECK_DEADLOCK FALSE
