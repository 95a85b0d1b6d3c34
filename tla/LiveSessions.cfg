SPECIFICATION AllLiveSpec
CONSTANTS
  Parts = {"steam", "hid", "native", "demo", "discovery"}
  States = {"rest", "held"}
  Neutral = "rest"
  Configs = {"full", "reduced"}
  InitialConfig = "full"
  Accepts <- MCAccepts
  InputQueue = 1
  Submissions = 2
  ReplyTimeout = 1
  Period = 1
  MaxTime = 1
  MaxOrdinal = 1
  MaxReports = 1
  MaxObserved = 0
INVARIANT
  NoLostEdit
PROPERTIES
  EditReaches
  WaitsEnd
CHECK_DEADLOCK FALSE
