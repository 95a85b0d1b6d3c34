SPECIFICATION Spec
CONSTANTS
  States = {"rest"}
  Neutral = "rest"
  Configs = {"full"}
  InitialConfig = "full"
  Accepts <- MCAccepts
  InputQueue = 2
  Submissions = 3
  ReplyTimeout = 2
  Period = 1
  MaxTime = 2
  MaxOrdinal = 2
  MaxReports = 3
  MaxObserved = 3
INVARIANTS
  TypeOK
  InputDelivery
  RequestOwnership
  ClosedOnce
  ObservationAccounting
PROPERTIES
  SubmittedInOrder
