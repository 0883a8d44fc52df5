SPECIFICATION FairSpec
CONSTANTS
  None = None
  u1 = u1
  j1 = j1
  j2 = j2
  Users = {u1}
  Jobs = {j1, j2}
  LogsOf <- TwoBatches
  Kinds <- TwoKinds
  Concurrency = 2
  MaxAnomalies = 3
  Faults = {"db", "restart"}
INVARIANTS TypeOK TriggerNeedsBaseline TriggerNeedsTwoAnomalies AnomaliesCounted
  ScoredTwiceOnlyByRestart
PROPERTIES JobsEnd
CHECK_DEADLOCK FALSE
