SPECIFICATION FairSpec
CONSTANTS
  Requests = {r1}
  l1 = l1
  l2 = l2
  l3 = l3
  l4 = l4
  Entries = {l1, l2, l3, l4}
  CollectedAt <- TestTimes
  PageSize = 1
  Cap = 4
  Lifetime = 1
  LastDay = 3
  Faults = {"search", "db", "write", "restart"}
INVARIANTS TypeOK MissingIsExplained ReadyCanBeDownloaded ListedIsWhole
PROPERTIES JobsSettle
CHECK_DEADLOCK FALSE
