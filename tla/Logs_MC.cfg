SPECIFICATION FairSpec
CONSTANTS
  None = None
  b1 = b1
  b2 = b2
  l1 = l1
  l2 = l2
  l3 = l3
  Batches = {b1, b2}
  Entries = {l1, l2, l3}
  LogsOf <- TestBatches
  CollectedAt <- TestDays
  Hash <- TestHashes
  Malformed = {l3}
  WithPrincipal = {l1}
  Refusable = {l2}
  PageSize = 1
  RetentionDays = 1
  LastDay = 3
  Faults = {"bulk", "search", "write", "delete", "ueba", "restart"}
INVARIANTS TypeOK PurgedIsArchived HandedOverIsInserted RepeatedOnlyByRestart
PROPERTIES JobsEnd
CHECK_DEADLOCK FALSE
