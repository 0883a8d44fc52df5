SPECIFICATION FairLockSpec
CONSTANT Callers = {c1, c2, c3}
PROPERTY EveryQueuedWriteRuns
