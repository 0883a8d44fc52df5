SPECIFICATION Spec
CONSTANTS
    Workers = {w1, w2}
    t1 = t1
    t2 = t2
    i1 = i1
    Incidents = {i1}
    Targets = {t1, t2}
    Entities <- TwoTargets
    Playbooks = {"block_ip", "temporary_block", "remove_rule"}
    Modes = {"AUTO", "CONFIRM"}
    Params = {t1}
    Direct <- Calls
    Faults = {"refused", "db", "crash"}
    MaxRuns = 2
    MaxExecs = 1
    None = None
SYMMETRY Symmetry
INVARIANT TypeOK
INVARIANT ResolvedWithEvidence
INVARIANT ExecutedCanBeUndone
INVARIANT EveryHoldAccountedFor
INVARIANT PendingIsExplained
