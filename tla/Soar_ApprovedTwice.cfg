SPECIFICATION Spec
CONSTANTS
    Workers = {w1, w2}
    t1 = t1
    t2 = t2
    i1 = i1
    Incidents = {i1}
    Targets = {t1}
    Entities <- OneIncident
    Playbooks = {"block_ip"}
    Modes = {"CONFIRM"}
    Params = {}
    Direct <- NoCalls
    Faults = {}
    MaxRuns = 2
    MaxExecs = 2
    None = None
INVARIANT ApprovedRunsOnce
