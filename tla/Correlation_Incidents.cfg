SPECIFICATION Spec
CONSTANTS
    e1 = e1
    e2 = e2
    e3 = e3
    s1 = s1
    s2 = s2
    h1 = h1
    h2 = h2
    t1 = t1
    t2 = t2
    Sources = {s1, s2}
    Hosts = {h1, h2}
    Targets = {t1, t2}
    TargetOf <- TestTargets
    SenderOf <- NoSender
    Baseline <- TestBaseline
    MinBaseline = 2
    MinVolume = 0
    Workers = {w1}
    Events = {e1, e2, e3}
    SourceOf <- TwoSources
    HostOf <- SharedHost
    Enriched = {e1, e3}
    Rules = {"R001", "R002", "R003", "R004", "R005"}
    MinTargets = 1
    MaxDelay = 0
    Threshold = 1
    MaxSpan = 1
    Window = 1
    Buffer = 2
    Faults = {"es", "db"}
    MaxTime = 4
    None = None
INVARIANT NeighboursDiffer
INVARIANT ScannedOnce
INVARIANT DetectionsHandled
