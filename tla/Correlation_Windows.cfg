SPECIFICATION Spec
CONSTANTS
    e1 = e1
    e2 = e2
    e3 = e3
    s1 = s1
    s2 = s2
    h1 = h1
    h2 = h2
    t1 = t1
    t2 = t2
    Sources = {s1, s2}
    Hosts = {h1, h2}
    Targets = {t1, t2}
    TargetOf <- TestTargets
    SenderOf <- NoSender
    Baseline <- TestBaseline
    MinBaseline = 2
    MinVolume = 0
    Workers = {w1, w2}
    Events = {e1, e2}
    SourceOf <- OneSource
    HostOf <- OwnHosts
    Enriched = {e1}
    Rules = {"R001", "R005"}
    MinTargets = 2
    MaxDelay = 1
    Threshold = 2
    MaxSpan = 0
    Window = 1
    Buffer = 2
    Faults = {"es", "lag", "crash"}
    MaxTime = 3
    None = None
SYMMETRY Symmetry
INVARIANT TypeOK
INVARIANT OnlyGapsAreLost
INVARIANT IncidentsAreBursts
