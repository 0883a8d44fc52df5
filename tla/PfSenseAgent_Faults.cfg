SPECIFICATION FairSpec
CONSTANTS
    Callers = {c1, c2}
    ip1 = ip1
    ip2 = ip2
    r1 = r1
    Ips = {ip1, ip2}
    Protected = {ip2}
    RuleIds = {r1}
    Requests <- MixedRequests
    Fields = {"address", "addresses"}
    Faults = {"refused", "timeout", "wrapped", "crash"}
    None = None
INVARIANT ReadStaysFresh
INVARIANT ProtectedNeverBlocked
INVARIANT ReportedBlockStaged
PROPERTY StartedWriteReturns
