SPECIFICATION Spec
CONSTANTS
    Callers = {c1, c2, c3}
    ip1 = ip1
    ip2 = ip2
    r1 = r1
    Ips = {ip1, ip2}
    Protected = {}
    RuleIds = {}
    Requests <- AliasRequests
    Fields = {"address", "addresses"}
    Faults = {}
    None = None
INVARIANT QuiescentInForce
INVARIANT ApplyNeverSuppressed
PROPERTY AtomicAliasOperations
PROPERTY SerializesWrites
