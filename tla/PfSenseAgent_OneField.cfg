SPECIFICATION Spec
CONSTANTS
    Callers = {c1, c2}
    ip1 = ip1
    ip2 = ip2
    r1 = r1
    Ips = {ip1, ip2}
    Protected = {}
    RuleIds = {}
    Requests <- TwoBlocks
    Fields = {"address"}
    Faults = {}
    None = None
INVARIANT AppendsAddress
