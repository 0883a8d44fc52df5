--------------------------- MODULE MCPfSenseAgent ---------------------------
(* Instances of PfSenseAgent for TLC: which calls the callers make.         *)
EXTENDS PfSenseAgent, TLC

CONSTANTS ip1, ip2, r1

Of(kinds, on)     == [kind : kinds, on : on]
Create(name, ips) == [kind |-> "createAlias", on |-> name, ips |-> ips]

\* Two addresses in two aliases: the writes that overlap.
AliasRequests ==
    Of({"blockIp", "unblockIp"}, {ip1, ip2}) \cup Of({"isolateHost", "unIsolateHost"}, {ip1})

\* Every operation, on an address that may be blocked (ip1) and a protected
\* one (ip2), which createAlias puts under the name of the blocklist.
MixedRequests ==
    Of({"blockIp", "blockPort"}, {ip1, ip2})
    \cup Of({"unblockIp", "deleteRule"}, {ip1})
    \cup Of({"unblockRule"}, {r1})
    \cup Of({"isolateHost"}, {ip2})
    \cup Of({"deleteAlias"}, {Blocklist}) \cup {Create(Blocklist, {ip2})}

\* Two blocks.
TwoBlocks == Of({"blockIp"}, {ip1, ip2})

Symmetry == Permutations(Callers)
=============================================================================
