--------------------------- MODULE AliasRegister ----------------------------
(***************************************************************************)
(* What the callers of the pfSense agent may rely on: blocking, unblocking,*)
(* isolating and un-isolating an address, and creating and deleting an     *)
(* alias, are atomic operations on sets of addresses, each taking effect   *)
(* between its call and its return.  What that effect is depends on the    *)
(* names the firewall has for the addresses of an alias: with both, adding *)
(* and removing are union and difference; without `addresses` nothing is   *)
(* ever found in an alias, without `address` nothing is kept in it.        *)
(***************************************************************************)
CONSTANTS Callers, Requests, Names, None, Blocklist, Isolation, Fields

VARIABLES addrs, pending, taken

vars == <<addrs, pending, taken>>

Init ==
    /\ addrs = [a \in Names |-> {}]
    /\ pending = [c \in Callers |-> None]
    /\ taken = {}

Invoke(c, r) ==
    /\ pending[c] = None
    /\ pending' = [pending EXCEPT ![c] = r]
    /\ UNCHANGED <<addrs, taken>>

Found(s) == IF "addresses" \in Fields THEN s ELSE {}
Kept(s)  == IF "address" \in Fields THEN s ELSE {}

Added(s, ip)   == IF ip \in Found(s) THEN s ELSE Kept(Found(s) \cup {ip})
Removed(s, ip) == IF ip \in Found(s) THEN Kept(Found(s) \ {ip}) ELSE s

Write(name, s) == [a \in Names |-> IF a = name THEN s ELSE addrs[a]]

\* What a call may make of the addresses; an alias that exists is not created.
Effects(r) ==
    CASE r.kind = "blockIp"       -> {Write(Blocklist, Added(addrs[Blocklist], r.on))}
      [] r.kind = "unblockIp"     -> {Write(Blocklist, Removed(addrs[Blocklist], r.on))}
      [] r.kind = "isolateHost"   -> {Write(Isolation, Added(addrs[Isolation], r.on))}
      [] r.kind = "unIsolateHost" -> {Write(Isolation, Removed(addrs[Isolation], r.on))}
      [] r.kind = "createAlias"   -> {addrs} \cup {Write(r.on, Found(r.ips)) :
                                                     n \in {m \in Names : m = r.on /\ addrs[m] = {}}}
      [] r.kind = "deleteAlias"   -> {Write(r.on, {})}
      [] OTHER                    -> {addrs}

Take(c) ==
    /\ pending[c] # None
    /\ c \notin taken
    /\ addrs' \in Effects(pending[c])
    /\ taken' = taken \cup {c}
    /\ UNCHANGED pending

Return(c) ==
    /\ c \in taken
    /\ pending' = [pending EXCEPT ![c] = None]
    /\ taken' = taken \ {c}
    /\ UNCHANGED addrs

Next == \E c \in Callers :
            \/ \E r \in Requests : Invoke(c, r)
            \/ Take(c)
            \/ Return(c)

Spec == Init /\ [][Next]_vars
=============================================================================
