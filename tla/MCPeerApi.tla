----------------------------- MODULE MCPeerApi ------------------------------
EXTENDS PeerApi, TLC

CONSTANTS t1, t2

(* IPv4 /29 and /30 pools: six and two hosts, the first the gateway.       *)
Slash29 == [base |-> 0, host |-> 3, v4 |-> TRUE]
Slash30 == [base |-> 8, host |-> 2, v4 |-> TRUE]
MCPools == {Slash29, Slash30}

(* Two tenants with pools of their own on the node, or one tenant only.    *)
TwoPools == (t1 :> Slash29) @@ (t2 :> Slash30)
OnePool == [t \in Tenants |-> IF t = t1 THEN Slash29 ELSE None]
SmallPool == [t \in Tenants |-> IF t = t1 THEN Slash30 ELSE None]

Symmetry == Permutations(Requests) \cup Permutations(Keys) \cup Permutations(ExternalIds)

=============================================================================
