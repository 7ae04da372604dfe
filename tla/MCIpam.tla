------------------------------- MODULE MCIpam -------------------------------
(* Every prefix of up to 3 host bits in an address space of 8, IPv4 (/29   *)
(* to /32) and IPv6, the ones at the top of the space included.            *)
EXTENDS Ipam

MCPools == {p \in [base : 0 .. 7, host : 0 .. 3, v4 : BOOLEAN] :
              p.base % Size(p) = 0 /\ p.base + Size(p) <= 8}

=============================================================================
