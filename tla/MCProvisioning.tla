--------------------------- MODULE MCProvisioning ---------------------------
EXTENDS Provisioning, TLC

MCDefaults == [profile |-> "v2", hostname |-> "node1", iface |-> "awg0", port |-> 38823,
               cidr |-> {200}]

(* The default options of the command, and variations that collide with    *)
(* them in one respect each: the port, the interface, the pool.  BadPort   *)
(* is refused.                                                             *)
V31 == [profile |-> "v31", hostname |-> "node31", iface |-> "awg31", port |-> 38824,
        cidr |-> {201}]
Other == [V31 EXCEPT !.profile = "v31b", !.hostname = "node31b"]
SamePort == [Other EXCEPT !.iface = "awg32", !.cidr = {202}]
SameIface == [Other EXCEPT !.port = 38825, !.cidr = {202}]
Overlap == [Other EXCEPT !.iface = "awg32", !.port = 38825, !.cidr = {201, 202}]
BadPort == [V31 EXCEPT !.port = 65536]
MCOptions == {V31, SamePort, SameIface, Overlap, BadPort}

Symmetry == Permutations(Apis) \cup Permutations(Commands)

=============================================================================
