-------------------------------- MODULE Ipam --------------------------------
(***************************************************************************)
(* ipam.Allocate, one iteration of its loop per step, called with any      *)
(* pool, cursor and set of reserved addresses.                             *)
(***************************************************************************)
EXTENDS Addresses

VARIABLES
    pool, cursor, reserved,  \* the arguments of the call
    pc,                      \* loop, found or exhausted
    a, steps,                \* loop variables
    next                     \* Allocation.NextCursor; Allocation.Address is a

vars == <<pool, cursor, reserved, pc, a, steps, next>>

Addrs == 0 .. Space - 1

(* Loop variables keep to the pool, and the loop to its bound              *)
(* (ipam.Allocate).                                                        *)
TypeOK ==
    /\ pool \in Pools
    /\ cursor \in Addrs \cup {NoAddr}
    /\ reserved \subseteq Addrs
    /\ pc \in {"loop", "found", "exhausted"}
    /\ Contains(pool, a)
    /\ steps \in 0 .. addrCount(pool) + 1
    /\ next \in Addrs

(* A call with any arguments.                                              *)
Init ==
    /\ pool \in Pools
    /\ cursor \in Addrs \cup {NoAddr}
    /\ reserved \in SUBSET Addrs
    /\ pc = "loop"
    /\ a = Origin(pool, cursor)
    /\ steps = 0
    /\ next = firstHost(pool)

(* Mutated form of InBound: one iteration less.                            *)
InBound_Short == steps < addrCount(pool)

InBound == steps <= addrCount(pool)

Suits == isUsable(pool, a) /\ a \notin reserved

Take ==
    /\ pc = "loop" /\ InBound /\ Suits
    /\ pc' = "found"
    /\ next' = Following(pool, a)
    /\ UNCHANGED <<pool, cursor, reserved, a, steps>>

(* Mutated form of Skip: the iteration is not counted.                     *)
Skip_NoCount ==
    /\ pc = "loop" /\ InBound /\ ~Suits
    /\ a' = Following(pool, a)
    /\ UNCHANGED <<pool, cursor, reserved, pc, steps, next>>

Skip ==
    /\ pc = "loop" /\ InBound /\ ~Suits
    /\ a' = Following(pool, a)
    /\ steps' = steps + 1
    /\ UNCHANGED <<pool, cursor, reserved, pc, next>>

GiveUp ==
    /\ pc = "loop" /\ ~InBound
    /\ pc' = "exhausted"
    /\ UNCHANGED <<pool, cursor, reserved, a, steps, next>>

Next == Take \/ Skip \/ GiveUp

Spec == Init /\ [][Next]_vars

(* A running call runs on.                                                 *)
FairSpec == Spec /\ WF_vars(Next)

-----------------------------------------------------------------------------
(* Allocate returns the first free address after the cursor, going round   *)
(* the pool, with a host address to continue from, and reports exhaustion  *)
(* only when no host address is free: whatever the cursor, also one on the *)
(* network or broadcast address or outside the pool (ipam.Allocate).       *)
Contract ==
    /\ pc = "found" => /\ IsNextFree(pool, cursor, reserved, a)
                       /\ next \in Hosts(pool)
    /\ pc = "exhausted" => Free(pool, reserved) = {}

(* Every call returns: the loop is bounded (ipam.Allocate, addrCount).     *)
Returns == pc = "loop" ~> pc # "loop"

=============================================================================
