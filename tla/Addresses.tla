----------------------------- MODULE Addresses ------------------------------
(***************************************************************************)
(* Address pools: the geometry of a CIDR prefix as internal/ipam computes  *)
(* it, and what ipam.Allocate promises.  An address is a number below      *)
(* Space; a prefix is its masked base address, its number of host bits     *)
(* (BitLen - Bits) and whether it is IPv4.                                 *)
(***************************************************************************)
EXTENDS Integers

CONSTANTS
    Pools,   \* the prefixes considered
    Space,   \* number of addresses of the address family
    MaxInt   \* the largest Go int

Size(p) == 2 ^ p.host

(* A masked prefix lies inside the address space.  The last three lines    *)
(* are facts about powers of two; a prefix whose host count saturates      *)
(* (31 host bits or more) is no larger than the largest int.               *)
ASSUME PoolAssumption ==
    /\ Space \in Nat /\ MaxInt \in Nat
    /\ \A p \in Pools :
          /\ p \in [base : Nat, host : Nat, v4 : BOOLEAN]
          /\ p.base + Size(p) <= Space
          /\ Size(p) \in Nat
          /\ p.host = 0 => Size(p) = 1
          /\ p.host = 1 => Size(p) = 2
          /\ p.host > 1 => Size(p) >= 4
          /\ p.host >= 31 => Size(p) <= MaxInt

(* The zero netip.Addr: no prefix contains it.                             *)
NoAddr == -1

(* netip: the address after the last one of the family is the zero Addr.   *)
NextAddr(a) == IF a = Space - 1 THEN NoAddr ELSE a + 1

Contains(p, a) == p.base <= a /\ a < p.base + Size(p)

(* IPv4 prefixes up to /30 have a network and a broadcast address.         *)
Reserves(p) == p.v4 /\ p.host > 1

firstHost(p) == IF Reserves(p) THEN p.base + 1 ELSE p.base
lastHost(p) == p.base + Size(p) - (IF Reserves(p) THEN 2 ELSE 1)
isUsable(p, a) == Contains(p, a) /\ firstHost(p) <= a /\ a <= lastHost(p)

addrCount(p) ==
    IF p.host >= 31 THEN MaxInt ELSE Size(p) - (IF Reserves(p) THEN 2 ELSE 0)

(* Mutated form of Following: no wrap.                                     *)
Following_NoWrap(p, a) == NextAddr(a)

(* The address after a, back to the first host at the end of the pool.     *)
Following(p, a) ==
    LET n == NextAddr(a) IN
    IF ~Contains(p, n) \/ n > lastHost(p) THEN firstHost(p) ELSE n

(* The node's own address inside an IPv4 pool.                             *)
gatewayAddress(p) == IF Reserves(p) THEN {p.base + 1} ELSE {}

-----------------------------------------------------------------------------
(* The promise of Allocate: the next free address starting from cursor     *)
(* inclusive, wrapping around the pool once; none only if none is free.    *)

Hosts(p) == firstHost(p) .. lastHost(p)
Free(p, reserved) == Hosts(p) \ reserved

Origin(p, cursor) == IF Contains(p, cursor) THEN cursor ELSE firstHost(p)

(* How far h lies after s, going round the pool.                           *)
Ahead(p, s, h) == IF h >= s THEN h - s ELSE h - s + Size(p)

IsNextFree(p, cursor, reserved, h) ==
    /\ h \in Free(p, reserved)
    /\ \A g \in Free(p, reserved) :
          Ahead(p, Origin(p, cursor), h) <= Ahead(p, Origin(p, cursor), g)

=============================================================================
