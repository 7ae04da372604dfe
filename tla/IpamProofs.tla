----------------------------- MODULE IpamProofs -----------------------------
(***************************************************************************)
(* ipam.Allocate meets its contract for every pool, cursor and set of      *)
(* reserved addresses.                                                     *)
(***************************************************************************)
EXTENDS Ipam, TLAPS

(* The iteration in which the loop that starts at s looks at host h: hosts *)
(* in cyclic order, after one iteration spent on s if s is no host.        *)
Turn(p, s, h) ==
    IF s \notin Hosts(p) THEN h - firstHost(p) + 1
    ELSE IF h >= s THEN h - s
    ELSE h - s + (lastHost(p) - firstHost(p) + 1)

(* Every host whose turn has passed is reserved.                           *)
Passed == \A h \in Hosts(pool) : Turn(pool, Origin(pool, cursor), h) < steps => h \in reserved

(* The address in hand is the one whose turn it is: the starting one at    *)
(* first, then hosts until each has had its turn.                          *)
OnTurn ==
    LET s == Origin(pool, cursor) IN
    /\ steps = 0 => a = s
    /\ steps > 0 => a \in Hosts(pool)
    /\ a \in Hosts(pool) => \/ Turn(pool, s, a) = steps
                            \/ \A h \in Hosts(pool) : Turn(pool, s, h) < steps

IInv == TypeOK /\ Passed /\ OnTurn /\ Contract

-----------------------------------------------------------------------------
(* The hosts of a pool (firstHost, lastHost) are a non-empty interval of   *)
(* numbers inside the pool, at most the two reserved addresses short of    *)
(* it, and addrCount is no less than their number.                         *)
LEMMA Geometry ==
    ASSUME NEW p \in Pools
    PROVE  /\ p.base \in Nat /\ Size(p) \in Nat /\ Size(p) > 0 /\ Space \in Nat
           /\ p.base + Size(p) <= Space
           /\ firstHost(p) \in Nat /\ lastHost(p) \in Nat
           /\ firstHost(p) <= lastHost(p)
           /\ p.base <= firstHost(p) /\ firstHost(p) <= p.base + 1
           /\ lastHost(p) < p.base + Size(p) /\ p.base + Size(p) <= lastHost(p) + 2
           /\ addrCount(p) \in Nat
           /\ addrCount(p) >= lastHost(p) - firstHost(p) + 1
<1>1. p \in [base : Nat, host : Nat, v4 : BOOLEAN] /\ Size(p) \in Nat
      /\ p.base + Size(p) <= Space /\ Space \in Nat /\ MaxInt \in Nat
  BY PoolAssumption
<1>2. /\ p.host = 0 => Size(p) = 1
      /\ p.host = 1 => Size(p) = 2
      /\ p.host > 1 => Size(p) >= 4
      /\ p.host >= 31 => Size(p) <= MaxInt
  BY PoolAssumption
<1>3. p.host \in Nat /\ p.base \in Nat
  BY <1>1
<1>7. Size(p) \in Nat /\ p.base + Size(p) <= Space /\ Space \in Nat /\ MaxInt \in Nat
  BY <1>1
<1>4. p.host = 0 \/ p.host = 1 \/ p.host > 1
  BY <1>3
<1>5. CASE Reserves(p)
  BY <1>1, <1>2, <1>3, <1>4, <1>5 DEF firstHost, lastHost, addrCount, Reserves
<1>6. CASE ~Reserves(p)
  <2>1. firstHost(p) = p.base /\ lastHost(p) = p.base + Size(p) - 1
    BY <1>6 DEF firstHost, lastHost
  <2>2. addrCount(p) = IF p.host >= 31 THEN MaxInt ELSE Size(p) - 0
    BY <1>6 DEF addrCount
  <2> QED
    BY <1>2, <1>3, <1>4, <1>7, <2>1, <2>2
<1> QED
  BY <1>5, <1>6

(* The loop starts inside the pool (Allocate resets a cursor outside it).  *)
LEMMA OriginInside ==
    ASSUME NEW p \in Pools, NEW c \in Addrs \cup {NoAddr}
    PROVE  Origin(p, c) \in Nat /\ Contains(p, Origin(p, c))
BY Geometry DEF Origin, Contains, Addrs, NoAddr

(* Advancing (Next and the wrap in Allocate) leads from an address of the  *)
(* pool to a host: the one after it, or the first after the last host or   *)
(* the broadcast address.                                                  *)
LEMMA FollowingHost ==
    ASSUME NEW p \in Pools, NEW x \in Nat, Contains(p, x)
    PROVE  /\ Following(p, x) \in Hosts(p)
           /\ x < lastHost(p) => Following(p, x) = x + 1
           /\ x >= lastHost(p) => Following(p, x) = firstHost(p)
<1>1. NextAddr(x) = IF x = Space - 1 THEN -1 ELSE x + 1
  BY DEF NextAddr, NoAddr
<1>2. Following(p, x) = IF ~(p.base <= NextAddr(x) /\ NextAddr(x) < p.base + Size(p))
                            \/ NextAddr(x) > lastHost(p)
                        THEN firstHost(p) ELSE NextAddr(x)
  BY DEF Following, Contains
<1>3. CASE x < lastHost(p)
  BY <1>1, <1>2, <1>3, Geometry DEF Contains, Hosts
<1>4. CASE x >= lastHost(p)
  BY <1>1, <1>2, <1>4, Geometry DEF Contains, Hosts
<1> QED
  BY <1>3, <1>4, Geometry DEF Contains

(* Turns are taken in the order in which hosts lie ahead of the start, and *)
(* they are as many as there are hosts, one more if the start is none.     *)
LEMMA TurnOrder ==
    ASSUME NEW p \in Pools, NEW s \in Nat, Contains(p, s),
           NEW g \in Hosts(p), NEW h \in Hosts(p)
    PROVE  /\ Turn(p, s, g) \in Nat
           /\ Turn(p, s, g) <= lastHost(p) - firstHost(p) + 1
           /\ Ahead(p, s, g) < Ahead(p, s, h) => Turn(p, s, g) < Turn(p, s, h)
<1>1. g \in Nat /\ h \in Nat /\ firstHost(p) <= g /\ g <= lastHost(p)
      /\ firstHost(p) <= h /\ h <= lastHost(p)
  BY Geometry DEF Hosts
<1>2. CASE s \in Hosts(p)
  BY <1>1, <1>2, Geometry DEF Turn, Ahead, Hosts, Contains
<1>3. CASE s \notin Hosts(p)
  <2>1. s < firstHost(p) \/ s > lastHost(p)
    BY <1>3, Geometry DEF Hosts
  <2>2. Turn(p, s, g) = g - firstHost(p) + 1 /\ Turn(p, s, h) = h - firstHost(p) + 1
    BY <1>3 DEF Turn
  <2>3. Ahead(p, s, g) < Ahead(p, s, h) => g < h
    BY <1>1, <2>1, Geometry DEF Ahead, Contains
  <2> QED
    BY <1>1, <2>2, <2>3, Geometry
<1> QED
  BY <1>2, <1>3

(* Between the turn of one host and that of the next there is none.        *)
LEMMA TurnFollows ==
    ASSUME NEW p \in Pools, NEW s \in Nat, Contains(p, s), NEW g \in Hosts(p)
    PROVE  LET f == Following(p, g) IN
           \/ Turn(p, s, f) = Turn(p, s, g) + 1
           \/ \A h \in Hosts(p) : Turn(p, s, h) <= Turn(p, s, g)
<1> DEFINE f == Following(p, g)
<1>1. g \in Nat /\ firstHost(p) <= g /\ g <= lastHost(p) /\ Contains(p, g)
  BY Geometry DEF Hosts, Contains
<1>2. \A h \in Hosts(p) : h \in Nat /\ firstHost(p) <= h /\ h <= lastHost(p)
  BY Geometry DEF Hosts
<1>3. CASE g < lastHost(p)
  <2>1. f = g + 1
    BY <1>1, <1>3, FollowingHost
  <2>2. CASE s \in Hosts(p) /\ s = g + 1
    BY <1>1, <1>2, <2>2, Geometry DEF Turn
  <2>3. CASE ~(s \in Hosts(p) /\ s = g + 1)
    BY <1>1, <2>1, <2>3, Geometry DEF Turn
  <2> QED
    BY <2>2, <2>3
<1>4. CASE g = lastHost(p)
  <2>1. f = firstHost(p)
    BY <1>1, <1>4, FollowingHost
  <2>2. CASE s \in Hosts(p) /\ s # firstHost(p)
    BY <1>1, <1>2, <1>4, <2>1, <2>2, Geometry DEF Turn
  <2>3. CASE ~(s \in Hosts(p) /\ s # firstHost(p))
    BY <1>1, <1>2, <1>4, <2>3, Geometry DEF Turn
  <2> QED
    BY <2>2, <2>3
<1> QED
  BY <1>1, <1>3, <1>4, Geometry

-----------------------------------------------------------------------------
(* The loop starts with nothing passed.                                    *)
LEMMA IInvInit == Init => IInv
<1> SUFFICES ASSUME Init PROVE IInv
  OBVIOUS
<1>1. pool \in Pools /\ cursor \in Addrs \cup {NoAddr} /\ reserved \subseteq Addrs
  BY DEF Init
<1> DEFINE s == Origin(pool, cursor)
<1>2. s \in Nat /\ Contains(pool, s) /\ a = s /\ steps = 0 /\ pc = "loop" /\ next = firstHost(pool)
  BY <1>1, OriginInside DEF Init
<1>3. TypeOK
  BY <1>1, <1>2, Geometry DEF TypeOK, Addrs
<1>4. Passed
  BY <1>1, <1>2, TurnOrder DEF Passed
<1>5. a \in Hosts(pool) => Turn(pool, s, a) = 0
  BY <1>1, <1>2, Geometry DEF Turn, Hosts
<1>6. OnTurn
  BY <1>2, <1>5 DEF OnTurn
<1> QED
  BY <1>2, <1>3, <1>4, <1>6 DEF IInv, Contract

(* An iteration of the loop of Allocate preserves the invariant.           *)
LEMMA IInvNext == IInv /\ [Next]_vars => IInv'
<1> SUFFICES ASSUME IInv, [Next]_vars PROVE IInv'
  OBVIOUS
<1> DEFINE s == Origin(pool, cursor)
<1>1. /\ pool \in Pools /\ cursor \in Addrs \cup {NoAddr} /\ reserved \subseteq Addrs
      /\ Contains(pool, a) /\ steps \in Nat /\ steps <= addrCount(pool) + 1 /\ next \in Addrs
  BY Geometry DEF IInv, TypeOK
<1>2. s \in Nat /\ Contains(pool, s)
  BY <1>1, OriginInside
<1>3. a \in Nat
  BY <1>1, <1>2, Geometry DEF IInv, OnTurn, Hosts
<1>4. Hosts(pool) \subseteq Addrs
  BY <1>1, Geometry DEF Hosts, Addrs
<1>5. CASE Take
  <2>1. UNCHANGED <<pool, cursor, reserved, a, steps>> /\ pc' = "found" /\ next' = Following(pool, a)
    BY <1>5 DEF Take
  <2>2. a \in Hosts(pool) /\ a \notin reserved
    BY <1>1, <1>3, <1>5, Geometry DEF Take, Suits, isUsable, Hosts
  <2>3. next' \in Hosts(pool)
    BY <1>1, <1>3, <2>1, FollowingHost
  <2>4. TypeOK'
    BY <1>4, <2>1, <2>3 DEF IInv, TypeOK
  <2>5. Passed' /\ OnTurn'
    BY <2>1 DEF IInv, Passed, OnTurn
  <2>6. Turn(pool, s, a) = steps
    BY <2>2 DEF IInv, Passed, OnTurn
  <2>7. ASSUME NEW g \in Free(pool, reserved)
        PROVE  Ahead(pool, s, a) <= Ahead(pool, s, g)
    <3>1. g \in Hosts(pool) /\ g \notin reserved
      BY DEF Free
    <3>2. ~(Turn(pool, s, g) < Turn(pool, s, a))
      BY <2>6, <3>1 DEF IInv, Passed
    <3>3. ~(Ahead(pool, s, g) < Ahead(pool, s, a))
      BY <1>1, <1>2, <2>2, <3>1, <3>2, TurnOrder
    <3>4. g \in Nat
      BY <1>1, <3>1, Geometry DEF Hosts
    <3> QED
      BY <1>1, <1>2, <1>3, <3>3, <3>4, Geometry DEF Ahead
  <2>8. IsNextFree(pool, cursor, reserved, a)
    BY <2>2, <2>7 DEF IsNextFree, Free
  <2>9. IsNextFree(pool, cursor, reserved, a)'
    BY <2>1, <2>8
  <2> QED
    BY <2>1, <2>3, <2>4, <2>5, <2>9 DEF IInv, Contract
<1>6. CASE Skip
  <2>1. /\ UNCHANGED <<pool, cursor, reserved, pc, next>> /\ pc = "loop"
        /\ a' = Following(pool, a) /\ steps' = steps + 1 /\ steps <= addrCount(pool)
    BY <1>6 DEF Skip, InBound
  <2>2. a \in Hosts(pool) => a \in reserved
    BY <1>1, <1>6, Geometry DEF Skip, Suits, isUsable, Hosts, Contains
  <2>3. a' \in Hosts(pool)
    BY <1>1, <1>3, <2>1, FollowingHost
  <2>4. TypeOK'
    <3>1. Contains(pool, a')
      BY <1>1, <2>3, Geometry DEF Hosts, Contains
    <3>2. steps' \in 0 .. addrCount(pool) + 1
      BY <1>1, <2>1, Geometry
    <3> QED
      BY <2>1, <3>1, <3>2 DEF IInv, TypeOK, Contains, addrCount, Reserves, Size
  <2>5. ASSUME NEW h \in Hosts(pool), Turn(pool, s, h) < steps + 1
        PROVE  h \in reserved
    <3>1. Turn(pool, s, h) \in Nat
      BY <1>1, <1>2, TurnOrder
    <3>2. CASE Turn(pool, s, h) < steps
      BY <3>2 DEF IInv, Passed
    <3>3. CASE Turn(pool, s, h) = steps
      <4>1. h = a \/ h \in reserved
        <5>1. CASE a \in Hosts(pool)
          <6>1. Turn(pool, s, a) = steps \/ \A g \in Hosts(pool) : Turn(pool, s, g) < steps
            BY <5>1 DEF IInv, OnTurn
          <6>2. CASE Turn(pool, s, a) = steps
            BY <1>1, <1>2, <1>3, <3>3, <5>1, <6>2, Geometry DEF Turn, Hosts
          <6> QED
            BY <1>1, <3>2, <6>1, <6>2 DEF IInv, Passed
        <5>2. CASE a \notin Hosts(pool)
          <6>1. steps = 0 /\ a = s
            BY <1>1, <5>2 DEF IInv, OnTurn
          <6>2. Turn(pool, s, h) = h - firstHost(pool) + 1
            BY <5>2, <6>1 DEF Turn
          <6> QED
            BY <1>1, <3>3, <6>1, <6>2, Geometry DEF Hosts
        <5> QED
          BY <5>1, <5>2
      <4> QED
        BY <2>2, <4>1
    <3> QED
      BY <1>1, <2>5, <3>1, <3>2, <3>3
  <2>6. Passed'
    BY <2>1, <2>5 DEF Passed
  <2>7. Turn(pool, s, a') = steps + 1 \/ \A h \in Hosts(pool) : Turn(pool, s, h) < steps + 1
    <3>1. CASE a \in Hosts(pool)
      <4>1. Turn(pool, s, a) = steps \/ \A h \in Hosts(pool) : Turn(pool, s, h) < steps
        BY <3>1 DEF IInv, OnTurn
      <4>2. CASE Turn(pool, s, a) = steps
        <5>1. \/ Turn(pool, s, a') = steps + 1
              \/ \A h \in Hosts(pool) : Turn(pool, s, h) <= steps
          BY <1>1, <1>2, <2>1, <3>1, <4>2, TurnFollows
        <5>2. \A h \in Hosts(pool) : Turn(pool, s, h) \in Nat
          BY <1>1, <1>2, TurnOrder
        <5> QED
          BY <1>1, <5>1, <5>2
      <4>3. CASE \A h \in Hosts(pool) : Turn(pool, s, h) < steps
        <5>1. \A h \in Hosts(pool) : Turn(pool, s, h) \in Nat
          BY <1>1, <1>2, TurnOrder
        <5> QED
          BY <1>1, <4>3, <5>1
      <4> QED
        BY <4>1, <4>2, <4>3
    <3>2. CASE a \notin Hosts(pool)
      <4>1. steps = 0 /\ a = s
        BY <1>1, <3>2 DEF IInv, OnTurn
      <4>2. a' = firstHost(pool)
        BY <1>1, <1>3, <2>1, <3>2, FollowingHost, Geometry DEF Hosts, Contains
      <4>3. Turn(pool, s, a') = a' - firstHost(pool) + 1
        BY <3>2, <4>1 DEF Turn
      <4> QED
        BY <1>1, <4>1, <4>2, <4>3, Geometry
    <3> QED
      BY <3>1, <3>2
  <2>8. OnTurn'
    <3>1. Origin(pool, cursor)' = s
      BY <2>1
    <3>2. Hosts(pool)' = Hosts(pool)
      BY <2>1
    <3>3. Turn(pool, s, a)' = Turn(pool, s, a')
      BY <2>1
    <3>4. steps' > 0 /\ steps' # 0
      BY <1>1, <2>1
    <3> QED
      BY <2>1, <2>3, <2>7, <3>4 DEF OnTurn
  <2> QED
    BY <2>1, <2>4, <2>6, <2>8 DEF IInv, Contract
<1>7. CASE GiveUp
  <2>1. /\ UNCHANGED <<pool, cursor, reserved, a, steps, next>> /\ pc' = "exhausted"
        /\ ~(steps <= addrCount(pool))
    BY <1>7 DEF GiveUp, InBound
  <2>2. TypeOK' /\ Passed' /\ OnTurn'
    BY <2>1 DEF IInv, TypeOK, Passed, OnTurn
  <2>3. ASSUME NEW h \in Hosts(pool) PROVE h \in reserved
    <3>1. /\ Turn(pool, s, h) \in Nat
          /\ Turn(pool, s, h) <= lastHost(pool) - firstHost(pool) + 1
      BY <1>1, <1>2, TurnOrder
    <3>2. Turn(pool, s, h) < steps
      BY <1>1, <2>1, <3>1, Geometry
    <3> QED
      BY <3>2 DEF IInv, Passed
  <2>4. Free(pool, reserved)' = {}
    BY <2>1, <2>3 DEF Free
  <2> QED
    BY <2>1, <2>2, <2>4 DEF IInv, Contract
<1>8. CASE UNCHANGED vars
  BY <1>8 DEF IInv, TypeOK, Passed, OnTurn, Contract, vars
<1> QED
  BY <1>5, <1>6, <1>7, <1>8 DEF Next

(* ipam.Allocate keeps its contract: on every pool, from every cursor and  *)
(* for every set of reserved addresses it returns the first free address   *)
(* going round the pool, and gives up only when none is free.              *)
THEOREM AllocateMeetsContract == Spec => []Contract
<1>1. IInv => Contract
  BY DEF IInv
<1> QED
  BY <1>1, IInvInit, IInvNext, PTL DEF Spec

(* The loop variables of ipam.Allocate stay in the pool and in bound.      *)
THEOREM LoopTypeCorrect == Spec => []TypeOK
<1>1. IInv => TypeOK
  BY DEF IInv
<1> QED
  BY <1>1, IInvInit, IInvNext, PTL DEF Spec

=============================================================================
