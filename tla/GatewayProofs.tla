--------------------------- MODULE GatewayProofs ----------------------------
(***************************************************************************)
(* The rate limiter keeps its rate and its hints suffice, and the chain of *)
(* checks in front of the tables lets through exactly who is entitled.     *)
(*                                                                         *)
(* The limiter's part rests on a ledger: the tokens taken since any        *)
(* admitted request, and those left in the bucket, are no more than a full *)
(* bucket and what was refilled since.  WithinRate alone is not inductive, *)
(* for it says nothing of the tokens that are left.                        *)
(***************************************************************************)
EXTENDS Gateway, FiniteSetTheorems, SequenceTheorems, TLAPS

(* A key with an admitted request has a bucket, refilled no earlier.       *)
(* WithinRate follows from the balance of the ledger at each admission.    *)
Ledger ==
    \A k \in Clients : \A i \in 1 .. Len(admitted[k]) :
        /\ buckets[k] # None
        /\ admitted[k][i] <= buckets[k].last
        /\ (Len(admitted[k]) - i + 1) * Unit + buckets[k].tokens
             <= Capacity * Unit + Refill * (buckets[k].last - admitted[k][i])

(* A caller is told to come back a second, or more, after its bucket was   *)
(* last refilled.                                                          *)
HintIsLater ==
    \A k \in Clients : hint[k] # None =>
        buckets[k] # None /\ hint[k] >= buckets[k].last + Second

IInv == TypeOK /\ Ledger /\ WithinRate /\ HintIsLater

(* Enough is refilled in a second for one request, as it is at the default *)
(* rate (RATE_REFILL_PER_S).                                               *)
TokenPerSecond == Refill * Second >= Unit

-----------------------------------------------------------------------------
(* A longer time refills no less (the product in TokenBucket.Allow).       *)
LEMMA RefillMonotone ==
    ASSUME NEW c \in Nat, NEW x \in Int, NEW y \in Int, x <= y
    PROVE  c * x <= c * y
OBVIOUS

(* What is refilled over two stretches of time is refilled over both       *)
(* together (TokenBucket.Allow).                                           *)
LEMMA RefillAdds ==
    ASSUME NEW c \in Nat, NEW x \in Int, NEW y \in Int, NEW z \in Int
    PROVE  c * (y - x) + c * (z - y) = c * (z - x)
OBVIOUS

(* One more request costs one more token (TokenBucket.Allow).              *)
LEMMA OneMore ==
    ASSUME NEW u \in Nat, NEW n \in Int
    PROVE  (n + 1) * u = n * u + u
OBVIOUS

(* The balance of the ledger carries over a refill: n was taken, x left of *)
(* c, with r refilled until then and e since (TokenBucket.Allow).          *)
LEMMA Balance ==
    ASSUME NEW n \in Int, NEW x \in Int, NEW y \in Int, NEW c \in Int, NEW r \in Int, NEW e \in Int,
           n + x <= c + r, y <= x + e
    PROVE  n + y <= c + (r + e)
OBVIOUS

(* Times of the past stay times of the past as the clock goes on (the      *)
(* history of admissions).                                                 *)
LEMMA SeqOfMore ==
    ASSUME NEW S, NEW T, S \subseteq T, NEW q \in Seq(S)
    PROVE  q \in Seq(T)
<1>1. PICK n \in Nat : q \in [1 .. n -> S]
  BY SeqDef
<1>2. q \in [1 .. n -> T]
  BY <1>1
<1> QED BY <1>2, SeqDef

(* The bucket that Allow works on, after its refill: it holds no more than *)
(* its capacity, and no more than it held and the refill since; if it did  *)
(* not overflow it holds no less either (TokenBucket.Allow).               *)
LEMMA BucketType ==
    ASSUME TypeOK, NEW k \in Clients
    PROVE  /\ Bucket(k) \in [tokens : 0 .. Capacity * Unit, last : 0 .. now]
           /\ Bucket(k).last = now
           /\ buckets[k] # None =>
                /\ buckets[k].tokens \in Nat /\ buckets[k].last \in 0 .. now
                /\ Bucket(k).tokens <= buckets[k].tokens + Refill * (now - buckets[k].last)
                /\ \/ Bucket(k).tokens = Capacity * Unit
                   \/ Bucket(k).tokens = buckets[k].tokens + Refill * (now - buckets[k].last)
<1>0. Capacity * Unit \in Nat /\ now \in Nat /\ Refill \in Nat
  BY RateAssumption DEF TypeOK
<1>1. CASE buckets[k] = None
  BY <1>0, <1>1 DEF Bucket
<1>2. CASE buckets[k] # None
  <2> DEFINE b == buckets[k]
             t == b.tokens + (now - b.last) * Refill
  <2>1. b \in [tokens : 0 .. Capacity * Unit, last : 0 .. now]
    BY <1>2 DEF TypeOK
  <2>2. b.tokens \in Nat /\ b.last \in 0 .. now
    BY <2>1, <1>0
  <2>3. (now - b.last) * Refill = Refill * (now - b.last) /\ Refill * (now - b.last) \in Nat
    BY <2>2, <1>0
  <2>4. Bucket(k) = [tokens |-> IF t < Capacity * Unit THEN t ELSE Capacity * Unit, last |-> now]
    BY <1>2 DEF Bucket, Refilled
  <2> HIDE DEF b
  <2>5. t \in Nat /\ t = b.tokens + Refill * (now - b.last)
    BY <2>2, <2>3
  <2> HIDE DEF t
  <2>6. QED BY <1>0, <1>2, <2>2, <2>4, <2>5 DEF b
<1> QED BY <1>1, <1>2

(* The ledger balances again once Allow has refilled the bucket            *)
(* (TokenBucket.Allow).                                                    *)
LEMMA RefillBalance ==
    ASSUME TypeOK, Ledger, NEW k \in Clients, NEW i \in 1 .. Len(admitted[k])
    PROVE  /\ admitted[k][i] \in 0 .. now
           /\ (Len(admitted[k]) - i + 1) * Unit + Bucket(k).tokens
                <= Capacity * Unit + Refill * (now - admitted[k][i])
<1> DEFINE b == Bucket(k)
           n == (Len(admitted[k]) - i + 1) * Unit
           o == buckets[k]
           a == admitted[k][i]
           full == Capacity * Unit
           r == Refill * (o.last - a)
           e == Refill * (now - o.last)
<1>1. now \in Nat /\ b.tokens \in Nat
  BY BucketType, RateAssumption DEF TypeOK
<1>2. a \in 0 .. now /\ n \in Int
  BY RateAssumption DEF TypeOK
<1>3. o # None /\ n + o.tokens <= full + r
  BY DEF Ledger
<1>4. o.tokens \in Nat /\ o.last \in 0 .. now /\ b.tokens <= o.tokens + e
  BY <1>3, BucketType
<1> HIDE DEF n, o, a, b
<1>5. r + e = Refill * (now - a)
  BY <1>1, <1>2, <1>4, RefillAdds, RateAssumption
<1>6. r \in Int /\ e \in Int /\ full \in Int
  BY <1>1, <1>2, <1>4, RateAssumption
<1> HIDE DEF full, r, e
<1>7. n + b.tokens <= full + (r + e)
  BY <1>1, <1>2, <1>3, <1>4, <1>6, Balance
<1> QED BY <1>2, <1>5, <1>7 DEF full, n, a, b

-----------------------------------------------------------------------------
(* The clock's step keeps the invariant: no bucket changes (Allow refills  *)
(* lazily).                                                                *)
LEMMA TickInv ==
    ASSUME IInv, Tick
    PROVE  IInv'
<1>0. TypeOK /\ Ledger /\ WithinRate /\ HintIsLater
  BY DEF IInv
<1>1. TypeOK'
  <2>1. now \in Nat /\ now' = now + 1 /\ now' \in 0 .. MaxTime
    BY <1>0, RateAssumption DEF TypeOK, Tick
  <2>2. 0 .. now \subseteq 0 .. now'
    BY <2>1
  <2>3. buckets' = buckets /\ admitted' = admitted /\ hint' = hint
    BY DEF Tick
  <2>4. \A k \in Clients : admitted[k] \in Seq(0 .. now')
    BY <1>0, <2>2, SeqOfMore DEF TypeOK
  <2>5. \A k \in Clients : buckets[k] \in [tokens : 0 .. Capacity * Unit, last : 0 .. now'] \cup {None}
    BY <1>0, <2>2 DEF TypeOK
  <2> QED BY <1>0, <2>1, <2>3, <2>4, <2>5 DEF TypeOK
<1>2. Ledger' /\ WithinRate' /\ HintIsLater'
  BY <1>0 DEF Tick, Ledger, WithinRate, HintIsLater
<1> QED BY <1>1, <1>2 DEF IInv

(* A refusal keeps the invariant: the refill it writes back is on the      *)
(* ledger, and its hint is a second away at least, whatever the wait was   *)
(* (TokenBucket.Allow, retryAfterSeconds).                                 *)
LEMMA RefuseInv ==
    ASSUME IInv, NEW k \in Clients, Refuse(k)
    PROVE  IInv'
<1> DEFINE b == Bucket(k)
           w == retryAfterSeconds(Wait(b))
<1>0. TypeOK /\ Ledger /\ WithinRate /\ HintIsLater
  BY DEF IInv
<1>1. /\ b \in [tokens : 0 .. Capacity * Unit, last : 0 .. now] /\ b.last = now
      /\ b # None /\ b.tokens \in Nat /\ now \in Nat
  BY <1>0, BucketType, RateAssumption DEF TypeOK
<1>2. /\ buckets' = [buckets EXCEPT ![k] = b] /\ now' = now /\ admitted' = admitted
      /\ hint' = [hint EXCEPT ![k] = IF Wait(b) > 0 THEN now + Second * w ELSE None]
  BY DEF Refuse
<1>3. w \in Nat /\ w >= 1
  <2>1. Wait(b) \in Int
    BY <1>1, RateAssumption DEF Wait
  <2> QED BY <2>1, RateAssumption DEF retryAfterSeconds
<1>4. Second * w \in Nat /\ Second * w >= Second
  <2>1. Second * 1 <= Second * w
    BY <1>3, RefillMonotone, RateAssumption
  <2> QED BY <1>3, <2>1, RateAssumption
<1>5. TypeOK'
  <2>1. buckets' \in [Clients -> [tokens : 0 .. Capacity * Unit, last : 0 .. now'] \cup {None}]
    BY <1>0, <1>1, <1>2 DEF TypeOK
  <2>2. hint' \in [Clients -> Nat \cup {None}]
    BY <1>0, <1>1, <1>2, <1>4 DEF TypeOK
  <2> QED BY <1>0, <1>2, <2>1, <2>2 DEF TypeOK
<1>6. Ledger'
  <2> SUFFICES ASSUME NEW c \in Clients, NEW i \in 1 .. Len(admitted[c])
               PROVE  /\ buckets'[c] # None
                      /\ admitted[c][i] <= buckets'[c].last
                      /\ (Len(admitted[c]) - i + 1) * Unit + buckets'[c].tokens
                           <= Capacity * Unit + Refill * (buckets'[c].last - admitted[c][i])
    BY <1>2 DEF Ledger
  <2>1. CASE c # k
    BY <1>0, <1>2, <2>1 DEF Ledger, TypeOK
  <2>2. CASE c = k
    <3>1. buckets'[c] = b
      BY <1>0, <1>2, <2>2 DEF TypeOK
    <3>2. /\ admitted[k][i] \in 0 .. now
          /\ (Len(admitted[k]) - i + 1) * Unit + b.tokens
               <= Capacity * Unit + Refill * (now - admitted[k][i])
      BY <1>0, <2>2, RefillBalance
    <3> HIDE DEF b
    <3> QED BY <1>1, <2>2, <3>1, <3>2
  <2> QED BY <2>1, <2>2
<1>7. WithinRate'
  BY <1>0, <1>2 DEF WithinRate
<1>8. HintIsLater'
  <2> SUFFICES ASSUME NEW c \in Clients, hint'[c] # None
               PROVE  buckets'[c] # None /\ hint'[c] >= buckets'[c].last + Second
    BY DEF HintIsLater
  <2>1. CASE c # k
    BY <1>0, <1>2, <2>1 DEF HintIsLater, TypeOK
  <2>2. CASE c = k
    <3>1. buckets'[c] = b /\ hint'[c] = now + Second * w
      BY <1>0, <1>2, <2>2 DEF TypeOK
    <3> HIDE DEF b, w
    <3> QED BY <1>1, <1>4, <3>1, RateAssumption
  <2> QED BY <2>1, <2>2
<1> QED BY <1>5, <1>6, <1>7, <1>8 DEF IInv

(* A granted request keeps the invariant: the token it takes moves from    *)
(* the bucket to the ledger, and with that no stretch of time that ends    *)
(* with this request had more than its share (TokenBucket.Allow).          *)
LEMMA AdmitInv ==
    ASSUME IInv, NEW k \in Clients, Admit(k)
    PROVE  IInv'
<1> DEFINE b == Bucket(k)
           q == admitted[k]
           left == [b EXCEPT !.tokens = @ - Unit]
<1>0. TypeOK /\ Ledger /\ WithinRate /\ HintIsLater
  BY DEF IInv
<1>1. /\ b \in [tokens : 0 .. Capacity * Unit, last : 0 .. now] /\ b.last = now
      /\ b.tokens \in Nat /\ now \in Nat /\ Unit \in Nat /\ Capacity * Unit \in Nat
      /\ b.tokens <= Capacity * Unit
  BY <1>0, BucketType, RateAssumption DEF TypeOK
<1>2. /\ b.tokens >= Unit /\ buckets' = [buckets EXCEPT ![k] = left] /\ now' = now
      /\ admitted' = [admitted EXCEPT ![k] = Append(q, now)]
      /\ hint' = [hint EXCEPT ![k] = None]
  BY DEF Admit
<1>3. left = [tokens |-> b.tokens - Unit, last |-> now]
  BY <1>1
<1> HIDE DEF b, left
<1>4. left \in [tokens : 0 .. Capacity * Unit, last : 0 .. now] /\ left # None
  BY <1>1, <1>2, <1>3, RateAssumption
<1>5. q \in Seq(0 .. now) /\ Len(q) \in Nat
  BY <1>0 DEF TypeOK
<1>6. /\ buckets'[k] = left /\ admitted'[k] = Append(q, now) /\ hint'[k] = None
      /\ \A c \in Clients \ {k} : /\ buckets'[c] = buckets[c] /\ admitted'[c] = admitted[c]
                                  /\ hint'[c] = hint[c]
  BY <1>0, <1>2 DEF TypeOK
<1>7. /\ Len(Append(q, now)) = Len(q) + 1 /\ Append(q, now)[Len(q) + 1] = now
      /\ \A i \in 1 .. Len(q) : Append(q, now)[i] = q[i]
  BY <1>5
<1>8. TypeOK'
  <2>1. buckets' \in [Clients -> [tokens : 0 .. Capacity * Unit, last : 0 .. now'] \cup {None}]
    BY <1>0, <1>2, <1>4 DEF TypeOK
  <2>2. Append(q, now) \in Seq(0 .. now)
    BY <1>1, <1>5
  <2>3. admitted' \in [Clients -> Seq(0 .. now')]
    BY <1>0, <1>2, <2>2 DEF TypeOK
  <2> QED BY <1>0, <1>2, <2>1, <2>3 DEF TypeOK
<1>9. \A i \in 1 .. Len(q) :
         /\ q[i] \in 0 .. now
         /\ (Len(q) + 1 - i + 1) * Unit + (b.tokens - Unit) <= Capacity * Unit + Refill * (now - q[i])
  <2> TAKE i \in 1 .. Len(q)
  <2> DEFINE m == Len(q) - i + 1
             rhs == Capacity * Unit + Refill * (now - q[i])
  <2>1. q[i] \in 0 .. now /\ m * Unit + b.tokens <= rhs
    BY <1>0, RefillBalance DEF b
  <2>2. m \in Int /\ Len(q) + 1 - i + 1 = m + 1
    BY <1>5
  <2>3. rhs \in Int /\ m * Unit \in Int
    BY <1>1, <2>1, <2>2, RateAssumption
  <2>4. (m + 1) * Unit = m * Unit + Unit
    BY <1>1, <2>2, OneMore
  <2> HIDE DEF m, rhs
  <2>5. (m + 1) * Unit + (b.tokens - Unit) <= rhs
    <3> DEFINE p == m * Unit
    <3>1. p + b.tokens <= rhs /\ p \in Int /\ (m + 1) * Unit = p + Unit
      BY <2>1, <2>3, <2>4
    <3> HIDE DEF p
    <3> QED BY <1>1, <2>3, <3>1
  <2> QED BY <2>1, <2>2, <2>5 DEF rhs
<1>10. 1 * Unit + (b.tokens - Unit) <= Capacity * Unit + Refill * (now - now)
  BY <1>1, RateAssumption
<1> DEFINE h == Append(q, now)
           owed(i) == (Len(h) - i + 1) * Unit
<1>11. \A i \in 1 .. Len(h) :
         h[i] \in 0 .. now /\ owed(i) + (b.tokens - Unit) <= Capacity * Unit + Refill * (now - h[i])
  <2> TAKE i \in 1 .. Len(h)
  <2>1. CASE i \in 1 .. Len(q)
    BY <1>7, <1>9, <2>1
  <2>2. CASE i = Len(q) + 1
    <3>1. Len(h) - i + 1 = 1 /\ h[i] = now
      BY <1>5, <1>7, <2>2
    <3> QED BY <1>1, <1>10, <3>1
  <2> QED BY <1>5, <1>7, <2>1, <2>2
<1> HIDE DEF h
<1>12. Ledger'
  <2> SUFFICES ASSUME NEW c \in Clients, NEW i \in 1 .. Len(admitted'[c])
               PROVE  /\ buckets'[c] # None
                      /\ admitted'[c][i] <= buckets'[c].last
                      /\ (Len(admitted'[c]) - i + 1) * Unit + buckets'[c].tokens
                           <= Capacity * Unit + Refill * (buckets'[c].last - admitted'[c][i])
    BY DEF Ledger
  <2>1. CASE c # k
    BY <1>0, <1>6, <2>1 DEF Ledger
  <2>2. CASE c = k
    <3>1. buckets'[c] = left /\ left.tokens = b.tokens - Unit /\ left.last = now /\ admitted'[c] = h
      BY <1>3, <1>6, <2>2 DEF h
    <3>2. h[i] \in 0 .. now /\ owed(i) + (b.tokens - Unit) <= Capacity * Unit + Refill * (now - h[i])
      BY <1>11, <3>1
    <3>3. h[i] <= now
      BY <1>1, <3>2
    <3> QED BY <1>4, <3>1, <3>2, <3>3
  <2> QED BY <2>1, <2>2
<1>13. WithinRate'
  <2> SUFFICES ASSUME NEW c \in Clients, NEW i \in 1 .. Len(admitted'[c]),
                      NEW j \in 1 .. Len(admitted'[c]), i <= j
               PROVE  (j - i + 1) * Unit
                        <= Capacity * Unit + Refill * (admitted'[c][j] - admitted'[c][i])
    BY DEF WithinRate
  <2>1. CASE c # k
    BY <1>0, <1>6, <2>1 DEF WithinRate
  <2>2. CASE c = k /\ j \in 1 .. Len(q)
    <3>1. i \in 1 .. Len(q)
      BY <1>5, <1>6, <1>7, <2>2
    <3>2. admitted'[c][i] = q[i] /\ admitted'[c][j] = q[j]
      BY <1>6, <1>7, <2>2, <3>1
    <3> QED BY <1>0, <2>2, <3>1, <3>2 DEF WithinRate
  <2>3. CASE c = k /\ j = Len(q) + 1
    <3> DEFINE n == owed(i)
               rhs == Capacity * Unit + Refill * (now - h[i])
    <3>1. admitted'[c] = h /\ j = Len(h) /\ h[j] = now /\ Len(h) \in Nat
      BY <1>5, <1>6, <1>7, <2>3 DEF h
    <3>2. h[i] \in 0 .. now /\ n + (b.tokens - Unit) <= rhs
      BY <1>11, <3>1
    <3>3. n \in Int
      BY <1>1, <3>1
    <3>4. rhs \in Int
      BY <1>1, <3>2, RateAssumption
    <3>5. n <= rhs
      <4> HIDE DEF n, rhs
      <4> QED BY <1>1, <1>2, <3>2, <3>3, <3>4
    <3> QED BY <3>1, <3>5
  <2> QED BY <1>5, <1>6, <1>7, <2>1, <2>2, <2>3
<1>14. HintIsLater'
  BY <1>0, <1>6 DEF HintIsLater
<1> QED BY <1>8, <1>12, <1>13, <1>14 DEF IInv

(* The limiter's invariant is one: it holds before the first request, and  *)
(* requests and the clock keep it (TokenBucket.Allow).                     *)
LEMMA LimiterInit ==
    ASSUME Init
    PROVE  IInv
<1>1. TypeOK
  BY RateAssumption DEF Init, TypeOK
<1>2. \A k \in Clients : Len(admitted[k]) = 0 /\ hint[k] = None
  BY DEF Init
<1>3. Ledger /\ WithinRate /\ HintIsLater
  BY <1>2 DEF Ledger, WithinRate, HintIsLater
<1> QED BY <1>1, <1>3 DEF IInv

(* See LimiterInit.                                                        *)
LEMMA LimiterNext ==
    ASSUME IInv, [Next]_vars
    PROVE  IInv'
<1>1. CASE Next
  BY <1>1, TickInv, AdmitInv, RefuseInv DEF Next
<1>2. CASE UNCHANGED vars
  BY <1>2 DEF vars, IInv, TypeOK, Ledger, WithinRate, HintIsLater
<1> QED BY <1>1, <1>2

(* The requests that the server lets through to the limiter, and its       *)
(* clock, are steps of the limiter by itself (RateLimitMiddleware keys by  *)
(* caller and tenant).                                                     *)
LEMMA GatewayStep ==
    ASSUME [GatewayNext]_gatewayVars
    PROVE  [Next]_vars
<1>1. CASE GatewayNext
  <2>1. \A tok \in Tokens, slug \in Slugs : KeyFn(tok, slug) \in Clients
    BY GatewayAssumption DEF KeyFn
  <2> QED BY <1>1, <2>1 DEF GatewayNext, CreatePeer, RevokePeer, RateLimited, Next
<1>2. CASE UNCHANGED gatewayVars
  BY <1>2 DEF gatewayVars, vars
<1> QED BY <1>1, <1>2

(* Whoever the middleware lets through, the limiter behind it behaves like *)
(* one that anyone may call: what holds of the limiter holds of the server *)
(* (RateLimitMiddleware, NewRouter).                                       *)
THEOREM GatewayImplementsLimiter == GatewaySpec => Spec
<1>1. GatewayInit => Init
  BY DEF GatewayInit
<1>2. [GatewayNext]_gatewayVars => [Next]_vars
  BY GatewayStep
<1> QED BY <1>1, <1>2, PTL DEF GatewaySpec, Spec

(* The limiter's state satisfies the ledger in every state.                *)
THEOREM LimiterInvariant == Spec => []IInv
<1>1. Init => IInv
  BY LimiterInit
<1>2. IInv /\ [Next]_vars => IInv'
  BY LimiterNext
<1> QED BY <1>1, <1>2, PTL DEF Spec

(* For every capacity, rate and clock: in no stretch of time are more      *)
(* requests of a key admitted than a full bucket and the refill of that    *)
(* stretch allow (TokenBucket.Allow).                                      *)
THEOREM RateIsKept == GatewaySpec => []WithinRate
<1>1. IInv => WithinRate
  BY DEF IInv
<1> QED BY <1>1, LimiterInvariant, GatewayImplementsLimiter, PTL

(* A caller that comes back no earlier than it was told to finds a token,  *)
(* if a second refills one (TokenBucket.Allow, retryAfterSeconds).         *)
LEMMA HintStep ==
    ASSUME TokenPerSecond, IInv, NEW k \in Clients, hint[k] # None, now >= hint[k]
    PROVE  ~Refuse(k)
<1> DEFINE o == buckets[k]
           b == Bucket(k)
<1>1. /\ TypeOK /\ o # None /\ hint[k] \in Nat /\ hint[k] >= o.last + Second
  BY DEF IInv, HintIsLater, TypeOK
<1>2. /\ o.tokens \in Nat /\ o.last \in 0 .. now /\ now \in Nat /\ b.tokens \in Nat
      /\ b.tokens = Capacity * Unit \/ b.tokens = o.tokens + Refill * (now - o.last)
  BY <1>1, BucketType, RateAssumption DEF TypeOK
<1> HIDE DEF o, b
<1>3. Second <= now - o.last
  BY <1>1, <1>2, RateAssumption
<1>4. Refill * Second <= Refill * (now - o.last)
  BY <1>2, <1>3, RefillMonotone, RateAssumption
<1>5. Unit * 1 <= Unit * Capacity
  BY RefillMonotone, RateAssumption
<1>6. b.tokens >= Unit
  <2> DEFINE r == Refill * (now - o.last)
             s == Refill * Second
  <2>1. r \in Int /\ s \in Int /\ s >= Unit /\ s <= r
    BY <1>2, <1>4, RateAssumption DEF TokenPerSecond
  <2>2. CASE b.tokens = o.tokens + r
    <3> HIDE DEF r, s
    <3> QED BY <1>2, <2>1, <2>2, RateAssumption
  <2>3. CASE b.tokens = Capacity * Unit
    BY <1>5, <2>3, RateAssumption
  <2> QED BY <1>2, <2>2, <2>3
<1> QED BY <1>2, <1>6, RateAssumption DEF Refuse, b

(* At a rate of a token per second or more, a refused caller that waits as *)
(* long as Retry-After says is not refused again, unless someone else on   *)
(* the key was admitted meanwhile.  At a lower rate the header, which      *)
(* drops the fraction of a second, promises too much (Allow,               *)
(* retryAfterSeconds).                                                     *)
THEOREM HintsAreEnough ==
    ASSUME TokenPerSecond
    PROVE  GatewaySpec => HintSuffices
<1>1. IInv => \A k \in Clients : hint[k] # None /\ now >= hint[k] => ~Refuse(k)
  BY HintStep
<1>2. IInv /\ [Next]_vars =>
        [\A k \in Clients : hint[k] # None /\ now >= hint[k] => ~Refuse(k)]_vars
  BY <1>1
<1> QED BY <1>2, LimiterInvariant, GatewayImplementsLimiter, PTL DEF Spec, HintSuffices

-----------------------------------------------------------------------------
(* The rows keep their types: what CreatePeer writes is a tenant, for      *)
(* authorizeTenant comes after the slug was found.                         *)
LEMMA GatewayTypeNext ==
    ASSUME GatewayTypeOK, TypeOK', [GatewayNext]_gatewayVars
    PROVE  GatewayTypeOK'
<1>1. validator' = validator
  BY DEF GatewayNext, gatewayVars
<1>2. owner' \in [PeerIds -> Tenants \cup {None}]
  <2>1. CASE owner' = owner
    BY <2>1 DEF GatewayTypeOK
  <2>2. CASE \E tok \in Tokens, slug \in Slugs, p \in PeerIds : CreatePeer(tok, slug, p)
    BY <2>2 DEF GatewayTypeOK, CreatePeer, MayWrite, Tenants
  <2> QED BY <2>1, <2>2 DEF GatewayNext, RateLimited, RevokePeer, gatewayVars
<1> QED BY <1>1, <1>2 DEF GatewayTypeOK

(* Every variable of the server holds a value of its type; a bucket never  *)
(* overflows, however long it was idle (TokenBucket, peers).               *)
THEOREM GatewayTypeCorrect == GatewaySpec => []GatewayTypeOK
<1>1. GatewayInit => IInv /\ GatewayTypeOK
  BY LimiterInit DEF GatewayInit, IInv, GatewayTypeOK
<1>2. IInv /\ GatewayTypeOK /\ [GatewayNext]_gatewayVars => IInv' /\ GatewayTypeOK'
  <2>1. IInv' => TypeOK'
    BY DEF IInv
  <2> QED BY <2>1, LimiterNext, GatewayStep, GatewayTypeNext
<1> QED BY <1>1, <1>2, PTL DEF GatewaySpec

-----------------------------------------------------------------------------
(* The key that a token is checked with is one of the validator's          *)
(* (keyForToken).                                                          *)
LEMMA KeyIsTrusted ==
    ASSUME NEW tok, keyForToken(tok) # None
    PROVE  keyForToken(tok) \in {validator.keys[kid] : kid \in DOMAIN validator.keys}
                                   \cup {validator.default}
<1> DEFINE Keys == validator.keys
           Ks == {Keys[kid] : kid \in DOMAIN Keys}
<1>1. CASE tok.kid # None \/ validator.default # None \/ Cardinality(DOMAIN Keys) # 1
  BY <1>1 DEF keyForToken
<1>2. CASE tok.kid = None /\ validator.default = None /\ Cardinality(DOMAIN Keys) = 1
  <2>1. DOMAIN Keys # {}
    BY <1>2, FS_EmptySet
  <2>2. PICK k \in Ks : TRUE
    BY <2>1
  <2>3. (CHOOSE key \in Ks : TRUE) \in Ks
    BY <2>2
  <2>4. keyForToken(tok) = CHOOSE key \in Ks : TRUE
    BY <1>2 DEF keyForToken
  <2> QED BY <2>3, <2>4
<1> QED BY <1>1, <1>2

(* A token that either validator accepts was signed with a key that the    *)
(* server trusts, for this server, and has not expired by more than the    *)
(* leeway (HMACValidator, StaticKeyValidator, principalFromClaims).        *)
LEMMA ValidIsIssued ==
    ASSUME GatewayTypeOK, NEW tok \in Tokens, Validates(tok)
    PROVE  Issued(tok)
<1> DEFINE Trusted == {validator.keys[kid] : kid \in DOMAIN validator.keys} \cup {validator.default}
<1>1. tok.signer \in Trusted \ {None}
  <2>1. CASE HMACValidate(tok)
    BY <2>1, GatewayAssumption DEF HMACValidate, GatewayTypeOK
  <2>2. CASE StaticKeyValidate(tok)
    BY <2>2, KeyIsTrusted DEF StaticKeyValidate
  <2> QED BY <2>1, <2>2 DEF Validates
<1>2. tok.iss = "issuer" /\ "audience" \in tok.aud
  BY DEF Validates, principalFromClaims
<1>3. tok.exp > now - Leeway
  <2>1. now < tok.exp + Leeway
    BY DEF Validates, Current
  <2>2. now \in Int /\ tok.exp \in Int /\ Leeway \in Int
    BY GatewayAssumption, RateAssumption DEF GatewayTypeOK, TypeOK
  <2> QED BY <2>1, <2>2
<1> QED BY <1>1, <1>2, <1>3 DEF Issued

(* The role and tenant checks are the entitlement, in both directions      *)
(* (HasAnyRole, authorizeTenant).                                          *)
LEMMA AuthorizedIsEntitled ==
    ASSUME GatewayTypeOK, NEW tok \in Tokens, Validates(tok), NEW t, t # None,
           NEW roles, "platform_admin" \in roles
    PROVE  authorizeTenant(tok, t, roles) <=> Entitled(tok, t, roles)
BY ValidIsIssued DEF authorizeTenant, HasAnyRole, Entitled

(* For every set of tokens, validators and tenants: a caller is shown a    *)
(* peer, its configuration or its operation exactly when its token         *)
(* entitles it to read the peer's tenant (GetPeer, PeerConfiguration,      *)
(* GetOperation, authorizeTenant).                                         *)
THEOREM ReadsNeedEntitlement == GatewaySpec => []ReadsAreEntitled
<1>1. GatewayTypeOK => ReadsAreEntitled
  <2> SUFFICES ASSUME GatewayTypeOK, NEW tok \in Tokens, NEW p \in PeerIds
               PROVE  /\ \A slug \in Slugs : GetPeer(tok, slug, p) => Entitled(tok, owner[p], Readers)
                      /\ GetOperation(tok, p) => Entitled(tok, owner[p], Readers)
                      /\ owner[p] # None /\ Validates(tok) /\ Entitled(tok, owner[p], Readers) =>
                            GetOperation(tok, p) /\ \E slug \in Slugs : GetPeer(tok, slug, p)
    BY DEF ReadsAreEntitled
  <2>0. "platform_admin" \in Readers
    BY DEF Readers, Roles
  <2>1. owner[p] # None /\ Validates(tok) =>
          (authorizeTenant(tok, owner[p], Readers) <=> Entitled(tok, owner[p], Readers))
    BY <2>0, AuthorizedIsEntitled
  <2>2. \A slug \in Slugs : GetPeer(tok, slug, p) => Entitled(tok, owner[p], Readers)
    BY <2>1 DEF GetPeer, MayRead
  <2>3. GetOperation(tok, p) => Entitled(tok, owner[p], Readers)
    BY <2>1 DEF GetOperation
  <2>4. ASSUME owner[p] # None, Validates(tok), Entitled(tok, owner[p], Readers)
        PROVE  GetOperation(tok, p) /\ \E slug \in Slugs : GetPeer(tok, slug, p)
    <3>1. HasAnyRole(tok, Readers) /\ authorizeTenant(tok, owner[p], Readers)
      BY <2>1, <2>4 DEF authorizeTenant
    <3>2. PICK slug \in Slugs : owner[p] = TenantOf[slug]
      BY <2>4 DEF GatewayTypeOK, Tenants
    <3> QED BY <2>4, <3>1, <3>2 DEF GetOperation, GetPeer, MayRead
  <2> QED BY <2>2, <2>3, <2>4
<1> QED BY <1>1, GatewayTypeCorrect, PTL

(* For every set of tokens, validators and tenants: a peer row appears in  *)
(* a tenant only by the request of a caller entitled to write there, and   *)
(* never changes its tenant (CreatePeer, RequireRoles, authorizeTenant).   *)
THEOREM WritesNeedEntitlement == GatewaySpec => WritesAreEntitled
<1> DEFINE Entitling ==
             /\ \A p \in PeerIds : owner[p] # None => owner'[p] = owner[p]
             /\ owner' # owner =>
                   \A tok \in Tokens, slug \in Slugs, p \in PeerIds :
                       Validates(tok) /\ CreatePeer(tok, slug, p) =>
                           Entitled(tok, owner'[p], Writers)
<1>1. ASSUME GatewayTypeOK, GatewayNext
      PROVE  Entitling
  <2>0. "platform_admin" \in Writers
    BY DEF Writers, Readers, Roles
  <2>1. ASSUME NEW p \in PeerIds, owner[p] # None
        PROVE  owner'[p] = owner[p]
    <3>1. CASE owner' = owner
      BY <3>1
    <3>2. CASE \E tok \in Tokens, slug \in Slugs, r \in PeerIds : CreatePeer(tok, slug, r)
      BY <2>1, <3>2 DEF GatewayTypeOK, CreatePeer
    <3> QED BY <1>1, <3>1, <3>2 DEF GatewayNext, RateLimited, RevokePeer
  <2>2. ASSUME owner' # owner, NEW tok \in Tokens, NEW slug \in Slugs, NEW p \in PeerIds,
               Validates(tok), CreatePeer(tok, slug, p)
        PROVE  Entitled(tok, owner'[p], Writers)
    <3>1. MayWrite(tok, slug) /\ owner' = [owner EXCEPT ![p] = TenantOf[slug]]
      BY <2>2 DEF CreatePeer
    <3>2. owner'[p] = TenantOf[slug]
      BY <1>1, <3>1 DEF GatewayTypeOK
    <3> QED BY <1>1, <2>0, <2>2, <3>1, <3>2, AuthorizedIsEntitled DEF MayWrite
  <2> QED BY <2>1, <2>2
<1>2. GatewayTypeOK /\ [GatewayNext]_gatewayVars => [Entitling]_gatewayVars
  BY <1>1
<1> QED BY <1>2, GatewayTypeCorrect, PTL DEF GatewaySpec, WritesAreEntitled

=============================================================================
