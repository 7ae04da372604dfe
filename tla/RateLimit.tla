----------------------------- MODULE RateLimit ------------------------------
(***************************************************************************)
(* The rate limiter in front of the write endpoints: one token bucket per  *)
(* key (caller and tenant), and the Retry-After header that a refused      *)
(* caller is given.  Allow runs under a mutex, so one request is one step. *)
(*                                                                         *)
(* Time is counted in ticks, Second of them to a second, and stands for    *)
(* the nanoseconds of time.Duration.  A token is divided into Unit parts,  *)
(* Refill of which are gained per tick: the rate is exact where the code's *)
(* float64 rounds.                                                         *)
(***************************************************************************)
EXTENDS Integers, Sequences

CONSTANTS
    Clients,     \* rate limiting keys
    Capacity,    \* RATE_CAPACITY
    Unit, Refill, Second,
    None,
    MaxTime,     \* bound on the time of a behaviour
    MaxAdmitted  \* bound on the requests admitted for a key

ASSUME RateAssumption ==
    /\ Capacity \in Nat \ {0} /\ Unit \in Nat \ {0} /\ Refill \in Nat \ {0}
    /\ Second \in Nat \ {0} /\ MaxTime \in Nat /\ MaxAdmitted \in Nat
    /\ None \notin Nat /\ None \notin [tokens : Nat, last : Nat]

VARIABLES
    now,       \* the clock, which is monotonic
    buckets,   \* bucket of each key, None until its first request
    admitted,  \* history: when requests of each key were admitted
    hint       \* history: when the last refused caller of a key was told to
               \* come back; None when there was none, or one was admitted since

vars == <<now, buckets, admitted, hint>>

(* Every variable holds a value of its type; a bucket holds no more than   *)
(* its capacity and no time of the future (TokenBucket).                   *)
TypeOK ==
    /\ now \in 0 .. MaxTime
    /\ buckets \in [Clients -> [tokens : 0 .. Capacity * Unit, last : 0 .. now] \cup {None}]
    /\ admitted \in [Clients -> Seq(0 .. now)]
    /\ hint \in [Clients -> Nat \cup {None}]

Init ==
    /\ now = 0
    /\ buckets = [k \in Clients |-> None]
    /\ admitted = [k \in Clients |-> <<>>]
    /\ hint = [k \in Clients |-> None]

-----------------------------------------------------------------------------
(* Mutated form of Refilled: the bucket may overflow.                      *)
Refilled_NoCap(b) == [tokens |-> b.tokens + (now - b.last) * Refill, last |-> now]

(* Mutated form of Refilled: the elapsed time is counted again next time.  *)
Refilled_KeepsLast(b) ==
    LET t == b.tokens + (now - b.last) * Refill IN
    [b EXCEPT !.tokens = IF t < Capacity * Unit THEN t ELSE Capacity * Unit]

Refilled(b) ==
    LET t == b.tokens + (now - b.last) * Refill IN
    [tokens |-> IF t < Capacity * Unit THEN t ELSE Capacity * Unit, last |-> now]

(* The bucket of a key when a request comes: a full one the first time.    *)
Bucket(k) ==
    IF buckets[k] = None THEN [tokens |-> Capacity * Unit, last |-> now] ELSE Refilled(buckets[k])

(* The second result of Allow, in whole ticks.                             *)
Wait(b) == (Unit - b.tokens) \div Refill

(* Mutated form of retryAfterSeconds: no minimum.                          *)
retryAfterSeconds_NoMinimum(d) == d \div Second

retryAfterSeconds(d) == IF d \div Second < 1 THEN 1 ELSE d \div Second

Admit(k) ==
    /\ Len(admitted[k]) < MaxAdmitted
    /\ Bucket(k).tokens >= Unit
    /\ buckets' = [buckets EXCEPT ![k] = [Bucket(k) EXCEPT !.tokens = @ - Unit]]
    /\ admitted' = [admitted EXCEPT ![k] = Append(@, now)]
    /\ hint' = [hint EXCEPT ![k] = None]
    /\ UNCHANGED now

(* The header is left out when the wait rounds to nothing.                 *)
Refuse(k) ==
    /\ Bucket(k).tokens < Unit
    /\ buckets' = [buckets EXCEPT ![k] = Bucket(k)]
    /\ hint' = [hint EXCEPT ![k] =
                  IF Wait(Bucket(k)) > 0
                  THEN now + Second * retryAfterSeconds(Wait(Bucket(k)))
                  ELSE None]
    /\ UNCHANGED <<now, admitted>>

Tick ==
    /\ now < MaxTime
    /\ now' = now + 1
    /\ UNCHANGED <<buckets, admitted, hint>>

Next == Tick \/ \E k \in Clients : Admit(k) \/ Refuse(k)

Spec == Init /\ [][Next]_vars

-----------------------------------------------------------------------------
(* In no stretch of time are more requests of a key admitted than a full   *)
(* bucket and the refill of that stretch allow, however requests and       *)
(* refusals fall (TokenBucket.Allow).                                      *)
WithinRate ==
    \A k \in Clients : \A i, j \in 1 .. Len(admitted[k]) :
        i <= j => (j - i + 1) * Unit
                    <= Capacity * Unit + Refill * (admitted[k][j] - admitted[k][i])

(* A refused caller that waits as long as Retry-After says is not refused  *)
(* again, unless someone else on the key has been admitted meanwhile       *)
(* (Allow, retryAfterSeconds).                                             *)
HintSuffices ==
    [][\A k \in Clients : hint[k] # None /\ now >= hint[k] => ~Refuse(k)]_vars

=============================================================================
