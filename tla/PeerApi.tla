------------------------------ MODULE PeerApi -------------------------------
(***************************************************************************)
(* Concurrent create and revoke requests on one node: idempotency keys,    *)
(* address allocation and the unique indexes, as READ COMMITTED            *)
(* transactions.  One action is one statement (or a run of statements that *)
(* no other transaction can meet); a transaction's writes become visible   *)
(* when it commits.                                                        *)
(*                                                                         *)
(* A row lock, and an entry put into a unique index by a transaction still *)
(* open, both make another transaction that wants the same thing wait; the *)
(* model keeps both in holds.  The identity of a peer row, and of an       *)
(* operation, is the request that inserted it.                             *)
(***************************************************************************)
EXTENDS Addresses

CONSTANTS
    Requests,     \* HTTP requests
    Tenants, Keys, ExternalIds,
    PublicKeys,   \* keys that clients supply
    None,
    PoolOf,       \* the pool of each tenant on the node, or None
    Kinds,        \* the kinds of request made
    FaultKinds,   \* the faults that may happen
    MaxFaults     \* bound on the number of faults in a behaviour

ASSUME ApiAssumption ==
    /\ PoolOf \in [Tenants -> Pools \cup {None}]
    /\ None \notin Pools \cup Requests \cup PublicKeys
    /\ Kinds \subseteq {"create", "revoke"}
    /\ FaultKinds \subseteq {"abort", "ambiguous", "expire"} /\ MaxFaults \in Nat

VARIABLES
    peers,     \* committed peer rows
    keys,      \* committed idempotency_keys rows
    cursor,    \* committed address_pools.cursor, NoAddr for NULL
    committed, \* requests that committed an operation and its outbox job
    body,      \* what each request asks for
    pc,        \* where its handler is
    addr,      \* the address allocated in its transaction
    holds,     \* locks and index entries of its open transaction
    answer,    \* its answer
    faults     \* number of faults so far

vars == <<peers, keys, cursor, committed, body, pc, addr, holds, answer, faults>>

-----------------------------------------------------------------------------
(* pub None: the server generates a key, distinct from all others.         *)
Bodies ==
    {b \in [kind : {"create"}, tenant : Tenants, key : Keys,
            ext : ExternalIds, pub : PublicKeys \cup {None}] : b.kind \in Kinds} \cup
    {b \in [kind : {"revoke"}, tenant : Tenants, key : Keys, peer : Requests] : b.kind \in Kinds}

(* What requestHash covers: all but the key.  Two requests of one tenant   *)
(* under one key have the same hash if and only if their bodies are equal. *)
requestHash(b) == IF b.kind = "create" THEN <<b.kind, b.tenant, b.ext, b.pub>>
                                       ELSE <<b.kind, b.tenant, b.peer>>

PeerRow == [tenant : Tenants, ext : ExternalIds, pub : PublicKeys \cup {None},
            addr : 0 .. Space - 1, state : {"live", "revoked"}]
Record == [hash : {requestHash(b) : b \in Bodies}, op : Requests,
           secret : Requests \cup {None}, expired : BOOLEAN]
Codes == {"accepted", "replayed", "idempotency_conflict", "peer_exists",
          "ip_pool_exhausted", "not_found", "internal"}

(* A response: op is the operation it names, secret the peer whose private *)
(* key, preshared key and full client config it carries.                   *)
Response == [code : Codes, op : Requests \cup {None}, secret : Requests \cup {None}]
Refusal(code) == [code |-> code, op |-> None, secret |-> None]

(* None, which stands for NULL and for nothing yet, is no row or record.   *)
ASSUME NoneAssumption == None \notin Bodies \cup PeerRow \cup Record \cup Response

(* Things a transaction makes others wait for.                             *)
Pool(t) == <<"pool", t>>
Row(p) == <<"row", p>>
KeyEntry(t, k) == <<"key", t, k>>
Entries == ({"ext"} \X Tenants \X ExternalIds) \cup ({"ip"} \X (0 .. Space - 1))
               \cup ({"pub"} \X PublicKeys)
Things == {Pool(t) : t \in Tenants} \cup {Row(p) : p \in Requests}
              \cup {KeyEntry(t, k) : t \in Tenants, k \in Keys} \cup Entries

(* Mutated form of IndexEntries: public keys are compared on insert only.  *)
IndexEntries_NoPublicKey(r) ==
    {<<"ext", body[r].tenant, body[r].ext>>, <<"ip", addr[r]>>}

(* The unique indexes of peers a new row enters.                           *)
IndexEntries(r) ==
    {<<"ext", body[r].tenant, body[r].ext>>, <<"ip", addr[r]>>} \cup
    (IF body[r].pub = None THEN {} ELSE {<<"pub", body[r].pub>>})

(* Every variable holds a value of its type; a transaction that is over    *)
(* holds nothing (schema/0001_init.sql, InTx).                             *)
TypeOK ==
    /\ peers \in [Requests -> PeerRow \cup {None}]
    /\ keys \in [Tenants \X Keys -> Record \cup {None}]
    /\ cursor \in [Tenants -> (0 .. Space - 1) \cup {NoAddr}]
    /\ committed \subseteq Requests
    /\ body \in [Requests -> Bodies \cup {None}]
    /\ pc \in [Requests -> {"idle", "lookup", "lock", "allocate", "insert", "mark",
                            "store", "commit", "done"}]
    /\ addr \in [Requests -> (0 .. Space - 1) \cup {NoAddr}]
    /\ holds \in [Requests -> SUBSET Things]
    /\ \A r \in Requests : pc[r] \in {"idle", "lookup", "done"} => holds[r] = {}
    /\ answer \in [Requests -> Response \cup {None}]
    /\ faults \in 0 .. MaxFaults

Init ==
    /\ peers = [r \in Requests |-> None]
    /\ keys = [tk \in Tenants \X Keys |-> None]
    /\ cursor = [t \in Tenants |-> NoAddr]
    /\ committed = {}
    /\ body = [r \in Requests |-> None]
    /\ pc = [r \in Requests |-> "idle"]
    /\ addr = [r \in Requests |-> NoAddr]
    /\ holds = [r \in Requests |-> {}]
    /\ answer = [r \in Requests |-> None]
    /\ faults = 0

-----------------------------------------------------------------------------
tables == <<peers, keys, cursor, committed>>

Available(r, things) == \A s \in Requests \ {r} : holds[s] \cap things = {}
Goto(r, label) == pc' = [pc EXCEPT ![r] = label]
Acquire(r, things) ==
    /\ Available(r, things)
    /\ holds' = [holds EXCEPT ![r] = @ \cup things]

(* Mutated form of Finish: the transaction stays open.                     *)
Finish_LeavesOpen(r, resp) ==
    /\ Goto(r, "done")
    /\ answer' = [answer EXCEPT ![r] = resp]
    /\ UNCHANGED holds

(* The transaction ends, and with it its locks; the request is answered.   *)
Finish(r, resp) ==
    /\ Goto(r, "done")
    /\ answer' = [answer EXCEPT ![r] = resp]
    /\ holds' = [holds EXCEPT ![r] = {}]

Reject(r, code) == Finish(r, Refusal(code)) /\ UNCHANGED addr

(* A valid request of an authorized caller.  The tenant, node and profile  *)
(* rows read before the transaction never change.                          *)
Arrive(r, b) ==
    /\ pc[r] = "idle"
    /\ body' = [body EXCEPT ![r] = b]
    /\ Goto(r, "lookup")
    /\ UNCHANGED <<tables, addr, holds, answer, faults>>

Replays(r, rec) == rec.hash = requestHash(body[r])

(* Idempotency.Lookup sees committed records that have not expired.        *)
Found(rec) == rec # None /\ ~rec.expired

Lookup(r) ==
    LET rec == keys[<<body[r].tenant, body[r].key>>] IN
    /\ pc[r] = "lookup"
    /\ \/ /\ Found(rec) /\ Replays(r, rec)
          /\ Finish(r, [code |-> "replayed", op |-> rec.op, secret |-> rec.secret])
       \/ Found(rec) /\ ~Replays(r, rec) /\ Finish(r, Refusal("idempotency_conflict"))
       \/ /\ ~Found(rec)
          /\ Goto(r, IF body[r].kind = "create" THEN "lock" ELSE "mark")
          /\ UNCHANGED <<holds, answer>>
    /\ UNCHANGED <<tables, body, addr, faults>>

-----------------------------------------------------------------------------
(* AllocateAndInsert.                                                      *)

(* Mutated form of LockPool: SELECT without FOR UPDATE.                    *)
LockPool_Unlocked(r) ==
    LET t == body[r].tenant IN
    /\ pc[r] = "lock"
    /\ \/ PoolOf[t] = None /\ Reject(r, "internal")
       \/ PoolOf[t] # None /\ Goto(r, "allocate") /\ UNCHANGED <<holds, addr, answer>>
    /\ UNCHANGED <<tables, body, faults>>

(* SELECT ... FOR UPDATE of the pool row.                                  *)
LockPool(r) ==
    LET t == body[r].tenant IN
    /\ pc[r] = "lock"
    /\ \/ PoolOf[t] = None /\ Reject(r, "internal")
       \/ /\ PoolOf[t] # None
          /\ Acquire(r, {Pool(t)})
          /\ Goto(r, "allocate")
          /\ UNCHANGED <<addr, answer>>
    /\ UNCHANGED <<tables, body, faults>>

(* Mutated form of Reserved: the gateway is not set aside.                 *)
Reserved_NoGateway(t) ==
    {peers[p].addr : p \in {q \in Requests : peers[q] # None /\ peers[q].state # "revoked"}}

(* Addresses the allocator skips: those of all peers of the node, revoked  *)
(* ones excepted, and the gateway.                                         *)
Reserved(t) ==
    {peers[p].addr : p \in {q \in Requests : peers[q] # None /\ peers[q].state # "revoked"}}
        \cup gatewayAddress(PoolOf[t])

(* ipam.Allocate, by its contract (module Ipam).                           *)
Allocate(r) ==
    LET t == body[r].tenant IN
    /\ pc[r] = "allocate"
    /\ \/ /\ Free(PoolOf[t], Reserved(t)) = {}
          /\ Reject(r, "ip_pool_exhausted")
       \/ \E h \in Hosts(PoolOf[t]) :
          /\ IsNextFree(PoolOf[t], cursor[t], Reserved(t), h)
          /\ addr' = [addr EXCEPT ![r] = h]
          /\ Goto(r, "insert")
          /\ UNCHANGED <<holds, answer>>
    /\ UNCHANGED <<tables, body, faults>>

Clashes(r, row) ==
    \/ row.tenant = body[r].tenant /\ row.ext = body[r].ext
    \/ row.addr = addr[r]
    \/ row.pub # None /\ row.pub = body[r].pub

(* INSERT INTO peers: a committed row with the same external id, address   *)
(* or public key, revoked or not, is a unique violation; an uncommitted    *)
(* one is waited for.  The operation, job and audit rows inserted next     *)
(* conflict with nothing.                                                  *)
Insert(r) ==
    /\ pc[r] = "insert"
    /\ IF \E p \in Requests : peers[p] # None /\ Clashes(r, peers[p])
       THEN Reject(r, "peer_exists")
       ELSE /\ Acquire(r, IndexEntries(r))
            /\ Goto(r, "store")
            /\ UNCHANGED <<addr, answer>>
    /\ UNCHANGED <<tables, body, faults>>

-----------------------------------------------------------------------------
Owned(r, p) == peers[p] # None /\ peers[p].tenant = body[r].tenant

(* MarkRevoked waits for a row another transaction has updated.  The       *)
(* tenant is compared after the update: a foreign row is rolled back.      *)
Mark(r) ==
    LET p == body[r].peer IN
    /\ pc[r] = "mark"
    /\ \/ peers[p] = None /\ Reject(r, "not_found")
       \/ /\ peers[p] # None /\ ~Owned(r, p)
          /\ Available(r, {Row(p)})
          /\ Reject(r, "not_found")
       \/ /\ Owned(r, p)
          /\ Acquire(r, {Row(p)})
          /\ Goto(r, "store")
          /\ UNCHANGED <<addr, answer>>
    /\ UNCHANGED <<tables, body, faults>>

-----------------------------------------------------------------------------
(* Mutated form of Store: the insert became an upsert.                     *)
Store_Upsert(r) ==
    LET tk == <<body[r].tenant, body[r].key>> IN
    /\ pc[r] = "store"
    /\ Acquire(r, {KeyEntry(tk[1], tk[2])})
    /\ Goto(r, "commit")
    /\ UNCHANGED <<tables, body, addr, answer, faults>>

(* Idempotency.Store: a plain INSERT, so that any committed record of the  *)
(* key, also an expired one, is an error, and an uncommitted one is waited *)
(* for.                                                                    *)
Store(r) ==
    LET tk == <<body[r].tenant, body[r].key>> IN
    /\ pc[r] = "store"
    /\ \/ keys[tk] # None /\ Reject(r, "internal")
       \/ /\ keys[tk] = None
          /\ Acquire(r, {KeyEntry(tk[1], tk[2])})
          /\ Goto(r, "commit")
          /\ UNCHANGED <<addr, answer>>
    /\ UNCHANGED <<tables, body, faults>>

(* The answer of a request that takes effect.                              *)
Accepted(r) == [code |-> "accepted", op |-> r,
                secret |-> IF body[r].kind = "create" THEN r ELSE None]

(* Mutated form of Safe: the whole response is stored.                     *)
Safe_Whole(resp) == resp

(* The response as the idempotency record keeps it.                        *)
Safe(resp) == [resp EXCEPT !.secret = None]

(* The writes of the transaction.                                          *)
Written(r) ==
    LET b == body[r] IN
    /\ peers' = IF b.kind = "create"
                THEN [peers EXCEPT ![r] = [tenant |-> b.tenant, ext |-> b.ext, pub |-> b.pub,
                                           addr |-> addr[r], state |-> "live"]]
                ELSE [peers EXCEPT ![b.peer].state = "revoked"]
    /\ cursor' = IF b.kind = "create"
                 THEN [cursor EXCEPT ![b.tenant] = Following(PoolOf[b.tenant], addr[r])]
                 ELSE cursor
    /\ keys' = [keys EXCEPT ![<<b.tenant, b.key>>] =
                   [hash |-> requestHash(b), op |-> r,
                    secret |-> Safe(Accepted(r)).secret, expired |-> FALSE]]
    /\ committed' = committed \cup {r}

Commit(r) ==
    /\ pc[r] = "commit"
    /\ Written(r)
    /\ Finish(r, Accepted(r))
    /\ UNCHANGED <<body, addr, faults>>

Step(r) ==
    \/ Lookup(r) \/ LockPool(r) \/ Allocate(r) \/ Insert(r)
    \/ Mark(r) \/ Store(r) \/ Commit(r)

-----------------------------------------------------------------------------
(* Faults.                                                                 *)
Fault(kind) ==
    /\ kind \in FaultKinds
    /\ faults < MaxFaults
    /\ faults' = faults + 1

(* A statement fails or the caller goes away: the transaction is rolled    *)
(* back (InTx).                                                            *)
Abort(r) ==
    /\ Fault("abort")
    /\ pc[r] \notin {"idle", "done"}
    /\ Reject(r, "internal")
    /\ UNCHANGED <<tables, body>>

(* The commit takes effect but its confirmation is lost.                   *)
CommitLost(r) ==
    /\ Fault("ambiguous")
    /\ pc[r] = "commit"
    /\ Written(r)
    /\ Reject(r, "internal")
    /\ UNCHANGED body

(* expires_at of a record passes; nothing deletes the row.                 *)
Expire(tk) ==
    /\ Fault("expire")
    /\ keys[tk] # None /\ ~keys[tk].expired
    /\ keys' = [keys EXCEPT ![tk].expired = TRUE]
    /\ UNCHANGED <<peers, cursor, committed, body, pc, addr, holds, answer>>

Next ==
    \/ \E r \in Requests :
          \/ \E b \in Bodies : Arrive(r, b)
          \/ Step(r) \/ Abort(r) \/ CommitLost(r)
    \/ \E tk \in Tenants \X Keys : Expire(tk)

Spec == Init /\ [][Next]_vars

-----------------------------------------------------------------------------
AddressesOf == [t \in Tenants |-> IF PoolOf[t] = None THEN {}
                                  ELSE Hosts(PoolOf[t]) \ gatewayAddress(PoolOf[t])]

Registry ==
    INSTANCE PeerRegistry WITH
        owner <- [tk \in Tenants \X Keys |-> IF keys[tk] = None THEN None ELSE keys[tk].op]

(* To their callers, interleaved transactions with failures and lost       *)
(* confirmations look like requests handled one at a time: each takes      *)
(* effect at one instant or not at all, at most once per key; a replayed   *)
(* answer names the operation of the same request under the same key; a    *)
(* row is revoked only by its own tenant, though RevokePeer compares       *)
(* tenants after the update; and a refusal gives a reason that holds       *)
(* (CreatePeer, RevokePeer).                                               *)
ImplementsRegistry == Registry!Spec

(* The secrets of a peer are given out at most once, in the answer to the  *)
(* request that created it; a replay never carries them (CreatePeer stores *)
(* the response without them).                                             *)
SecretsIssuedOnce ==
    \A r, s \in Requests :
        /\ pc[r] = "done" /\ pc[s] = "done"
        /\ answer[r].secret # None /\ answer[r].secret = answer[s].secret
        => r = s /\ r \in committed

(* However requests that share a key interleave, fail or are retried, and  *)
(* even after the key has expired, at most one of them commits an          *)
(* operation (Idempotency.Lookup and Store, primary key of                 *)
(* idempotency_keys).                                                      *)
OneOperationPerKey ==
    \A r, s \in committed :
        body[r].tenant = body[s].tenant /\ body[r].key = body[s].key => r = s

(* No two peers of the node have the same address, also with pools of      *)
(* several tenants; none has a network, broadcast or gateway address       *)
(* (AllocateAndInsert, gatewayAddress).                                    *)
AddressesDistinct ==
    \A p \in Requests : peers[p] # None =>
        /\ peers[p].addr \in Hosts(PoolOf[peers[p].tenant]) \ gatewayAddress(PoolOf[peers[p].tenant])
        /\ \A q \in Requests \ {p} : peers[q] # None => peers[q].addr # peers[p].addr

Duplicate(r, row) ==
    \/ row.tenant = body[r].tenant /\ row.ext = body[r].ext
    \/ row.pub # None /\ row.pub = body[r].pub

(* A create is refused as existing only if its external id or its public   *)
(* key is taken, or if it was given the address of a revoked peer:         *)
(* concurrent creates never run into each other's address                  *)
(* (AllocateAndInsert locks the pool before it reads it).                  *)
NoCollisionWithLive ==
    \A r \in Requests :
        pc[r] = "done" /\ answer[r].code = "peer_exists" =>
            \E p \in Requests :
                /\ peers[p] # None
                /\ \/ Duplicate(r, peers[p])
                   \/ peers[p].state = "revoked" /\ peers[p].addr = addr[r]

(* A create is refused as existing only if its external id or its public   *)
(* key is taken (AllocateAndInsert, by its comment).                       *)
ExistsMeansDuplicate ==
    \A r \in Requests :
        pc[r] = "done" /\ answer[r].code = "peer_exists" =>
            \E p \in Requests : peers[p] # None /\ Duplicate(r, peers[p])

(* Transactions that wait for each other's locks and index entries never   *)
(* wait in a circle, and errors release them: while requests are under     *)
(* way, one of them can go on (InTx, AllocateAndInsert, MarkRevoked,       *)
(* Store).                                                                 *)
NoCircularWait ==
    (\E r \in Requests : pc[r] \notin {"idle", "done"}) =>
        \E r \in Requests : ENABLED Step(r)

=============================================================================
