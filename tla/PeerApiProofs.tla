--------------------------- MODULE PeerApiProofs ----------------------------
(***************************************************************************)
(* The inductive invariant of module PeerApi, for any number of requests,  *)
(* tenants, keys, addresses and faults; what follows from it of keys,      *)
(* secrets, addresses and waiting; and that the module implements module   *)
(* PeerRegistry.                                                           *)
(***************************************************************************)
EXTENDS PeerApi, TLAPS

(* What holds of a request, by where its handler is.                       *)

Create(r) == body[r].kind = "create"
TK(r) == <<body[r].tenant, body[r].key>>
GoodAddress(t, a) == PoolOf[t] # None /\ a \in Hosts(PoolOf[t]) \ gatewayAddress(PoolOf[t])

(* The handler of each kind of request goes its own way, and a request is  *)
(* answered when it is done.                                               *)
Flow ==
    \A r \in Requests :
        /\ body[r] = None <=> pc[r] = "idle"
        /\ answer[r] = None <=> pc[r] # "done"
        /\ pc[r] \in {"lock", "allocate", "insert"} => Create(r)
        /\ pc[r] = "mark" => ~Create(r)

(* No lock and no index entry has two holders.                             *)
Exclusive == \A r, s \in Requests : r # s => holds[r] \cap holds[s] = {}

(* A create with an address holds its pool; one that has inserted its row  *)
(* holds the row's index entries and clashes with no committed row.        *)
Inserted(r) ==
    /\ Pool(body[r].tenant) \in holds[r]
    /\ GoodAddress(body[r].tenant, addr[r])
    /\ IndexEntries(r) \subseteq holds[r]
    /\ \A p \in Requests : peers[p] # None => ~Clashes(r, peers[p])
CreateAt(r) ==
    /\ pc[r] \in {"allocate", "insert"} => Pool(body[r].tenant) \in holds[r]
    /\ pc[r] = "allocate" => PoolOf[body[r].tenant] # None
    /\ pc[r] = "insert" => GoodAddress(body[r].tenant, addr[r])
    /\ pc[r] \in {"store", "commit"} /\ Create(r) => Inserted(r)
Creates == \A r \in Requests : CreateAt(r)

(* A revoke that has updated its row owns it.                              *)
RevokeAt(r) == pc[r] \in {"store", "commit"} /\ ~Create(r) => Owned(r, body[r].peer)
Revokes == \A r \in Requests : RevokeAt(r)

(* A request about to commit has its key to itself.                        *)
KeyAt(r) ==
    pc[r] = "commit" => KeyEntry(body[r].tenant, body[r].key) \in holds[r]
                            /\ keys[TK(r)] = None
KeyFree == \A r \in Requests : KeyAt(r)

(* Records and committed requests correspond; no record has a secret.      *)
Recorded ==
    /\ \A r \in committed : pc[r] = "done" /\ keys[TK(r)] # None /\ keys[TK(r)].op = r
    /\ \A tk \in Tenants \X Keys : keys[tk] # None =>
          /\ keys[tk].op \in committed
          /\ tk = TK(keys[tk].op)
          /\ keys[tk].hash = requestHash(body[keys[tk].op])
          /\ keys[tk].secret = None

(* Committed rows are those of committed creates, and never clash.         *)
Rows ==
    \A p \in Requests : peers[p] # None =>
        /\ p \in committed
        /\ GoodAddress(peers[p].tenant, peers[p].addr)
        /\ \A q \in Requests \ {p} : peers[q] # None => peers[q].addr # peers[p].addr

(* Only the create that committed is given its secrets.                    *)
Secrets ==
    \A r \in Requests :
        answer[r] # None /\ answer[r].secret # None => answer[r].secret = r /\ r \in committed

IInv == TypeOK /\ Flow /\ Exclusive /\ Creates /\ Revokes /\ KeyFree /\ Recorded /\ Rows /\ Secrets

-----------------------------------------------------------------------------
(* Every body names a tenant and a key, and the rest its kind calls for    *)
(* (CreatePeerRequest, RevokePeer).                                        *)
LEMMA BodyFields ==
    ASSUME NEW b \in Bodies
    PROVE  /\ b # None
           /\ b.kind \in {"create", "revoke"} /\ b.tenant \in Tenants /\ b.key \in Keys
           /\ b.kind = "create" => b.ext \in ExternalIds /\ b.pub \in PublicKeys \cup {None}
           /\ b.kind # "create" => b.peer \in Requests
           /\ requestHash(b) \in {requestHash(c) : c \in Bodies}
BY NoneAssumption DEF Bodies

(* A request that has arrived has a body (Arrive).                         *)
LEMMA Arrived ==
    ASSUME TypeOK, Flow, NEW r \in Requests, pc[r] # "idle"
    PROVE  /\ body[r] \in Bodies
           /\ body[r].tenant \in Tenants /\ body[r].key \in Keys /\ TK(r) \in Tenants \X Keys
           /\ Create(r) => body[r].ext \in ExternalIds /\ body[r].pub \in PublicKeys \cup {None}
           /\ ~Create(r) => body[r].peer \in Requests
<1>1. body[r] \in Bodies
  BY DEF TypeOK, Flow
<1>. QED
  BY <1>1, BodyFields DEF TK, Create

(* Answers that carry no operation are responses (writeProblem).           *)
LEMMA RefusalType ==
    ASSUME NEW code \in Codes
    PROVE  Refusal(code) \in Response /\ Refusal(code).secret = None
           /\ Refusal(code).code = code
BY DEF Refusal, Response

(* What a request relies on is its own place, body, address and locks, and *)
(* the tables: it stays true while these stay (InTx).                      *)
LEMMA Frame ==
    ASSUME NEW s, UNCHANGED <<peers, keys>>,
           body'[s] = body[s], pc'[s] = pc[s], addr'[s] = addr[s], holds'[s] = holds[s]
    PROVE  /\ CreateAt(s) => CreateAt(s)'
           /\ RevokeAt(s) => RevokeAt(s)'
           /\ KeyAt(s) => KeyAt(s)'
<1>1. Create(s)' = Create(s) /\ TK(s)' = TK(s) /\ IndexEntries(s)' = IndexEntries(s)
  BY DEF Create, TK, IndexEntries
<1>2. Inserted(s) => Inserted(s)'
  <2>1. \A p \in Requests : peers[p] # None => (Clashes(s, peers[p])' <=> Clashes(s, peers[p]))
    BY DEF Clashes
  <2>. QED
    BY <1>1, <2>1 DEF Inserted
<1>3. CreateAt(s) => CreateAt(s)'
  BY <1>1, <1>2 DEF CreateAt
<1>4. RevokeAt(s) => RevokeAt(s)'
  BY <1>1 DEF RevokeAt, Owned
<1>5. KeyAt(s) => KeyAt(s)'
  BY <1>1 DEF KeyAt
<1>. QED
  BY <1>3, <1>4, <1>5

(* A finished request leaves every other one where it is (InTx).           *)
LEMMA FinishMove ==
    ASSUME TypeOK, NEW r \in Requests, NEW resp, Finish(r, resp)
    PROVE  /\ \A s \in Requests \ {r} :
                 pc'[s] = pc[s] /\ holds'[s] = holds[s] /\ answer'[s] = answer[s]
           /\ pc'[r] = "done" /\ holds'[r] = {} /\ answer'[r] = resp
BY DEF TypeOK, Finish, Goto

(* So does one that moves on.                                              *)
LEMMA GotoMove ==
    ASSUME TypeOK, NEW r \in Requests, NEW label, Goto(r, label)
    PROVE  /\ \A s \in Requests \ {r} : pc'[s] = pc[s]
           /\ pc'[r] = label
BY DEF TypeOK, Goto

(* Locks are taken for one request, and added to those it has.             *)
LEMMA AcquireMove ==
    ASSUME TypeOK, NEW r \in Requests, NEW things, Acquire(r, things)
    PROVE  /\ \A s \in Requests \ {r} : holds'[s] = holds[s] /\ holds[s] \cap things = {}
           /\ holds'[r] = holds[r] \cup things
BY DEF TypeOK, Acquire, Available

(* A transaction that ends without writing leaves the invariant true: its  *)
(* locks go, and the tables stay (InTx on an error, or a replay).          *)
LEMMA FinishInv ==
    ASSUME IInv, NEW r \in Requests, pc[r] \notin {"idle", "done"},
           NEW resp \in Response, resp.secret = None,
           Finish(r, resp), UNCHANGED <<tables, body, addr>>, faults' \in 0 .. MaxFaults
    PROVE  IInv'
<1>0. TypeOK /\ Flow /\ Exclusive /\ Creates /\ Revokes /\ KeyFree /\ Recorded /\ Rows /\ Secrets
  BY DEF IInv
<1>m. /\ \A s \in Requests \ {r} :
            pc'[s] = pc[s] /\ holds'[s] = holds[s] /\ answer'[s] = answer[s]
      /\ pc'[r] = "done" /\ holds'[r] = {} /\ answer'[r] = resp
  BY <1>0, FinishMove
<1>1. TypeOK'
  BY <1>0 DEF TypeOK, Finish, Goto, tables
<1>2. Flow'
  BY <1>0, <1>m, NoneAssumption DEF Flow, Create
<1>3. Exclusive'
  BY <1>0, <1>m DEF Exclusive
<1>4. Creates' /\ Revokes' /\ KeyFree'
  <2>1. ASSUME NEW s \in Requests PROVE (CreateAt(s) /\ RevokeAt(s) /\ KeyAt(s))'
    <3>1. CASE s = r
      BY <1>m, <3>1 DEF CreateAt, RevokeAt, KeyAt
    <3>2. CASE s # r
      BY <1>0, <1>m, <3>2, Frame DEF Creates, Revokes, KeyFree, tables
    <3>. QED
      BY <3>1, <3>2
  <2>. QED
    BY <2>1 DEF Creates, Revokes, KeyFree
<1>7. Recorded'
  BY <1>0, <1>m DEF TypeOK, Recorded, TK, tables
<1>8. Rows'
  BY <1>0 DEF Rows, tables
<1>9. Secrets'
  BY <1>0, <1>m DEF Secrets, tables
<1>. QED
  BY <1>1, <1>2, <1>3, <1>4, <1>7, <1>8, <1>9 DEF IInv

(* A request arrives with a body; it holds nothing yet (Arrive).           *)
LEMMA ArriveInv ==
    ASSUME IInv, NEW r \in Requests, NEW b \in Bodies, Arrive(r, b)
    PROVE  IInv'
<1>0. TypeOK /\ Flow /\ Exclusive /\ Creates /\ Revokes /\ KeyFree /\ Recorded /\ Rows /\ Secrets
  BY DEF IInv
<1>u. pc[r] = "idle" /\ UNCHANGED <<tables, addr, holds, answer, faults>>
  BY DEF Arrive
<1>m. /\ \A s \in Requests \ {r} : pc'[s] = pc[s] /\ body'[s] = body[s]
      /\ pc'[r] = "lookup" /\ body'[r] = b
  BY <1>0 DEF TypeOK, Arrive, Goto
<1>1. TypeOK'
  BY <1>0 DEF TypeOK, Arrive, Goto, tables
<1>2. Flow'
  BY <1>0, <1>u, <1>m, BodyFields DEF Flow, Create
<1>3. Exclusive'
  BY <1>0, <1>u DEF Exclusive
<1>4. Creates' /\ Revokes' /\ KeyFree'
  <2>1. ASSUME NEW s \in Requests PROVE (CreateAt(s) /\ RevokeAt(s) /\ KeyAt(s))'
    <3>1. CASE s = r
      BY <1>m, <3>1 DEF CreateAt, RevokeAt, KeyAt
    <3>2. CASE s # r
      BY <1>0, <1>u, <1>m, <3>2, Frame, Zenon DEF Creates, Revokes, KeyFree, tables
    <3>. QED
      BY <3>1, <3>2
  <2>. QED
    BY <2>1 DEF Creates, Revokes, KeyFree
<1>7. Recorded'
  <2>1. r \notin committed
    BY <1>0, <1>u DEF Recorded
  <2>2. \A s \in committed : s \in Requests /\ body'[s] = body[s] /\ pc'[s] = pc[s]
    BY <1>0, <1>m, <2>1 DEF TypeOK
  <2>. QED
    BY <1>0, <1>u, <2>2 DEF Recorded, TK, tables
<1>8. Rows'
  BY <1>0, <1>u DEF Rows, tables
<1>9. Secrets'
  BY <1>0, <1>u DEF Secrets, tables
<1>. QED
  BY <1>1, <1>2, <1>3, <1>4, <1>7, <1>8, <1>9 DEF IInv

(* What a step leaves alone when it only moves a request on, perhaps with  *)
(* more locks or an address: tables, bodies and answers.  What is left to  *)
(* show of it is what the new place asks for.                              *)
LEMMA MoveInv ==
    ASSUME IInv, NEW r \in Requests, pc[r] \notin {"idle", "done"},
           NEW label \in {"lock", "allocate", "insert", "mark", "store", "commit"},
           Goto(r, label), UNCHANGED <<tables, body, answer, faults>>,
           NEW things \in SUBSET Things, Acquire(r, things) \/ UNCHANGED holds,
           addr' \in [Requests -> (0 .. Space - 1) \cup {NoAddr}],
           \A s \in Requests \ {r} : addr'[s] = addr[s],
           label \in {"lock", "allocate", "insert"} => Create(r),
           label = "mark" => ~Create(r),
           (CreateAt(r) /\ RevokeAt(r) /\ KeyAt(r))'
    PROVE  IInv'
<1>0. TypeOK /\ Flow /\ Exclusive /\ Creates /\ Revokes /\ KeyFree /\ Recorded /\ Rows /\ Secrets
  BY DEF IInv
<1>m. pc'[r] = label /\ \A s \in Requests \ {r} : pc'[s] = pc[s]
  BY <1>0, GotoMove
<1>h. /\ \A s \in Requests \ {r} : holds'[s] = holds[s]
      /\ holds'[r] = holds[r] \/
            (holds'[r] = holds[r] \cup things
                /\ \A s \in Requests \ {r} : holds[s] \cap things = {})
  BY <1>0, AcquireMove
<1>1. TypeOK'
  <2>1. holds' \in [Requests -> SUBSET Things]
    BY <1>0 DEF TypeOK, Acquire
  <2>2. pc' \in [Requests -> {"idle", "lookup", "lock", "allocate", "insert", "mark",
                             "store", "commit", "done"}]
    BY <1>0 DEF TypeOK, Goto
  <2>3. \A s \in Requests : pc'[s] \in {"idle", "lookup", "done"} => holds'[s] = {}
    BY <1>0, <1>m, <1>h DEF TypeOK
  <2>. QED
    BY <1>0, <2>1, <2>2, <2>3 DEF TypeOK, tables
<1>2. Flow'
  BY <1>0, <1>m, Zenon DEF Flow, Create
<1>3. Exclusive'
  BY <1>0, <1>h, Zenon DEF Exclusive
<1>4. Creates' /\ Revokes' /\ KeyFree'
  <2>1. ASSUME NEW s \in Requests, s # r PROVE (CreateAt(s) /\ RevokeAt(s) /\ KeyAt(s))'
    BY <1>0, <1>m, <1>h, <2>1, Frame, Zenon DEF Creates, Revokes, KeyFree, tables
  <2>. QED
    BY <2>1, Zenon DEF Creates, Revokes, KeyFree
<1>7. Recorded'
  <2>1. r \notin committed
    BY <1>0, Zenon DEF Recorded
  <2>2. \A s \in committed : pc'[s] = pc[s]
    BY <1>0, <1>m, <2>1 DEF TypeOK
  <2>. QED
    BY <1>0, <2>2, Zenon DEF Recorded, TK, tables
<1>8. Rows'
  BY <1>0 DEF Rows, tables
<1>9. Secrets'
  BY <1>0, Zenon DEF Secrets, tables
<1>. QED
  BY <1>1, <1>2, <1>3, <1>4, <1>7, <1>8, <1>9 DEF IInv

(* The first read of a key: a replay or a conflict ends the request, a     *)
(* free or expired key lets it go on (Idempotency.Lookup).                 *)
LEMMA LookupInv ==
    ASSUME IInv, NEW r \in Requests, Lookup(r)
    PROVE  IInv'
<1>. DEFINE rec == keys[TK(r)]
<1>i. TypeOK /\ Flow /\ Creates /\ Revokes /\ Recorded
  BY Zenon DEF IInv
<1>0. /\ pc[r] = "lookup" /\ UNCHANGED <<tables, body, addr, faults>>
      /\ TK(r) \in Tenants \X Keys
      /\ faults' \in 0 .. MaxFaults
  BY <1>i, Arrived, Zenon DEF Lookup, TypeOK
<1>1. CASE /\ Found(rec) /\ Replays(r, rec)
           /\ Finish(r, [code |-> "replayed", op |-> rec.op, secret |-> rec.secret])
  <2>1. rec \in Record /\ rec.secret = None
    BY <1>i, <1>0, <1>1 DEF Found, Recorded, TypeOK
  <2>2. [code |-> "replayed", op |-> rec.op, secret |-> rec.secret] \in Response
    BY <2>1 DEF Record, Response, Codes
  <2>. QED
    BY <1>0, <1>1, <2>1, <2>2, FinishInv, Zenon
<1>2. CASE Finish(r, Refusal("idempotency_conflict"))
  <2>1. "idempotency_conflict" \in Codes
    BY Zenon DEF Codes
  <2>. QED
    BY <1>0, <1>2, <2>1, FinishInv, RefusalType
<1>3. CASE /\ Goto(r, IF body[r].kind = "create" THEN "lock" ELSE "mark")
           /\ UNCHANGED <<holds, answer>>
  <2>1. pc'[r] \in {"lock", "mark"}
    BY <1>i, <1>3, GotoMove, Zenon
  <2>2. (CreateAt(r) /\ RevokeAt(r) /\ KeyAt(r))'
    BY <2>1 DEF CreateAt, RevokeAt, KeyAt
  <2>. DEFINE label == IF body[r].kind = "create" THEN "lock" ELSE "mark"
  <2>4. /\ label \in {"lock", "allocate", "insert", "mark", "store", "commit"}
        /\ label \in {"lock", "allocate", "insert"} => Create(r)
        /\ label = "mark" => ~Create(r)
        /\ Goto(r, label) /\ UNCHANGED holds
    BY <1>3 DEF Create
  <2>5. /\ addr' \in [Requests -> (0 .. Space - 1) \cup {NoAddr}]
        /\ \A s \in Requests \ {r} : addr'[s] = addr[s]
    BY <1>i, <1>0, Zenon DEF TypeOK
  <2>. HIDE DEF label
  <2>. QED
    BY <1>0, <1>3, <2>2, <2>4, <2>5, MoveInv, Zenon
<1>. QED
  BY <1>1, <1>2, <1>3 DEF Lookup, TK

(* SELECT FOR UPDATE: the pool's lock has no other holder (AllocateAndInsert). *)
LEMMA LockPoolInv ==
    ASSUME IInv, NEW r \in Requests, LockPool(r)
    PROVE  IInv'
<1>i. TypeOK /\ Flow /\ Creates /\ Revokes /\ Recorded
  BY DEF IInv
<1>0. /\ pc[r] = "lock" /\ UNCHANGED <<tables, body, faults>>
      /\ body[r].tenant \in Tenants /\ Create(r)
      /\ faults' \in 0 .. MaxFaults
  BY <1>i, Arrived, Zenon DEF LockPool, TypeOK, Flow
<1>1. CASE Reject(r, "internal")
  <2>1. "internal" \in Codes
    BY Zenon DEF Codes
  <2>. QED
    BY <1>0, <1>1, <2>1, FinishInv, RefusalType DEF Reject
<1>2. CASE /\ PoolOf[body[r].tenant] # None
           /\ Acquire(r, {Pool(body[r].tenant)})
           /\ Goto(r, "allocate")
           /\ UNCHANGED <<addr, answer>>
  <2>1. pc'[r] = "allocate" /\ Pool(body[r].tenant) \in holds'[r]
    BY <1>i, <1>2, GotoMove, AcquireMove
  <2>2. (CreateAt(r) /\ RevokeAt(r) /\ KeyAt(r))'
    BY <1>0, <1>2, <2>1 DEF CreateAt, RevokeAt, KeyAt
  <2>4. {Pool(body[r].tenant)} \in SUBSET Things
    BY <1>0 DEF Things
  <2>5. /\ addr' \in [Requests -> (0 .. Space - 1) \cup {NoAddr}]
        /\ \A s \in Requests \ {r} : addr'[s] = addr[s]
    BY <1>i, <1>2 DEF TypeOK
  <2>. QED
    BY <1>0, <1>2, <2>2, <2>4, <2>5, MoveInv, Zenon
<1>. QED
  BY <1>1, <1>2, Zenon DEF LockPool

(* An address of a pool is an address of the space (module Addresses).     *)
LEMMA HostsInSpace ==
    ASSUME NEW p \in Pools
    PROVE  Hosts(p) \subseteq 0 .. Space - 1
BY PoolAssumption DEF Hosts, firstHost, lastHost, Reserves

(* An allocated address is a host of the pool other than its gateway       *)
(* (ipam.Allocate, gatewayAddress).                                        *)
LEMMA AllocateInv ==
    ASSUME IInv, NEW r \in Requests, Allocate(r)
    PROVE  IInv'
<1>. DEFINE t == body[r].tenant
<1>i. TypeOK /\ Flow /\ Creates /\ Revokes /\ Recorded
  BY DEF IInv
<1>0. /\ pc[r] = "allocate" /\ UNCHANGED <<tables, body, faults>>
      /\ t \in Tenants /\ Create(r) /\ PoolOf[t] \in Pools /\ Pool(t) \in holds[r]
      /\ faults' \in 0 .. MaxFaults
  BY <1>i, Arrived, ApiAssumption DEF Allocate, TypeOK, Flow, Creates, CreateAt
<1>1. CASE Reject(r, "ip_pool_exhausted")
  <2>1. "ip_pool_exhausted" \in Codes
    BY Zenon DEF Codes
  <2>. QED
    BY <1>0, <1>1, <2>1, FinishInv, RefusalType DEF Reject
<1>2. ASSUME NEW h \in Hosts(PoolOf[t]),
             IsNextFree(PoolOf[t], cursor[t], Reserved(t), h),
             addr' = [addr EXCEPT ![r] = h],
             Goto(r, "insert"), UNCHANGED <<holds, answer>>
      PROVE  IInv'
  <2>0. GoodAddress(t, h)
    BY <1>0, <1>2, ApiAssumption, Zenon DEF GoodAddress, IsNextFree, Free, Reserved
  <2>1. pc'[r] = "insert" /\ addr'[r] = h
    BY <1>i, <1>2, GotoMove, Zenon DEF TypeOK
  <2>2. Pool(t) \in holds'[r] /\ body' = body
    BY <1>0, <1>2, Zenon
  <2>3. (CreateAt(r) /\ RevokeAt(r) /\ KeyAt(r))'
    BY <2>0, <2>1, <2>2, Zenon DEF CreateAt, RevokeAt, KeyAt, GoodAddress
  <2>5. /\ addr' \in [Requests -> (0 .. Space - 1) \cup {NoAddr}]
        /\ \A s \in Requests \ {r} : addr'[s] = addr[s]
    BY <1>i, <1>0, <1>2, HostsInSpace, Zenon DEF TypeOK
  <2>. QED
    BY <1>0, <1>2, <2>3, <2>5, MoveInv, Zenon
<1>. QED
  BY <1>1, <1>2, Zenon DEF Allocate

(* INSERT INTO peers: the row's index entries are its transaction's alone, *)
(* and no committed row has them (schema/0001_init.sql, AllocateAndInsert). *)
LEMMA InsertInv ==
    ASSUME IInv, NEW r \in Requests, Insert(r)
    PROVE  IInv'
<1>i. TypeOK /\ Flow /\ Creates /\ Revokes /\ Recorded
  BY DEF IInv
<1>0. /\ pc[r] = "insert" /\ UNCHANGED <<tables, body, faults>>
      /\ body[r].tenant \in Tenants /\ Create(r)
      /\ body[r].ext \in ExternalIds /\ body[r].pub \in PublicKeys \cup {None}
      /\ GoodAddress(body[r].tenant, addr[r])
      /\ Pool(body[r].tenant) \in holds[r]
      /\ faults' \in 0 .. MaxFaults
  BY <1>i, Arrived, Zenon DEF Insert, TypeOK, Flow, Creates, CreateAt
<1>1. CASE Reject(r, "peer_exists")
  <2>1. "peer_exists" \in Codes
    BY Zenon DEF Codes
  <2>. QED
    BY <1>0, <1>1, <2>1, FinishInv, RefusalType DEF Reject
<1>2. CASE /\ ~ \E p \in Requests : peers[p] # None /\ Clashes(r, peers[p])
           /\ Acquire(r, IndexEntries(r))
           /\ Goto(r, "store")
           /\ UNCHANGED <<addr, answer>>
  <2>0. addr[r] \in 0 .. Space - 1
    <3>1. PoolOf[body[r].tenant] \in Pools
      BY <1>0, ApiAssumption, Zenon DEF GoodAddress
    <3>. QED
      BY <1>0, <3>1, HostsInSpace, Zenon DEF GoodAddress
  <2>1. pc'[r] = "store" /\ holds'[r] = holds[r] \cup IndexEntries(r)
    BY <1>i, <1>2, GotoMove, AcquireMove, Zenon
  <2>2. IndexEntries(r)' = IndexEntries(r) /\ Create(r)'
    BY <1>0, <1>2, Zenon DEF IndexEntries, Create
  <2>3. ASSUME NEW p \in Requests, peers[p] # None
        PROVE  ~Clashes(r, peers[p])'
    BY <1>0, <1>2, <2>3 DEF Clashes, tables
  <2>6. Inserted(r)'
    BY <1>0, <1>2, <2>1, <2>2, <2>3, Zenon DEF Inserted, tables
  <2>7. (CreateAt(r) /\ RevokeAt(r) /\ KeyAt(r))'
    BY <2>1, <2>2, <2>6 DEF CreateAt, RevokeAt, KeyAt
  <2>4. IndexEntries(r) \in SUBSET Things
    <3>1. <<"ext", body[r].tenant, body[r].ext>> \in {"ext"} \X Tenants \X ExternalIds
      BY <1>0
    <3>2. <<"ip", addr[r]>> \in {"ip"} \X (0 .. Space - 1)
      BY <2>0, Zenon
    <3>3. body[r].pub # None => <<"pub", body[r].pub>> \in {"pub"} \X PublicKeys
      BY <1>0
    <3>. QED
      BY <3>1, <3>2, <3>3 DEF IndexEntries, Things, Entries
  <2>5. /\ addr' \in [Requests -> (0 .. Space - 1) \cup {NoAddr}]
        /\ \A s \in Requests \ {r} : addr'[s] = addr[s]
    BY <1>i, <1>2, Zenon DEF TypeOK
  <2>. QED
    BY <1>0, <1>2, <2>4, <2>5, <2>7, MoveInv, Zenon
<1>. QED
  BY <1>1, <1>2, Zenon DEF Insert

(* UPDATE of the row to revoke; the tenant is compared afterwards          *)
(* (MarkRevoked, RevokePeer).                                              *)
LEMMA MarkInv ==
    ASSUME IInv, NEW r \in Requests, Mark(r)
    PROVE  IInv'
<1>i. TypeOK /\ Flow /\ Creates /\ Revokes /\ Recorded
  BY DEF IInv
<1>0. /\ pc[r] = "mark" /\ UNCHANGED <<tables, body, faults>>
      /\ body[r].peer \in Requests /\ ~Create(r)
      /\ faults' \in 0 .. MaxFaults
  BY <1>i, Arrived, Zenon DEF Mark, TypeOK, Flow
<1>1. CASE Reject(r, "not_found")
  <2>1. "not_found" \in Codes
    BY Zenon DEF Codes
  <2>. QED
    BY <1>0, <1>1, <2>1, FinishInv, RefusalType DEF Reject
<1>2. CASE /\ Owned(r, body[r].peer)
           /\ Acquire(r, {Row(body[r].peer)})
           /\ Goto(r, "store")
           /\ UNCHANGED <<addr, answer>>
  <2>1. pc'[r] = "store" /\ ~Create(r)' /\ Owned(r, body[r].peer)'
    BY <1>i, <1>0, <1>2, GotoMove, Zenon DEF Create, Owned, tables
  <2>2. (CreateAt(r) /\ RevokeAt(r) /\ KeyAt(r))'
    BY <2>1 DEF CreateAt, RevokeAt, KeyAt
  <2>4. {Row(body[r].peer)} \in SUBSET Things
    BY <1>0 DEF Things
  <2>5. /\ addr' \in [Requests -> (0 .. Space - 1) \cup {NoAddr}]
        /\ \A s \in Requests \ {r} : addr'[s] = addr[s]
    BY <1>i, <1>2 DEF TypeOK
  <2>. QED
    BY <1>0, <1>2, <2>2, <2>4, <2>5, MoveInv, Zenon
<1>. QED
  BY <1>1, <1>2, Zenon DEF Mark

(* INSERT INTO idempotency_keys: the key has no record, and no other       *)
(* transaction is about to give it one (Idempotency.Store).                *)
LEMMA StoreInv ==
    ASSUME IInv, NEW r \in Requests, Store(r)
    PROVE  IInv'
<1>i. TypeOK /\ Flow /\ Creates /\ Revokes /\ Recorded
  BY DEF IInv
<1>0. /\ pc[r] = "store" /\ UNCHANGED <<tables, body, faults>>
      /\ body[r].tenant \in Tenants /\ body[r].key \in Keys
      /\ faults' \in 0 .. MaxFaults
  BY <1>i, Arrived, Zenon DEF Store, TypeOK
<1>1. CASE Reject(r, "internal")
  <2>1. "internal" \in Codes
    BY DEF Codes
  <2>. QED
    BY <1>0, <1>1, <2>1, FinishInv, RefusalType, Zenon DEF Reject
<1>2. CASE /\ keys[TK(r)] = None
           /\ Acquire(r, {KeyEntry(body[r].tenant, body[r].key)})
           /\ Goto(r, "commit")
           /\ UNCHANGED <<addr, answer>>
  <2>1. /\ pc'[r] = "commit"
        /\ holds'[r] = holds[r] \cup {KeyEntry(body[r].tenant, body[r].key)}
    BY <1>i, <1>2, GotoMove, AcquireMove
  <2>2. CreateAt(r)'
    <3>1. Create(r)' = Create(r) /\ IndexEntries(r)' = IndexEntries(r)
      BY <1>0, <1>2, Zenon DEF Create, IndexEntries
    <3>2. \A p \in Requests : peers[p] # None => (Clashes(r, peers[p])' <=> Clashes(r, peers[p]))
      BY <1>0, <1>2, Zenon DEF Clashes, tables
    <3>3. Create(r) => Inserted(r)
      BY <1>i, <1>0, Zenon DEF Creates, CreateAt
    <3>4. Create(r) => Inserted(r)'
      BY <1>0, <1>2, <2>1, <3>1, <3>2, <3>3 DEF Inserted, tables
    <3>. QED
      BY <2>1, <3>1, <3>4, Zenon DEF CreateAt
  <2>3. RevokeAt(r)' /\ KeyAt(r)'
    <3>1. RevokeAt(r)'
      BY <1>i, <1>0, <2>1, Zenon DEF Revokes, RevokeAt, Create, Owned, tables
    <3>2. KeyAt(r)'
      BY <1>0, <1>2, <2>1 DEF KeyAt, TK, tables
    <3>. QED
      BY <3>1, <3>2, Zenon
  <2>4. {KeyEntry(body[r].tenant, body[r].key)} \in SUBSET Things
    BY <1>0 DEF Things
  <2>5. /\ addr' \in [Requests -> (0 .. Space - 1) \cup {NoAddr}]
        /\ \A s \in Requests \ {r} : addr'[s] = addr[s]
    BY <1>i, <1>2 DEF TypeOK
  <2>. QED
    BY <1>0, <1>2, <2>2, <2>3, <2>4, <2>5, MoveInv, Zenon
<1>. QED
  BY <1>1, <1>2, Zenon DEF Store, TK

(* The cursor a create leaves behind is an address (ipam.Allocate).        *)
LEMMA FollowingInSpace ==
    ASSUME NEW p \in Pools, NEW a \in Hosts(p)
    PROVE  Following(p, a) \in 0 .. Space - 1
<1>1. firstHost(p) \in 0 .. Space - 1
  BY PoolAssumption DEF firstHost, Reserves
<1>2. lastHost(p) \in Int /\ lastHost(p) <= Space - 1 /\ a \in 0 .. Space - 1
  BY PoolAssumption, HostsInSpace DEF lastHost, Reserves
<1>3. p.base \in Nat /\ Space \in Nat /\ Size(p) \in Nat
  BY PoolAssumption, Zenon
<1>. QED
  BY <1>1, <1>2, <1>3 DEF Following, NextAddr, NoAddr, Contains

-----------------------------------------------------------------------------
(* Commits keep it as well.                                                *)

(* What a request at its commit relies on.                                 *)
LEMMA AtCommit ==
    ASSUME IInv, NEW r \in Requests, pc[r] = "commit"
    PROVE  /\ body[r] \in Bodies /\ body[r].tenant \in Tenants /\ body[r].key \in Keys
           /\ TK(r) \in Tenants \X Keys /\ keys[TK(r)] = None
           /\ KeyEntry(body[r].tenant, body[r].key) \in holds[r]
           /\ r \notin committed /\ peers[r] = None
           /\ Create(r) => /\ body[r].ext \in ExternalIds
                           /\ body[r].pub \in PublicKeys \cup {None}
                           /\ GoodAddress(body[r].tenant, addr[r])
                           /\ PoolOf[body[r].tenant] \in Pools
                           /\ addr[r] \in 0 .. Space - 1
                           /\ IndexEntries(r) \subseteq holds[r]
                           /\ \A p \in Requests : peers[p] # None => ~Clashes(r, peers[p])
           /\ ~Create(r) => /\ body[r].peer \in Requests /\ body[r].peer # r
                            /\ Owned(r, body[r].peer)
<1>0. TypeOK /\ Flow /\ Exclusive /\ Creates /\ Revokes /\ KeyFree /\ Recorded /\ Rows /\ Secrets
  BY Zenon DEF IInv
<1>1. /\ body[r] \in Bodies /\ body[r].tenant \in Tenants /\ body[r].key \in Keys
      /\ TK(r) \in Tenants \X Keys
      /\ Create(r) => body[r].ext \in ExternalIds /\ body[r].pub \in PublicKeys \cup {None}
      /\ ~Create(r) => body[r].peer \in Requests
  BY <1>0, Arrived
<1>2. keys[TK(r)] = None /\ KeyEntry(body[r].tenant, body[r].key) \in holds[r]
  BY <1>0 DEF KeyFree, KeyAt
<1>3. r \notin committed /\ peers[r] = None
  BY <1>0, Zenon DEF Recorded, Rows
<1>4. Create(r) => /\ GoodAddress(body[r].tenant, addr[r])
                   /\ IndexEntries(r) \subseteq holds[r]
                   /\ \A p \in Requests : peers[p] # None => ~Clashes(r, peers[p])
  BY <1>0, Zenon DEF Creates, CreateAt, Inserted
<1>5. Create(r) => PoolOf[body[r].tenant] \in Pools /\ addr[r] \in 0 .. Space - 1
  BY <1>1, <1>4, ApiAssumption, HostsInSpace DEF GoodAddress
<1>6. ~Create(r) => Owned(r, body[r].peer) /\ body[r].peer # r
  BY <1>0, <1>3, Zenon DEF Revokes, RevokeAt, Owned
<1>. QED
  BY <1>1, <1>2, <1>3, <1>4, <1>5, <1>6

(* The row a create writes, and the record of the key.                     *)
NewRow(r) == [tenant |-> body[r].tenant, ext |-> body[r].ext, pub |-> body[r].pub,
              addr |-> addr[r], state |-> "live"]
NewRecord(r) == [hash |-> requestHash(body[r]), op |-> r, secret |-> None, expired |-> FALSE]

(* The writes of a transaction, table by table (CreatePeer, RevokePeer).   *)
LEMMA WrittenTables ==
    ASSUME IInv, NEW r \in Requests, pc[r] = "commit", Written(r)
    PROVE  /\ Create(r) => peers' = [peers EXCEPT ![r] = NewRow(r)]
           /\ Create(r) => cursor' = [cursor EXCEPT ![body[r].tenant] =
                                        Following(PoolOf[body[r].tenant], addr[r])]
           /\ ~Create(r) => peers' = [peers EXCEPT ![body[r].peer].state = "revoked"]
           /\ ~Create(r) => cursor' = cursor
           /\ keys' = [keys EXCEPT ![TK(r)] = NewRecord(r)]
           /\ committed' = committed \cup {r}
           /\ NewRecord(r) \in Record
           /\ Create(r) => NewRow(r) \in PeerRow
<1>1. Safe(Accepted(r)).secret = None
  BY Zenon DEF Safe, Accepted
<1>2. NewRecord(r) \in Record
  BY AtCommit, BodyFields DEF NewRecord, Record
<1>3. Create(r) => NewRow(r) \in PeerRow
  BY AtCommit, Zenon DEF NewRow, PeerRow
<1>. QED
  BY <1>1, <1>2, <1>3 DEF Written, Create, NewRow, NewRecord, TK

(* Rows stay rows of their peers: a commit inserts the one of its own      *)
(* request, or revokes one that is there.                                  *)
LEMMA WrittenRows ==
    ASSUME IInv, NEW r \in Requests, pc[r] = "commit", Written(r)
    PROVE  /\ peers' \in [Requests -> PeerRow \cup {None}]
           /\ \A p \in Requests :
                 \/ p = r /\ Create(r) /\ peers'[p] = NewRow(r)
                 \/ peers'[p] = None /\ peers[p] = None
                 \/ /\ peers[p] # None /\ peers'[p] # None
                    /\ peers'[p].tenant = peers[p].tenant /\ peers'[p].ext = peers[p].ext
                    /\ peers'[p].pub = peers[p].pub /\ peers'[p].addr = peers[p].addr
                    /\ peers'[p].state \in {peers[p].state, "revoked"}
<1>0. peers \in [Requests -> PeerRow \cup {None}]
  BY DEF IInv, TypeOK
<1>1. CASE Create(r)
  <2>1. peers' = [peers EXCEPT ![r] = NewRow(r)] /\ NewRow(r) \in PeerRow
    BY <1>1, WrittenTables, Zenon
  <2>. QED
    BY <1>0, <1>1, <2>1
<1>2. CASE ~Create(r)
  <2>1. peers' = [peers EXCEPT ![body[r].peer].state = "revoked"]
    BY <1>2, WrittenTables, Zenon
  <2>2. body[r].peer \in Requests /\ peers[body[r].peer] \in PeerRow
    BY <1>0, <1>2, AtCommit DEF Owned
  <2>3. [peers[body[r].peer] EXCEPT !.state = "revoked"] \in PeerRow
    BY <2>2 DEF PeerRow
  <2>4. ASSUME NEW p \in Requests, p # body[r].peer
        PROVE  peers'[p] = peers[p]
    BY <1>0, <2>1, <2>2, <2>4
  <2>5. peers'[body[r].peer] = [peers[body[r].peer] EXCEPT !.state = "revoked"]
    BY <1>0, <2>1, <2>2
  <2>6. peers' \in [Requests -> PeerRow \cup {None}]
    BY <1>0, <2>1, <2>2, <2>3
  <2>7. /\ peers[body[r].peer] # None /\ peers'[body[r].peer] # None
        /\ peers'[body[r].peer].tenant = peers[body[r].peer].tenant
        /\ peers'[body[r].peer].ext = peers[body[r].peer].ext
        /\ peers'[body[r].peer].pub = peers[body[r].peer].pub
        /\ peers'[body[r].peer].addr = peers[body[r].peer].addr
        /\ peers'[body[r].peer].state = "revoked"
    BY <2>2, <2>3, <2>5, NoneAssumption, Zenon DEF PeerRow
  <2>8. ASSUME NEW p \in Requests
        PROVE  \/ peers'[p] = None /\ peers[p] = None
               \/ /\ peers[p] # None /\ peers'[p] # None
                  /\ peers'[p].tenant = peers[p].tenant /\ peers'[p].ext = peers[p].ext
                  /\ peers'[p].pub = peers[p].pub /\ peers'[p].addr = peers[p].addr
                  /\ peers'[p].state \in {peers[p].state, "revoked"}
    <3>1. CASE p = body[r].peer
      BY <2>7, <3>1
    <3>2. CASE p # body[r].peer
      BY <2>4, <3>2
    <3>. QED
      BY <3>1, <3>2, Zenon
  <2>. QED
    BY <2>6, <2>8, Zenon
<1>. QED
  BY <1>1, <1>2

(* A committed transaction, whether or not its caller hears of it: the     *)
(* other transactions keep what they rely on, because what they hold is    *)
(* theirs alone (InTx, the unique indexes of peers and idempotency_keys).  *)
LEMMA WrittenInv ==
    ASSUME IInv, NEW r \in Requests, pc[r] = "commit", Written(r),
           NEW resp \in {Accepted(r), Refusal("internal")},
           Finish(r, resp), UNCHANGED <<body, addr>>, faults' \in 0 .. MaxFaults
    PROVE  IInv'
<1>i. TypeOK /\ Flow /\ Exclusive /\ Creates /\ Revokes /\ KeyFree /\ Recorded /\ Rows /\ Secrets
  BY DEF IInv
<1>0. /\ resp \in Response
      /\ resp.secret # None => resp.secret = r
  <2>1. Accepted(r) \in Response /\ Accepted(r).secret \in {r, None}
    BY DEF Accepted, Response, Codes
  <2>2. Refusal("internal") \in Response /\ Refusal("internal").secret = None
    BY RefusalType DEF Codes
  <2>. QED
    BY <2>1, <2>2, Zenon
<1>k. keys' = [keys EXCEPT ![TK(r)] = NewRecord(r)] /\ committed' = committed \cup {r}
  BY WrittenTables, Zenon
<1>r. NewRecord(r) \in Record
  BY WrittenTables, Zenon
<1>a. TK(r) \in Tenants \X Keys /\ keys[TK(r)] = None /\ r \notin committed
  BY AtCommit
<1>p. /\ \A s \in Requests \ {r} :
            pc'[s] = pc[s] /\ holds'[s] = holds[s] /\ answer'[s] = answer[s]
      /\ pc'[r] = "done" /\ holds'[r] = {} /\ answer'[r] = resp
  BY <1>i, FinishMove, Zenon
<1>1. TypeOK'
  <2>1. keys' \in [Tenants \X Keys -> Record \cup {None}]
    BY <1>i, <1>k, <1>r, <1>a DEF TypeOK
  <2>2. cursor' \in [Tenants -> (0 .. Space - 1) \cup {NoAddr}]
    <3>1. CASE Create(r)
      <4>1. cursor' = [cursor EXCEPT ![body[r].tenant] =
                          Following(PoolOf[body[r].tenant], addr[r])]
        BY <3>1, WrittenTables, Zenon
      <4>2. Following(PoolOf[body[r].tenant], addr[r]) \in 0 .. Space - 1
        BY <3>1, AtCommit, FollowingInSpace, Zenon DEF GoodAddress
      <4>. QED
        BY <1>i, <4>1, <4>2, Zenon DEF TypeOK
    <3>2. CASE ~Create(r)
      BY <1>i, <3>2, WrittenTables, Zenon DEF TypeOK
    <3>. QED
      BY <3>1, <3>2, Zenon
  <2>3. peers' \in [Requests -> PeerRow \cup {None}]
    BY WrittenRows, Zenon
  <2>. QED
    BY <1>i, <2>1, <2>2, <2>3, <1>k, <1>0, Zenon DEF TypeOK, Finish, Goto
<1>2. Flow'
  BY <1>i, <1>p, <1>0, NoneAssumption DEF Flow, Create
<1>3. Exclusive'
  BY <1>i, <1>p, Zenon DEF Exclusive
<1>b. ASSUME NEW s \in Requests
      PROVE  IndexEntries(s)' = IndexEntries(s) /\ Create(s)' = Create(s) /\ TK(s)' = TK(s)
  BY DEF IndexEntries, Create, TK
<1>4. Creates'
  <2>1. SUFFICES ASSUME NEW s \in Requests PROVE CreateAt(s)'
    BY DEF Creates
  <2>2. CreateAt(s)
    BY <1>i, Zenon DEF Creates
  <2>3. CASE s = r
    BY <1>p, <2>3 DEF CreateAt
  <2>4. CASE s # r /\ ~(pc[s] \in {"store", "commit"} /\ Create(s))
    BY <1>b, <1>p, <2>2, <2>4, Zenon DEF CreateAt
  <2>5. CASE s # r /\ pc[s] \in {"store", "commit"} /\ Create(s)
    <3>1. Inserted(s)
      BY <2>2, <2>5, Zenon DEF CreateAt
    <3>2. ASSUME NEW p \in Requests, peers'[p] # None
          PROVE  ~Clashes(s, peers[p])'
      <4>1. CASE p = r /\ Create(r) /\ peers'[p] = NewRow(r)
        <5>1. IndexEntries(r) \subseteq holds[r] /\ IndexEntries(s) \subseteq holds[s]
          BY <3>1, <4>1, AtCommit, Zenon DEF Inserted
        <5>2. IndexEntries(r) \cap IndexEntries(s) = {}
          BY <1>i, <2>5, <5>1, Zenon DEF Exclusive
        <5>3. addr[r] # addr[s]
          BY <5>2, Zenon DEF IndexEntries
        <5>4. body[r].tenant # body[s].tenant \/ body[r].ext # body[s].ext
          BY <5>2, Zenon DEF IndexEntries
        <5>5. body[r].pub = None \/ body[r].pub # body[s].pub
          BY <5>2, Zenon DEF IndexEntries
        <5>. QED
          BY <4>1, <5>3, <5>4, <5>5 DEF Clashes, NewRow
      <4>2. CASE /\ peers[p] # None
                 /\ peers'[p].tenant = peers[p].tenant /\ peers'[p].ext = peers[p].ext
                 /\ peers'[p].pub = peers[p].pub /\ peers'[p].addr = peers[p].addr
        BY <3>1, <4>2, Zenon DEF Inserted, Clashes
      <4>. QED
        BY <3>2, <4>1, <4>2, WrittenRows, Zenon
    <3>3. Inserted(s)'
      BY <1>b, <1>p, <2>5, <3>1, <3>2, Zenon DEF Inserted
    <3>. QED
      BY <1>p, <2>5, <3>3, Zenon DEF CreateAt
  <2>. QED
    BY <2>3, <2>4, <2>5
<1>5. Revokes'
  <2>1. SUFFICES ASSUME NEW s \in Requests, s # r, pc[s] \in {"store", "commit"}, ~Create(s)
                 PROVE  Owned(s, body[s].peer)'
    BY <1>b, <1>p, Zenon DEF Revokes, RevokeAt
  <2>2. Owned(s, body[s].peer) /\ body[s].peer \in Requests
    BY <1>i, <2>1, Arrived DEF Revokes, RevokeAt
  <2>3. body[s].peer # r
    BY <2>2, AtCommit, Zenon DEF Owned
  <2>4. peers'[body[s].peer] # None /\ peers'[body[s].peer].tenant = peers[body[s].peer].tenant
    BY <2>2, <2>3, WrittenRows DEF Owned
  <2>. QED
    BY <2>2, <2>4, Zenon DEF Owned
<1>6. KeyFree'
  <2>1. SUFFICES ASSUME NEW s \in Requests, s # r, pc[s] = "commit"
                 PROVE  /\ KeyEntry(body[s].tenant, body[s].key) \in holds[s]
                        /\ keys'[TK(s)] = None
    BY <1>b, <1>p DEF KeyFree, KeyAt
  <2>2. KeyEntry(body[s].tenant, body[s].key) \in holds[s] /\ keys[TK(s)] = None
        /\ TK(s) \in Tenants \X Keys
    BY <2>1, AtCommit, Zenon
  <2>3. KeyEntry(body[r].tenant, body[r].key) \in holds[r]
    BY AtCommit, Zenon
  <2>4. TK(s) # TK(r)
    BY <1>i, <2>1, <2>2, <2>3, Zenon DEF Exclusive, TK
  <2>. QED
    BY <1>i, <2>2, <2>4, <1>k, Zenon DEF TypeOK
<1>7. Recorded'
  <2>2. ASSUME NEW s \in committed
        PROVE  (pc[s] = "done" /\ keys[TK(s)] # None /\ keys[TK(s)].op = s)'
    <3>1. s # r /\ s \in Requests /\ pc[s] = "done" /\ keys[TK(s)] # None /\ keys[TK(s)].op = s
      BY <1>i, <1>a, Zenon DEF Recorded, TypeOK
    <3>2. TK(s) \in Tenants \X Keys
      BY <1>i, <3>1, Arrived, Zenon
    <3>3. keys'[TK(s)] = keys[TK(s)]
      BY <1>i, <1>a, <1>k, <3>1, <3>2, Zenon DEF TypeOK
    <3>. QED
      BY <1>b, <1>p, <3>1, <3>3, Zenon
  <2>3. keys'[TK(r)] = NewRecord(r)
    BY <1>i, <1>k, <1>a, Zenon DEF TypeOK
  <2>4. NewRecord(r) # None /\ NewRecord(r).op = r /\ NewRecord(r).secret = None
        /\ NewRecord(r).hash = requestHash(body[r])
    BY <1>r, NoneAssumption, Zenon DEF NewRecord
  <2>5. ASSUME NEW tk \in Tenants \X Keys, keys'[tk] # None
        PROVE  /\ keys'[tk].op \in committed'
               /\ tk = TK(keys'[tk].op)
               /\ keys'[tk].hash = requestHash(body[keys'[tk].op])
               /\ keys'[tk].secret = None
    <3>1. CASE tk = TK(r)
      BY <3>1, <2>3, <2>4, <1>k
    <3>2. CASE tk # TK(r)
      <4>1. keys'[tk] = keys[tk]
        BY <1>i, <3>2, <1>k, <1>a DEF TypeOK
      <4>. QED
        BY <1>i, <4>1, <2>5, <1>k DEF Recorded
    <3>. QED
      BY <3>1, <3>2, Zenon
  <2>6. (pc[r] = "done" /\ keys[TK(r)] # None /\ keys[TK(r)].op = r)'
    BY <1>b, <1>p, <2>3, <2>4, Zenon
  <2>7. \A s \in committed' : (pc[s] = "done" /\ keys[TK(s)] # None /\ keys[TK(s)].op = s)'
    BY <1>k, <2>2, <2>6, Zenon
  <2>. QED
    BY <2>5, <2>7 DEF Recorded, TK
<1>8. Rows'
  <2>1. ASSUME NEW p \in Requests, peers'[p] # None
        PROVE  p \in committed' /\ GoodAddress(peers'[p].tenant, peers'[p].addr)
    <3>1. CASE p = r /\ Create(r) /\ peers'[p] = NewRow(r)
      <4>1. GoodAddress(body[r].tenant, addr[r])
        BY <3>1, AtCommit, Zenon
      <4>2. NewRow(r).tenant = body[r].tenant /\ NewRow(r).addr = addr[r]
        BY Zenon DEF NewRow
      <4>3. r \in committed'
        BY <1>k
      <4>. QED
        BY <3>1, <4>1, <4>2, <4>3, Zenon
    <3>2. CASE /\ peers[p] # None
               /\ peers'[p].tenant = peers[p].tenant /\ peers'[p].addr = peers[p].addr
      BY <1>i, <1>k, <3>2, Zenon DEF Rows
    <3>. QED
      BY <2>1, <3>1, <3>2, WrittenRows, Zenon
  <2>2. ASSUME NEW p \in Requests, NEW q \in Requests, p # q, peers'[p] # None, peers'[q] # None
        PROVE  peers'[q].addr # peers'[p].addr
    <3>1. \A x \in Requests : peers'[x] # None =>
             \/ x = r /\ Create(r) /\ peers'[x].addr = addr[r]
             \/ peers[x] # None /\ peers'[x].addr = peers[x].addr
      <4>1. NewRow(r).addr = addr[r]
        BY Zenon DEF NewRow
      <4>. QED
        BY <4>1, WrittenRows, Zenon
    <3>2. Create(r) => \A x \in Requests : peers[x] # None => peers[x].addr # addr[r]
      BY AtCommit, Zenon DEF Clashes
    <3>3. peers[p] # None /\ peers[q] # None => peers[p].addr # peers[q].addr
      BY <1>i, <2>2, Zenon DEF Rows
    <3>. QED
      BY <2>2, <3>1, <3>2, <3>3, Zenon
  <2>. QED
    BY <2>1, <2>2, Zenon DEF Rows
<1>9. Secrets'
  BY <1>i, <1>0, <1>k, <1>p, Zenon DEF Secrets
<1>. QED
  BY <1>1, <1>2, <1>3, <1>4, <1>5, <1>6, <1>7, <1>8, <1>9 DEF IInv

(* An expired record still names the one request that took effect under    *)
(* its key (Idempotency.Lookup, Store).                                    *)
LEMMA ExpireInv ==
    ASSUME IInv, NEW tk \in Tenants \X Keys, Expire(tk)
    PROVE  IInv'
<1>0. TypeOK /\ Flow /\ Exclusive /\ Creates /\ Revokes /\ KeyFree /\ Recorded /\ Rows /\ Secrets
  BY DEF IInv
<1>u. UNCHANGED <<peers, cursor, committed, body, pc, addr, holds, answer>>
  BY DEF Expire
<1>1. /\ keys' \in [Tenants \X Keys -> Record \cup {None}]
      /\ \A k \in Tenants \X Keys :
            /\ keys'[k] = None <=> keys[k] = None
            /\ keys[k] # None => /\ keys'[k].op = keys[k].op
                                 /\ keys'[k].hash = keys[k].hash
                                 /\ keys'[k].secret = keys[k].secret
  <2>0. keys[tk] \in Record
    BY <1>0 DEF TypeOK, Expire
  <2>1. keys[tk] \in Record /\ [keys[tk] EXCEPT !.expired = TRUE] \in Record
    BY <2>0, Zenon DEF Record
  <2>2. /\ keys' \in [Tenants \X Keys -> Record \cup {None}]
        /\ keys'[tk] = [keys[tk] EXCEPT !.expired = TRUE]
        /\ \A k \in Tenants \X Keys : k # tk => keys'[k] = keys[k]
    BY <1>0, <2>1 DEF TypeOK, Expire
  <2>3. /\ [keys[tk] EXCEPT !.expired = TRUE].op = keys[tk].op
        /\ [keys[tk] EXCEPT !.expired = TRUE].hash = keys[tk].hash
        /\ [keys[tk] EXCEPT !.expired = TRUE].secret = keys[tk].secret
    BY <2>1 DEF Record
  <2>. QED
    BY <2>1, <2>2, <2>3, NoneAssumption, Zenon
<1>2. TypeOK'
  <2>1. faults' \in 0 .. MaxFaults
    BY <1>0, ApiAssumption DEF TypeOK, Expire, Fault
  <2>. QED
    BY <1>0, <1>u, <1>1, <2>1 DEF TypeOK
<1>3. Flow' /\ Exclusive' /\ Rows' /\ Secrets'
  BY <1>0, <1>u DEF Flow, Create, Exclusive, Rows, Secrets
<1>4. Creates' /\ Revokes' /\ KeyFree'
  <2>1. SUFFICES ASSUME NEW r \in Requests PROVE (CreateAt(r) /\ RevokeAt(r) /\ KeyAt(r))'
    BY DEF Creates, Revokes, KeyFree
  <2>2. CreateAt(r) /\ RevokeAt(r) /\ KeyAt(r)
    BY <1>0, Zenon DEF Creates, Revokes, KeyFree
  <2>3. /\ Create(r)' = Create(r) /\ TK(r)' = TK(r) /\ IndexEntries(r)' = IndexEntries(r)
        /\ Inserted(r) => Inserted(r)'
    BY <1>u DEF Create, TK, IndexEntries, Inserted, Clashes
  <2>4. CreateAt(r)' /\ RevokeAt(r)'
    BY <1>u, <2>2, <2>3, Zenon DEF CreateAt, RevokeAt, Owned
  <2>5. pc[r] = "commit" => TK(r) \in Tenants \X Keys
    BY <1>0, Arrived, Zenon
  <2>6. KeyAt(r)'
    BY <1>u, <1>1, <2>2, <2>3, <2>5, Zenon DEF KeyAt
  <2>. QED
    BY <2>4, <2>6
<1>5. Recorded'
  <2>1. ASSUME NEW r \in committed
        PROVE  TK(r) \in Tenants \X Keys
    BY <1>0, Arrived DEF Recorded, TypeOK
  <2>. QED
    BY <1>0, <1>u, <1>1, <2>1 DEF Recorded, TK
<1>. QED
  BY <1>2, <1>3, <1>4, <1>5 DEF IInv

(* Nothing is held or written before the first request (schema after       *)
(* migration).                                                             *)
LEMMA InitInv == Init => IInv
<1>. SUFFICES ASSUME Init PROVE IInv
  OBVIOUS
<1>1. TypeOK
  BY ApiAssumption DEF Init, TypeOK
<1>2. Flow /\ Exclusive /\ Creates /\ Revokes /\ KeyFree /\ Rows /\ Secrets
  BY DEF Init, Flow, Exclusive, Creates, CreateAt, Revokes, RevokeAt, KeyFree, KeyAt, Rows, Secrets
<1>3. Recorded
  BY DEF Init, Recorded
<1>. QED
  BY <1>1, <1>2, <1>3 DEF IInv

(* Every step keeps the invariant.                                         *)
LEMMA NextInv == IInv /\ [Next]_vars => IInv'
<1>. SUFFICES ASSUME IInv, [Next]_vars PROVE IInv'
  OBVIOUS
<1>0. faults \in 0 .. MaxFaults /\ MaxFaults \in Nat
  BY ApiAssumption DEF IInv, TypeOK
<1>1. ASSUME NEW r \in Requests, NEW b \in Bodies, Arrive(r, b) PROVE IInv'
  BY <1>1, ArriveInv
<1>2. ASSUME NEW r \in Requests, Step(r) PROVE IInv'
  <2>1. CASE Commit(r)
    <3>1. faults' \in 0 .. MaxFaults
      BY <1>0, <2>1 DEF Commit
    <3>. QED
      BY <2>1, <3>1, WrittenInv DEF Commit
  <2>. QED
    BY <1>2, <2>1, LookupInv, LockPoolInv, AllocateInv, InsertInv, MarkInv, StoreInv DEF Step
<1>3. ASSUME NEW r \in Requests, Abort(r) PROVE IInv'
  <2>1. faults' \in 0 .. MaxFaults
    BY <1>0, <1>3 DEF Abort, Fault
  <2>2. "internal" \in Codes
    BY DEF Codes
  <2>. QED
    BY <1>3, <2>1, <2>2, FinishInv, RefusalType DEF Abort, Reject
<1>4. ASSUME NEW r \in Requests, CommitLost(r) PROVE IInv'
  <2>1. faults' \in 0 .. MaxFaults
    BY <1>0, <1>4 DEF CommitLost, Fault
  <2>. QED
    BY <1>4, <2>1, WrittenInv DEF CommitLost, Reject
<1>5. ASSUME NEW tk \in Tenants \X Keys, Expire(tk) PROVE IInv'
  BY <1>5, ExpireInv
<1>6. CASE UNCHANGED vars
  <2>0. TypeOK /\ Flow /\ Exclusive /\ Creates /\ Revokes /\ KeyFree /\ Recorded /\ Rows /\ Secrets
    BY Zenon DEF IInv
  <2>1. TypeOK'
    BY <1>6, <2>0, Zenon DEF TypeOK, vars
  <2>2. Flow' /\ Exclusive'
    BY <1>6, <2>0 DEF Flow, Create, Exclusive, vars
  <2>3. Rows'
    BY <1>6, <2>0, Zenon DEF Rows, vars
  <2>4. Secrets' /\ Recorded'
    BY <1>6, <2>0 DEF Secrets, Recorded, TK, Create, vars
  <2>5. Creates' /\ Revokes' /\ KeyFree'
    BY <1>6, <2>0, Frame, Zenon DEF Creates, Revokes, KeyFree, vars
  <2>. QED
    BY <2>1, <2>2, <2>3, <2>4, <2>5 DEF IInv
<1>. QED
  BY <1>1, <1>2, <1>3, <1>4, <1>5, <1>6 DEF Next

(* The invariant holds in every state of every behaviour.                  *)
THEOREM Invariant == Spec => []IInv
BY InitInv, NextInv, PTL DEF Spec

-----------------------------------------------------------------------------
(* Every variable keeps its type, and a transaction that is over holds     *)
(* neither lock nor index entry (InTx).                                    *)
THEOREM TypeCorrect == Spec => []TypeOK
<1>1. IInv => TypeOK
  BY DEF IInv
<1>. QED
  BY <1>1, Invariant, PTL

(* At most one request per tenant and key commits an operation, however    *)
(* requests interleave, fail, expire and are retried (Idempotency.Lookup   *)
(* and Store, the primary key of idempotency_keys).                        *)
THEOREM KeysAreUsedOnce == Spec => []OneOperationPerKey
<1>1. IInv => OneOperationPerKey
  <2>1. SUFFICES ASSUME IInv, NEW r \in committed, NEW s \in committed,
                        body[r].tenant = body[s].tenant, body[r].key = body[s].key
                 PROVE  r = s
    BY Zenon DEF OneOperationPerKey
  <2>2. keys[TK(r)].op = r /\ keys[TK(s)].op = s /\ TK(r) = TK(s)
    BY <2>1 DEF IInv, Recorded, TK
  <2>. QED
    BY <2>2
<1>. QED
  BY <1>1, Invariant, PTL

(* The secrets of a peer are in the answer to the create that committed    *)
(* it, and in no other (CreatePeer, which stores the response without      *)
(* them).                                                                  *)
THEOREM SecretsAreIssuedOnce == Spec => []SecretsIssuedOnce
<1>1. IInv => SecretsIssuedOnce
  BY DEF IInv, Flow, Secrets, SecretsIssuedOnce
<1>. QED
  BY <1>1, Invariant, PTL

(* No two rows of the node have the same address, and none has that of a   *)
(* network, broadcast or gateway (AllocateAndInsert, gatewayAddress, the   *)
(* unique index on addresses).                                             *)
THEOREM AddressesAreDistinct == Spec => []AddressesDistinct
<1>1. IInv => AddressesDistinct
  BY Zenon DEF IInv, Rows, AddressesDistinct, GoodAddress
<1>. QED
  BY <1>1, Invariant, PTL

-----------------------------------------------------------------------------
(* With pools that do not overlap, creates never run into each other's     *)
(* addresses, and the API implements module PeerRegistry.                  *)

(* The pools of two tenants on the node do not overlap: what               *)
(* ensureV31ProvisioningAvailable asks of a new pool.  (UNIQUE (node_id,   *)
(* cidr) alone would let one contain the other.)                           *)
PoolsDisjoint ==
    \A t, u \in Tenants : t # u /\ PoolOf[t] # None /\ PoolOf[u] # None =>
        Hosts(PoolOf[t]) \cap Hosts(PoolOf[u]) = {}

(* A create about to insert its row has an address that no live row has:   *)
(* while it holds the pool nobody else takes an address from there.        *)
FreshAddress ==
    \A r, p \in Requests :
        pc[r] = "insert" /\ peers[p] # None /\ peers[p].addr = addr[r] =>
            peers[p].state = "revoked"

(* A step that writes no table and keeps the requests in it where they are *)
(* keeps the address of every other request fresh.                         *)
LEMMA FreshMove ==
    ASSUME IInv, FreshAddress, NEW r \in Requests, UNCHANGED peers,
           \A s \in Requests \ {r} : pc'[s] = pc[s] /\ addr'[s] = addr[s],
           pc'[r] # "insert"
    PROVE  FreshAddress'
BY Zenon DEF FreshAddress

(* A commit puts into the tables no address that another create is about   *)
(* to insert: the two hold different pools (AllocateAndInsert).            *)
LEMMA FreshWritten ==
    ASSUME IInv, FreshAddress, PoolsDisjoint, NEW r \in Requests, pc[r] = "commit", Written(r),
           NEW resp, Finish(r, resp), UNCHANGED <<body, addr>>
    PROVE  FreshAddress'
<1>1. SUFFICES ASSUME NEW s \in Requests, NEW p \in Requests, s # r, pc[s] = "insert",
                      peers'[p] # None, peers'[p].addr = addr[s]
               PROVE  peers'[p].state = "revoked"
  <2>1. pc'[r] = "done" /\ \A q \in Requests \ {r} : pc'[q] = pc[q]
    BY FinishMove DEF IInv
  <2>. QED
    BY <2>1, Zenon DEF FreshAddress
<1>2. CASE p = r /\ Create(r) /\ peers'[p] = NewRow(r)
  <2>1. addr[s] = addr[r]
    BY <1>1, <1>2 DEF NewRow
  <2>2. /\ GoodAddress(body[r].tenant, addr[r]) /\ Pool(body[r].tenant) \in holds[r]
        /\ GoodAddress(body[s].tenant, addr[s]) /\ Pool(body[s].tenant) \in holds[s]
    BY <1>1, <1>2, Zenon DEF IInv, Creates, CreateAt, Inserted
  <2>3. body[r].tenant \in Tenants /\ body[s].tenant \in Tenants
    BY <1>1, Arrived, Zenon DEF IInv
  <2>4. body[r].tenant # body[s].tenant
    BY <1>1, <2>2 DEF IInv, Exclusive
  <2>. QED
    BY <2>1, <2>2, <2>3, <2>4, Zenon DEF PoolsDisjoint, GoodAddress
<1>3. CASE /\ peers[p] # None /\ peers'[p].addr = peers[p].addr
           /\ peers'[p].state \in {peers[p].state, "revoked"}
  BY <1>1, <1>3, Zenon DEF FreshAddress
<1>. QED
  BY <1>1, <1>2, <1>3, WrittenRows, Zenon

(* Every step keeps addresses fresh.                                       *)
LEMMA FreshStep ==
    ASSUME IInv, FreshAddress, PoolsDisjoint, [Next]_vars
    PROVE  FreshAddress'
<1>0. TypeOK
  BY Zenon DEF IInv
<1>1. ASSUME NEW r \in Requests, NEW b \in Bodies, Arrive(r, b) PROVE FreshAddress'
  BY <1>0, <1>1, GotoMove, FreshMove DEF Arrive, tables
<1>2. ASSUME NEW r \in Requests, NEW code, Reject(r, code), UNCHANGED peers PROVE FreshAddress'
  BY <1>0, <1>2, FinishMove, FreshMove DEF Reject
<1>3. ASSUME NEW r \in Requests, Step(r) PROVE FreshAddress'
  <2>1. CASE Lookup(r)
    <3>1. UNCHANGED <<peers, addr>>
      BY <2>1, Zenon DEF Lookup, tables
    <3>2. CASE \E resp : Finish(r, resp)
      BY <1>0, <3>1, <3>2, FinishMove, FreshMove
    <3>3. CASE \E label \in {"lock", "mark"} : Goto(r, label)
      BY <1>0, <3>1, <3>3, GotoMove, FreshMove, Zenon
    <3>. QED
      BY <2>1, <3>2, <3>3, Zenon DEF Lookup
  <2>2. CASE LockPool(r)
    <3>1. UNCHANGED <<peers, addr>>
      BY <2>2 DEF LockPool, tables, Reject
    <3>2. CASE Reject(r, "internal")
      BY <3>1, <3>2, <1>2, Zenon
    <3>3. CASE Goto(r, "allocate")
      BY <1>0, <3>1, <3>3, GotoMove, FreshMove
    <3>. QED
      BY <2>2, <3>2, <3>3, Zenon DEF LockPool
  <2>3. CASE Allocate(r)
    <3>. DEFINE t == body[r].tenant
    <3>1. UNCHANGED peers
      BY <2>3 DEF Allocate, tables
    <3>2. CASE Reject(r, "ip_pool_exhausted")
      BY <3>1, <3>2, <1>2, Zenon
    <3>3. ASSUME NEW h \in Hosts(PoolOf[t]), IsNextFree(PoolOf[t], cursor[t], Reserved(t), h),
                 addr' = [addr EXCEPT ![r] = h], Goto(r, "insert")
          PROVE  FreshAddress'
      <4>1. /\ addr'[r] = h /\ pc'[r] = "insert"
            /\ \A s \in Requests \ {r} : pc'[s] = pc[s] /\ addr'[s] = addr[s]
        BY <1>0, <3>3, GotoMove, Zenon DEF TypeOK
      <4>2. \A p \in Requests : peers[p] # None /\ peers[p].addr = h => peers[p].state = "revoked"
        BY <3>3, Zenon DEF IsNextFree, Free, Reserved
      <4>. QED
        BY <3>1, <4>1, <4>2 DEF FreshAddress
    <3>. QED
      BY <2>3, <3>2, <3>3, Zenon DEF Allocate
  <2>4. CASE Insert(r)
    <3>1. UNCHANGED <<peers, addr>>
      BY <2>4 DEF Insert, tables, Reject
    <3>2. CASE Reject(r, "peer_exists")
      BY <3>1, <3>2, <1>2, Zenon
    <3>3. CASE Goto(r, "store")
      BY <1>0, <3>1, <3>3, GotoMove, FreshMove
    <3>. QED
      BY <2>4, <3>2, <3>3, Zenon DEF Insert
  <2>5. CASE Mark(r)
    <3>1. UNCHANGED <<peers, addr>>
      BY <2>5 DEF Mark, tables, Reject
    <3>2. CASE Reject(r, "not_found")
      BY <3>1, <3>2, <1>2, Zenon
    <3>3. CASE Goto(r, "store")
      BY <1>0, <3>1, <3>3, GotoMove, FreshMove
    <3>. QED
      BY <2>5, <3>2, <3>3, Zenon DEF Mark
  <2>6. CASE Store(r)
    <3>1. UNCHANGED <<peers, addr>>
      BY <2>6 DEF Store, tables, Reject
    <3>2. CASE Reject(r, "internal")
      BY <3>1, <3>2, <1>2
    <3>3. CASE Goto(r, "commit")
      BY <1>0, <3>1, <3>3, GotoMove, FreshMove
    <3>. QED
      BY <2>6, <3>2, <3>3, Zenon DEF Store
  <2>7. CASE Commit(r)
    BY <2>7, FreshWritten DEF Commit
  <2>. QED
    BY <1>3, <2>1, <2>2, <2>3, <2>4, <2>5, <2>6, <2>7, Zenon DEF Step
<1>4. ASSUME NEW r \in Requests, Abort(r) PROVE FreshAddress'
  BY <1>4, <1>2 DEF Abort, tables
<1>5. ASSUME NEW r \in Requests, CommitLost(r) PROVE FreshAddress'
  BY <1>5, FreshWritten DEF CommitLost, Reject
<1>6. ASSUME NEW tk \in Tenants \X Keys, Expire(tk) PROVE FreshAddress'
  BY <1>6, Zenon DEF Expire, FreshAddress
<1>7. CASE UNCHANGED vars
  BY <1>7, Zenon DEF vars, FreshAddress
<1>. QED
  BY <1>1, <1>3, <1>4, <1>5, <1>6, <1>7 DEF Next

(* A committed row stays, with its identity; all that can happen to it is  *)
(* a revoke (MarkRevoked; no statement deletes a peer).                    *)
LEMMA RowsStay ==
    ASSUME IInv, [Next]_vars, NEW p \in Requests, peers[p] # None
    PROVE  /\ peers'[p] # None
           /\ peers'[p].tenant = peers[p].tenant /\ peers'[p].ext = peers[p].ext
           /\ peers'[p].pub = peers[p].pub /\ peers'[p].addr = peers[p].addr
           /\ peers'[p].state \in {peers[p].state, "revoked"}
<1>1. CASE UNCHANGED peers
  BY <1>1, Zenon
<1>2. ASSUME NEW r \in Requests, pc[r] = "commit", Written(r)
      PROVE  /\ peers'[p] # None
             /\ peers'[p].tenant = peers[p].tenant /\ peers'[p].ext = peers[p].ext
             /\ peers'[p].pub = peers[p].pub /\ peers'[p].addr = peers[p].addr
             /\ peers'[p].state \in {peers[p].state, "revoked"}
  <2>1. peers[r] = None
    BY <1>2, AtCommit
  <2>. QED
    BY <1>2, <2>1, WrittenRows, Zenon
<1>3. UNCHANGED peers \/ \E r \in Requests : pc[r] = "commit" /\ Written(r)
  BY Zenon DEF Next, Arrive, Step, Lookup, LockPool, Allocate, Insert, Mark, Store, Commit, Abort,
         CommitLost, Expire, tables, vars
<1>. QED
  BY <1>1, <1>2, <1>3

(* An answered request keeps its answer (Finish is a handler's last step). *)
LEMMA DoneStays ==
    ASSUME IInv, [Next]_vars, NEW s \in Requests, pc[s] = "done"
    PROVE  pc'[s] = "done" /\ answer'[s] = answer[s] /\ addr'[s] = addr[s] /\ body'[s] = body[s]
<1>. DEFINE Stays == pc'[s] = "done" /\ answer'[s] = answer[s] /\ addr'[s] = addr[s] /\ body'[s] = body[s]
<1>0. TypeOK
  BY Zenon DEF IInv
<1>1. ASSUME NEW r \in Requests, NEW b \in Bodies, Arrive(r, b) PROVE Stays
  BY <1>0, <1>1 DEF TypeOK, Arrive, Goto
<1>2. ASSUME NEW r \in Requests, NEW resp, pc[r] # "done", Finish(r, resp), UNCHANGED <<body, addr>>
      PROVE  Stays
  <2>1. r # s
    BY <1>2, Zenon
  <2>2. pc'[s] = pc[s] /\ answer'[s] = answer[s]
    BY <1>0, <1>2, <2>1, FinishMove, Zenon
  <2>. QED
    BY <1>2, <2>2
<1>3. ASSUME NEW r \in Requests, NEW code, pc[r] # "done", Reject(r, code), UNCHANGED body
      PROVE  Stays
  BY <1>2, <1>3, Zenon DEF Reject
<1>4. ASSUME NEW r \in Requests, NEW label, pc[r] # "done", Goto(r, label), UNCHANGED <<body, answer>>,
             UNCHANGED addr \/ \E h : addr' = [addr EXCEPT ![r] = h]
      PROVE  Stays
  <2>1. r # s /\ pc'[s] = pc[s]
    BY <1>0, <1>4, GotoMove, Zenon
  <2>2. addr'[s] = addr[s]
    BY <1>0, <1>4, <2>1 DEF TypeOK
  <2>. QED
    BY <1>4, <2>1, <2>2, Zenon
<1>5. ASSUME NEW r \in Requests, Step(r) PROVE Stays
  <2>1. CASE Lookup(r) \/ LockPool(r)
    BY <1>2, <1>3, <1>4, <2>1, Zenon DEF Lookup, LockPool
  <2>2. CASE Allocate(r)
    BY <1>3, <1>4, <2>2, Zenon DEF Allocate
  <2>3. CASE Insert(r) \/ Mark(r) \/ Store(r)
    BY <1>3, <1>4, <2>3, Zenon DEF Insert, Mark, Store
  <2>4. CASE Commit(r)
    BY <1>2, <2>4, Zenon DEF Commit
  <2>. QED
    BY <1>5, <2>1, <2>2, <2>3, <2>4, Zenon DEF Step
<1>6. ASSUME NEW r \in Requests, Abort(r) \/ CommitLost(r) PROVE Stays
  BY <1>3, <1>6 DEF Abort, CommitLost
<1>7. ASSUME NEW tk \in Tenants \X Keys, Expire(tk) PROVE Stays
  BY <1>7 DEF Expire
<1>8. CASE UNCHANGED vars
  BY <1>8, Zenon DEF vars
<1>. QED
  BY <1>1, <1>5, <1>6, <1>7, <1>8, Zenon DEF Next

(* The insert is the only place that finds a peer to exist.                *)
LEMMA ExistsFromInsert ==
    ASSUME IInv, [Next]_vars, NEW s \in Requests, pc[s] # "done", pc'[s] = "done",
           answer'[s].code = "peer_exists"
    PROVE  /\ pc[s] = "insert" /\ UNCHANGED <<peers, body, addr>>
           /\ \E p \in Requests : peers[p] # None /\ Clashes(s, peers[p])
<1>. DEFINE Goal == /\ pc[s] = "insert" /\ UNCHANGED <<peers, body, addr>>
                    /\ \E p \in Requests : peers[p] # None /\ Clashes(s, peers[p])
<1>0. TypeOK
  BY Zenon DEF IInv
<1>1. ASSUME NEW r \in Requests, NEW label, label # "done", Goto(r, label)
      PROVE  Goal
  BY <1>0, <1>1, GotoMove, Zenon
<1>2. ASSUME NEW r \in Requests, NEW resp, resp.code # "peer_exists", Finish(r, resp)
      PROVE  Goal
  BY <1>0, <1>2, FinishMove, Zenon
<1>3. ASSUME NEW r \in Requests, NEW code, code # "peer_exists", Reject(r, code)
      PROVE  Goal
  <2>1. Refusal(code).code = code
    BY DEF Refusal
  <2>. QED
    BY <1>3, <2>1, <1>2, Zenon DEF Reject
<1>4. ASSUME NEW r \in Requests, NEW b \in Bodies, Arrive(r, b) PROVE Goal
  BY <1>4, <1>1, Zenon DEF Arrive
<1>5. ASSUME NEW r \in Requests, Lookup(r) PROVE Goal
  <2>. DEFINE rec == keys[<<body[r].tenant, body[r].key>>]
  <2>1. CASE Finish(r, [code |-> "replayed", op |-> rec.op, secret |-> rec.secret])
    BY <2>1, <1>2, Zenon
  <2>2. CASE Finish(r, Refusal("idempotency_conflict"))
    BY <2>2, <1>2, Zenon DEF Refusal
  <2>3. CASE Goto(r, IF body[r].kind = "create" THEN "lock" ELSE "mark")
    BY <2>3, <1>1
  <2>. QED
    BY <1>5, <2>1, <2>2, <2>3, Zenon DEF Lookup
<1>6. ASSUME NEW r \in Requests, LockPool(r) \/ Allocate(r) \/ Mark(r) \/ Store(r) \/ Abort(r)
      PROVE  Goal
  BY <1>6, <1>1, <1>3, Zenon DEF LockPool, Allocate, Mark, Store, Abort
<1>7. ASSUME NEW r \in Requests, Insert(r) PROVE Goal
  <2>1. CASE Goto(r, "store")
    BY <2>1, <1>1, Zenon
  <2>2. CASE /\ \E p \in Requests : peers[p] # None /\ Clashes(r, peers[p])
             /\ Reject(r, "peer_exists")
    <3>1. r = s
      BY <1>0, <2>2, FinishMove, Zenon DEF Reject
    <3>. QED
      BY <1>7, <2>2, <3>1, Zenon DEF Insert, Reject, tables
  <2>. QED
    BY <1>7, <2>1, <2>2, Zenon DEF Insert
<1>8. ASSUME NEW r \in Requests, Commit(r) \/ CommitLost(r) PROVE Goal
  <2>1. Accepted(r).code # "peer_exists"
    BY DEF Accepted
  <2>. QED
    BY <1>8, <2>1, <1>2, <1>3 DEF Commit, CommitLost
<1>9. ASSUME NEW tk \in Tenants \X Keys, Expire(tk) PROVE Goal
  BY <1>9, Zenon DEF Expire
<1>10. CASE UNCHANGED vars
  BY <1>10 DEF vars
<1>. QED
  BY <1>4, <1>5, <1>6, <1>7, <1>8, <1>9, <1>10, Zenon DEF Next, Step

(* On a node whose pools do not overlap a create is refused as existing    *)
(* only for its external id, its public key, or the address of a revoked   *)
(* peer: concurrent creates never run into each other (AllocateAndInsert,  *)
(* which locks the pool before it reads the addresses in use).             *)
THEOREM CreatesDoNotCollide ==
    ASSUME PoolsDisjoint
    PROVE  Spec => []NoCollisionWithLive
<1>1. Init => FreshAddress /\ NoCollisionWithLive
  BY Zenon DEF Init, FreshAddress, NoCollisionWithLive
<1>2. IInv /\ FreshAddress /\ NoCollisionWithLive /\ [Next]_vars
        => FreshAddress' /\ NoCollisionWithLive'
  <2>. SUFFICES ASSUME IInv, FreshAddress, NoCollisionWithLive, [Next]_vars
                PROVE  FreshAddress' /\ NoCollisionWithLive'
    OBVIOUS
  <2>1. FreshAddress'
    BY FreshStep, Zenon
  <2>2. ASSUME NEW r \in Requests, pc'[r] = "done", answer'[r].code = "peer_exists"
        PROVE  \E p \in Requests :
                  /\ peers'[p] # None
                  /\ \/ Duplicate(r, peers[p])'
                     \/ peers'[p].state = "revoked" /\ peers'[p].addr = addr'[r]
    <3>1. CASE pc[r] = "done"
      <4>1. /\ answer'[r] = answer[r] /\ addr'[r] = addr[r] /\ body'[r] = body[r]
        BY <3>1, DoneStays, Zenon
      <4>2. PICK p \in Requests :
               /\ peers[p] # None
               /\ \/ Duplicate(r, peers[p])
                  \/ peers[p].state = "revoked" /\ peers[p].addr = addr[r]
        BY <2>2, <3>1, <4>1, Zenon DEF NoCollisionWithLive
      <4>. QED
        BY <4>1, <4>2, RowsStay DEF Duplicate
    <3>2. CASE pc[r] # "done"
      <4>1. pc[r] = "insert" /\ UNCHANGED <<peers, body, addr>>
        BY <2>2, <3>2, ExistsFromInsert, Zenon
      <4>2. PICK p \in Requests : peers[p] # None /\ Clashes(r, peers[p])
        BY <2>2, <3>2, ExistsFromInsert
      <4>. QED
        BY <4>1, <4>2, Zenon DEF Clashes, Duplicate, FreshAddress
    <3>. QED
      BY <3>1, <3>2, Zenon
  <2>. QED
    BY <2>1, <2>2 DEF NoCollisionWithLive
<1>. QED
  BY <1>1, <1>2, Invariant, PTL DEF Spec

-----------------------------------------------------------------------------
(* The refinement.  A request takes effect, or is refused, in the step     *)
(* that ends its transaction; all other steps are invisible.               *)

owner == [tk \in Tenants \X Keys |-> IF keys[tk] = None THEN None ELSE keys[tk].op]

(* Two requests of a tenant under a key ask for the same if and only if    *)
(* their hashes agree (requestHash).                                       *)
LEMMA HashIsFaithful ==
    ASSUME NEW b \in Bodies, NEW c \in Bodies, b.tenant = c.tenant, b.key = c.key
    PROVE  requestHash(b) = requestHash(c) <=> b = c
<1>1. ASSUME requestHash(b) = requestHash(c) PROVE b = c
  <2>1. CASE b.kind = "create" /\ c.kind = "create"
    <3>1. b.ext = c.ext /\ b.pub = c.pub
      BY <1>1, <2>1, Zenon DEF requestHash
    <3>2. /\ b \in [kind : {"create"}, tenant : Tenants, key : Keys,
                    ext : ExternalIds, pub : PublicKeys \cup {None}]
          /\ c \in [kind : {"create"}, tenant : Tenants, key : Keys,
                    ext : ExternalIds, pub : PublicKeys \cup {None}]
      BY <2>1 DEF Bodies
    <3>. QED
      BY <2>1, <3>1, <3>2
  <2>2. CASE b.kind # "create" /\ c.kind # "create"
    <3>1. b.peer = c.peer
      BY <1>1, <2>2, Zenon DEF requestHash
    <3>2. /\ b \in [kind : {"revoke"}, tenant : Tenants, key : Keys, peer : Requests]
          /\ c \in [kind : {"revoke"}, tenant : Tenants, key : Keys, peer : Requests]
      BY <2>2 DEF Bodies
    <3>. QED
      BY <3>1, <3>2
  <2>3. (b.kind = "create") = (c.kind = "create")
    <3>1. b.kind \in {"create", "revoke"} /\ c.kind \in {"create", "revoke"}
      BY BodyFields
    <3>2. requestHash(b)[1] = b.kind /\ requestHash(c)[1] = c.kind
      BY Zenon DEF requestHash
    <3>. QED
      BY <1>1, <3>1, <3>2
  <2>. QED
    BY <2>1, <2>2, <2>3
<1>. QED
  BY <1>1

(* A request under way is open in the registry, and its key belongs to the *)
(* request on record (Lookup).                                             *)
LEMMA OpenRequest ==
    ASSUME IInv, NEW r \in Requests, pc[r] \notin {"idle", "done"}
    PROVE  /\ body[r] # None /\ answer[r] = None /\ body[r].kind \in {"create", "revoke"}
           /\ TK(r) \in Tenants \X Keys
           /\ owner[TK(r)] = IF keys[TK(r)] = None THEN None ELSE keys[TK(r)].op
<1>1. body[r] \in Bodies /\ TK(r) \in Tenants \X Keys
  BY Arrived, Zenon DEF IInv
<1>. QED
  BY <1>1, BodyFields DEF IInv, Flow, owner

(* A refusal that the registry allows is one of its steps.                 *)
LEMMA RefuseStep ==
    ASSUME IInv, NEW r \in Requests, pc[r] \notin {"idle", "done"},
           NEW code \in {"internal", "peer_exists", "ip_pool_exhausted", "not_found"},
           Registry!MayRefuse(r, code), Reject(r, code), UNCHANGED <<tables, body>>
    PROVE  Registry!Refuse(r)
<1>1. UNCHANGED <<peers, keys, body>> /\ answer' = [answer EXCEPT ![r] = Refusal(code)]
  BY DEF Reject, Finish, tables
<1>. QED
  BY <1>1, OpenRequest, Zenon DEF Registry!Refuse, Registry!Answered, Refusal

(* A step that touches neither rows nor records, bodies or answers is      *)
(* invisible.                                                              *)
LEMMA Invisible ==
    ASSUME UNCHANGED <<peers, keys, body, answer>>
    PROVE  UNCHANGED Registry!registry
BY DEF Registry!registry

(* Arrival.                                                                *)
LEMMA ArriveStep ==
    ASSUME IInv, NEW r \in Requests, NEW b \in Bodies, Arrive(r, b)
    PROVE  Registry!Ask(r)
BY Zenon DEF IInv, Flow, Arrive, tables, Registry!Ask

(* The lookup answers with the request on record, or refuses the key to    *)
(* another request (Idempotency.Lookup).                                   *)
LEMMA LookupStep ==
    ASSUME IInv, NEW r \in Requests, Lookup(r)
    PROVE  Registry!Replay(r) \/ UNCHANGED Registry!registry
<1>. DEFINE rec == keys[TK(r)]
<1>0. pc[r] = "lookup" /\ UNCHANGED <<peers, keys, body>>
  BY Zenon DEF Lookup, tables
<1>1. /\ body[r] # None /\ answer[r] = None /\ body[r] \in Bodies
      /\ TK(r) \in Tenants \X Keys
      /\ owner[TK(r)] = IF keys[TK(r)] = None THEN None ELSE keys[TK(r)].op
  BY <1>0, OpenRequest, Arrived, Zenon DEF IInv
<1>2. ASSUME Found(rec)
      PROVE  /\ owner[TK(r)] = rec.op /\ rec.op # None /\ rec.secret = None
             /\ Replays(r, rec) <=> body[rec.op] = body[r]
  <2>1. /\ rec.op \in committed /\ TK(r) = TK(rec.op) /\ rec.secret = None
        /\ rec.hash = requestHash(body[rec.op])
    BY <1>1, <1>2, Zenon DEF IInv, Recorded, Found
  <2>2. rec.op \in Requests /\ pc[rec.op] = "done"
    BY <2>1, Zenon DEF IInv, Recorded, TypeOK
  <2>3. body[rec.op] \in Bodies
    BY <2>2, Arrived, Zenon DEF IInv
  <2>4. body[rec.op].tenant = body[r].tenant /\ body[rec.op].key = body[r].key
    BY <2>1, Zenon DEF TK
  <2>5. Replays(r, rec) <=> body[rec.op] = body[r]
    BY <1>1, <2>1, <2>3, <2>4, HashIsFaithful DEF Replays
  <2>. QED
    BY <1>1, <1>2, <2>1, <2>2, <2>5, ApiAssumption, Zenon DEF Found
<1>3. CASE /\ Found(rec) /\ Replays(r, rec)
           /\ Finish(r, [code |-> "replayed", op |-> rec.op, secret |-> rec.secret])
  BY <1>0, <1>1, <1>2, <1>3, Zenon DEF Finish, Registry!Replay, Registry!Owner, Registry!Answered, owner, TK
<1>4. CASE Found(rec) /\ ~Replays(r, rec) /\ Finish(r, Refusal("idempotency_conflict"))
  BY <1>0, <1>1, <1>2, <1>4, Zenon
     DEF Finish, Refusal, Registry!Replay, Registry!Owner, Registry!Answered, owner, TK
<1>5. CASE UNCHANGED answer
  BY <1>0, <1>5, Invisible
<1>. QED
  BY <1>3, <1>4, <1>5, Zenon DEF Lookup, TK

(* A pool without a free address is one whose addresses live peers have    *)
(* (ipam.Allocate, AllocateAndInsert).                                     *)
LEMMA AllocateStep ==
    ASSUME IInv, NEW r \in Requests, Allocate(r)
    PROVE  Registry!Refuse(r) \/ UNCHANGED Registry!registry
<1>. DEFINE t == body[r].tenant
<1>0. /\ pc[r] = "allocate" /\ UNCHANGED <<tables, body>>
      /\ t \in Tenants /\ body[r].kind = "create" /\ PoolOf[t] # None
  BY Arrived, Zenon DEF Allocate, IInv, Flow, Create, Creates, CreateAt
<1>1. CASE Free(PoolOf[t], Reserved(t)) = {} /\ Reject(r, "ip_pool_exhausted")
  <2>1. AddressesOf[t] = Hosts(PoolOf[t]) \ gatewayAddress(PoolOf[t])
    BY <1>0, Zenon DEF AddressesOf
  <2>2. \A a \in AddressesOf[t] :
           \E q \in Requests : peers[q] # None /\ peers[q].state # "revoked" /\ a = peers[q].addr
    BY <1>1, <2>1, Zenon DEF Free, Reserved
  <2>3. \A q \in Requests : peers[q] # None /\ peers[q].state # "revoked" => peers[q].state = "live"
    BY Zenon DEF IInv, TypeOK, PeerRow
  <2>4. AddressesOf[t] \subseteq
           {peers[p].addr : p \in {q \in {x \in Requests : peers[x] # None} :
                                      peers[q].state = "live"}}
    BY <2>2, <2>3, Zenon
  <2>5. Registry!MayRefuse(r, "ip_pool_exhausted")
    BY <1>0, <2>4, Zenon DEF Registry!MayRefuse, Registry!Rows
  <2>. QED
    BY <1>0, <1>1, <2>5, RefuseStep, Zenon
<1>2. CASE UNCHANGED answer
  BY <1>0, <1>2, Invisible, Zenon DEF tables
<1>. QED
  BY <1>1, <1>2, Zenon DEF Allocate

(* A peer is said to exist when its identity is taken, or when a revoked   *)
(* peer has its address (INSERT INTO peers).                               *)
LEMMA InsertStep ==
    ASSUME IInv, FreshAddress, NEW r \in Requests, Insert(r)
    PROVE  Registry!Refuse(r) \/ UNCHANGED Registry!registry
<1>0. pc[r] = "insert" /\ UNCHANGED <<tables, body>> /\ body[r].kind = "create"
  BY Zenon DEF Insert, IInv, Flow, Create
<1>1. CASE /\ \E p \in Requests : peers[p] # None /\ Clashes(r, peers[p])
           /\ Reject(r, "peer_exists")
  <2>1. PICK p \in Requests : peers[p] # None /\ Clashes(r, peers[p])
    BY <1>1, Zenon
  <2>2. Registry!SameIdentity(r, p) \/ peers[p].state = "revoked"
    BY <1>0, <2>1, Zenon DEF Clashes, FreshAddress, Registry!SameIdentity
  <2>3. Registry!MayRefuse(r, "peer_exists")
    BY <1>0, <2>1, <2>2, Zenon DEF Registry!MayRefuse, Registry!Rows
  <2>. QED
    BY <1>0, <1>1, <2>3, RefuseStep, Zenon
<1>2. CASE UNCHANGED answer
  BY <1>0, <1>2, Invisible, Zenon DEF tables
<1>. QED
  BY <1>1, <1>2, Zenon DEF Insert

(* A peer is not found when it is not there, or another tenant's           *)
(* (MarkRevoked, RevokePeer).                                              *)
LEMMA MarkStep ==
    ASSUME IInv, NEW r \in Requests, Mark(r)
    PROVE  Registry!Refuse(r) \/ UNCHANGED Registry!registry
<1>0. /\ pc[r] = "mark" /\ UNCHANGED <<tables, body>> /\ body[r].kind = "revoke"
      /\ body[r].peer \in Requests
  BY OpenRequest, Arrived, Zenon DEF Mark, IInv, Flow, Create
<1>1. CASE ~Owned(r, body[r].peer) /\ Reject(r, "not_found")
  <2>1. Registry!MayRefuse(r, "not_found")
    BY <1>0, <1>1, Zenon DEF Owned, Registry!MayRefuse, Registry!Rows
  <2>. QED
    BY <1>0, <1>1, <2>1, RefuseStep, Zenon
<1>2. CASE UNCHANGED answer
  BY <1>0, <1>2, Invisible, Zenon DEF tables
<1>. QED
  BY <1>1, <1>2, Zenon DEF Mark, Owned

(* An internal error is always allowed (LockPool, Store, Abort).           *)
LEMMA InternalStep ==
    ASSUME IInv, NEW r \in Requests, pc[r] \notin {"idle", "done"},
           Reject(r, "internal"), UNCHANGED <<tables, body>>
    PROVE  Registry!Refuse(r)
BY RefuseStep, Zenon DEF Registry!MayRefuse

(* A commit is the instant at which a request takes effect, heard of or    *)
(* not (InTx).                                                             *)
LEMMA WrittenStep ==
    ASSUME IInv, NEW r \in Requests, pc[r] = "commit", Written(r),
           NEW resp \in {Accepted(r), Refusal("internal")}, Finish(r, resp), UNCHANGED <<body, addr>>
    PROVE  Registry!Create(r) \/ Registry!Revoke(r)
<1>0. /\ body[r] # None /\ answer[r] = None /\ body[r].kind \in {"create", "revoke"}
      /\ TK(r) \in Tenants \X Keys
      /\ owner[TK(r)] = None
  BY OpenRequest, AtCommit, Zenon
<1>1. owner' = [owner EXCEPT ![TK(r)] = r]
  <2>1. keys' = [keys EXCEPT ![TK(r)] = NewRecord(r)] /\ NewRecord(r) \in Record
    BY WrittenTables, Zenon
  <2>2. NewRecord(r) # None /\ NewRecord(r).op = r
    BY <2>1, NoneAssumption, Zenon DEF NewRecord
  <2>3. keys \in [Tenants \X Keys -> Record \cup {None}]
    BY Zenon DEF IInv, TypeOK
  <2>4. \A tk \in Tenants \X Keys : keys'[tk] = IF tk = TK(r) THEN NewRecord(r) ELSE keys[tk]
    BY <1>0, <2>1, <2>3, Zenon
  <2>. QED
    BY <1>0, <2>2, <2>4, Zenon DEF owner
<1>2. answer' = [answer EXCEPT ![r] = resp]
  BY DEF Finish
<1>3. CASE Create(r)
  <2>1. peers' = [peers EXCEPT ![r] = NewRow(r)]
    BY <1>3, WrittenTables, Zenon
  <2>0. /\ \A p \in Requests : peers[p] # None => ~Clashes(r, peers[p])
        /\ GoodAddress(body[r].tenant, addr[r]) /\ body[r].tenant \in Tenants
    BY <1>3, AtCommit, Zenon
  <2>2. \A p \in Registry!Rows : ~Registry!SameIdentity(r, p)
    BY <2>0, Zenon DEF Clashes, Registry!Rows, Registry!SameIdentity
  <2>3. addr[r] \in AddressesOf[body[r].tenant]
    BY <2>0 DEF GoodAddress, AddressesOf
  <2>4. addr[r] \notin Registry!Taken
    BY <2>0, Zenon DEF Clashes, Registry!Rows, Registry!Taken
  <2>5. Registry!TakesEffect(r, r)
    BY <1>0, <1>1, <1>2, <1>3, Zenon
       DEF Registry!TakesEffect, Registry!Owner, Registry!Answered, Accepted, Refusal, Create, owner, TK
  <2>6. Registry!Create(r)
    BY <1>0, <1>3, <2>1, <2>2, <2>3, <2>4, <2>5, Zenon DEF Registry!Create, Registry!Open, NewRow, Create
  <2>. QED
    BY <2>6
<1>4. CASE ~Create(r)
  <2>1. peers' = [peers EXCEPT ![body[r].peer].state = "revoked"]
    BY <1>4, WrittenTables
  <2>2. body[r].peer \in Registry!Rows /\ peers[body[r].peer].tenant = body[r].tenant
    BY <1>4, AtCommit, Zenon DEF Owned, Registry!Rows
  <2>3. Registry!TakesEffect(r, None)
    BY <1>0, <1>1, <1>2, <1>4, Zenon
       DEF Registry!TakesEffect, Registry!Owner, Registry!Answered, Accepted, Refusal, Create, owner, TK
  <2>. QED
    BY <1>0, <1>4, <2>1, <2>2, <2>3 DEF Registry!Revoke, Registry!Open, Create
<1>. QED
  BY <1>3, <1>4, Zenon

(* The owner of a key does not change when its record expires.             *)
LEMMA ExpireStep ==
    ASSUME IInv, NEW tk \in Tenants \X Keys, Expire(tk)
    PROVE  UNCHANGED Registry!registry
<1>0. keys \in [Tenants \X Keys -> Record \cup {None}]
  BY DEF IInv, TypeOK
<1>1. /\ keys[tk] \in Record
      /\ keys' = [keys EXCEPT ![tk].expired = TRUE]
      /\ UNCHANGED <<peers, body, answer>>
  BY <1>0 DEF Expire
<1>2. /\ [keys[tk] EXCEPT !.expired = TRUE].op = keys[tk].op
      /\ [keys[tk] EXCEPT !.expired = TRUE] # None
  <2>1. [keys[tk] EXCEPT !.expired = TRUE] \in Record
    BY <1>1, Zenon DEF Record
  <2>. QED
    BY <1>1, <2>1, NoneAssumption, Zenon DEF Record
<1>3. owner' = owner
  BY <1>0, <1>1, <1>2, NoneAssumption, Zenon DEF owner
<1>. QED
  BY <1>1, <1>3, Zenon DEF Registry!registry, owner

(* Every step of the transactions is a step of the registry or invisible.  *)
LEMMA RefinedStep ==
    ASSUME IInv, FreshAddress, [Next]_vars
    PROVE  [Registry!Next]_(Registry!registry)
<1>1. ASSUME NEW r \in Requests,
             \/ Registry!Ask(r) \/ Registry!Create(r) \/ Registry!Revoke(r)
             \/ Registry!Replay(r) \/ Registry!Refuse(r) \/ UNCHANGED Registry!registry
      PROVE  [Registry!Next]_(Registry!registry)
  BY <1>1 DEF Registry!Next
<1>2. ASSUME NEW r \in Requests, NEW b \in Bodies, Arrive(r, b)
      PROVE  [Registry!Next]_(Registry!registry)
  BY <1>1, <1>2, ArriveStep
<1>3. ASSUME NEW r \in Requests, Lookup(r) \/ Allocate(r) \/ Insert(r) \/ Mark(r)
      PROVE  [Registry!Next]_(Registry!registry)
  BY <1>1, <1>3, LookupStep, AllocateStep, InsertStep, MarkStep, Zenon
<1>4. ASSUME NEW r \in Requests, LockPool(r) \/ Store(r)
      PROVE  [Registry!Next]_(Registry!registry)
  <2>1. pc[r] \notin {"idle", "done"} /\ UNCHANGED <<tables, body>>
    BY <1>4 DEF LockPool, Store
  <2>2. CASE Reject(r, "internal")
    BY <1>1, <2>1, <2>2, InternalStep
  <2>3. CASE UNCHANGED answer
    BY <1>1, <2>1, <2>3, Invisible DEF tables
  <2>. QED
    BY <1>4, <2>2, <2>3, Zenon DEF LockPool, Store
<1>5. ASSUME NEW r \in Requests, Commit(r) \/ CommitLost(r)
      PROVE  [Registry!Next]_(Registry!registry)
  BY <1>1, <1>5, WrittenStep DEF Commit, CommitLost, Reject
<1>6. ASSUME NEW r \in Requests, Abort(r)
      PROVE  [Registry!Next]_(Registry!registry)
  BY <1>1, <1>6, InternalStep DEF Abort
<1>7. ASSUME NEW tk \in Tenants \X Keys, Expire(tk)
      PROVE  [Registry!Next]_(Registry!registry)
  BY <1>7, ExpireStep
<1>8. CASE UNCHANGED vars
  BY <1>8, Invisible DEF vars
<1>. QED
  BY <1>2, <1>3, <1>4, <1>5, <1>6, <1>7, <1>8 DEF Next, Step

(* On a node whose pools do not overlap the API implements the registry:   *)
(* to their callers concurrent, failing and retried transactions are       *)
(* requests handled one at a time, each of which takes effect at one       *)
(* instant or not at all (CreatePeer, RevokePeer, InTx).                   *)
THEOREM ApiImplementsRegistry ==
    ASSUME PoolsDisjoint
    PROVE  Spec => ImplementsRegistry
<1>1. Init => FreshAddress /\ Registry!Init
  BY DEF Init, FreshAddress, Registry!Init
<1>2. IInv /\ FreshAddress /\ [Next]_vars => FreshAddress'
  BY FreshStep
<1>3. IInv /\ FreshAddress /\ [Next]_vars => [Registry!Next]_(Registry!registry)
  BY RefinedStep
<1>. QED
  BY <1>1, <1>2, <1>3, Invariant, PTL DEF Spec, ImplementsRegistry, Registry!Spec

-----------------------------------------------------------------------------
(* Waiting.                                                                *)

(* What the next statement of a request locks or enters into an index:     *)
(* the guards of LockPool, Insert, Mark and Store.                         *)
Wants(r) ==
    CASE pc[r] = "lock" -> {Pool(body[r].tenant)}
      [] pc[r] = "insert" -> IndexEntries(r)
      [] pc[r] = "mark" -> {Row(body[r].peer)}
      [] pc[r] = "store" -> {KeyEntry(body[r].tenant, body[r].key)}
      [] OTHER -> {}
WaitsFor(r, s) == r # s /\ Wants(r) \cap holds[s] # {}

(* How far a handler is: statements that lock things of one kind are on    *)
(* one level, and a request that is not under way is on none.              *)
Level(label) ==
    CASE label = "lookup" -> 1
      [] label = "lock" -> 2
      [] label = "allocate" -> 3
      [] label \in {"insert", "mark"} -> 4
      [] label = "store" -> 5
      [] label = "commit" -> 6
      [] OTHER -> 0

(* A thing is held only from the level of its kind on.                     *)
HeldAt(thing, label) ==
    /\ thing[1] = "pool" => label \in {"allocate", "insert", "store", "commit"}
    /\ thing[1] \in {"ext", "ip", "pub", "row"} => label \in {"store", "commit"}
    /\ thing[1] = "key" => label = "commit"
HeldInOrder == \A r \in Requests : \A thing \in holds[r] : HeldAt(thing, pc[r])

(* Whoever a request waits for is further on than it is, whatever the two  *)
(* do and whichever tenants, keys and peers they name: waiting can go in   *)
(* no circle of any length (AllocateAndInsert, MarkRevoked, Store).        *)
WaitsGoForward ==
    \A r, s \in Requests : WaitsFor(r, s) => Level(pc[r]) < Level(pc[s])

(* While requests are under way, one of them waits for nobody.             *)
SomeoneGoesOn ==
    (\E r \in Requests : pc[r] \notin {"idle", "done"}) =>
        \E r \in Requests :
            /\ pc[r] \notin {"idle", "done"}
            /\ \A s \in Requests : ~WaitsFor(r, s)

(* A step of one request leaves the others where they are.                 *)
LEMMA HeldStep ==
    ASSUME TypeOK, HeldInOrder, NEW r \in Requests, NEW label, NEW things,
           pc' = [pc EXCEPT ![r] = label], holds' = [holds EXCEPT ![r] = things],
           \A thing \in things : HeldAt(thing, label)
    PROVE  HeldInOrder'
<1>1. ASSUME NEW s \in Requests, NEW thing \in holds'[s] PROVE HeldAt(thing, pc'[s])
  <2>1. pc \in [Requests -> {"idle", "lookup", "lock", "allocate", "insert", "mark",
                             "store", "commit", "done"}] /\ holds \in [Requests -> SUBSET Things]
    BY DEF TypeOK
  <2>2. CASE s = r
    <3>1. pc'[s] = label /\ holds'[s] = things
      BY <2>1, <2>2
    <3> QED BY <1>1, <3>1
  <2>3. CASE s # r
    <3>1. pc'[s] = pc[s] /\ holds'[s] = holds[s]
      BY <2>1, <2>3
    <3> QED BY <1>1, <3>1, Zenon DEF HeldInOrder
  <2> QED BY <2>2, <2>3, Zenon
<1> QED BY <1>1, Zenon DEF HeldInOrder, HeldAt

(* A request whose transaction ends holds nothing (Finish).                *)
LEMMA FinishHeld ==
    ASSUME TypeOK, HeldInOrder, NEW r \in Requests, NEW resp, Finish(r, resp)
    PROVE  HeldInOrder'
<1>1. pc' = [pc EXCEPT ![r] = "done"] /\ holds' = [holds EXCEPT ![r] = {}]
  BY DEF Finish, Goto
<1> QED BY <1>1, HeldStep, Zenon

(* A request goes on to a label where it may hold what it holds already    *)
(* and what it acquires.                                                   *)
LEMMA GotoHeld ==
    ASSUME TypeOK, HeldInOrder, NEW r \in Requests, NEW label, NEW things,
           Goto(r, label), holds' = [holds EXCEPT ![r] = @ \cup things],
           \A thing : HeldAt(thing, pc[r]) => HeldAt(thing, label),
           \A thing \in things : HeldAt(thing, label)
    PROVE  HeldInOrder'
<1>1. holds' = [holds EXCEPT ![r] = holds[r] \cup things]
  OBVIOUS
<1>2. \A thing \in holds[r] \cup things : HeldAt(thing, label)
  BY Zenon DEF HeldInOrder
<1> QED BY <1>1, <1>2, HeldStep, Zenon DEF Goto

(* So it is when it acquires one thing.                                    *)
LEMMA AcquireHeld ==
    ASSUME TypeOK, HeldInOrder, NEW r \in Requests, NEW label, NEW one,
           Goto(r, label), Acquire(r, {one}), HeldAt(one, label),
           \A thing : HeldAt(thing, pc[r]) => HeldAt(thing, label)
    PROVE  HeldInOrder'
<1>1. PICK things : things = {one}
  OBVIOUS
<1>2. holds' = [holds EXCEPT ![r] = @ \cup things]
  BY <1>1 DEF Acquire
<1>3. \A thing \in things : HeldAt(thing, label)
  BY <1>1
<1> QED BY <1>2, <1>3, GotoHeld, Zenon

(* So it is when it acquires nothing.                                      *)
LEMMA StayHeld ==
    ASSUME TypeOK, HeldInOrder, NEW r \in Requests, NEW label,
           Goto(r, label), holds' = holds,
           \A thing : HeldAt(thing, pc[r]) => HeldAt(thing, label)
    PROVE  HeldInOrder'
<1>1. holds' = [holds EXCEPT ![r] = holds[r]]
  BY DEF TypeOK
<1>2. \A thing \in holds[r] : HeldAt(thing, label)
  BY Zenon DEF HeldInOrder
<1> QED BY <1>1, <1>2, HeldStep, Zenon DEF Goto

(* Things of different kinds differ in their first component.              *)
LEMMA ThingKinds ==
    /\ \A t : Pool(t)[1] = "pool"
    /\ \A p : Row(p)[1] = "row"
    /\ \A t, k : KeyEntry(t, k)[1] = "key"
    /\ \A r \in Requests : \A thing \in IndexEntries(r) : thing[1] \in {"ext", "ip", "pub"}
<1>1. \A t : Pool(t)[1] = "pool"
  BY DEF Pool
<1>2. \A p : Row(p)[1] = "row"
  BY DEF Row
<1>3. \A t, k : KeyEntry(t, k)[1] = "key"
  BY DEF KeyEntry
<1>4. ASSUME NEW r \in Requests, NEW thing \in IndexEntries(r)
      PROVE  thing[1] \in {"ext", "ip", "pub"}
  <2>1. \/ thing = <<"ext", body[r].tenant, body[r].ext>> \/ thing = <<"ip", addr[r]>>
        \/ thing = <<"pub", body[r].pub>>
    BY <1>4, Zenon DEF IndexEntries
  <2> QED BY <2>1
<1> QED BY <1>1, <1>2, <1>3, <1>4

(* Each statement acquires things of its level (LockPool, Insert, Mark,    *)
(* Store), and the end of a transaction releases them all.                 *)
LEMMA NextHeld == IInv /\ HeldInOrder /\ [Next]_vars => HeldInOrder'
<1> SUFFICES ASSUME IInv, HeldInOrder, [Next]_vars PROVE HeldInOrder'
  OBVIOUS
<1>0. TypeOK
  BY Zenon DEF IInv
<1>1. ASSUME NEW r \in Requests, NEW b \in Bodies, Arrive(r, b) PROVE HeldInOrder'
  <2>1. pc[r] = "idle" /\ Goto(r, "lookup") /\ holds' = holds
    BY <1>1 DEF Arrive
  <2> QED BY <1>0, <2>1, StayHeld DEF HeldAt
<1>2. ASSUME NEW r \in Requests, Lookup(r) PROVE HeldInOrder'
  <2>1. CASE \E resp : Finish(r, resp)
    BY <1>0, <2>1, FinishHeld, Zenon
  <2>2. CASE ~\E resp : Finish(r, resp)
    <3>1. /\ pc[r] = "lookup" /\ holds' = holds
          /\ \E label \in {"lock", "mark"} : Goto(r, label)
      BY <1>2, <2>2, Zenon DEF Lookup
    <3> QED BY <1>0, <3>1, StayHeld DEF HeldAt
  <2> QED BY <2>1, <2>2
<1>3. ASSUME NEW r \in Requests, NEW code, Reject(r, code) PROVE HeldInOrder'
  BY <1>0, <1>3, FinishHeld DEF Reject
<1>4. ASSUME NEW r \in Requests, LockPool(r) PROVE HeldInOrder'
  <2>1. CASE Reject(r, "internal")
    BY <1>3, <2>1
  <2>2. CASE ~Reject(r, "internal")
    <3>1. /\ pc[r] = "lock" /\ Goto(r, "allocate")
          /\ \E t : Acquire(r, {Pool(t)})
      BY <1>4, <2>2, Zenon DEF LockPool
    <3>2. PICK t : Acquire(r, {Pool(t)})
      BY <3>1
    <3>3. HeldAt(Pool(t), "allocate")
      BY ThingKinds DEF HeldAt
    <3>4. \A thing : HeldAt(thing, pc[r]) => HeldAt(thing, "allocate")
      BY <3>1 DEF HeldAt
    <3> QED BY <1>0, <3>1, <3>2, <3>3, <3>4, AcquireHeld, Zenon
  <2> QED BY <2>1, <2>2
<1>5. ASSUME NEW r \in Requests, Allocate(r) PROVE HeldInOrder'
  <2>1. CASE Reject(r, "ip_pool_exhausted")
    BY <1>3, <2>1
  <2>2. CASE ~Reject(r, "ip_pool_exhausted")
    <3>1. pc[r] = "allocate" /\ Goto(r, "insert") /\ holds' = holds
      BY <1>5, <2>2, Zenon DEF Allocate
    <3> QED BY <1>0, <3>1, StayHeld DEF HeldAt
  <2> QED BY <2>1, <2>2
<1>6. ASSUME NEW r \in Requests, Insert(r) PROVE HeldInOrder'
  <2>1. CASE Reject(r, "peer_exists")
    BY <1>3, <2>1
  <2>2. CASE ~Reject(r, "peer_exists")
    <3>1. /\ pc[r] = "insert" /\ Goto(r, "store")
          /\ holds' = [holds EXCEPT ![r] = @ \cup IndexEntries(r)]
      BY <1>6, <2>2, Zenon DEF Insert, Acquire
    <3>2. \A thing \in IndexEntries(r) : HeldAt(thing, "store")
      BY ThingKinds DEF HeldAt
    <3>3. \A thing : HeldAt(thing, pc[r]) => HeldAt(thing, "store")
      BY <3>1 DEF HeldAt
    <3> QED BY <1>0, <3>1, <3>2, <3>3, GotoHeld, Zenon
  <2> QED BY <2>1, <2>2
<1>7. ASSUME NEW r \in Requests, Mark(r) PROVE HeldInOrder'
  <2>1. CASE Reject(r, "not_found")
    BY <1>3, <2>1
  <2>2. CASE ~Reject(r, "not_found")
    <3>1. /\ pc[r] = "mark" /\ Goto(r, "store")
          /\ \E p : Acquire(r, {Row(p)})
      BY <1>7, <2>2, Zenon DEF Mark
    <3>2. PICK p : Acquire(r, {Row(p)})
      BY <3>1
    <3>3. HeldAt(Row(p), "store")
      BY ThingKinds DEF HeldAt
    <3>4. \A thing : HeldAt(thing, pc[r]) => HeldAt(thing, "store")
      BY <3>1 DEF HeldAt
    <3> QED BY <1>0, <3>1, <3>2, <3>3, <3>4, AcquireHeld, Zenon
  <2> QED BY <2>1, <2>2
<1>8. ASSUME NEW r \in Requests, Store(r) PROVE HeldInOrder'
  <2>1. CASE Reject(r, "internal")
    BY <1>3, <2>1
  <2>2. CASE ~Reject(r, "internal")
    <3>1. pc[r] = "store" /\ Goto(r, "commit")
      BY <1>8, <2>2, Zenon DEF Store
    <3>2. PICK t, k : Acquire(r, {KeyEntry(t, k)})
      BY <1>8, <2>2, Zenon DEF Store
    <3>3. HeldAt(KeyEntry(t, k), "commit")
      BY ThingKinds DEF HeldAt
    <3>4. \A thing : HeldAt(thing, pc[r]) => HeldAt(thing, "commit")
      BY <3>1 DEF HeldAt
    <3> QED BY <1>0, <3>1, <3>2, <3>3, <3>4, AcquireHeld, Zenon
  <2> QED BY <2>1, <2>2
<1>9. ASSUME NEW r \in Requests, Commit(r) \/ CommitLost(r) \/ Abort(r) PROVE HeldInOrder'
  BY <1>0, <1>3, <1>9, FinishHeld, Zenon DEF Commit, CommitLost, Abort
<1>10. ASSUME NEW tk \in Tenants \X Keys, Expire(tk) PROVE HeldInOrder'
  BY <1>10, Zenon DEF Expire, HeldInOrder, HeldAt
<1>11. CASE UNCHANGED vars
  BY <1>11, Zenon DEF vars, HeldInOrder, HeldAt
<1> QED BY <1>1, <1>2, <1>4, <1>5, <1>6, <1>7, <1>8, <1>9, <1>10, <1>11, Zenon DEF Next, Step

(* A statement that adds to what its request holds adds what it wanted,    *)
(* and nobody else holds that: Wants is what the statements acquire.       *)
LEMMA AcquiresWants ==
    ASSUME TypeOK, NEW r \in Requests, Step(r), ~(holds'[r] \subseteq holds[r])
    PROVE  holds'[r] = holds[r] \cup Wants(r) /\ \A s \in Requests : ~WaitsFor(r, s)
<1>1. holds \in [Requests -> SUBSET Things]
  BY DEF TypeOK
<1>2. ASSUME NEW resp, Finish(r, resp) PROVE FALSE
  BY <1>1, <1>2, Zenon DEF Finish
<1>3. \A code : ~Reject(r, code)
  BY <1>2 DEF Reject
<1>4. holds' # holds
  BY <1>1
<1>5. PICK things : Acquire(r, things) /\ things = Wants(r)
  <2>1. CASE LockPool(r)
    <3>1. pc[r] = "lock" /\ Acquire(r, {Pool(body[r].tenant)})
      BY <1>3, <2>1, Zenon DEF LockPool
    <3>2. Wants(r) = {Pool(body[r].tenant)}
      BY <3>1, Zenon DEF Wants
    <3> QED BY <3>1, <3>2
  <2>2. CASE Insert(r)
    <3>1. pc[r] = "insert" /\ Acquire(r, IndexEntries(r))
      BY <1>3, <2>2, Zenon DEF Insert
    <3>2. Wants(r) = IndexEntries(r)
      BY <3>1, Zenon DEF Wants
    <3> QED BY <3>1, <3>2
  <2>3. CASE Mark(r)
    <3>1. pc[r] = "mark" /\ Acquire(r, {Row(body[r].peer)})
      BY <1>3, <2>3, Zenon DEF Mark
    <3>2. Wants(r) = {Row(body[r].peer)}
      BY <3>1, Zenon DEF Wants
    <3> QED BY <3>1, <3>2
  <2>4. CASE Store(r)
    <3>1. pc[r] = "store" /\ Acquire(r, {KeyEntry(body[r].tenant, body[r].key)})
      BY <1>3, <2>4 DEF Store
    <3>2. Wants(r) = {KeyEntry(body[r].tenant, body[r].key)}
      BY <3>1 DEF Wants
    <3> QED BY <3>1, <3>2, Zenon
  <2>5. CASE Lookup(r)
    BY <1>2, <1>4, <2>5, Zenon DEF Lookup
  <2>6. CASE Allocate(r)
    BY <1>3, <1>4, <2>6, Zenon DEF Allocate
  <2>7. CASE Commit(r)
    BY <1>2, <2>7, Zenon DEF Commit
  <2> QED BY <2>1, <2>2, <2>3, <2>4, <2>5, <2>6, <2>7, Zenon DEF Step
<1>6. holds'[r] = holds[r] \cup things
  BY <1>1, <1>5 DEF Acquire
<1>7. \A s \in Requests : ~WaitsFor(r, s)
  BY <1>5, Zenon DEF Acquire, Available, WaitsFor
<1> QED BY <1>5, <1>6, <1>7, Zenon

(* What a statement wants, by its kind.                                    *)
LEMMA WantsKind ==
    ASSUME NEW r \in Requests, NEW thing \in Wants(r)
    PROVE  \/ pc[r] = "lock" /\ thing[1] = "pool"
           \/ pc[r] \in {"insert", "mark"} /\ thing[1] \in {"ext", "ip", "pub", "row"}
           \/ pc[r] = "store" /\ thing[1] = "key"
<1>1. CASE pc[r] = "lock"
  BY <1>1, ThingKinds DEF Wants
<1>2. CASE pc[r] = "insert"
  BY <1>2, ThingKinds DEF Wants
<1>3. CASE pc[r] = "mark"
  BY <1>3, ThingKinds DEF Wants
<1>4. CASE pc[r] = "store"
  BY <1>4, ThingKinds DEF Wants
<1>5. CASE pc[r] \notin {"lock", "insert", "mark", "store"}
  BY <1>5 DEF Wants
<1> QED BY <1>1, <1>2, <1>3, <1>4, <1>5

(* Things are held from their level on, so what a statement waits for is   *)
(* held by a request on a higher level.                                    *)
LEMMA Forward ==
    ASSUME HeldInOrder, NEW r \in Requests, NEW s \in Requests, WaitsFor(r, s)
    PROVE  \/ pc[r] = "lock" /\ pc[s] \in {"allocate", "insert", "store", "commit"}
           \/ pc[r] \in {"insert", "mark"} /\ pc[s] \in {"store", "commit"}
           \/ pc[r] = "store" /\ pc[s] = "commit"
<1>1. PICK thing \in Wants(r) : thing \in holds[s]
  BY DEF WaitsFor
<1>2. HeldAt(thing, pc[s])
  BY <1>1 DEF HeldInOrder
<1> QED BY <1>2, WantsKind DEF HeldAt

(* No chain of waiting transactions of any length closes (InTx).           *)
THEOREM WaitingGoesForward == Spec => []WaitsGoForward
<1>1. Init => HeldInOrder
  BY DEF Init, HeldInOrder
<1>2. HeldInOrder => WaitsGoForward
  <2> SUFFICES ASSUME HeldInOrder, NEW r \in Requests, NEW s \in Requests, WaitsFor(r, s)
               PROVE  Level(pc[r]) < Level(pc[s])
    BY Zenon DEF WaitsGoForward
  <2> QED BY Forward DEF Level
<1> QED BY <1>1, <1>2, NextHeld, Invariant, PTL DEF Spec

(* Whatever requests are under way, and whatever has failed, one of them   *)
(* waits for nobody: the one that is furthest on.                          *)
THEOREM NobodyIsStuck == Spec => []SomeoneGoesOn
<1>1. Init => HeldInOrder
  BY DEF Init, HeldInOrder
<1>2. ASSUME TypeOK, HeldInOrder PROVE SomeoneGoesOn
  <2> SUFFICES ASSUME NEW q \in Requests, pc[q] \notin {"idle", "done"}
               PROVE  \E r \in Requests : /\ pc[r] \notin {"idle", "done"}
                                          /\ \A s \in Requests : ~WaitsFor(r, s)
    BY Zenon DEF SomeoneGoesOn
  <2>1. \A r, s \in Requests :
          WaitsFor(r, s) =>
             \/ pc[r] = "lock" /\ pc[s] \in {"allocate", "insert", "store", "commit"}
             \/ pc[r] \in {"insert", "mark"} /\ pc[s] \in {"store", "commit"}
             \/ pc[r] = "store" /\ pc[s] = "commit"
    BY <1>2, Forward
  <2>2. CASE \E r \in Requests : pc[r] = "commit"
    BY <2>1, <2>2
  <2>3. CASE (\E r \in Requests : pc[r] = "store") /\ ~\E r \in Requests : pc[r] = "commit"
    BY <2>1, <2>3, Zenon
  <2>4. CASE /\ \E r \in Requests : pc[r] \in {"allocate", "insert"}
             /\ ~\E r \in Requests : pc[r] \in {"store", "commit"}
    BY <2>1, <2>4
  <2>5. CASE ~\E r \in Requests : pc[r] \in {"allocate", "insert", "store", "commit"}
    BY <2>1, <2>5
  <2> QED BY <2>2, <2>3, <2>4, <2>5
<1>3. IInv => TypeOK
  BY DEF IInv
<1> QED BY <1>1, <1>2, <1>3, NextHeld, Invariant, PTL, Zenon DEF Spec

=============================================================================
