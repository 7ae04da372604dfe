---------------------------- MODULE PeerRegistry ----------------------------
(***************************************************************************)
(* What the peer API promises its callers, without transactions, locks or  *)
(* indexes: a registry in which every request is answered at one instant   *)
(* between its arrival and its answer, and takes effect at that instant or *)
(* not at all.  An idempotency key is used up by the one request that took *)
(* effect under it, and only the answer of that request carries the        *)
(* secrets of the new peer.  PeerApi is checked to implement it.           *)
(***************************************************************************)
CONSTANTS
    Requests, Tenants, Keys, None,
    Bodies,      \* what requests may ask for
    AddressesOf  \* the addresses that peers of each tenant may get

VARIABLES
    peers,   \* the peer that each request created, or None
    owner,   \* the request that used up each key, or None
    body,    \* what each request asks for
    answer   \* its answer

registry == <<peers, owner, body, answer>>

Init ==
    /\ peers = [r \in Requests |-> None]
    /\ owner = [tk \in Tenants \X Keys |-> None]
    /\ body = [r \in Requests |-> None]
    /\ answer = [r \in Requests |-> None]

-----------------------------------------------------------------------------
Open(r, kind) == body[r] # None /\ answer[r] = None /\ body[r].kind = kind
Owner(r) == owner[<<body[r].tenant, body[r].key>>]
Rows == {p \in Requests : peers[p] # None}
Taken == {peers[p].addr : p \in Rows}

SameIdentity(r, p) ==
    \/ peers[p].tenant = body[r].tenant /\ peers[p].ext = body[r].ext
    \/ peers[p].pub # None /\ peers[p].pub = body[r].pub

Answered(r, code, op, secret) ==
    answer' = [answer EXCEPT ![r] = [code |-> code, op |-> op, secret |-> secret]]

(* The caller learns of the effect, or gets an error although it happened. *)
TakesEffect(r, secret) ==
    /\ Owner(r) = None
    /\ owner' = [owner EXCEPT ![<<body[r].tenant, body[r].key>>] = r]
    /\ Answered(r, "accepted", r, secret) \/ Answered(r, "internal", None, None)

Ask(r) ==
    /\ body[r] = None
    /\ \E b \in Bodies : body' = [body EXCEPT ![r] = b]
    /\ UNCHANGED <<peers, owner, answer>>

Create(r) ==
    /\ Open(r, "create")
    /\ \A p \in Rows : ~SameIdentity(r, p)
    /\ \E a \in AddressesOf[body[r].tenant] \ Taken :
          peers' = [peers EXCEPT ![r] =
                       [tenant |-> body[r].tenant, ext |-> body[r].ext, pub |-> body[r].pub,
                        addr |-> a, state |-> "live"]]
    /\ TakesEffect(r, r)
    /\ UNCHANGED body

Revoke(r) ==
    LET p == body[r].peer IN
    /\ Open(r, "revoke")
    /\ p \in Rows /\ peers[p].tenant = body[r].tenant
    /\ peers' = [peers EXCEPT ![p].state = "revoked"]
    /\ TakesEffect(r, None)
    /\ UNCHANGED body

(* The key is used up: the same request learns what it did, another one    *)
(* that it may not use the key.                                            *)
Replay(r) ==
    /\ body[r] # None /\ answer[r] = None
    /\ Owner(r) # None
    /\ IF body[Owner(r)] = body[r] THEN Answered(r, "replayed", Owner(r), None)
                                   ELSE Answered(r, "idempotency_conflict", None, None)
    /\ UNCHANGED <<peers, owner, body>>

(* Refusals, each with its reason.                                         *)
MayRefuse(r, code) ==
    \/ code = "internal"
    \/ /\ code = "peer_exists" /\ body[r].kind = "create"
       /\ \E p \in Rows : SameIdentity(r, p) \/ peers[p].state = "revoked"
    \/ /\ code = "ip_pool_exhausted" /\ body[r].kind = "create"
       /\ AddressesOf[body[r].tenant] \subseteq
              {peers[p].addr : p \in {q \in Rows : peers[q].state = "live"}}
    \/ /\ code = "not_found" /\ body[r].kind = "revoke"
       /\ body[r].peer \in Rows => peers[body[r].peer].tenant # body[r].tenant

Refuse(r) ==
    /\ body[r] # None /\ answer[r] = None
    /\ \E code \in {"internal", "peer_exists", "ip_pool_exhausted", "not_found"} :
          MayRefuse(r, code) /\ Answered(r, code, None, None)
    /\ UNCHANGED <<peers, owner, body>>

Next ==
    \E r \in Requests :
        Ask(r) \/ Create(r) \/ Revoke(r) \/ Replay(r) \/ Refuse(r)

Spec == Init /\ [][Next]_registry

=============================================================================
