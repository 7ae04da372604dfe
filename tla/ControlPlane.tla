---------------------------- MODULE ControlPlane ----------------------------
(***************************************************************************)
(* The durable apply path of awg-rest: the API commits desired state (peer *)
(* rows) together with an operation and an outbox job; workers claim jobs  *)
(* under a lease, snapshot the desired state of the job's node, push it to *)
(* the node's interface through the executor, read the runtime back, and   *)
(* record what they applied.                                               *)
(*                                                                         *)
(* One action is one database statement or transaction, or one executor    *)
(* call: those are the points where another process can intervene.  The    *)
(* idempotency keys, address pools and audit rows that the API             *)
(* transactions also write are never read by the worker; module PeerApi    *)
(* models them.                                                            *)
(***************************************************************************)
EXTENDS Integers

CONSTANTS
    Peers,            \* identities of peer rows
    Nodes,            \* vpn_nodes rows, each with a protocol profile assigned
    Workers,          \* worker processes (awg-worker, or embedded in awg-api)
    Ops,              \* operations and their outbox jobs, numbered by created_at
    None,             \* SQL NULL, Go nil
    FaultRegimes,     \* what may go wrong in a behaviour: which kinds of fault,
                      \* and how many faults of these kinds
    ReconcileOnStart  \* RECONCILE_ON_START

AllFaults == {"crash", "restart", "loss", "exec", "reject", "late", "db", "slow"}
Regime == [kinds : SUBSET AllFaults, left : Nat]

ASSUME OpsAssumption == Ops \subseteq Nat
ASSUME NoneAssumption == None \notin Ops \cup Nodes \cup Peers
ASSUME FaultAssumption == FaultRegimes \subseteq Regime
ASSUME ReconcileAssumption == ReconcileOnStart \in BOOLEAN

VARIABLES
    peers,       \* peers and peer_runtime: one row per peer
    operations,  \* the operation log; rev is a history field: the desired
                 \* revision that the operation's transaction wrote
    outbox,      \* the job of each operation; lease: leased_until >= now()
    iface,       \* node interfaces: link up, and the peers configured on it
    flight,      \* configs sent to a node whose caller has given up waiting
    wk,          \* local state of each worker
    faults       \* the faults that may still happen

vars == <<peers, operations, outbox, iface, flight, wk, faults>>

-----------------------------------------------------------------------------
(* Rows.  State "absent" and status "none" stand for a row not inserted.   *)

PeerState == {"absent", "pending", "active", "revoked"}
PeerRow == [state : PeerState, node : Nodes \cup {None}, desired : Nat,
            applied : Nat, present : BOOLEAN]
NoPeerRow == [state |-> "absent", node |-> None, desired |-> 0, applied |-> 0,
              present |-> FALSE]

OperationStatus == {"none", "pending", "applied", "failed_retryable", "failed_terminal"}
Operation == [status : OperationStatus, peer : Peers \cup {None}, rev : Nat]

JobStatus == OperationStatus \cup {"leased"}
Job == [status : JobStatus, lease : BOOLEAN]

Interface == [up : BOOLEAN, peers : SUBSET Peers]
LinkDown == [up |-> FALSE, peers |-> {}]

(* What applyNode uses of a peer row it has read.  Rows of other nodes and *)
(* rows not inserted yet are not in the list it reads.                     *)
PeerView == [state : PeerState, desired : Nat]
NotListed == [state |-> "absent", desired |-> 0]
NoSnapshot == [p \in Peers |-> NotListed]

(* down: not running.  idle: top of the loop.  Applying a node: read,      *)
(* sync, up, resync, dump, persist.  Settling a job: complete and markop   *)
(* when it was applied, fail and markfailed when it was not.               *)
Phase == {"down", "idle", "read", "sync", "up", "resync", "dump", "persist",
          "complete", "markop", "fail", "markfailed"}
Worker == [pc : Phase, job : Ops \cup {None}, node : Nodes \cup {None},
           todo : SUBSET Nodes, snap : [Peers -> PeerView], seen : SUBSET Peers,
           retryable : BOOLEAN]

(* Every variable holds a value of its type: rows, jobs, interface         *)
(* contents and the workers' local variables (schema/0001_init.sql).       *)
TypeOK ==
    /\ peers \in [Peers -> PeerRow]
    /\ operations \in [Ops -> Operation]
    /\ outbox \in [Ops -> Job]
    /\ iface \in [Nodes -> Interface]
    /\ flight \in [Nodes -> SUBSET SUBSET Peers]
    /\ wk \in [Workers -> Worker]
    /\ faults \in Regime

-----------------------------------------------------------------------------
(* A fault is a step of the environment.                                   *)
Fault(kind) ==
    /\ kind \in faults.kinds
    /\ faults.left > 0
    /\ faults' = [faults EXCEPT !.left = @ - 1]

(* A worker between two units of work, with the nodes that its startup     *)
(* reconciliation has yet to visit.                                        *)
Resting(phase, todo) ==
    [pc |-> phase, job |-> None, node |-> None, todo |-> todo,
     snap |-> NoSnapshot, seen |-> {}, retryable |-> TRUE]

Becomes(w, local) == wk' = [wk EXCEPT ![w] = local]

Init ==
    /\ peers = [p \in Peers |-> NoPeerRow]
    /\ operations = [o \in Ops |-> [status |-> "none", peer |-> None, rev |-> 0]]
    /\ outbox = [o \in Ops |-> [status |-> "none", lease |-> FALSE]]
    /\ iface = [n \in Nodes |-> LinkDown]
    /\ flight = [n \in Nodes |-> {}]
    /\ wk = [w \in Workers |-> Resting("down", {})]
    /\ faults \in FaultRegimes

-----------------------------------------------------------------------------
(* The API.  Each request is one transaction (InTx).  Any unused number    *)
(* may be taken: created_at is the start of the transaction, so a later    *)
(* commit can carry an earlier time.                                       *)

InsertOperation(o, p, rev) ==
    operations' = [operations EXCEPT ![o] = [status |-> "pending", peer |-> p, rev |-> rev]]

InsertJob(o) == outbox' = [outbox EXCEPT ![o].status = "pending"]

(* Both inserts belong to the transaction that writes the peer row.        *)
Enqueue(o, p, rev) ==
    /\ operations[o].status = "none"
    /\ InsertOperation(o, p, rev)
    /\ InsertJob(o)

InsertedRow(n) ==
    [state |-> "pending", node |-> n, desired |-> 1, applied |-> 0, present |-> FALSE]

CreatePeer(p, n, o) ==
    /\ peers[p].state = "absent"
    /\ peers' = [peers EXCEPT ![p] = InsertedRow(n)]
    /\ Enqueue(o, p, 1)
    /\ UNCHANGED <<iface, flight, wk, faults>>

(* MarkRevoked puts no condition on the state: a peer already revoked gets *)
(* a new revision, a new operation and a new job.                          *)
MarkedRevoked(row) == [row EXCEPT !.state = "revoked", !.desired = @ + 1]

RevokePeer(p, o) ==
    /\ peers[p].state # "absent"
    /\ peers' = [peers EXCEPT ![p] = MarkedRevoked(@)]
    /\ Enqueue(o, p, peers[p].desired + 1)
    /\ UNCHANGED <<iface, flight, wk, faults>>

-----------------------------------------------------------------------------
(* The worker loop.                                                        *)

Holds(w, o) == wk[w].job = o

(* Mutated form of Start: no reconciliation. *)
Start_NoReconcile(w) ==
    /\ wk[w].pc = "down"
    /\ Becomes(w, Resting("idle", {}))
    /\ UNCHANGED <<peers, operations, outbox, iface, flight, faults>>

(* main: a started worker first reconciles every node when it is told to;  *)
(* the order (by hostname) is immaterial.                                  *)
Start(w) ==
    /\ wk[w].pc = "down"
    /\ Becomes(w, Resting("idle", IF ReconcileOnStart THEN Nodes ELSE {}))
    /\ UNCHANGED <<peers, operations, outbox, iface, flight, faults>>

(* ReconcileAll: the next node, outside any job.                           *)
ReconcileNext(w, n) ==
    /\ wk[w].pc = "idle"
    /\ n \in wk[w].todo
    /\ Becomes(w, [wk[w] EXCEPT !.pc = "read", !.node = n, !.todo = @ \ {n}])
    /\ UNCHANGED <<peers, operations, outbox, iface, flight, faults>>

(* Mutated forms of Claimable: a condition of the query lost or widened.   *)
Claimable_LiveLease(o) == outbox[o].status \in {"pending", "failed_retryable", "leased"}
Claimable_AnyExpired(o) ==
    \/ outbox[o].status \in {"pending", "failed_retryable"}
    \/ outbox[o].status # "none" /\ ~outbox[o].lease
Claimable_NoExpired(o) == outbox[o].status \in {"pending", "failed_retryable"}
Claimable_NoRetry(o) ==
    outbox[o].status = "pending" \/ (outbox[o].status = "leased" /\ ~outbox[o].lease)

(* The WHERE clause of ClaimNext.                                          *)
Claimable(o) ==
    \/ outbox[o].status \in {"pending", "failed_retryable"}
    \/ outbox[o].status = "leased" /\ ~outbox[o].lease

(* SKIP LOCKED: the row is locked while another worker's Complete or Fail  *)
(* statement on it has not committed.                                      *)
RowLocked(o, w) ==
    \E v \in Workers \ {w} : Holds(v, o) /\ wk[v].pc \in {"complete", "fail"}

(* The row ClaimNext selects: the oldest claimable one not locked.         *)
Selects(w, o) ==
    /\ wk[w].pc = "idle"
    /\ wk[w].todo = {}
    /\ Claimable(o)
    /\ \A q \in Ops : q < o /\ Claimable(q) => RowLocked(q, w)

Leased(o) == [outbox EXCEPT ![o] = [status |-> "leased", lease |-> TRUE]]

Claim(w, o) ==
    /\ Selects(w, o)
    /\ outbox' = Leased(o)
    /\ Becomes(w, [wk[w] EXCEPT !.pc = "read", !.job = o,
                                !.node = peers[operations[o].peer].node])
    /\ UNCHANGED <<peers, operations, iface, flight, faults>>

(* ClaimNext finds no row: the worker sleeps for its poll interval.        *)
Poll(w) ==
    /\ wk[w].pc = "idle" /\ wk[w].todo = {}
    /\ \A o \in Ops : ~Selects(w, o)
    /\ UNCHANGED vars

-----------------------------------------------------------------------------
(* applyNode, on behalf of a job or of the startup reconciliation.         *)

(* Mutated form of View: ListByNode, without the revoked rows.             *)
View_ListByNode(n) ==
    [p \in Peers |-> IF peers[p].node = n /\ peers[p].state # "revoked"
                     THEN [state |-> peers[p].state, desired |-> peers[p].desired]
                     ELSE NotListed]

(* ListByNodeIncludingRevoked.                                             *)
View(n) == [p \in Peers |-> IF peers[p].node = n
                            THEN [state |-> peers[p].state, desired |-> peers[p].desired]
                            ELSE NotListed]
Listed(snap) == {p \in Peers : snap[p].state # "absent"}
Rendered(snap) == {p \in Peers : snap[p].state \in {"pending", "active"}}

(* applyNode returns: ReconcileAll goes on to the next node (an error is   *)
(* only logged), processJob goes on to settle its job.                     *)
ApplyReturns(w, phase, retryable) ==
    Becomes(w, IF wk[w].job = None
               THEN Resting("idle", wk[w].todo)
               ELSE [Resting(phase, {}) EXCEPT !.job = wk[w].job, !.retryable = retryable])

(* Mutated form of ApplyFailed: the error is dropped.                      *)
ApplyFailed_Ignored(w, retryable) == ApplyReturns(w, "complete", retryable)

ApplyFailed(w, retryable) == ApplyReturns(w, "fail", retryable)

Read(w) ==
    /\ wk[w].pc = "read"
    /\ Becomes(w, [wk[w] EXCEPT !.pc = "sync", !.snap = View(wk[w].node)])
    /\ UNCHANGED <<peers, operations, outbox, iface, flight, faults>>

(* An interface that is up, with exactly the given peers.                  *)
Carrying(n, ps) == [iface EXCEPT ![n] = [up |-> TRUE, peers |-> ps]]

(* Executor.SyncConf replaces the peers of an interface that is up.  On a  *)
(* missing interface the first call leads to InterfaceUp, the second fails *)
(* the apply.                                                              *)
Sync(w) ==
    LET n == wk[w].node IN
    /\ wk[w].pc \in {"sync", "resync"}
    /\ \/ /\ iface[n].up
          /\ iface' = Carrying(n, Rendered(wk[w].snap))
          /\ Becomes(w, [wk[w] EXCEPT !.pc = "dump"])
       \/ /\ ~iface[n].up /\ wk[w].pc = "sync"
          /\ Becomes(w, [wk[w] EXCEPT !.pc = "up"])
          /\ UNCHANGED iface
       \/ /\ ~iface[n].up /\ wk[w].pc = "resync"
          /\ ApplyFailed(w, TRUE)
          /\ UNCHANGED iface
    /\ UNCHANGED <<peers, operations, outbox, flight, faults>>

(* Executor.InterfaceUp: nothing if the link exists, else up from the      *)
(* bootstrap config, which lists no peers.                                 *)
LinkUp(n) == IF iface[n].up THEN iface ELSE Carrying(n, {})

BringUp(w) ==
    /\ wk[w].pc = "up"
    /\ iface' = LinkUp(wk[w].node)
    /\ Becomes(w, [wk[w] EXCEPT !.pc = "resync"])
    /\ UNCHANGED <<peers, operations, outbox, flight, faults>>

(* Executor.ShowDump.                                                      *)
Dump(w) ==
    /\ wk[w].pc = "dump"
    /\ \/ /\ iface[wk[w].node].up
          /\ Becomes(w, [wk[w] EXCEPT !.pc = "persist", !.seen = iface[wk[w].node].peers])
       \/ ~iface[wk[w].node].up /\ ApplyFailed(w, TRUE)
    /\ UNCHANGED <<peers, operations, outbox, iface, flight, faults>>

(* Mutated forms of MarkedApplied: the revision counts applies; the state  *)
(* is set without looking at the one it replaces.                          *)
MarkedApplied_Counts(row, revision, present) ==
    [row EXCEPT !.applied = @ + 1,
                !.state = IF @ = "pending" THEN "active" ELSE @,
                !.present = present]
MarkedApplied_Activates(row, revision, present) ==
    [row EXCEPT !.applied = IF revision > @ THEN revision ELSE @,
                !.state = "active",
                !.present = present]

(* Peers.MarkApplied with the peer_runtime row written beside it.          *)
MarkedApplied(row, revision, present) ==
    [row EXCEPT !.applied = IF revision > @ THEN revision ELSE @,
                !.state = IF @ = "pending" THEN "active" ELSE @,
                !.present = present]

(* persistRuntime: one transaction over the rows of the snapshot.          *)
Persisted(w) ==
    [p \in Peers |-> IF p \in Listed(wk[w].snap)
                     THEN MarkedApplied(peers[p], wk[w].snap[p].desired, p \in wk[w].seen)
                     ELSE peers[p]]

Persist(w) ==
    /\ wk[w].pc = "persist"
    /\ peers' = Persisted(w)
    /\ ApplyReturns(w, "complete", TRUE)
    /\ UNCHANGED <<operations, outbox, iface, flight, faults>>

-----------------------------------------------------------------------------
(* processJob settles the job, then the operation: two statements, neither *)
(* conditional on the status it overwrites.                                *)

(* Mutated form of Failed: a status the schema does not know.              *)
Failed_Unknown(retryable) == IF retryable THEN "failed" ELSE "failed_terminal"

Failed(retryable) == IF retryable THEN "failed_retryable" ELSE "failed_terminal"

Complete(w) ==
    /\ wk[w].pc = "complete"
    /\ outbox' = [outbox EXCEPT ![wk[w].job].status = "applied"]
    /\ Becomes(w, [wk[w] EXCEPT !.pc = "markop"])
    /\ UNCHANGED <<peers, operations, iface, flight, faults>>

MarkApplied(w) ==
    /\ wk[w].pc = "markop"
    /\ operations' = [operations EXCEPT ![wk[w].job].status = "applied"]
    /\ Becomes(w, Resting("idle", {}))
    /\ UNCHANGED <<peers, outbox, iface, flight, faults>>

Fail(w) ==
    /\ wk[w].pc = "fail"
    /\ outbox' = [outbox EXCEPT ![wk[w].job].status = Failed(wk[w].retryable)]
    /\ Becomes(w, [wk[w] EXCEPT !.pc = "markfailed"])
    /\ UNCHANGED <<peers, operations, iface, flight, faults>>

MarkFailed(w) ==
    /\ wk[w].pc = "markfailed"
    /\ operations' = [operations EXCEPT ![wk[w].job].status = Failed(wk[w].retryable)]
    /\ Becomes(w, Resting("idle", {}))
    /\ UNCHANGED <<peers, outbox, iface, flight, faults>>

Step(w) ==
    \/ \E n \in Nodes : ReconcileNext(w, n)
    \/ \E o \in Ops : Claim(w, o)
    \/ Poll(w)
    \/ Read(w) \/ Sync(w) \/ BringUp(w) \/ Dump(w) \/ Persist(w)
    \/ Complete(w) \/ MarkApplied(w) \/ Fail(w) \/ MarkFailed(w)

-----------------------------------------------------------------------------
(* Faults.                                                                 *)

(* What a SyncConf cut short can leave on an interface: some of the peers  *)
(* to remove may be gone and some of those to add may be there.            *)
Partial(current, rendered) ==
    {s \in SUBSET (current \cup rendered) : current \cap rendered \subseteq s}

(* The effect on the interface of an executor call that w does not see     *)
(* succeed.                                                                *)
Interrupted(w) ==
    LET n == wk[w].node IN
    \/ UNCHANGED iface
    \/ /\ wk[w].pc \in {"sync", "resync"}
       /\ iface[n].up
       /\ \E s \in Partial(iface[n].peers, Rendered(wk[w].snap)) :
             iface' = Carrying(n, s)
    \/ wk[w].pc = "up" /\ iface' = LinkUp(n)

(* An executor call fails: retryable in general, terminal when its message *)
(* reads as a validation error or the platform has no executor             *)
(* (classifyRetryable).                                                    *)
ExecFail(w) ==
    /\ wk[w].pc \in {"sync", "up", "resync", "dump"}
    /\ \/ Fault("exec") /\ ApplyFailed(w, TRUE)
       \/ Fault("reject") /\ ApplyFailed(w, FALSE)
    /\ Interrupted(w)
    /\ UNCHANGED <<peers, operations, outbox, flight>>

(* The node-agent client times out on a syncconf request the agent still   *)
(* holds; the agent applies it later (LateSync).                           *)
Timeout(w) ==
    LET n == wk[w].node IN
    /\ Fault("late")
    /\ wk[w].pc \in {"sync", "resync"}
    /\ flight' = [flight EXCEPT ![n] = @ \cup {Rendered(wk[w].snap)}]
    /\ ApplyFailed(w, TRUE)
    /\ UNCHANGED <<peers, operations, outbox, iface>>

LateSync(n, s) ==
    /\ s \in flight[n]
    /\ flight' = [flight EXCEPT ![n] = @ \ {s}]
    /\ iface' = IF iface[n].up THEN Carrying(n, s) ELSE iface
    /\ UNCHANGED <<peers, operations, outbox, wk, faults>>

(* A database call returns an error.  The statement may have committed     *)
(* before the connection was lost.  Errors of Fail and MarkFailed are      *)
(* dropped; an error of Complete or of Operations.MarkApplied is logged    *)
(* and ends the job.                                                       *)
DbError(w) ==
    /\ Fault("db")
    /\ \/ /\ wk[w].pc = "idle" /\ wk[w].todo # {}
          /\ Becomes(w, [wk[w] EXCEPT !.todo = {}])
          /\ UNCHANGED <<peers, operations, outbox>>
       \/ /\ \E o \in Ops : Selects(w, o) /\ outbox' = Leased(o)
          /\ UNCHANGED <<peers, operations, wk>>
       \/ /\ wk[w].pc = "read"
          /\ ApplyFailed(w, TRUE)
          /\ UNCHANGED <<peers, operations, outbox>>
       \/ /\ wk[w].pc = "persist"
          /\ peers' \in {peers, Persisted(w)}
          /\ ApplyFailed(w, TRUE)
          /\ UNCHANGED <<operations, outbox>>
       \/ /\ wk[w].pc = "complete"
          /\ outbox' \in {outbox, [outbox EXCEPT ![wk[w].job].status = "applied"]}
          /\ Becomes(w, Resting("idle", {}))
          /\ UNCHANGED <<peers, operations>>
       \/ /\ wk[w].pc = "fail"
          /\ Becomes(w, [wk[w] EXCEPT !.pc = "markfailed"])
          /\ UNCHANGED <<peers, operations, outbox>>
       \/ /\ wk[w].pc \in {"markop", "markfailed"}
          /\ Becomes(w, Resting("idle", {}))
          /\ UNCHANGED <<peers, operations, outbox>>
    /\ UNCHANGED <<iface, flight>>

(* A worker process dies, or is told to stop: its context is cancelled, so *)
(* nothing it would still write reaches the database.                      *)
Crash(w) ==
    /\ Fault("crash")
    /\ wk[w].pc # "down"
    /\ Becomes(w, Resting("down", {}))
    /\ Interrupted(w)
    /\ UNCHANGED <<peers, operations, outbox, flight>>

(* The container or host of the all-in-one deployment restarts: workers    *)
(* and interfaces go, the database stays.                                  *)
HostRestart ==
    /\ Fault("restart")
    /\ wk' = [w \in Workers |-> Resting("down", {})]
    /\ iface' = [n \in Nodes |-> LinkDown]
    /\ flight' = [n \in Nodes |-> {}]
    /\ UNCHANGED <<peers, operations, outbox>>

(* An interface disappears under the running workers (nodeagent down, an   *)
(* operator, a kernel module reload).                                      *)
InterfaceDown(n) ==
    /\ Fault("loss")
    /\ iface[n].up
    /\ iface' = [iface EXCEPT ![n] = LinkDown]
    /\ UNCHANGED <<peers, operations, outbox, flight, wk>>

(* leased_until passes.  Nothing renews a lease: one outlived by a worker  *)
(* that is alive and still on the job is a fault.                          *)
LeasePasses(o) ==
    /\ outbox[o].lease
    /\ outbox' = [outbox EXCEPT ![o].lease = FALSE]
    /\ UNCHANGED <<peers, operations, iface, flight, wk>>

LeaseExpire(o) == LeasePasses(o) /\ UNCHANGED faults /\ \A w \in Workers : ~Holds(w, o)

LeaseOutlived(o) == LeasePasses(o) /\ Fault("slow") /\ \E w \in Workers : Holds(w, o)

-----------------------------------------------------------------------------
Next ==
    \/ \E p \in Peers, n \in Nodes, o \in Ops : CreatePeer(p, n, o)
    \/ \E p \in Peers, o \in Ops : RevokePeer(p, o)
    \/ \E w \in Workers :
          Start(w) \/ Step(w) \/ ExecFail(w) \/ Timeout(w) \/ DbError(w) \/ Crash(w)
    \/ \E n \in Nodes : InterfaceDown(n) \/ \E s \in SUBSET Peers : LateSync(n, s)
    \/ \E o \in Ops : LeaseExpire(o) \/ LeaseOutlived(o)
    \/ HostRestart

Spec == Init /\ [][Next]_vars

(* A worker that can move does, a stopped one is started again (restart    *)
(* policy of the deployment), and time passes for leases nobody works      *)
(* under.                                                                  *)
Fairness ==
    /\ \A w \in Workers : WF_vars(Start(w)) /\ WF_vars(Step(w))
    /\ \A o \in Ops : WF_vars(LeaseExpire(o))

FairSpec == Spec /\ Fairness

-----------------------------------------------------------------------------
(* Safety.                                                                 *)

OpPeer(o) == peers[operations[o].peer]

(* What the API reports of an operation is backed by the peer row: once an *)
(* operation, or its job, is 'applied', the row's applied revision has     *)
(* reached the revision the operation asked for and the row is no longer   *)
(* 'pending'.  Jobs are completed after persistRuntime has committed a     *)
(* snapshot read after the job was claimed (processJob, applyNode); stale  *)
(* workers, retries and crashes must not break this.                       *)
AppliedOpsArePersisted ==
    \A o \in Ops :
        "applied" \in {operations[o].status, outbox[o].status} =>
            /\ OpPeer(o).applied >= operations[o].rev
            /\ OpPeer(o).state # "pending"

(* A peer row never claims to have applied more than was desired, and is   *)
(* 'active' only after its first revision was applied (Peers.MarkApplied   *)
(* with revisions from possibly old snapshots).                            *)
AppliedBounded ==
    \A p \in Peers :
        /\ peers[p].applied <= peers[p].desired
        /\ peers[p].state = "active" => peers[p].applied >= 1

(* Once a revoke is reported applied the peer is off its interface, and    *)
(* peer_runtime says so, for good: no later apply, retry, restart or       *)
(* half-done call brings it back.  (A revoke writes revision 2 or more.)   *)
RevokedGone ==
    \A o \in Ops :
        operations[o].status = "applied" /\ operations[o].rev > 1 =>
            /\ operations[o].peer \notin iface[OpPeer(o).node].peers
            /\ ~OpPeer(o).present

(* While no worker outlives its lease, FOR UPDATE SKIP LOCKED and the      *)
(* lease keep two workers from applying or completing the same job.        *)
NoDoubleWork ==
    \A v, w \in Workers :
        /\ wk[v].job # None /\ wk[v].job = wk[w].job
        /\ {wk[v].pc, wk[w].pc} \cap {"markop", "markfailed"} = {}
        => v = w

(* A step never revives a revoked row, moves a row back to 'pending' or    *)
(* lowers one of its revisions, whatever old snapshot it persists          *)
(* (MarkRevoked, Peers.MarkApplied with GREATEST and CASE).                *)
RowsMoveForward ==
    [][\A p \in Peers :
          /\ peers[p].state = "revoked" => peers'[p].state = "revoked"
          /\ peers[p].state = "active" => peers'[p].state # "pending"
          /\ peers'[p].applied >= peers[p].applied
          /\ peers'[p].desired >= peers[p].desired]_vars

(* A polled operation that says 'applied' or 'failed_terminal' says so for *)
(* ever: a client may stop polling (processJob settles the job before the  *)
(* operation, so that no retry follows).                                   *)
VerdictIsFinal ==
    [][\A o \in Ops :
          operations[o].status \in {"applied", "failed_terminal"} =>
              operations'[o].status = operations[o].status]_vars

-----------------------------------------------------------------------------
(* Liveness.                                                               *)

(* Every job ends: a crash, a lost lease, an error or a restart delays it  *)
(* but never strands it (ClaimNext takes up failed and expired jobs).      *)
JobsSettle ==
    \A o \in Ops :
        outbox[o].status # "none" ~> outbox[o].status \in {"applied", "failed_terminal"}

(* A client that polls its operation sees a verdict in the end, however    *)
(* applies fail, as long as workers live and the database answers          *)
(* (processJob: Complete or Fail, then Operations.MarkApplied or           *)
(* MarkFailed).                                                            *)
OperationsSettle ==
    faults.kinds \subseteq {"loss", "exec", "reject"} =>
        \A o \in Ops :
            operations[o].status # "none" ~>
                operations[o].status \in {"applied", "failed_terminal"}

Live(n) == {p \in Peers : peers[p].node = n /\ peers[p].state \in {"pending", "active"}}

(* When requests and crashes are over, every node's interface ends up with *)
(* exactly the live peers, and stays so: ReconcileAll restores what a      *)
(* restart has lost even when no job is left.                              *)
Converges ==
    faults.kinds \subseteq {"crash", "restart"} =>
        \A n \in Nodes : <>[](iface[n] = [up |-> TRUE, peers |-> Live(n)])

=============================================================================
