------------------------- MODULE ControlPlaneProofs -------------------------
(***************************************************************************)
(* Machine-checked proofs about ControlPlane, for any number of peers,     *)
(* nodes, workers, operations and faults.                                  *)
(***************************************************************************)
EXTENDS ControlPlane, TLAPS

-----------------------------------------------------------------------------
(* The inductive invariant.                                                *)

(* A row that exists belongs to a node, was desired at least once, and has *)
(* applied no more than was desired.                                       *)
RowSound(p) ==
    /\ peers[p].state = "absent" => peers[p] = NoPeerRow
    /\ peers[p].state # "absent" => peers[p].node \in Nodes /\ peers[p].desired >= 1
    /\ peers[p].applied <= peers[p].desired
    /\ peers[p].state = "active" => peers[p].applied >= 1

(* An operation and its job are inserted together, for a row whose desired *)
(* revision has reached theirs.                                            *)
OpSound(o) ==
    /\ operations[o].status = "none" <=> outbox[o].status = "none"
    /\ operations[o].status # "none" =>
          /\ operations[o].peer \in Peers
          /\ OpPeer(o).state # "absent"
          /\ operations[o].rev <= OpPeer(o).desired

Reached(o) == OpPeer(o).applied >= operations[o].rev /\ OpPeer(o).state # "pending"

Applying == {"sync", "up", "resync", "dump", "persist"}
Settling == {"complete", "markop", "fail", "markfailed"}

(* A snapshot lists rows that exist, at a revision they have had.          *)
SnapSound(snap) ==
    \A p \in Peers :
        snap[p].state # "absent" =>
            /\ peers[p].state # "absent"
            /\ snap[p].desired >= 1 /\ snap[p].desired <= peers[p].desired

(* A worker past Read holds a snapshot that covers its job's revision; one *)
(* past Persist has brought the row there.                                 *)
LocalSound(r) ==
    /\ r.job # None => operations[r.job].status # "none"
    /\ r.pc \in Settling => r.job # None
    /\ r.pc \in {"idle", "down"} => r.job = None
    /\ r.pc \in Applying \cup {"read"} => r.node \in Nodes
    /\ SnapSound(r.snap)
    /\ r.pc = "read" /\ r.job # None => r.node = OpPeer(r.job).node
    /\ r.pc \in Applying /\ r.job # None =>
          /\ r.snap[operations[r.job].peer].state # "absent"
          /\ r.snap[operations[r.job].peer].desired >= operations[r.job].rev
    /\ r.pc \in {"complete", "markop"} => Reached(r.job)

WorkerSound(w) == LocalSound(wk[w])

IInv ==
    /\ TypeOK
    /\ \A p \in Peers : RowSound(p)
    /\ \A o \in Ops : OpSound(o)
    /\ \A w \in Workers : WorkerSound(w)
    /\ AppliedOpsArePersisted

-----------------------------------------------------------------------------
(* Type correctness.                                                       *)

(* A resting worker (Resting) is a worker.                                 *)
LEMMA RestingType ==
    ASSUME NEW phase \in Phase, NEW todo \in SUBSET Nodes
    PROVE  Resting(phase, todo) \in Worker
<1>1. NoSnapshot \in [Peers -> PeerView]
  BY DEF NoSnapshot, NotListed, PeerView, PeerState
<1>. QED
  BY <1>1 DEF Resting, Worker

(* A worker's local state stays one when fields are assigned.              *)
LEMMA WorkerFields ==
    ASSUME NEW r \in Worker, NEW phase \in Phase
    PROVE  /\ [r EXCEPT !.pc = phase] \in Worker
           /\ [r EXCEPT !.todo = {}] \in Worker
           /\ \A n \in Nodes : [r EXCEPT !.pc = phase, !.node = n, !.todo = @ \ {n}] \in Worker
           /\ \A o \in Ops, n \in Nodes \cup {None} :
                 [r EXCEPT !.pc = phase, !.job = o, !.node = n] \in Worker
           /\ \A snap \in [Peers -> PeerView] :
                 [r EXCEPT !.pc = phase, !.snap = snap] \in Worker
           /\ \A seen \in SUBSET Peers : [r EXCEPT !.pc = phase, !.seen = seen] \in Worker
<1>1. [r EXCEPT !.pc = phase] \in Worker /\ [r EXCEPT !.todo = {}] \in Worker
  BY DEF Worker
<1>2. ASSUME NEW n \in Nodes
      PROVE  [r EXCEPT !.pc = phase, !.node = n, !.todo = @ \ {n}] \in Worker
  BY DEF Worker
<1>3. ASSUME NEW o \in Ops, NEW n \in Nodes \cup {None}
      PROVE  [r EXCEPT !.pc = phase, !.job = o, !.node = n] \in Worker
  BY DEF Worker
<1>4. ASSUME NEW snap \in [Peers -> PeerView]
      PROVE  [r EXCEPT !.pc = phase, !.snap = snap] \in Worker
  BY DEF Worker
<1>5. ASSUME NEW seen \in SUBSET Peers
      PROVE  [r EXCEPT !.pc = phase, !.seen = seen] \in Worker
  BY DEF Worker
<1>. QED
  BY <1>1, <1>2, <1>3, <1>4, <1>5

(* A step of a worker changes the local state of that worker only.         *)
LEMMA BecomesLocal ==
    ASSUME TypeOK, NEW w \in Workers, NEW local \in Worker, Becomes(w, local)
    PROVE  /\ wk' \in [Workers -> Worker]
           /\ wk'[w] = local
           /\ \A v \in Workers : v # w => wk'[v] = wk[v]
BY DEF Becomes, TypeOK

(* The local state in which applyNode returns (ApplyReturns).              *)
Returned(w, phase, r) ==
    IF wk[w].job = None
    THEN Resting("idle", wk[w].todo)
    ELSE [Resting(phase, {}) EXCEPT !.job = wk[w].job, !.retryable = r]

(* The local state in which applyNode leaves a worker (ApplyReturns) is a  *)
(* worker.                                                                 *)
LEMMA ReturnedType ==
    ASSUME TypeOK, NEW w \in Workers, NEW phase \in Phase, NEW r \in BOOLEAN
    PROVE  Returned(w, phase, r) \in Worker
<1>1. wk[w] \in Worker
  BY DEF TypeOK
<1>2. /\ wk[w].job \in Ops \cup {None}
      /\ wk[w].todo \in SUBSET Nodes
  BY <1>1 DEF Worker
<1>3. Resting("idle", wk[w].todo) \in Worker
  BY <1>2, RestingType DEF Phase
<1>4. Resting(phase, {}) \in Worker
  BY RestingType
<1>5. [Resting(phase, {}) EXCEPT !.job = wk[w].job, !.retryable = r] \in Worker
  BY <1>2, <1>4 DEF Worker
<1>. QED
  BY <1>3, <1>5 DEF Returned

(* So wk keeps its type when applyNode returns.                            *)
LEMMA ApplyReturnsType ==
    ASSUME TypeOK, NEW w \in Workers, NEW phase \in Phase, NEW r \in BOOLEAN,
           ApplyReturns(w, phase, r)
    PROVE  wk' \in [Workers -> Worker]
BY ReturnedType, BecomesLocal DEF ApplyReturns, Returned

(* What applyNode reads (View) and renders, and what persistRuntime writes *)
(* (Persisted), are well typed.                                            *)
LEMMA ViewType ==
    ASSUME TypeOK, NEW n
    PROVE  View(n) \in [Peers -> PeerView]
<1>1. NotListed \in PeerView
  BY DEF NotListed, PeerView, PeerState
<1>2. ASSUME NEW p \in Peers
      PROVE  [state |-> peers[p].state, desired |-> peers[p].desired] \in PeerView
  BY DEF TypeOK, PeerRow, PeerView
<1>. QED
  BY <1>1, <1>2 DEF View

(* persistRuntime leaves well-typed rows.                                  *)
LEMMA PersistedType ==
    ASSUME TypeOK, NEW w \in Workers
    PROVE  Persisted(w) \in [Peers -> PeerRow]
<1>1. ASSUME NEW p \in Peers
      PROVE  MarkedApplied(peers[p], wk[w].snap[p].desired, p \in wk[w].seen) \in PeerRow
  <2>1. peers[p] \in PeerRow
    BY DEF TypeOK
  <2>2. wk[w].snap[p].desired \in Nat
    BY DEF TypeOK, Worker, PeerView
  <2>3. (p \in wk[w].seen) \in BOOLEAN
    OBVIOUS
  <2>. QED
    BY <2>1, <2>2, <2>3 DEF MarkedApplied, PeerRow, PeerState
<1>. QED
  BY <1>1 DEF Persisted, TypeOK

(* The empty database and stopped workers are well typed.                  *)
LEMMA TypeInit == Init => TypeOK
<1>. SUFFICES ASSUME Init PROVE TypeOK
  OBVIOUS
<1>1. peers \in [Peers -> PeerRow]
  BY DEF Init, NoPeerRow, PeerRow, PeerState
<1>2. operations \in [Ops -> Operation]
  BY DEF Init, Operation, OperationStatus
<1>3. outbox \in [Ops -> Job]
  BY DEF Init, Job, JobStatus, OperationStatus
<1>4. iface \in [Nodes -> Interface]
  BY DEF Init, LinkDown, Interface
<1>5. wk \in [Workers -> Worker]
  BY RestingType DEF Init, Phase
<1>. QED
  BY <1>1, <1>2, <1>3, <1>4, <1>5, FaultAssumption DEF Init, TypeOK

(* The operation and the job that an API transaction inserts are well      *)
(* typed.                                                                  *)
LEMMA EnqueueType ==
    ASSUME TypeOK, NEW o \in Ops, NEW p \in Peers, NEW rev \in Nat, Enqueue(o, p, rev)
    PROVE  operations' \in [Ops -> Operation] /\ outbox' \in [Ops -> Job]
BY DEF TypeOK, Enqueue, InsertOperation, InsertJob, Operation, OperationStatus, Job, JobStatus

(* A job whose outcome is written is a job (Outbox.Complete, Fail).        *)
LEMMA OutcomeType ==
    ASSUME TypeOK, NEW o, NEW st \in {"applied", "failed_retryable", "failed_terminal"}
    PROVE  [outbox EXCEPT ![o].status = st] \in [Ops -> Job]
<1>1. outbox \in [Ops -> Job]
  BY DEF TypeOK
<1>2. ASSUME NEW j \in Job PROVE [j EXCEPT !.status = st] \in Job
  BY DEF Job, JobStatus, OperationStatus
<1>. QED
  BY <1>1, <1>2

(* SyncConf and InterfaceUp leave a well-typed interface.                  *)
LEMMA CarryingType ==
    ASSUME TypeOK, NEW n \in Nodes, NEW ps \in SUBSET Peers
    PROVE  Carrying(n, ps) \in [Nodes -> Interface]
BY DEF Carrying, TypeOK, Interface

(* An executor call cut short leaves a well-typed interface.               *)
LEMMA InterruptedType ==
    ASSUME TypeOK, NEW w \in Workers, WorkerSound(w), Interrupted(w)
    PROVE  iface' \in [Nodes -> Interface]
<1>. DEFINE n == wk[w].node
<1>1. CASE UNCHANGED iface
  BY <1>1 DEF TypeOK
<1>2. ASSUME NEW s \in Partial(iface[n].peers, Rendered(wk[w].snap)), n \in Nodes,
             iface' = Carrying(n, s)
      PROVE  iface' \in [Nodes -> Interface]
  <2>1. iface[n].peers \subseteq Peers
    BY <1>2 DEF TypeOK, Interface
  <2>2. s \subseteq Peers
    BY <2>1 DEF Partial, Rendered
  <2>. QED
    BY <1>2, <2>2, CarryingType
<1>3. CASE iface' = LinkUp(n) /\ n \in Nodes
  BY <1>3, CarryingType DEF TypeOK, LinkUp
<1>4. wk[w].pc \in {"sync", "resync", "up"} => n \in Nodes
  BY DEF WorkerSound, LocalSound, Applying
<1>. QED
  BY <1>1, <1>2, <1>3, <1>4 DEF Interrupted

(* A fault leaves a number of faults of the same kinds.                    *)
LEMMA FaultType ==
    ASSUME TypeOK, NEW k, Fault(k)
    PROVE  faults' \in Regime
BY DEF TypeOK, Fault, Regime

(* Every step keeps every variable in its type.  Claim follows a job to    *)
(* its peer's node and applyNode works on a node, so this needs the rows   *)
(* that jobs and workers refer to.                                         *)
LEMMA TypeNext ==
    ASSUME TypeOK, \A o \in Ops : OpSound(o), \A w \in Workers : WorkerSound(w), [Next]_vars
    PROVE  TypeOK'
<1>rest. ASSUME NEW phase \in Phase, NEW todo \in SUBSET Nodes, NEW w \in Workers,
                Becomes(w, Resting(phase, todo))
         PROVE  wk' \in [Workers -> Worker]
  BY <1>rest, RestingType, BecomesLocal
<1>fail. ASSUME NEW w \in Workers, NEW r \in BOOLEAN, ApplyFailed(w, r)
         PROVE  wk' \in [Workers -> Worker]
  BY <1>fail, ApplyReturnsType DEF ApplyFailed, Phase
<1>pc. ASSUME NEW w \in Workers, NEW phase \in Phase, Becomes(w, [wk[w] EXCEPT !.pc = phase])
       PROVE  wk' \in [Workers -> Worker]
  <2>1. [wk[w] EXCEPT !.pc = phase] \in Worker
    BY DEF TypeOK, Worker
  <2>. QED
    BY <1>pc, <2>1, BecomesLocal
<1>node. ASSUME NEW w \in Workers, wk[w].pc \in Applying \cup {"read"}
         PROVE  wk[w].node \in Nodes
  BY <1>node DEF WorkerSound, LocalSound
<1>1. ASSUME NEW p \in Peers, NEW n \in Nodes, NEW o \in Ops, CreatePeer(p, n, o)
      PROVE  TypeOK'
  <2>1. peers' \in [Peers -> PeerRow]
    BY <1>1 DEF CreatePeer, InsertedRow, TypeOK, PeerRow, PeerState
  <2>. QED
    BY <1>1, <2>1, EnqueueType DEF CreatePeer, TypeOK
<1>2. ASSUME NEW p \in Peers, NEW o \in Ops, RevokePeer(p, o)
      PROVE  TypeOK'
  <2>1. peers' \in [Peers -> PeerRow] /\ peers[p].desired + 1 \in Nat
    <3>1. ASSUME NEW row \in PeerRow
          PROVE  MarkedRevoked(row) \in PeerRow
      <4>1. row.desired + 1 \in Nat
        BY DEF PeerRow
      <4>2. MarkedRevoked(row) = [row EXCEPT !.state = "revoked", !.desired = row.desired + 1]
        BY DEF MarkedRevoked, PeerRow
      <4>3. ASSUME NEW d \in Nat
            PROVE  [row EXCEPT !.state = "revoked", !.desired = d] \in PeerRow
        BY DEF PeerRow, PeerState
      <4>. QED
        BY <4>1, <4>2, <4>3
    <3>2. peers[p] \in PeerRow /\ peers[p].desired + 1 \in Nat
      BY DEF TypeOK, PeerRow
    <3>. QED
      BY <1>2, <3>1, <3>2 DEF RevokePeer, TypeOK
  <2>. QED
    BY <1>2, <2>1, EnqueueType DEF RevokePeer, TypeOK
<1>3. ASSUME NEW w \in Workers, Start(w)
      PROVE  TypeOK'
  BY <1>3, <1>rest, ReconcileAssumption DEF Start, TypeOK, Phase
<1>4. ASSUME NEW w \in Workers, NEW n \in Nodes, ReconcileNext(w, n)
      PROVE  TypeOK'
  <2>1. [wk[w] EXCEPT !.pc = "read", !.node = n, !.todo = @ \ {n}] \in Worker
    <3>1. wk[w] \in Worker
      BY DEF TypeOK
    <3>. QED
      BY <3>1, WorkerFields DEF Phase
  <2>. QED
    BY <1>4, <2>1, BecomesLocal DEF ReconcileNext, TypeOK
<1>5. ASSUME NEW w \in Workers, NEW o \in Ops, Claim(w, o)
      PROVE  TypeOK'
  <2>1. outbox[o].status # "none"
    BY <1>5 DEF Claim, Selects, Claimable
  <2>2. peers[operations[o].peer].node \in Nodes \cup {None}
    BY <2>1 DEF OpSound, TypeOK, PeerRow
  <2>3. [wk[w] EXCEPT !.pc = "read", !.job = o,
                      !.node = peers[operations[o].peer].node] \in Worker
    BY <2>2, WorkerFields DEF TypeOK, Phase
  <2>4. outbox' \in [Ops -> Job]
    BY <1>5 DEF Claim, Leased, TypeOK, Job, JobStatus
  <2>. QED
    BY <1>5, <2>3, <2>4, BecomesLocal DEF Claim, TypeOK
<1>6. ASSUME NEW w \in Workers, Read(w)
      PROVE  TypeOK'
  <2>1. View(wk[w].node) \in [Peers -> PeerView]
    BY ViewType
  <2>2. [wk[w] EXCEPT !.pc = "sync", !.snap = View(wk[w].node)] \in Worker
    BY <2>1, WorkerFields DEF TypeOK, Phase
  <2>. QED
    BY <1>6, <2>2, BecomesLocal DEF Read, TypeOK
<1>7. ASSUME NEW w \in Workers, Sync(w)
      PROVE  TypeOK'
  <2>1. iface' \in [Nodes -> Interface]
    <3>1. Rendered(wk[w].snap) \subseteq Peers /\ wk[w].node \in Nodes
      BY <1>7, <1>node DEF Rendered, Sync, Applying
    <3>2. Carrying(wk[w].node, Rendered(wk[w].snap)) \in [Nodes -> Interface]
      BY <3>1, CarryingType
    <3>. QED
      BY <1>7, <3>2 DEF Sync, TypeOK
  <2>2. wk' \in [Workers -> Worker]
    BY <1>7, <1>pc, <1>fail DEF Sync, Phase
  <2>. QED
    BY <1>7, <2>1, <2>2 DEF Sync, TypeOK
<1>8. ASSUME NEW w \in Workers, BringUp(w)
      PROVE  TypeOK'
  <2>1. iface' \in [Nodes -> Interface]
    BY <1>8, <1>node, CarryingType DEF BringUp, LinkUp, TypeOK, Applying
  <2>. QED
    BY <1>8, <2>1, <1>pc DEF BringUp, TypeOK, Phase
<1>9. ASSUME NEW w \in Workers, Dump(w)
      PROVE  TypeOK'
  <2>1. iface[wk[w].node].peers \in SUBSET Peers
    BY <1>9, <1>node DEF Dump, TypeOK, Interface, Applying
  <2>2. [wk[w] EXCEPT !.pc = "persist", !.seen = iface[wk[w].node].peers] \in Worker
    BY <2>1, WorkerFields DEF TypeOK, Phase
  <2>. QED
    BY <1>9, <2>2, <1>fail, BecomesLocal DEF Dump, TypeOK
<1>10. ASSUME NEW w \in Workers, Persist(w)
       PROVE  TypeOK'
  BY <1>10, PersistedType, ApplyReturnsType DEF Persist, TypeOK, Phase
<1>11. ASSUME NEW w \in Workers, Complete(w) \/ Fail(w)
       PROVE  TypeOK'
  <2>1. outbox' \in [Ops -> Job]
    <3>1. CASE outbox' = [outbox EXCEPT ![wk[w].job].status = "applied"]
      BY <3>1, OutcomeType
    <3>2. CASE outbox' = [outbox EXCEPT ![wk[w].job].status = Failed(wk[w].retryable)]
      <4>1. Failed(wk[w].retryable) \in {"applied", "failed_retryable", "failed_terminal"}
        BY DEF Failed
      <4>. QED
        BY <3>2, <4>1, OutcomeType
    <3>. QED
      BY <1>11, <3>1, <3>2 DEF Complete, Fail
  <2>. QED
    BY <1>11, <2>1, <1>pc DEF Complete, Fail, TypeOK, Phase
<1>12. ASSUME NEW w \in Workers, MarkApplied(w) \/ MarkFailed(w)
       PROVE  TypeOK'
  <2>1. operations' \in [Ops -> Operation]
    BY <1>12 DEF MarkApplied, MarkFailed, Failed, TypeOK, Operation, OperationStatus
  <2>. QED
    BY <1>12, <2>1, <1>rest DEF MarkApplied, MarkFailed, TypeOK, Phase
<1>13. ASSUME NEW w \in Workers, ExecFail(w)
       PROVE  TypeOK'
  BY <1>13, <1>fail, InterruptedType, FaultType DEF ExecFail, TypeOK
<1>14. ASSUME NEW w \in Workers, Timeout(w)
       PROVE  TypeOK'
  <2>1. flight' \in [Nodes -> SUBSET SUBSET Peers]
    BY <1>14 DEF Timeout, TypeOK, Rendered
  <2>. QED
    BY <1>14, <2>1, <1>fail, FaultType DEF Timeout, TypeOK
<1>15. ASSUME NEW w \in Workers, DbError(w)
       PROVE  TypeOK'
  <2>1. peers' \in [Peers -> PeerRow]
    BY <1>15, PersistedType DEF DbError, TypeOK
  <2>2. outbox' \in [Ops -> Job]
    <3>1. ASSUME NEW o \in Ops
          PROVE  Leased(o) \in [Ops -> Job]
      BY DEF Leased, TypeOK, Job, JobStatus
    <3>2. [outbox EXCEPT ![wk[w].job].status = "applied"] \in [Ops -> Job]
      BY OutcomeType
    <3>. QED
      BY <1>15, <3>1, <3>2 DEF DbError, TypeOK
  <2>3. wk' \in [Workers -> Worker]
    <3>1. [wk[w] EXCEPT !.todo = {}] \in Worker
      BY DEF TypeOK, Worker
    <3>. QED
      BY <1>15, <3>1, <1>pc, <1>fail, <1>rest, BecomesLocal DEF DbError, TypeOK, Phase
  <2>. QED
    BY <1>15, <2>1, <2>2, <2>3, FaultType DEF DbError, TypeOK
<1>16. ASSUME NEW w \in Workers, Crash(w)
       PROVE  TypeOK'
  BY <1>16, <1>rest, InterruptedType, FaultType DEF Crash, TypeOK, Phase
<1>17. CASE HostRestart
  <2>1. wk' \in [Workers -> Worker]
    BY <1>17, RestingType DEF HostRestart, Phase
  <2>. QED
    BY <1>17, <2>1, FaultType DEF HostRestart, TypeOK, LinkDown, Interface
<1>18. ASSUME NEW n \in Nodes, InterfaceDown(n)
       PROVE  TypeOK'
  BY <1>18, FaultType DEF InterfaceDown, TypeOK, LinkDown, Interface
<1>19. ASSUME NEW n \in Nodes, NEW s \in SUBSET Peers, LateSync(n, s)
       PROVE  TypeOK'
  BY <1>19, CarryingType DEF LateSync, TypeOK
<1>20. ASSUME NEW o \in Ops, LeaseExpire(o) \/ LeaseOutlived(o)
       PROVE  TypeOK'
  <2>1. outbox' \in [Ops -> Job]
    BY <1>20 DEF LeaseExpire, LeaseOutlived, LeasePasses, TypeOK, Job
  <2>. QED
    BY <1>20, <2>1, FaultType DEF LeaseExpire, LeaseOutlived, LeasePasses, TypeOK
<1>21. CASE UNCHANGED vars
  BY <1>21 DEF vars, TypeOK
<1>. QED
  BY <1>1, <1>2, <1>3, <1>4, <1>5, <1>6, <1>7, <1>8, <1>9, <1>10, <1>11, <1>12,
     <1>13, <1>14, <1>15, <1>16, <1>17, <1>18, <1>19, <1>20, <1>21
     DEF Next, Step, Poll

-----------------------------------------------------------------------------
(* Rows only move forward.                                                 *)

Grow(p) ==
    /\ peers'[p].desired >= peers[p].desired
    /\ peers'[p].applied >= peers[p].applied
    /\ peers[p].state # "absent" =>
          /\ peers'[p].state # "absent"
          /\ peers'[p].node = peers[p].node
          /\ peers'[p].state = "pending" => peers[p].state = "pending"
          /\ peers[p].state = "revoked" => peers'[p].state = "revoked"

(* An operation that exists keeps its peer and its revision.               *)
Kept(o) ==
    operations[o].status # "none" =>
        /\ operations'[o].status # "none"
        /\ operations'[o].peer = operations[o].peer
        /\ operations'[o].rev = operations[o].rev

(* Only the two API transactions and persistRuntime write peer rows.       *)
LEMMA PeerWriters ==
    ASSUME [Next]_vars
    PROVE  \/ \E p \in Peers, n \in Nodes, o \in Ops : CreatePeer(p, n, o)
           \/ \E p \in Peers, o \in Ops : RevokePeer(p, o)
           \/ \E w \in Workers : wk[w].pc = "persist" /\ peers' = Persisted(w)
                                 /\ UNCHANGED operations
           \/ UNCHANGED peers
<1>1. ASSUME NEW w \in Workers, Step(w)
      PROVE  (wk[w].pc = "persist" /\ peers' = Persisted(w) /\ UNCHANGED operations)
             \/ UNCHANGED peers
  BY <1>1 DEF Step, ReconcileNext, Claim, Poll, Read, Sync, BringUp, Dump, Persist, Complete,
              MarkApplied, Fail, MarkFailed, vars
<1>2. ASSUME NEW w \in Workers,
             Start(w) \/ ExecFail(w) \/ Timeout(w) \/ DbError(w) \/ Crash(w)
      PROVE  (wk[w].pc = "persist" /\ peers' = Persisted(w) /\ UNCHANGED operations)
             \/ UNCHANGED peers
  BY <1>2 DEF Start, ExecFail, Timeout, DbError, Crash
<1>3. ASSUME NEW n \in Nodes, InterfaceDown(n) \/ \E s \in SUBSET Peers : LateSync(n, s)
      PROVE  UNCHANGED peers
  BY <1>3 DEF InterfaceDown, LateSync
<1>4. ASSUME NEW o \in Ops, LeaseExpire(o) \/ LeaseOutlived(o)
      PROVE  UNCHANGED peers
  BY <1>4 DEF LeaseExpire, LeaseOutlived, LeasePasses
<1>5. HostRestart => UNCHANGED peers
  BY DEF HostRestart
<1>6. UNCHANGED vars => UNCHANGED peers
  BY DEF vars
<1>. QED
  BY <1>1, <1>2, <1>3, <1>4, <1>5, <1>6 DEF Next

(* What persistRuntime does to a row: the snapshot's revision is reached   *)
(* (GREATEST), and 'pending' becomes 'active', if the snapshot lists it.   *)
LEMMA PersistedRow ==
    ASSUME TypeOK, NEW w \in Workers, NEW p \in Peers
    PROVE  LET new == Persisted(w)[p]
               view == wk[w].snap[p]
           IN  /\ new.desired = peers[p].desired
               /\ new.node = peers[p].node
               /\ view.state = "absent" => new = peers[p]
               /\ view.state # "absent" =>
                     /\ new.applied >= view.desired
                     /\ new.applied >= peers[p].applied
                     /\ new.applied \in {view.desired, peers[p].applied}
                     /\ new.state = IF peers[p].state = "pending" THEN "active"
                                                                 ELSE peers[p].state
                     /\ new.present = (p \in wk[w].seen)
<1>1. peers[p] \in PeerRow /\ wk[w].snap[p].desired \in Nat
  BY DEF TypeOK, Worker, PeerView
<1>2. CASE wk[w].snap[p].state = "absent"
  BY <1>2 DEF Persisted, Listed
<1>3. CASE wk[w].snap[p].state # "absent"
  <2>1. Persisted(w)[p] = MarkedApplied(peers[p], wk[w].snap[p].desired, p \in wk[w].seen)
    BY <1>3 DEF Persisted, Listed
  <2>2. ASSUME NEW row \in PeerRow, NEW rev \in Nat, NEW present
        PROVE  LET new == MarkedApplied(row, rev, present)
               IN  /\ new.desired = row.desired
                   /\ new.node = row.node
                   /\ new.applied >= rev /\ new.applied >= row.applied
                   /\ new.applied \in {rev, row.applied}
                   /\ new.state = IF row.state = "pending" THEN "active" ELSE row.state
                   /\ new.present = present
    BY DEF MarkedApplied, PeerRow
  <2>3. PICK present : present = (p \in wk[w].seen)
    OBVIOUS
  <2>4. Persisted(w)[p] = MarkedApplied(peers[p], wk[w].snap[p].desired, present)
    BY <2>1, <2>3
  <2>. QED
    BY <1>1, <1>3, <2>2, <2>3, <2>4
<1>. QED
  BY <1>2, <1>3

(* Rows only grow: revisions do not go down, and no row goes back to       *)
(* 'pending' or to not being there (MarkRevoked, Peers.MarkApplied).       *)
LEMMA Grows ==
    ASSUME TypeOK, \A p \in Peers : RowSound(p), [Next]_vars
    PROVE  \A p \in Peers : Grow(p)
<1>. SUFFICES ASSUME NEW p \in Peers PROVE Grow(p)
  OBVIOUS
<1>0. peers[p] \in PeerRow
  BY DEF TypeOK
<1>1. ASSUME NEW q \in Peers, NEW n \in Nodes, NEW o \in Ops, CreatePeer(q, n, o)
      PROVE  Grow(p)
  BY <1>1, <1>0 DEF CreatePeer, InsertedRow, Grow, TypeOK, RowSound, NoPeerRow, PeerRow
<1>2. ASSUME NEW q \in Peers, NEW o \in Ops, RevokePeer(q, o)
      PROVE  Grow(p)
  BY <1>2, <1>0 DEF RevokePeer, MarkedRevoked, Grow, TypeOK, PeerRow
<1>3. ASSUME NEW w \in Workers, peers' = Persisted(w)
      PROVE  Grow(p)
  BY <1>3, <1>0, PersistedRow DEF Grow, PeerRow, PeerState
<1>4. CASE UNCHANGED peers
  BY <1>4, <1>0 DEF Grow, PeerRow
<1>. QED
  BY <1>1, <1>2, <1>3, <1>4, PeerWriters

-----------------------------------------------------------------------------
(* Operations and jobs.                                                    *)

(* Every write to the operations and outbox tables: an insertion of both,  *)
(* or the update of one status.                                            *)
StatusWrite(o) ==
    \/ /\ outbox[o].status # "none"
       /\ UNCHANGED operations
       /\ outbox' = Leased(o)
    \/ \E w \in Workers :
          /\ wk[w].job = o
          /\ wk[w].pc \in Settling
          /\ \/ /\ UNCHANGED operations
                /\ \E st \in {"applied", "failed_retryable", "failed_terminal"} :
                      /\ st = "applied" => wk[w].pc = "complete"
                      /\ outbox' = [outbox EXCEPT ![o].status = st]
             \/ /\ UNCHANGED outbox
                /\ \E st \in {"applied", "failed_retryable", "failed_terminal"} :
                      /\ st = "applied" => wk[w].pc = "markop"
                      /\ operations' = [operations EXCEPT ![o].status = st]
    \/ UNCHANGED operations /\ outbox' = [outbox EXCEPT ![o].lease = FALSE]

(* A step writes the operation and outbox tables in one of the listed ways. *)
LEMMA TableWriters ==
    ASSUME TypeOK, \A w \in Workers : WorkerSound(w), [Next]_vars
    PROVE  \/ \E p \in Peers, n \in Nodes, o \in Ops : CreatePeer(p, n, o)
           \/ \E p \in Peers, o \in Ops : RevokePeer(p, o)
           \/ \E o \in Ops : StatusWrite(o)
           \/ UNCHANGED <<operations, outbox>>
<1>job. ASSUME NEW w \in Workers, wk[w].pc \in Settling
        PROVE  wk[w].job \in Ops
  BY <1>job DEF WorkerSound, LocalSound, TypeOK, Worker
<1>failed. ASSUME NEW r \in BOOLEAN
           PROVE  Failed(r) \in {"failed_retryable", "failed_terminal"}
  BY DEF Failed
<1>1. ASSUME NEW w \in Workers, NEW o \in Ops, Selects(w, o), outbox' = Leased(o),
             UNCHANGED operations
      PROVE  StatusWrite(o)
  BY <1>1 DEF Selects, Claimable, StatusWrite
<1>2. ASSUME NEW w \in Workers, Complete(w) \/ Fail(w)
      PROVE  \E o \in Ops : StatusWrite(o)
  <2>1. wk[w].job \in Ops /\ wk[w].pc \in Settling /\ wk[w].retryable \in BOOLEAN
    BY <1>2, <1>job DEF Complete, Fail, Settling, TypeOK, Worker
  <2>. QED
    BY <1>2, <2>1, <1>failed DEF Complete, Fail, StatusWrite
<1>3. ASSUME NEW w \in Workers, MarkApplied(w) \/ MarkFailed(w)
      PROVE  \E o \in Ops : StatusWrite(o)
  <2>1. wk[w].job \in Ops /\ wk[w].pc \in Settling /\ wk[w].retryable \in BOOLEAN
    BY <1>3, <1>job DEF MarkApplied, MarkFailed, Settling, TypeOK, Worker
  <2>. QED
    BY <1>3, <2>1, <1>failed DEF MarkApplied, MarkFailed, StatusWrite
<1>4. ASSUME NEW w \in Workers, DbError(w)
      PROVE  (\E o \in Ops : StatusWrite(o)) \/ UNCHANGED <<operations, outbox>>
  <2>1. ASSUME wk[w].pc = "complete", UNCHANGED operations,
               outbox' = [outbox EXCEPT ![wk[w].job].status = "applied"]
        PROVE  \E o \in Ops : StatusWrite(o)
    <3>1. wk[w].job \in Ops /\ wk[w].pc \in Settling
      BY <2>1, <1>job DEF Settling
    <3>. QED
      BY <2>1, <3>1 DEF StatusWrite
  <2>. QED
    BY <1>4, <1>1, <2>1 DEF DbError
<1>5. ASSUME NEW w \in Workers, NEW o \in Ops, Claim(w, o)
      PROVE  StatusWrite(o)
  BY <1>5, <1>1 DEF Claim
<1>6. ASSUME NEW o \in Ops, LeaseExpire(o) \/ LeaseOutlived(o)
      PROVE  StatusWrite(o)
  BY <1>6 DEF LeaseExpire, LeaseOutlived, LeasePasses, StatusWrite
<1>7. ASSUME NEW w \in Workers, Step(w)
      PROVE  (\E o \in Ops : StatusWrite(o)) \/ UNCHANGED <<operations, outbox>>
  BY <1>7, <1>2, <1>3, <1>5
     DEF Step, ReconcileNext, Poll, Read, Sync, BringUp, Dump, Persist, vars
<1>8. ASSUME NEW w \in Workers, Start(w) \/ ExecFail(w) \/ Timeout(w) \/ Crash(w)
      PROVE  UNCHANGED <<operations, outbox>>
  BY <1>8 DEF Start, ExecFail, Timeout, Crash
<1>9. ASSUME NEW n \in Nodes, InterfaceDown(n) \/ \E s \in SUBSET Peers : LateSync(n, s)
      PROVE  UNCHANGED <<operations, outbox>>
  BY <1>9 DEF InterfaceDown, LateSync
<1>10. HostRestart \/ UNCHANGED vars => UNCHANGED <<operations, outbox>>
  BY DEF HostRestart, vars
<1>. QED
  BY <1>4, <1>6, <1>7, <1>8, <1>9, <1>10 DEF Next

(* Existing operations keep their identity.                                *)
LEMMA Keeps ==
    ASSUME TypeOK, \A w \in Workers : WorkerSound(w), [Next]_vars
    PROVE  \A o \in Ops : Kept(o)
<1>. SUFFICES ASSUME NEW o \in Ops PROVE Kept(o)
  OBVIOUS
<1>1. ASSUME NEW p \in Peers, NEW rev, NEW q \in Ops, Enqueue(q, p, rev)
      PROVE  Kept(o)
  BY <1>1 DEF Enqueue, InsertOperation, InsertJob, Kept, TypeOK, Operation
<1>2. ASSUME NEW q \in Ops, StatusWrite(q)
      PROVE  Kept(o)
  <2>1. CASE UNCHANGED operations
    BY <2>1 DEF Kept
  <2>2. CASE \E st \in {"applied", "failed_retryable", "failed_terminal"} :
                operations' = [operations EXCEPT ![q].status = st]
    BY <2>2 DEF Kept, TypeOK, Operation
  <2>. QED
    BY <1>2, <2>1, <2>2 DEF StatusWrite
<1>3. CASE UNCHANGED operations
  BY <1>3 DEF Kept
<1>. QED
  BY <1>1, <1>2, <1>3, TableWriters DEF CreatePeer, RevokePeer

(* A revision that was reached stays reached.                              *)
LEMMA ReachedStays ==
    ASSUME TypeOK, TypeOK', NEW o \in Ops, OpSound(o), operations[o].status # "none",
           \A p \in Peers : Grow(p), Kept(o), Reached(o)
    PROVE  Reached(o)'
<1>. DEFINE p == operations[o].peer
<1>1. /\ p \in Peers /\ operations'[o].peer = p /\ operations'[o].rev = operations[o].rev
      /\ peers[p].state # "absent"
  BY DEF OpSound, OpPeer, Kept
<1>2. /\ peers[p].applied \in Nat /\ peers'[p].applied \in Nat /\ operations[o].rev \in Nat
  BY <1>1 DEF TypeOK, PeerRow, Operation
<1>3. /\ peers'[p].applied >= peers[p].applied
      /\ peers'[p].state = "pending" => peers[p].state = "pending"
  BY <1>1 DEF Grow
<1>. QED
  BY <1>1, <1>2, <1>3 DEF Reached, OpPeer

(* OpSound is preserved: a new operation is inserted with its job, for the *)
(* row written in the same transaction.                                    *)
LEMMA OpSoundNext ==
    ASSUME IInv, TypeOK', [Next]_vars, NEW o \in Ops
    PROVE  OpSound(o)'
<1>1. /\ \A p \in Peers : Grow(p)
      /\ Kept(o)
  BY Grows, Keeps DEF IInv
<1>2. CASE operations[o].status # "none"
  <2>. DEFINE p == operations[o].peer
  <2>1. /\ p \in Peers /\ operations'[o].peer = p /\ operations'[o].rev = operations[o].rev
        /\ operations'[o].status # "none"
        /\ peers[p].state # "absent" /\ operations[o].rev <= peers[p].desired
    BY <1>1, <1>2 DEF IInv, OpSound, OpPeer, Kept
  <2>2. peers[p].desired \in Nat /\ peers'[p].desired \in Nat /\ operations[o].rev \in Nat
    BY <2>1 DEF IInv, TypeOK, PeerRow, Operation
  <2>3. peers'[p].state # "absent" /\ peers'[p].desired >= peers[p].desired
    BY <1>1, <2>1 DEF Grow
  <2>4. operations'[o].rev <= peers'[p].desired
    BY <2>1, <2>2, <2>3
  <2>5. outbox[o].status # "none"
    BY <1>2 DEF IInv, OpSound
  <2>6. outbox'[o].status # "none"
    <3>1. ASSUME NEW q \in Ops, StatusWrite(q)
          PROVE  outbox'[o].status # "none"
      BY <3>1, <2>5 DEF StatusWrite, Leased, IInv, TypeOK, Job
    <3>2. ASSUME NEW q \in Ops, NEW r \in Peers, NEW rev, Enqueue(q, r, rev)
          PROVE  outbox'[o].status # "none"
      BY <3>2, <2>5 DEF Enqueue, InsertOperation, InsertJob, IInv, TypeOK, Job
    <3>3. ASSUME NEW r \in Peers, NEW n \in Nodes, NEW q \in Ops, CreatePeer(r, n, q)
          PROVE  outbox'[o].status # "none"
      BY <3>2, <3>3 DEF CreatePeer
    <3>4. ASSUME NEW r \in Peers, NEW q \in Ops, RevokePeer(r, q)
          PROVE  outbox'[o].status # "none"
      BY <3>2, <3>4 DEF RevokePeer
    <3>. QED
      BY <2>5, <3>1, <3>3, <3>4, TableWriters DEF IInv
  <2>. QED
    BY <2>1, <2>3, <2>4, <2>6 DEF OpSound, OpPeer
<1>3. CASE operations[o].status = "none"
  <2>1. outbox[o].status = "none"
    BY <1>3 DEF IInv, OpSound
  <2>2. CASE UNCHANGED <<operations, outbox>>
    BY <1>3, <2>1, <2>2 DEF OpSound
  <2>3. ASSUME NEW q \in Ops, StatusWrite(q)
        PROVE  OpSound(o)'
    <3>1. CASE UNCHANGED operations /\ outbox' = [outbox EXCEPT ![q].lease = FALSE]
      <4>1. outbox'[o].status = outbox[o].status
        BY <3>1 DEF IInv, TypeOK, Job
      <4>. QED
        BY <1>3, <2>1, <3>1, <4>1 DEF OpSound
    <3>2. CASE ~(UNCHANGED operations /\ outbox' = [outbox EXCEPT ![q].lease = FALSE])
      <4>0. q # None
        BY NoneAssumption
      <4>1. q # o
        BY <1>3, <2>1, <2>3, <3>2, <4>0 DEF StatusWrite, IInv, WorkerSound, LocalSound
      <4>. QED
        BY <1>3, <2>1, <2>3, <3>2, <4>1 DEF StatusWrite, Leased, OpSound, IInv, TypeOK
    <3>. QED
      BY <3>1, <3>2
  <2>4. ASSUME NEW q \in Ops, NEW r \in Peers, NEW rev \in Nat, Enqueue(q, r, rev),
               peers'[r].state # "absent", rev <= peers'[r].desired
        PROVE  OpSound(o)'
    <3>1. CASE q = o
      <4>1. operations'[o] = [status |-> "pending", peer |-> r, rev |-> rev]
        BY <2>4, <3>1 DEF Enqueue, InsertOperation, InsertJob, IInv, TypeOK
      <4>2. outbox'[o].status = "pending"
        BY <2>4, <3>1 DEF Enqueue, InsertOperation, InsertJob, IInv, TypeOK, Job
      <4>. QED
        BY <2>4, <4>1, <4>2 DEF OpSound, OpPeer
    <3>2. CASE q # o
      BY <1>3, <2>1, <2>4, <3>2 DEF Enqueue, InsertOperation, InsertJob, OpSound, IInv, TypeOK
    <3>. QED
      BY <3>1, <3>2
  <2>5. ASSUME NEW p \in Peers, NEW n \in Nodes, NEW q \in Ops, CreatePeer(p, n, q)
        PROVE  OpSound(o)'
    <3>1. peers'[p].state = "pending" /\ peers'[p].desired = 1
      BY <2>5 DEF CreatePeer, InsertedRow, IInv, TypeOK
    <3>. QED
      BY <2>4, <2>5, <3>1 DEF CreatePeer
  <2>6. ASSUME NEW p \in Peers, NEW q \in Ops, RevokePeer(p, q)
        PROVE  OpSound(o)'
    <3>1. /\ peers'[p].state = "revoked"
          /\ peers[p].desired + 1 \in Nat
          /\ peers'[p].desired = peers[p].desired + 1
      BY <2>6 DEF RevokePeer, MarkedRevoked, IInv, TypeOK, PeerRow
    <3>2. Enqueue(q, p, peers'[p].desired) /\ peers'[p].desired \in Nat
      BY <2>6, <3>1 DEF RevokePeer
    <3>3. peers'[p].desired <= peers'[p].desired
      BY <3>2
    <3>. QED
      BY <2>4, <3>1, <3>2, <3>3
  <2>. QED
    BY <2>2, <2>3, <2>5, <2>6, TableWriters DEF IInv
<1>. QED
  BY <1>2, <1>3

(* RowSound is preserved.                                                  *)
LEMMA RowSoundNext ==
    ASSUME IInv, TypeOK', [Next]_vars, NEW p \in Peers
    PROVE  RowSound(p)'
<1>0. RowSound(p) /\ peers[p] \in PeerRow
  BY DEF IInv, TypeOK
<1>1. ASSUME NEW q \in Peers, NEW n \in Nodes, NEW o \in Ops, CreatePeer(q, n, o)
      PROVE  RowSound(p)'
  BY <1>0, <1>1 DEF CreatePeer, InsertedRow, RowSound, IInv, TypeOK
<1>2. ASSUME NEW q \in Peers, NEW o \in Ops, RevokePeer(q, o)
      PROVE  RowSound(p)'
  <2>1. CASE q = p
    <3>1. /\ peers'[p].state = "revoked" /\ peers'[p].node = peers[p].node
          /\ peers'[p].desired = peers[p].desired + 1
          /\ peers'[p].applied = peers[p].applied
          /\ peers[p].state # "absent"
      BY <1>2, <2>1 DEF RevokePeer, MarkedRevoked, IInv, TypeOK, PeerRow
    <3>. QED
      BY <1>0, <3>1 DEF RowSound, PeerRow
  <2>2. CASE q # p
    BY <1>0, <1>2, <2>2 DEF RevokePeer, RowSound, IInv, TypeOK
  <2>. QED
    BY <2>1, <2>2
<1>3. ASSUME NEW w \in Workers, peers' = Persisted(w)
      PROVE  RowSound(p)'
  <2>1. CASE wk[w].snap[p].state = "absent"
    <3>1. peers'[p] = peers[p]
      BY <1>3, <2>1, PersistedRow DEF IInv
    <3>. QED
      BY <1>0, <3>1 DEF RowSound
  <2>2. CASE wk[w].snap[p].state # "absent"
    <3>1. /\ peers[p].state # "absent"
          /\ wk[w].snap[p].desired >= 1 /\ wk[w].snap[p].desired <= peers[p].desired
      BY <2>2 DEF IInv, WorkerSound, LocalSound, SnapSound
    <3>2. /\ wk[w].snap[p].desired \in Nat /\ peers[p].desired \in Nat
          /\ peers[p].applied \in Nat
      BY <1>0 DEF IInv, TypeOK, Worker, PeerView, PeerRow
    <3>3. /\ peers'[p].desired = peers[p].desired /\ peers'[p].node = peers[p].node
          /\ peers'[p].applied \in {wk[w].snap[p].desired, peers[p].applied}
          /\ peers'[p].applied >= wk[w].snap[p].desired
          /\ peers'[p].state # "absent"
      BY <1>3, <2>2, <3>1, PersistedRow DEF IInv
    <3>. QED
      BY <1>0, <3>1, <3>2, <3>3 DEF RowSound
  <2>. QED
    BY <2>1, <2>2
<1>4. CASE UNCHANGED peers
  BY <1>0, <1>4 DEF RowSound
<1>. QED
  BY <1>1, <1>2, <1>3, <1>4, PeerWriters

(* AppliedOpsArePersisted is preserved: only a worker past Persist writes  *)
(* 'applied', and what was reached stays reached.                          *)
LEMMA AppliedNext ==
    ASSUME IInv, TypeOK', [Next]_vars
    PROVE  AppliedOpsArePersisted'
<1>. SUFFICES ASSUME NEW o \in Ops,
                     "applied" \in {operations'[o].status, outbox'[o].status}
              PROVE  Reached(o)'
  BY DEF AppliedOpsArePersisted, Reached, OpPeer
<1>1. \/ "applied" \in {operations[o].status, outbox[o].status}
      \/ \E w \in Workers : wk[w].job = o /\ wk[w].pc \in {"complete", "markop"}
  <2>1. ASSUME NEW q \in Ops, StatusWrite(q)
        PROVE  <1>1!1 \/ <1>1!2
    BY <2>1 DEF StatusWrite, Leased, IInv, TypeOK, Operation, Job
  <2>2. ASSUME NEW q \in Ops, NEW r \in Peers, NEW rev, Enqueue(q, r, rev)
        PROVE  <1>1!1
    BY <2>2 DEF Enqueue, InsertOperation, InsertJob, IInv, TypeOK, Operation, Job
  <2>3. ASSUME NEW r \in Peers, NEW n \in Nodes, NEW q \in Ops, CreatePeer(r, n, q)
        PROVE  <1>1!1
    BY <2>2, <2>3 DEF CreatePeer
  <2>4. ASSUME NEW r \in Peers, NEW q \in Ops, RevokePeer(r, q)
        PROVE  <1>1!1
    BY <2>2, <2>4 DEF RevokePeer
  <2>. QED
    BY <2>1, <2>3, <2>4, TableWriters DEF IInv
<1>2. Reached(o)
  BY <1>1 DEF IInv, AppliedOpsArePersisted, Reached, WorkerSound, LocalSound
<1>3. operations[o].status # "none"
  <2>1. o # None
    BY NoneAssumption
  <2>2. OpSound(o)
    BY DEF IInv
  <2>. QED
    BY <1>1, <2>1, <2>2 DEF IInv, OpSound, WorkerSound, LocalSound
<1>. QED
  BY <1>2, <1>3, ReachedStays, Grows, Keeps DEF IInv

-----------------------------------------------------------------------------
(* Workers.                                                                *)

(* A local state that is sound stays sound whatever the others do: rows    *)
(* and operations only grow under it.                                      *)
LEMMA LocalFrame ==
    ASSUME IInv, TypeOK', [Next]_vars, NEW r \in Worker, LocalSound(r)
    PROVE  LocalSound(r)'
<1>1. /\ \A p \in Peers : Grow(p)
      /\ \A o \in Ops : Kept(o)
  BY Grows, Keeps DEF IInv
<1>2. r.job \in Ops \cup {None}
  BY DEF Worker
<1>3. r.job # None => /\ operations[r.job].status # "none"
                      /\ operations'[r.job].status # "none"
                      /\ operations'[r.job].peer = operations[r.job].peer
                      /\ operations'[r.job].rev = operations[r.job].rev
                      /\ operations[r.job].peer \in Peers
                      /\ OpPeer(r.job).state # "absent"
  BY <1>1, <1>2 DEF LocalSound, Kept, IInv, OpSound
<1>4. SnapSound(r.snap)'
  <2>. SUFFICES ASSUME NEW p \in Peers, r.snap[p].state # "absent"
                PROVE  /\ peers'[p].state # "absent"
                       /\ r.snap[p].desired >= 1 /\ r.snap[p].desired <= peers'[p].desired
    BY DEF SnapSound
  <2>1. /\ peers[p].state # "absent"
        /\ r.snap[p].desired >= 1 /\ r.snap[p].desired <= peers[p].desired
    BY DEF LocalSound, SnapSound
  <2>2. /\ r.snap[p].desired \in Nat
        /\ peers[p].desired \in Nat /\ peers'[p].desired \in Nat
    BY DEF Worker, PeerView, IInv, TypeOK, PeerRow
  <2>3. peers'[p].state # "absent" /\ peers'[p].desired >= peers[p].desired
    BY <1>1, <2>1 DEF Grow
  <2>. QED
    BY <2>1, <2>2, <2>3
<1>5. r.pc = "read" /\ r.job # None => r.node = peers'[operations'[r.job].peer].node
  BY <1>1, <1>3 DEF LocalSound, OpPeer, Grow
<1>6. r.pc \in {"complete", "markop"} => Reached(r.job)'
  <2>. SUFFICES ASSUME r.pc \in {"complete", "markop"} PROVE Reached(r.job)'
    OBVIOUS
  <2>1. r.job # None /\ r.job \in Ops
    BY <1>2 DEF LocalSound, Settling
  <2>2. PICK o \in Ops : o = r.job
    BY <2>1
  <2>3. OpSound(o) /\ Kept(o) /\ Reached(o) /\ operations[o].status # "none"
    BY <1>1, <1>3, <2>1, <2>2 DEF LocalSound, IInv
  <2>4. Reached(o)'
    BY <1>1, <2>3, ReachedStays DEF IInv
  <2>. QED
    BY <2>2, <2>4
<1>. QED
  BY <1>3, <1>4, <1>5, <1>6 DEF LocalSound, OpPeer

(* Resting workers, and workers whose applyNode has failed, are sound.     *)
LEMMA RestingSound ==
    ASSUME NEW phase \in {"idle", "down"}, NEW todo
    PROVE  LocalSound(Resting(phase, todo))
BY DEF LocalSound, Resting, SnapSound, NoSnapshot, NotListed, Settling, Applying

(* A worker whose applyNode has failed is sound (ApplyFailed).             *)
LEMMA FailedSound ==
    ASSUME TypeOK, NEW w \in Workers, WorkerSound(w), NEW r \in BOOLEAN
    PROVE  LocalSound(Returned(w, "fail", r))
<1>1. CASE wk[w].job = None
  BY <1>1, RestingSound DEF Returned
<1>2. CASE wk[w].job # None
  <2>. DEFINE l == [Resting("fail", {}) EXCEPT !.job = wk[w].job, !.retryable = r]
  <2>1. l.pc = "fail" /\ l.job = wk[w].job /\ l.snap = NoSnapshot
    BY DEF Resting
  <2>2. operations[wk[w].job].status # "none"
    BY <1>2 DEF WorkerSound, LocalSound
  <2>3. SnapSound(NoSnapshot)
    BY DEF SnapSound, NoSnapshot, NotListed
  <2>4. LocalSound(l)
    <3>. HIDE DEF l
    <3>. QED
      BY <1>2, <2>1, <2>2, <2>3 DEF LocalSound, Settling, Applying
  <2>. QED
    BY <1>2, <2>4 DEF Returned
<1>. QED
  BY <1>1, <1>2

(* A worker that has just read its node's rows is sound: the job's row is  *)
(* in the snapshot, at the job's revision or a later one.                  *)
LEMMA ReadSound ==
    ASSUME IInv, NEW w \in Workers, wk[w].pc = "read"
    PROVE  LocalSound([wk[w] EXCEPT !.pc = "sync", !.snap = View(wk[w].node)])
<1>. DEFINE n == wk[w].node
            o == wk[w].job
            l == [wk[w] EXCEPT !.pc = "sync", !.snap = View(n)]
<1>1. l.pc = "sync" /\ l.snap = View(n) /\ l.job = o /\ l.node = n
  BY DEF IInv, TypeOK, Worker
<1>2. n \in Nodes
  BY DEF IInv, WorkerSound, LocalSound
<1>3. SnapSound(View(n))
  <2>. SUFFICES ASSUME NEW p \in Peers, View(n)[p].state # "absent"
                PROVE  /\ peers[p].state # "absent"
                       /\ View(n)[p].desired >= 1 /\ View(n)[p].desired <= peers[p].desired
    BY DEF SnapSound
  <2>1. View(n)[p] = [state |-> peers[p].state, desired |-> peers[p].desired]
    BY DEF View, NotListed
  <2>2. peers[p].desired \in Nat /\ RowSound(p)
    BY DEF IInv, TypeOK, PeerRow
  <2>. QED
    BY <2>1, <2>2 DEF RowSound
<1>4. ASSUME o # None
      PROVE  /\ operations[o].status # "none"
             /\ View(n)[operations[o].peer].state # "absent"
             /\ View(n)[operations[o].peer].desired >= operations[o].rev
  <2>1. o \in Ops /\ operations[o].status # "none" /\ OpPeer(o).node = n
    BY <1>4 DEF IInv, TypeOK, Worker, WorkerSound, LocalSound
  <2>2. /\ operations[o].peer \in Peers /\ OpPeer(o).state # "absent"
        /\ operations[o].rev <= OpPeer(o).desired
    BY <2>1 DEF IInv, OpSound
  <2>3. View(n)[operations[o].peer] = [state |-> OpPeer(o).state, desired |-> OpPeer(o).desired]
    BY <2>1, <2>2 DEF View, OpPeer
  <2>4. operations[o].rev \in Nat /\ OpPeer(o).desired \in Nat
    BY <2>1, <2>2 DEF IInv, TypeOK, Operation, PeerRow, OpPeer
  <2>. QED
    BY <2>1, <2>2, <2>3, <2>4
<1>5. LocalSound(l)
  <2>. HIDE DEF l, n, o
  <2>. QED
    BY <1>1, <1>2, <1>3, <1>4 DEF LocalSound, Settling, Applying
<1>. QED
  BY <1>5

(* A worker that has just claimed a job is sound.                          *)
LEMMA ClaimSound ==
    ASSUME IInv, NEW w \in Workers, NEW o \in Ops, Selects(w, o)
    PROVE  LocalSound([wk[w] EXCEPT !.pc = "read", !.job = o,
                                    !.node = peers[operations[o].peer].node])
<1>. DEFINE n == peers[operations[o].peer].node
            l == [wk[w] EXCEPT !.pc = "read", !.job = o, !.node = n]
<1>1. l.pc = "read" /\ l.snap = wk[w].snap /\ l.job = o /\ l.node = n
  BY DEF IInv, TypeOK, Worker
<1>2. outbox[o].status # "none" /\ OpSound(o)
  BY DEF Selects, Claimable, IInv
<1>3. operations[o].status # "none" /\ n \in Nodes
  <2>1. operations[o].status # "none" /\ operations[o].peer \in Peers
        /\ OpPeer(o).state # "absent"
    BY <1>2 DEF OpSound
  <2>. QED
    BY <2>1 DEF IInv, RowSound, OpPeer
<1>4. SnapSound(wk[w].snap)
  BY DEF IInv, WorkerSound, LocalSound
<1>5. LocalSound(l)
  <2>1. n = OpPeer(o).node
    BY DEF OpPeer
  <2>. HIDE DEF l, n
  <2>. QED
    BY <1>1, <1>3, <1>4, <2>1 DEF LocalSound, Settling, Applying
<1>. QED
  BY <1>5

(* Advancing within applyNode, or from one settling statement to the next, *)
(* keeps a worker sound.                                                   *)
LEMMA AdvanceSound ==
    ASSUME IInv, NEW w \in Workers, NEW phase \in Phase, NEW l \in Worker,
           \/ wk[w].pc \in Applying /\ phase \in Applying
           \/ wk[w].pc = "complete" /\ phase = "markop"
           \/ wk[w].pc = "fail" /\ phase = "markfailed",
           l.pc = phase, l.job = wk[w].job, l.node = wk[w].node, l.snap = wk[w].snap
    PROVE  LocalSound(l)
BY DEF IInv, WorkerSound, LocalSound, Applying, Settling

(* Revisions (Peers.MarkApplied takes the greatest) are ordered.           *)
LEMMA GeqTransitive ==
    ASSUME NEW x \in Nat, NEW y \in Nat, NEW z \in Nat, x >= y, y >= z
    PROVE  x >= z
OBVIOUS

(* Persisting brings the job's row to the job's revision.                  *)
LEMMA PersistReaches ==
    ASSUME IInv, NEW w \in Workers, wk[w].pc = "persist", NEW o \in Ops, wk[w].job = o,
           peers' = Persisted(w), UNCHANGED operations
    PROVE  Reached(o)'
<1>. DEFINE p == operations[o].peer
<1>1. operations[o].status # "none" /\ o # None
  BY NoneAssumption DEF IInv, WorkerSound, LocalSound
<1>2. p \in Peers /\ operations[o].rev \in Nat
  BY <1>1 DEF IInv, OpSound, TypeOK, Operation
<1>3. wk[w].snap[p].state # "absent" /\ wk[w].snap[p].desired >= operations[o].rev
  BY <1>1 DEF IInv, WorkerSound, LocalSound, Applying
<1>4. /\ peers'[p].applied >= wk[w].snap[p].desired
      /\ peers'[p].applied \in {wk[w].snap[p].desired, peers[p].applied}
      /\ peers'[p].state # "pending"
  BY <1>2, <1>3, PersistedRow DEF IInv
<1>5. wk[w].snap[p].desired \in Nat /\ peers[p].applied \in Nat
  BY <1>2 DEF IInv, TypeOK, Worker, PeerView, PeerRow
<1>6. peers'[p].applied >= operations[o].rev
  <2>1. peers'[p].applied \in Nat
    BY <1>4, <1>5
  <2>. QED
    BY <1>2, <1>3, <1>4, <1>5, <2>1, GeqTransitive
<1>. QED
  BY <1>4, <1>6 DEF Reached, OpPeer

(* The local state with which persistRuntime returns is sound afterwards.  *)
LEMMA PersistSound ==
    ASSUME IInv, NEW w \in Workers, wk[w].pc = "persist",
           peers' = Persisted(w), UNCHANGED operations,
           NEW l \in Worker, l = Returned(w, "complete", TRUE)
    PROVE  LocalSound(l)'
<1>0. \A p \in Peers : NoSnapshot[p].state = "absent"
  BY DEF NoSnapshot, NotListed
<1>1. CASE wk[w].job = None
  <2>1. l.pc = "idle" /\ l.job = None /\ l.snap = NoSnapshot
    BY <1>1 DEF Returned, Resting
  <2>. QED
    BY <1>0, <2>1 DEF LocalSound, SnapSound, Settling, Applying
<1>2. CASE wk[w].job # None
  <2>1. l = [Resting("complete", {}) EXCEPT !.job = wk[w].job, !.retryable = TRUE]
    BY <1>2 DEF Returned
  <2>2. l.pc = "complete" /\ l.job = wk[w].job /\ l.snap = NoSnapshot
    BY <2>1 DEF Resting
  <2>3. PICK o \in Ops : o = wk[w].job
    BY <1>2 DEF IInv, TypeOK, Worker
  <2>4. Reached(o)'
    BY <2>3, PersistReaches
  <2>5. o # None /\ operations'[o].status # "none"
    BY <1>2, <2>3 DEF IInv, WorkerSound, LocalSound
  <2>. QED
    BY <1>0, <2>2, <2>3, <2>4, <2>5 DEF LocalSound, SnapSound, Settling, Applying
<1>. QED
  BY <1>1, <1>2

(* WorkerSound is preserved: by the steps of the worker itself, and by     *)
(* those of everybody else.                                                *)
LEMMA WorkerSoundNext ==
    ASSUME IInv, TypeOK', [Next]_vars, NEW w \in Workers
    PROVE  WorkerSound(w)'
<1>0. TypeOK /\ \A v \in Workers : wk[v] \in Worker /\ WorkerSound(v) /\ LocalSound(wk[v])
  BY DEF IInv, TypeOK, WorkerSound
<1>same. ASSUME wk'[w] = wk[w]
         PROVE  WorkerSound(w)'
  <2>1. PICK r \in Worker : r = wk[w]
    BY <1>0
  <2>2. LocalSound(r)
    BY <1>0, <2>1
  <2>3. LocalSound(r)'
    BY <2>2, LocalFrame
  <2>4. r = wk'[w]
    BY <1>same, <2>1
  <2>. QED
    BY <2>3, <2>4 DEF WorkerSound
<1>step. ASSUME NEW v \in Workers, NEW l \in Worker, Becomes(v, l), LocalSound(l)
         PROVE  WorkerSound(w)'
  <2>1. CASE v = w
    <3>1. LocalSound(l)'
      BY <1>step, LocalFrame
    <3>2. wk'[w] = l
      BY <1>0, <1>step, <2>1, BecomesLocal
    <3>. QED
      BY <3>1, <3>2 DEF WorkerSound
  <2>2. CASE v # w
    BY <1>0, <1>step, <1>same, <2>2, BecomesLocal
  <2>. QED
    BY <2>1, <2>2
<1>rest. ASSUME NEW v \in Workers, NEW phase \in {"idle", "down"}, NEW todo \in SUBSET Nodes,
                Becomes(v, Resting(phase, todo))
         PROVE  WorkerSound(w)'
  <2>1. PICK l \in Worker : l = Resting(phase, todo)
    BY RestingType DEF Phase
  <2>. QED
    BY <1>rest, <1>step, <2>1, RestingSound
<1>fail. ASSUME NEW v \in Workers, NEW r \in BOOLEAN, ApplyFailed(v, r)
         PROVE  WorkerSound(w)'
  <2>1. PICK l \in Worker : l = Returned(v, "fail", r)
    BY <1>0, ReturnedType DEF Phase
  <2>2. Becomes(v, l)
    BY <1>fail, <2>1 DEF ApplyFailed, ApplyReturns, Returned
  <2>3. LocalSound(l)
    BY <1>0, <2>1, FailedSound
  <2>. QED
    BY <1>step, <2>2, <2>3
<1>pc. ASSUME NEW v \in Workers, NEW phase \in Phase,
              \/ wk[v].pc \in Applying /\ phase \in Applying
              \/ wk[v].pc = "complete" /\ phase = "markop"
              \/ wk[v].pc = "fail" /\ phase = "markfailed",
              Becomes(v, [wk[v] EXCEPT !.pc = phase])
       PROVE  WorkerSound(w)'
  <2>1. PICK l \in Worker : l = [wk[v] EXCEPT !.pc = phase]
    BY <1>0, WorkerFields
  <2>2. l.pc = phase /\ l.job = wk[v].job /\ l.node = wk[v].node /\ l.snap = wk[v].snap
    BY <1>0, <2>1 DEF Worker
  <2>. QED
    BY <1>pc, <1>step, <2>1, <2>2, AdvanceSound
<1>persist. ASSUME NEW v \in Workers, wk[v].pc = "persist", peers' = Persisted(v),
                   UNCHANGED operations, ApplyReturns(v, "complete", TRUE)
            PROVE  WorkerSound(w)'
  <2>1. PICK l \in Worker : l = Returned(v, "complete", TRUE)
    BY <1>0, ReturnedType DEF Phase
  <2>2. LocalSound(l)'
    BY <1>persist, <2>1, PersistSound
  <2>3. Becomes(v, l)
    BY <1>persist, <2>1 DEF ApplyReturns, Returned
  <2>4. CASE v = w
    <3>1. wk'[w] = l
      BY <1>0, <2>3, <2>4, BecomesLocal
    <3>. QED
      BY <2>2, <3>1 DEF WorkerSound
  <2>5. CASE v # w
    BY <1>0, <1>same, <2>3, <2>5, BecomesLocal
  <2>. QED
    BY <2>4, <2>5
<1>1. ASSUME NEW p \in Peers, NEW n \in Nodes, NEW o \in Ops, CreatePeer(p, n, o)
      PROVE  WorkerSound(w)'
  BY <1>1, <1>same DEF CreatePeer
<1>2. ASSUME NEW p \in Peers, NEW o \in Ops, RevokePeer(p, o)
      PROVE  WorkerSound(w)'
  BY <1>2, <1>same DEF RevokePeer
<1>3. ASSUME NEW v \in Workers, Start(v)
      PROVE  WorkerSound(w)'
  BY <1>3, <1>rest, ReconcileAssumption DEF Start
<1>4. ASSUME NEW v \in Workers, NEW n \in Nodes, ReconcileNext(v, n)
      PROVE  WorkerSound(w)'
  <2>1. PICK l \in Worker : l = [wk[v] EXCEPT !.pc = "read", !.node = n, !.todo = @ \ {n}]
    BY <1>0, WorkerFields DEF Phase
  <2>2. l.pc = "read" /\ l.job = wk[v].job /\ l.node = n /\ l.snap = wk[v].snap
    BY <1>0, <2>1 DEF Worker
  <2>3. wk[v].job = None /\ SnapSound(wk[v].snap)
    BY <1>0, <1>4 DEF ReconcileNext, LocalSound
  <2>4. LocalSound(l)
    BY <2>2, <2>3 DEF LocalSound, Settling, Applying
  <2>. QED
    BY <1>4, <1>step, <2>1, <2>4 DEF ReconcileNext
<1>5. ASSUME NEW v \in Workers, NEW o \in Ops, Claim(v, o)
      PROVE  WorkerSound(w)'
  <2>1. peers[operations[o].peer].node \in Nodes \cup {None}
    <3>1. operations[o].status # "none"
      BY <1>5 DEF Claim, Selects, Claimable, IInv, OpSound
    <3>. QED
      BY <3>1 DEF IInv, OpSound, TypeOK, PeerRow
  <2>2. PICK l \in Worker : l = [wk[v] EXCEPT !.pc = "read", !.job = o,
                                              !.node = peers[operations[o].peer].node]
    BY <1>0, <2>1, WorkerFields DEF Phase
  <2>. QED
    BY <1>5, <1>step, <2>2, ClaimSound DEF Claim
<1>6. ASSUME NEW v \in Workers, Read(v)
      PROVE  WorkerSound(w)'
  <2>1. PICK l \in Worker : l = [wk[v] EXCEPT !.pc = "sync", !.snap = View(wk[v].node)]
    BY <1>0, ViewType, WorkerFields DEF Phase
  <2>. QED
    BY <1>6, <1>step, <2>1, ReadSound DEF Read
<1>7. ASSUME NEW v \in Workers, Sync(v)
      PROVE  WorkerSound(w)'
  BY <1>7, <1>pc, <1>fail DEF Sync, Applying, Phase
<1>8. ASSUME NEW v \in Workers, BringUp(v)
      PROVE  WorkerSound(w)'
  BY <1>8, <1>pc DEF BringUp, Applying, Phase
<1>9. ASSUME NEW v \in Workers, Dump(v)
      PROVE  WorkerSound(w)'
  <2>1. iface[wk[v].node].peers \in SUBSET Peers
    <3>1. wk[v].pc = "dump"
      BY <1>9 DEF Dump
    <3>2. wk[v].node \in Nodes
      BY <1>0, <3>1 DEF LocalSound, Applying
    <3>3. iface[wk[v].node] \in Interface
      BY <1>0, <3>2 DEF TypeOK
    <3>. QED
      BY <3>3 DEF Interface
  <2>2. PICK l \in Worker : l = [wk[v] EXCEPT !.pc = "persist", !.seen = iface[wk[v].node].peers]
    BY <1>0, <2>1, WorkerFields DEF Phase
  <2>3. l.pc = "persist" /\ l.job = wk[v].job /\ l.node = wk[v].node /\ l.snap = wk[v].snap
    BY <1>0, <2>2 DEF Worker
  <2>4. wk[v].pc = "dump" => LocalSound(l)
    BY <2>3, AdvanceSound DEF Applying, Phase
  <2>. QED
    BY <1>9, <1>step, <1>fail, <2>2, <2>4 DEF Dump
<1>10. ASSUME NEW v \in Workers, Persist(v)
       PROVE  WorkerSound(w)'
  BY <1>10, <1>persist DEF Persist
<1>11. ASSUME NEW v \in Workers, Complete(v) \/ Fail(v)
       PROVE  WorkerSound(w)'
  BY <1>11, <1>pc DEF Complete, Fail, Phase
<1>12. ASSUME NEW v \in Workers, MarkApplied(v) \/ MarkFailed(v)
       PROVE  WorkerSound(w)'
  BY <1>12, <1>rest DEF MarkApplied, MarkFailed
<1>13. ASSUME NEW v \in Workers, ExecFail(v) \/ Timeout(v)
       PROVE  WorkerSound(w)'
  BY <1>13, <1>fail DEF ExecFail, Timeout
<1>14. ASSUME NEW v \in Workers, DbError(v)
       PROVE  WorkerSound(w)'
  <2>1. ASSUME wk[v].pc = "idle", Becomes(v, [wk[v] EXCEPT !.todo = {}])
        PROVE  WorkerSound(w)'
    <3>1. PICK l \in Worker : l = [wk[v] EXCEPT !.todo = {}]
      BY <1>0, WorkerFields DEF Phase
    <3>2. l.pc = "idle" /\ l.job = wk[v].job /\ l.snap = wk[v].snap
      BY <1>0, <2>1, <3>1 DEF Worker
    <3>3. LocalSound(l)
      BY <1>0, <2>1, <3>2 DEF LocalSound, Settling, Applying
    <3>. QED
      BY <1>step, <2>1, <3>1, <3>3
  <2>2. CASE wk[v].pc = "idle"
    BY <1>14, <2>1, <2>2, <1>same DEF DbError
  <2>3. CASE wk[v].pc \in {"read", "persist"}
    BY <1>14, <2>3, <1>fail DEF DbError, Selects
  <2>4. CASE wk[v].pc \in {"complete", "markop", "markfailed"}
    <3>1. Becomes(v, Resting("idle", {}))
      BY <1>14, <2>4 DEF DbError, Selects
    <3>. QED
      BY <3>1, <1>rest
  <2>5. CASE wk[v].pc = "fail"
    BY <1>14, <2>5, <1>pc DEF DbError, Selects, Phase
  <2>. QED
    BY <1>14, <2>2, <2>3, <2>4, <2>5 DEF DbError, Selects
<1>15. ASSUME NEW v \in Workers, Crash(v)
       PROVE  WorkerSound(w)'
  BY <1>15, <1>rest DEF Crash
<1>16. CASE HostRestart
  <2>1. PICK l \in Worker : l = Resting("down", {})
    BY RestingType DEF Phase
  <2>2. LocalSound(l)'
    BY <2>1, RestingSound, LocalFrame
  <2>3. wk'[w] = l
    BY <1>16, <2>1 DEF HostRestart
  <2>. QED
    BY <2>2, <2>3 DEF WorkerSound
<1>17. ASSUME NEW n \in Nodes, InterfaceDown(n) \/ \E s \in SUBSET Peers : LateSync(n, s)
       PROVE  WorkerSound(w)'
  BY <1>17, <1>same DEF InterfaceDown, LateSync
<1>18. ASSUME NEW o \in Ops, LeaseExpire(o) \/ LeaseOutlived(o)
       PROVE  WorkerSound(w)'
  BY <1>18, <1>same DEF LeaseExpire, LeaseOutlived, LeasePasses
<1>19. CASE UNCHANGED vars
  BY <1>19, <1>same DEF vars
<1>. QED
  BY <1>1, <1>2, <1>3, <1>4, <1>5, <1>6, <1>7, <1>8, <1>9, <1>10, <1>11, <1>12, <1>13,
     <1>14, <1>15, <1>16, <1>17, <1>18, <1>19 DEF Next, Step, Poll

-----------------------------------------------------------------------------
(* The theorems.                                                           *)

(* The initial state satisfies the inductive invariant.                    *)
LEMMA IInvInit == Init => IInv
<1>. SUFFICES ASSUME Init PROVE IInv
  OBVIOUS
<1>1. TypeOK
  BY TypeInit
<1>2. ASSUME NEW p \in Peers PROVE RowSound(p)
  BY DEF Init, RowSound, NoPeerRow
<1>3. \A o \in Ops : operations[o].status = "none" /\ outbox[o].status = "none"
  BY DEF Init
<1>4. ASSUME NEW w \in Workers PROVE WorkerSound(w)
  BY RestingSound DEF Init, WorkerSound
<1>. QED
  BY <1>1, <1>2, <1>3, <1>4 DEF IInv, OpSound, AppliedOpsArePersisted

(* Every step preserves the inductive invariant.                           *)
LEMMA IInvNext == IInv /\ [Next]_vars => IInv'
<1>. SUFFICES ASSUME IInv, [Next]_vars PROVE IInv'
  OBVIOUS
<1>1. TypeOK'
  BY TypeNext DEF IInv
<1>. QED
  BY <1>1, RowSoundNext, OpSoundNext, WorkerSoundNext, AppliedNext DEF IInv

(* The inductive invariant always holds.                                   *)
LEMMA Invariance == Spec => []IInv
BY IInvInit, IInvNext, PTL DEF Spec

(* Every variable keeps its type, whatever the interleaving and the        *)
(* faults; in particular no worker ever works on a job or a node that does *)
(* not exist.                                                              *)
THEOREM TypeCorrect == Spec => []TypeOK
<1>1. IInv => TypeOK
  BY DEF IInv
<1>. QED
  BY <1>1, Invariance, PTL

(* An operation or job that says 'applied' has had its revision persisted: *)
(* for any number of workers, crashes, stale snapshots, expired leases and *)
(* database errors (processJob, persistRuntime, Peers.MarkApplied).        *)
THEOREM AppliedIsPersisted == Spec => []AppliedOpsArePersisted
<1>1. IInv => AppliedOpsArePersisted
  BY DEF IInv
<1>. QED
  BY <1>1, Invariance, PTL

(* No row claims more than was desired of it, and no row is 'active'       *)
(* before its first revision was applied (Peers.MarkApplied).              *)
THEOREM AppliedIsBounded == Spec => []AppliedBounded
<1>1. IInv => AppliedBounded
  BY DEF IInv, RowSound, AppliedBounded
<1>. QED
  BY <1>1, Invariance, PTL

(* Revisions never go down and a revoked row is never revived, even by a   *)
(* worker that persists an old snapshot (MarkRevoked, Peers.MarkApplied).  *)
THEOREM RowsAreMonotone == Spec => RowsMoveForward
<1>1. IInv /\ [Next]_vars =>
         [\A p \in Peers :
             /\ peers[p].state = "revoked" => peers'[p].state = "revoked"
             /\ peers[p].state = "active" => peers'[p].state # "pending"
             /\ peers'[p].applied >= peers[p].applied
             /\ peers'[p].desired >= peers[p].desired]_vars
  <2>. SUFFICES ASSUME IInv, [Next]_vars, NEW p \in Peers
                PROVE  /\ peers[p].state = "revoked" => peers'[p].state = "revoked"
                       /\ peers[p].state = "active" => peers'[p].state # "pending"
                       /\ peers'[p].applied >= peers[p].applied
                       /\ peers'[p].desired >= peers[p].desired
    OBVIOUS
  <2>1. Grow(p)
    BY Grows DEF IInv
  <2>. QED
    BY <2>1 DEF Grow
<1>. QED
  BY <1>1, Invariance, PTL DEF Spec, RowsMoveForward

=============================================================================
