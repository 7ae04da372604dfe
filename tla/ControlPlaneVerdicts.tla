------------------------ MODULE ControlPlaneVerdicts ------------------------
(***************************************************************************)
(* What ControlPlane promises in narrower settings: of jobs, while no      *)
(* worker outlives its lease; of verdicts and revoked peers, with one      *)
(* worker.  The settings are hypotheses of the theorems.                   *)
(***************************************************************************)
EXTENDS ControlPlaneProofs

(* The settings.                                                           *)
LeasesHold == \A regime \in FaultRegimes : "slow" \notin regime.kinds
DatabaseAnswers == \A regime \in FaultRegimes : "db" \notin regime.kinds
NothingLate == \A regime \in FaultRegimes : "late" \notin regime.kinds
SingleWorker == \A v, w \in Workers : v = w

-----------------------------------------------------------------------------
(* What the steps do to jobs.                                              *)

(* The tables stay, and a worker drops its job, stands still, or goes on   *)
(* with it short of settling the operation.                                *)
Quiet ==
    /\ UNCHANGED <<operations, outbox>>
    /\ \A w \in Workers :
          \/ wk'[w].job = None
          \/ wk'[w] = wk[w]
          \/ /\ wk'[w].job = wk[w].job
             /\ wk[w].pc \notin Settling /\ wk'[w].pc \notin {"markop", "markfailed"}

(* A worker whose Complete committed without its knowing it.               *)
CompleteLost(w) ==
    /\ wk[w].pc = "complete"
    /\ outbox' = [outbox EXCEPT ![wk[w].job].status = "applied"]
    /\ Becomes(w, Resting("idle", {}))
    /\ UNCHANGED operations

(* A worker whose Fail did not reach the database.                         *)
FailLost(w) ==
    /\ "db" \in faults.kinds
    /\ wk[w].pc = "fail"
    /\ Becomes(w, [wk[w] EXCEPT !.pc = "markfailed"])
    /\ UNCHANGED <<operations, outbox>>

(* A claim that committed without the worker's knowing it.                 *)
ClaimLost(o) ==
    /\ "db" \in faults.kinds
    /\ Claimable(o) /\ outbox' = Leased(o)
    /\ UNCHANGED <<operations, wk>>

JobStep ==
    \/ Quiet
    \/ \E o \in Ops, p \in Peers, rev \in Nat : Enqueue(o, p, rev) /\ UNCHANGED wk
    \/ \E o \in Ops : (\E w \in Workers : Claim(w, o)) \/ ClaimLost(o)
    \/ \E w \in Workers : Complete(w) \/ MarkApplied(w) \/ Fail(w) \/ MarkFailed(w)
    \/ \E w \in Workers : CompleteLost(w) \/ FailLost(w)
    \/ \E o \in Ops : LeaseExpire(o) \/ LeaseOutlived(o)

(* When applyNode returns, the worker has dropped its job or is about to   *)
(* settle it (ApplyReturns).                                               *)
LEMMA ReturnsJob ==
    ASSUME TypeOK, NEW w \in Workers, NEW phase \in {"complete", "fail"}, NEW r \in BOOLEAN,
           ApplyReturns(w, phase, r), UNCHANGED <<operations, outbox>>, wk[w].pc \notin Settling
    PROVE  Quiet
<1>1. Becomes(w, Returned(w, phase, r)) /\ Returned(w, phase, r) \in Worker
  BY ReturnedType DEF ApplyReturns, Returned, Phase
<1>2. wk'[w] = Returned(w, phase, r) /\ \A v \in Workers : v # w => wk'[v] = wk[v]
  BY <1>1, BecomesLocal
<1>3. \/ Returned(w, phase, r).job = None
      \/ Returned(w, phase, r).job = wk[w].job /\ Returned(w, phase, r).pc = phase
  BY DEF Returned, Resting
<1> QED BY <1>2, <1>3 DEF Quiet

(* A step inside an apply leaves the job alone (applyNode).                *)
LEMMA AdvanceJob ==
    ASSUME TypeOK, NEW w \in Workers, NEW local \in Worker, Becomes(w, local),
           \/ local.job = None
           \/ /\ local.job = wk[w].job /\ wk[w].pc \notin Settling
              /\ local.pc \notin {"markop", "markfailed"},
           UNCHANGED <<operations, outbox>>
    PROVE  Quiet
<1>1. wk'[w] = local /\ \A v \in Workers : v # w => wk'[v] = wk[v]
  BY BecomesLocal
<1> QED BY <1>1 DEF Quiet

(* The job is left alone by the steps that apply a node.                   *)
LEMMA ApplyJob ==
    ASSUME IInv, NEW w \in Workers, Read(w) \/ Sync(w) \/ BringUp(w) \/ Dump(w) \/ Persist(w)
    PROVE  Quiet
<1>0. TypeOK /\ wk[w] \in Worker
  BY DEF IInv, TypeOK
<1>1. CASE Read(w)
  <2> DEFINE local == [wk[w] EXCEPT !.pc = "sync", !.snap = View(wk[w].node)]
  <2>1. local \in Worker
    BY <1>0, ViewType, WorkerFields DEF Phase
  <2>2. local.job = wk[w].job /\ local.pc = "sync" /\ wk[w].pc = "read" /\ Becomes(w, local)
    BY <1>0, <1>1 DEF Read, Worker
  <2> HIDE DEF local
  <2> QED BY <1>0, <1>1, <2>1, <2>2, AdvanceJob DEF Read, Settling
<1>2. ASSUME NEW phase \in {"dump", "up", "resync"}, Becomes(w, [wk[w] EXCEPT !.pc = phase]),
             wk[w].pc \notin Settling, UNCHANGED <<operations, outbox>>
      PROVE  Quiet
  <2> DEFINE local == [wk[w] EXCEPT !.pc = phase]
  <2>1. local \in Worker /\ local.job = wk[w].job /\ local.pc = phase
    BY <1>0 DEF Phase, Worker
  <2> HIDE DEF local
  <2> QED BY <1>0, <1>2, <2>1, AdvanceJob DEF local
<1>3. CASE Sync(w)
  BY <1>0, <1>2, <1>3, ReturnsJob DEF Sync, ApplyFailed, Settling
<1>4. CASE BringUp(w)
  BY <1>2, <1>4 DEF BringUp, Settling
<1>5. CASE Dump(w)
  <2> DEFINE local == [wk[w] EXCEPT !.pc = "persist", !.seen = iface[wk[w].node].peers]
  <2>0. wk[w].pc = "dump" /\ wk[w].pc \notin Settling /\ UNCHANGED <<operations, outbox>>
    BY <1>5 DEF Dump, Settling
  <2>1. CASE Becomes(w, local)
    <3>1. wk[w].node \in Nodes
      BY <2>0 DEF IInv, WorkerSound, LocalSound, Applying
    <3>2. iface[wk[w].node].peers \in SUBSET Peers
      BY <1>0, <3>1 DEF TypeOK, Interface
    <3>3. local \in Worker /\ local.job = wk[w].job /\ local.pc = "persist"
      BY <1>0, <3>2 DEF Worker, Phase
    <3> HIDE DEF local
    <3> QED BY <1>0, <2>0, <2>1, <3>3, AdvanceJob
  <2>2. CASE ApplyFailed(w, TRUE)
    BY <1>0, <2>0, <2>2, ReturnsJob DEF ApplyFailed
  <2> QED BY <1>5, <2>1, <2>2 DEF Dump
<1>6. CASE Persist(w)
  BY <1>0, <1>6, ReturnsJob DEF Persist, Settling
<1> QED BY <1>1, <1>3, <1>4, <1>5, <1>6

(* A worker that lets go of its job (Resting) leaves the tables alone.     *)
LEMMA DropsJob ==
    ASSUME TypeOK, NEW w \in Workers, NEW local \in Worker, Becomes(w, local),
           local.job = None, UNCHANGED <<operations, outbox>>
    PROVE  Quiet
<1>1. wk'[w] = local /\ \A v \in Workers : v # w => wk'[v] = wk[v]
  BY BecomesLocal
<1> QED BY <1>1 DEF Quiet

(* So is it by the rest of a worker's life, its faults included.           *)
LEMMA WorkerJob ==
    ASSUME IInv, NEW w \in Workers,
           \/ Start(w) \/ (\E n \in Nodes : ReconcileNext(w, n)) \/ Poll(w)
           \/ ExecFail(w) \/ Timeout(w) \/ Crash(w)
    PROVE  Quiet
<1>0. TypeOK /\ wk[w] \in Worker
  BY DEF IInv, TypeOK
<1>1. ASSUME NEW phase \in {"idle", "down"}, NEW todo \in SUBSET Nodes,
             Becomes(w, Resting(phase, todo)), UNCHANGED <<operations, outbox>>
      PROVE  Quiet
  <2>1. Resting(phase, todo) \in Worker
    BY RestingType DEF Phase
  <2>2. Resting(phase, todo).job = None
    BY DEF Resting
  <2> QED BY <1>0, <1>1, <2>1, <2>2, DropsJob
<1>2. CASE Start(w)
  BY <1>1, <1>2 DEF Start
<1>3. CASE Crash(w)
  BY <1>1, <1>3 DEF Crash
<1>4. CASE \E n \in Nodes : ReconcileNext(w, n)
  <2>1. PICK n \in Nodes : ReconcileNext(w, n)
    BY <1>4
  <2> DEFINE local == [wk[w] EXCEPT !.pc = "read", !.node = n, !.todo = @ \ {n}]
  <2>2. local \in Worker
    BY <1>0, WorkerFields DEF Phase
  <2>3. wk[w].job = None
    BY <2>1 DEF ReconcileNext, IInv, WorkerSound, LocalSound
  <2>4. local.job = None
    BY <1>0, <2>3 DEF Worker
  <2>5. Becomes(w, local) /\ UNCHANGED <<operations, outbox>>
    BY <2>1 DEF ReconcileNext
  <2> HIDE DEF local
  <2> QED BY <1>0, <2>2, <2>4, <2>5, DropsJob
<1>5. CASE Poll(w)
  BY <1>5 DEF Poll, vars, Quiet
<1>6. CASE ExecFail(w)
  BY <1>0, <1>6, ReturnsJob DEF ExecFail, ApplyFailed, Settling
<1>7. CASE Timeout(w)
  BY <1>0, <1>7, ReturnsJob DEF Timeout, ApplyFailed, Settling
<1> QED BY <1>2, <1>3, <1>4, <1>5, <1>6, <1>7

(* A failing database call, by where the worker is.                        *)
LEMMA DbErrorJob ==
    ASSUME IInv, NEW w \in Workers, DbError(w)
    PROVE  JobStep
<1>0. TypeOK /\ wk[w] \in Worker /\ "db" \in faults.kinds
  BY DEF IInv, TypeOK, DbError, Fault
<1>1. ASSUME Becomes(w, Resting("idle", {})), UNCHANGED <<operations, outbox>>
      PROVE  Quiet
  <2>1. Resting("idle", {}) \in Worker
    BY RestingType DEF Phase
  <2>2. Resting("idle", {}).job = None
    BY DEF Resting
  <2> QED BY <1>0, <1>1, <2>1, <2>2, DropsJob
<1>2. CASE /\ wk[w].pc = "idle" /\ Becomes(w, [wk[w] EXCEPT !.todo = {}])
           /\ UNCHANGED <<peers, operations, outbox>>
  <2> DEFINE local == [wk[w] EXCEPT !.todo = {}]
  <2>1. local \in Worker /\ local.job = wk[w].job
    BY <1>0 DEF Worker
  <2>2. wk[w].job = None
    BY <1>2 DEF IInv, WorkerSound, LocalSound
  <2>3. Becomes(w, local) /\ UNCHANGED <<operations, outbox>>
    BY <1>2
  <2> HIDE DEF local
  <2>4. Quiet
    BY <1>0, <2>1, <2>2, <2>3, DropsJob
  <2> QED BY <2>4 DEF JobStep
<1>3. CASE (\E o \in Ops : Selects(w, o) /\ outbox' = Leased(o)) /\ UNCHANGED <<peers, operations, wk>>
  BY <1>0, <1>3 DEF Selects, ClaimLost, JobStep
<1>4. CASE /\ wk[w].pc \in {"read", "persist"} /\ ApplyFailed(w, TRUE)
           /\ UNCHANGED <<operations, outbox>>
  <2>1. Quiet
    BY <1>0, <1>4, ReturnsJob DEF ApplyFailed, Settling
  <2> QED BY <2>1 DEF JobStep
<1>5. CASE /\ wk[w].pc = "complete"
           /\ outbox' \in {outbox, [outbox EXCEPT ![wk[w].job].status = "applied"]}
           /\ Becomes(w, Resting("idle", {})) /\ UNCHANGED <<peers, operations>>
  BY <1>1, <1>5 DEF CompleteLost, JobStep
<1>6. CASE /\ wk[w].pc = "fail" /\ Becomes(w, [wk[w] EXCEPT !.pc = "markfailed"])
           /\ UNCHANGED <<peers, operations, outbox>>
  BY <1>0, <1>6 DEF FailLost, JobStep
<1>7. CASE /\ wk[w].pc \in {"markop", "markfailed"} /\ Becomes(w, Resting("idle", {}))
           /\ UNCHANGED <<peers, operations, outbox>>
  BY <1>1, <1>7 DEF JobStep
<1> QED BY <1>2, <1>3, <1>4, <1>5, <1>6, <1>7 DEF DbError

(* Every step is one of these, and the faults' kinds stay.                 *)
LEMMA JobSteps ==
    ASSUME IInv, [Next]_vars
    PROVE  JobStep /\ faults'.kinds = faults.kinds
<1>0. TypeOK
  BY DEF IInv
<1>1. faults'.kinds = faults.kinds
  <2>1. UNCHANGED faults \/ \E kind \in AllFaults : Fault(kind)
    <3>1. \A w \in Workers : Start(w) \/ Step(w) => UNCHANGED faults
      BY DEF Start, Step, ReconcileNext, Claim, Poll, vars, Read, Sync, BringUp, Dump, Persist,
             Complete, MarkApplied, Fail, MarkFailed
    <3>2. \A w \in Workers : ExecFail(w) \/ Timeout(w) \/ DbError(w) \/ Crash(w) =>
             \E kind \in AllFaults : Fault(kind)
      BY DEF ExecFail, Timeout, DbError, Crash, AllFaults
    <3>3. \A n \in Nodes : /\ InterfaceDown(n) => \E kind \in AllFaults : Fault(kind)
                           /\ (\E s \in SUBSET Peers : LateSync(n, s)) => UNCHANGED faults
      BY DEF InterfaceDown, LateSync, AllFaults
    <3>4. \A o \in Ops : /\ LeaseOutlived(o) => \E kind \in AllFaults : Fault(kind)
                         /\ LeaseExpire(o) => UNCHANGED faults
      BY DEF LeaseOutlived, LeaseExpire, AllFaults
    <3>5. HostRestart => \E kind \in AllFaults : Fault(kind)
      BY DEF HostRestart, AllFaults
    <3> QED BY <3>1, <3>2, <3>3, <3>4, <3>5 DEF Next, CreatePeer, RevokePeer, vars
  <2> QED BY <1>0, <2>1 DEF Fault, TypeOK, Regime
<1>2. ASSUME NEW w \in Workers, Step(w)
      PROVE  JobStep
  BY <1>2, ApplyJob, WorkerJob DEF Step, JobStep
<1>3. ASSUME NEW w \in Workers, Start(w) \/ ExecFail(w) \/ Timeout(w) \/ DbError(w) \/ Crash(w)
      PROVE  JobStep
  BY <1>3, WorkerJob, DbErrorJob DEF JobStep
<1>4. ASSUME NEW p \in Peers, NEW n \in Nodes, NEW o \in Ops, CreatePeer(p, n, o)
      PROVE  JobStep
  BY <1>4 DEF CreatePeer, JobStep
<1>5. ASSUME NEW p \in Peers, NEW o \in Ops, RevokePeer(p, o)
      PROVE  JobStep
  <2>1. peers[p].desired + 1 \in Nat
    BY <1>0 DEF TypeOK, PeerRow
  <2> QED BY <1>5, <2>1 DEF RevokePeer, JobStep
<1>6. ASSUME NEW n \in Nodes, InterfaceDown(n) \/ \E s \in SUBSET Peers : LateSync(n, s)
      PROVE  JobStep
  BY <1>6 DEF InterfaceDown, LateSync, Quiet, JobStep
<1>7. HostRestart => JobStep
  BY DEF HostRestart, Resting, Quiet, JobStep
<1>8. UNCHANGED vars => JobStep
  BY DEF vars, Quiet, JobStep
<1>9. ASSUME NEW o \in Ops, LeaseExpire(o) \/ LeaseOutlived(o)
      PROVE  JobStep
  BY <1>9 DEF JobStep
<1> QED BY <1>1, <1>2, <1>3, <1>4, <1>5, <1>6, <1>7, <1>8, <1>9 DEF Next

-----------------------------------------------------------------------------
(* One worker per job, while leases hold.                                  *)

(* A worker on a job whose outcome is not written yet.                     *)
Busy(w) == wk[w].job # None /\ wk[w].pc \notin {"markop", "markfailed"}

(* A worker is busy only under a lease that runs.                          *)
JobsHeld ==
    /\ "slow" \notin faults.kinds
    /\ \A w \in Workers :
          Busy(w) => outbox[wk[w].job].status = "leased" /\ outbox[wk[w].job].lease
    /\ NoDoubleWork

(* Two busy workers are on two jobs.                                       *)
LEMMA BusyOnce ==
    ASSUME NoDoubleWork, NEW v \in Workers, NEW w \in Workers, Busy(v), Busy(w),
           wk[v].job = wk[w].job
    PROVE  v = w
BY DEF NoDoubleWork, Busy

(* A step after which whoever is busy was busy with the same job before,   *)
(* and in which no such job's row is written.                              *)
LEMMA HeldBefore ==
    ASSUME JobsHeld, faults'.kinds = faults.kinds,
           \A w \in Workers : Busy(w)' => /\ Busy(w) /\ wk'[w].job = wk[w].job
                                          /\ outbox'[wk[w].job] = outbox[wk[w].job]
    PROVE  JobsHeld'
<1>1. ASSUME NEW v \in Workers, NEW w \in Workers, Busy(v)', Busy(w)', wk'[v].job = wk'[w].job
      PROVE  v = w
  BY <1>1, BusyOnce DEF JobsHeld
<1>2. NoDoubleWork'
  BY <1>1 DEF NoDoubleWork, Busy
<1> QED BY <1>2 DEF JobsHeld

(* Writing the outcome of a job disturbs no other worker's (Complete,      *)
(* Fail).                                                                  *)
LEMMA HeldOutcome ==
    ASSUME IInv, JobsHeld, faults'.kinds = faults.kinds, NEW w \in Workers,
           wk[w].pc \in {"complete", "fail"}, ~Busy(w)',
           \A v \in Workers : v # w => wk'[v] = wk[v],
           NEW st, outbox' = [outbox EXCEPT ![wk[w].job].status = st]
    PROVE  JobsHeld'
<1>1. Busy(w) /\ outbox \in [Ops -> Job]
  BY DEF IInv, TypeOK, WorkerSound, LocalSound, Settling, Busy
<1>2. ASSUME NEW v \in Workers, Busy(v)'
      PROVE  /\ Busy(v) /\ wk'[v].job = wk[v].job
             /\ outbox'[wk[v].job] = outbox[wk[v].job]
  <2>1. v # w /\ wk'[v] = wk[v]
    BY <1>2
  <2>2. Busy(v)
    BY <1>2, <2>1 DEF Busy
  <2>3. wk[v].job # wk[w].job
    BY <1>1, <2>1, <2>2, BusyOnce DEF JobsHeld
  <2>4. wk[v].job \in Ops
    BY <2>2 DEF IInv, TypeOK, Worker, Busy
  <2> QED BY <1>1, <2>1, <2>2, <2>3, <2>4
<1> QED BY <1>2, HeldBefore

(* A claim takes a job nobody is busy with (Claimable).                    *)
LEMMA HeldClaim ==
    ASSUME IInv, JobsHeld, faults'.kinds = faults.kinds,
           NEW o \in Ops, Claimable(o), outbox' = Leased(o),
           \A v \in Workers : wk'[v] = wk[v] \/ wk'[v].job = o,
           \A u, v \in Workers : wk'[u] = wk[u] \/ wk'[v] = wk[v] \/ u = v
    PROVE  JobsHeld'
<1>0. outbox \in [Ops -> Job] /\ \A v \in Workers : wk[v] \in Worker
  BY DEF IInv, TypeOK
<1>1. \A v \in Workers : Busy(v) => wk[v].job \in Ops /\ wk[v].job # o
  BY <1>0 DEF JobsHeld, Claimable, Busy, Worker
<1>2. outbox'[o].status = "leased" /\ outbox'[o].lease /\ \A q \in Ops : q # o => outbox'[q] = outbox[q]
  BY <1>0 DEF Leased
<1>3. ASSUME NEW v \in Workers, Busy(v)'
      PROVE  outbox'[wk'[v].job].status = "leased" /\ outbox'[wk'[v].job].lease
  <2>1. CASE wk'[v] = wk[v]
    BY <1>1, <1>2, <1>3, <2>1 DEF JobsHeld, Busy
  <2>2. CASE wk'[v].job = o
    BY <1>2, <2>2
  <2> QED BY <2>1, <2>2
<1>4. ASSUME NEW v \in Workers, NEW w \in Workers, Busy(v)', Busy(w)', wk'[v].job = wk'[w].job, v # w
      PROVE  FALSE
  <2>1. CASE wk'[v] = wk[v] /\ wk'[w] = wk[w]
    BY <1>4, <2>1, BusyOnce DEF JobsHeld, Busy
  <2>2. CASE wk'[v].job = o /\ wk'[w] = wk[w]
    BY <1>1, <1>4, <2>2 DEF Busy
  <2>3. CASE wk'[w].job = o /\ wk'[v] = wk[v]
    BY <1>1, <1>4, <2>3 DEF Busy
  <2> QED BY <1>4, <2>1, <2>2, <2>3
<1>5. NoDoubleWork'
  BY <1>4 DEF NoDoubleWork, Busy
<1> QED BY <1>3, <1>5 DEF JobsHeld

(* Every step keeps it: a lease does not pass under its holder.            *)
LEMMA HeldNext ==
    ASSUME IInv, JobsHeld, [Next]_vars
    PROVE  JobsHeld'
<1>0. TypeOK /\ JobStep /\ faults'.kinds = faults.kinds
  BY JobSteps DEF IInv
<1>1. CASE Quiet
  <2>1. ASSUME NEW w \in Workers, Busy(w)'
        PROVE  Busy(w) /\ wk'[w].job = wk[w].job
    BY <1>1, <2>1 DEF Quiet, Busy, Settling
  <2> QED BY <1>0, <1>1, <2>1, HeldBefore DEF Quiet
<1>2. ASSUME NEW o \in Ops, NEW p \in Peers, NEW rev \in Nat, Enqueue(o, p, rev), UNCHANGED wk
      PROVE  JobsHeld'
  <2>1. ASSUME NEW w \in Workers, Busy(w)
        PROVE  outbox'[wk[w].job] = outbox[wk[w].job]
    <3>1. wk[w].job \in Ops /\ wk[w].job # o
      BY <1>0, <1>2, <2>1 DEF Busy, IInv, WorkerSound, LocalSound, Enqueue, TypeOK, Worker
    <3> QED BY <1>0, <1>2, <3>1 DEF Enqueue, InsertJob, TypeOK
  <2> QED BY <1>0, <1>2, <2>1, HeldBefore DEF Busy
<1>3. ASSUME NEW w \in Workers, NEW o \in Ops, Claim(w, o)
      PROVE  JobsHeld'
  <2> DEFINE local == [wk[w] EXCEPT !.pc = "read", !.job = o,
                                    !.node = peers[operations[o].peer].node]
  <2>1. Claimable(o) /\ outbox' = Leased(o) /\ Becomes(w, local)
    BY <1>3 DEF Claim, Selects
  <2>2. wk[w] \in Worker /\ peers[operations[o].peer].node \in Nodes \cup {None}
    BY <1>0, <2>1 DEF IInv, OpSound, Claimable, TypeOK, PeerRow
  <2>3. local \in Worker
    BY <2>2, WorkerFields DEF Phase
  <2>4. local.job = o
    BY <2>2 DEF Worker
  <2> HIDE DEF local
  <2>5. wk'[w].job = o /\ \A v \in Workers : v # w => wk'[v] = wk[v]
    BY <1>0, <2>1, <2>3, <2>4, BecomesLocal
  <2>6. /\ \A v \in Workers : wk'[v] = wk[v] \/ wk'[v].job = o
        /\ \A u, v \in Workers : wk'[u] = wk[u] \/ wk'[v] = wk[v] \/ u = v
    BY <2>5
  <2> QED BY <1>0, <2>1, <2>6, HeldClaim
<1>4. ASSUME NEW o \in Ops, ClaimLost(o)
      PROVE  JobsHeld'
  BY <1>0, <1>4, HeldClaim DEF ClaimLost
<1>5. ASSUME NEW w \in Workers, NEW phase \in {"markop", "markfailed"}, wk[w].pc \in {"complete", "fail"},
             Becomes(w, [wk[w] EXCEPT !.pc = phase])
      PROVE  ~Busy(w)' /\ \A v \in Workers : v # w => wk'[v] = wk[v]
  <2> DEFINE local == [wk[w] EXCEPT !.pc = phase]
  <2>0. wk[w] \in Worker /\ phase \in Phase
    BY <1>0 DEF Phase, TypeOK
  <2>1. local \in Worker /\ local.pc = phase
    BY <2>0 DEF Worker
  <2> HIDE DEF local
  <2>2. wk'[w] = local /\ \A v \in Workers : v # w => wk'[v] = wk[v]
    BY <1>0, <1>5, <2>1, BecomesLocal DEF local
  <2> QED BY <2>1, <2>2 DEF Busy
<1>6. ASSUME NEW w \in Workers, Becomes(w, Resting("idle", {}))
      PROVE  ~Busy(w)' /\ \A v \in Workers : v # w => wk'[v] = wk[v]
  <2>1. Resting("idle", {}) \in Worker /\ Resting("idle", {}).job = None
    BY RestingType DEF Phase, Resting
  <2>2. wk'[w].job = None /\ \A v \in Workers : v # w => wk'[v] = wk[v]
    BY <1>0, <1>6, <2>1, BecomesLocal
  <2> QED BY <2>2 DEF Busy
<1>7. ASSUME NEW w \in Workers, Complete(w) \/ Fail(w) \/ CompleteLost(w)
      PROVE  JobsHeld'
  <2>1. PICK st : outbox' = [outbox EXCEPT ![wk[w].job].status = st]
    BY <1>7 DEF Complete, Fail, CompleteLost
  <2>2. wk[w].pc \in {"complete", "fail"} /\ ~Busy(w)' /\ \A v \in Workers : v # w => wk'[v] = wk[v]
    BY <1>5, <1>6, <1>7 DEF Complete, Fail, CompleteLost
  <2> QED BY <1>0, <2>1, <2>2, HeldOutcome
<1>8. ASSUME NEW w \in Workers, MarkApplied(w) \/ MarkFailed(w) \/ FailLost(w)
      PROVE  JobsHeld'
  <2>1. ~Busy(w)' /\ (\A v \in Workers : v # w => wk'[v] = wk[v]) /\ UNCHANGED outbox
    BY <1>5, <1>6, <1>8 DEF MarkApplied, MarkFailed, FailLost
  <2>2. \A v \in Workers : Busy(v)' => Busy(v) /\ wk'[v].job = wk[v].job
    BY <2>1 DEF Busy
  <2> QED BY <1>0, <2>1, <2>2, HeldBefore
<1>9. ASSUME NEW o \in Ops, LeaseExpire(o)
      PROVE  JobsHeld'
  <2>1. ASSUME NEW w \in Workers, Busy(w)
        PROVE  outbox'[wk[w].job] = outbox[wk[w].job]
    <3>1. wk[w].job \in Ops /\ wk[w].job # o
      BY <1>0, <1>9, <2>1 DEF LeaseExpire, Holds, Busy, TypeOK, Worker
    <3> QED BY <1>0, <1>9, <3>1 DEF LeaseExpire, LeasePasses, TypeOK
  <2> QED BY <1>0, <1>9, <2>1, HeldBefore DEF Busy, LeaseExpire, LeasePasses
<1>10. ASSUME NEW o \in Ops, LeaseOutlived(o)
       PROVE  JobsHeld'
  BY <1>10 DEF LeaseOutlived, Fault, JobsHeld
<1> QED BY <1>0, <1>1, <1>2, <1>3, <1>4, <1>7, <1>8, <1>9, <1>10 DEF JobStep

(* While no worker outlives its lease, no two workers apply or complete    *)
(* the same job (ClaimNext: FOR UPDATE SKIP LOCKED and leased_until).      *)
THEOREM JobsAreHeldOnce ==
    ASSUME LeasesHold
    PROVE  Spec => []NoDoubleWork
<1>1. Init => JobsHeld
  <2> SUFFICES ASSUME Init PROVE JobsHeld
    OBVIOUS
  <2>1. \A w \in Workers : wk[w].job = None
    BY DEF Init, Resting
  <2> QED BY <2>1, LeasesHold DEF Init, LeasesHold, JobsHeld, Busy, NoDoubleWork
<1>2. IInv /\ JobsHeld /\ [Next]_vars => JobsHeld'
  BY HeldNext
<1>3. JobsHeld => NoDoubleWork
  BY DEF JobsHeld
<1> QED BY <1>1, <1>2, <1>3, Invariance, PTL DEF Spec

-----------------------------------------------------------------------------
(* Verdicts, with one worker and a database that answers.                  *)

Final == {"applied", "failed_terminal"}
Settled(o) == operations[o].status \in Final

(* The job of a settled operation is never claimed again, and a worker     *)
(* writes to an operation what its job's row says already.                 *)
Verdicts ==
    /\ "db" \notin faults.kinds
    /\ \A o \in Ops : Settled(o) => outbox[o].status \in Final
    /\ \A w \in Workers :
          wk[w].job # None =>
             /\ ~Settled(wk[w].job)
             /\ wk[w].pc = "markop" => outbox[wk[w].job].status = "applied"
             /\ wk[w].pc = "markfailed" =>
                   outbox[wk[w].job].status = Failed(wk[w].retryable)

(* The worker that goes idle leaves the invariant to the tables (Resting). *)
LEMMA VerdictsIdle ==
    ASSUME SingleWorker, IInv, Verdicts, faults'.kinds = faults.kinds, NEW w \in Workers,
           Becomes(w, Resting("idle", {})), \A o \in Ops : Settled(o)' => outbox'[o].status \in Final
    PROVE  Verdicts'
<1>1. Resting("idle", {}) \in Worker /\ Resting("idle", {}).job = None
  BY RestingType DEF Phase, Resting
<1>2. wk'[w].job = None
  BY <1>1, BecomesLocal DEF IInv
<1>3. \A v \in Workers : wk'[v].job = None
  BY <1>2, SingleWorker DEF SingleWorker
<1> QED BY <1>3 DEF Verdicts

(* The worker that wrote the outcome of its job and goes on to the         *)
(* operation agrees with the job's row.                                    *)
LEMMA VerdictsOutcome ==
    ASSUME SingleWorker, IInv, Verdicts, faults'.kinds = faults.kinds, NEW w \in Workers,
           NEW local \in Worker, Becomes(w, local), UNCHANGED operations,
           NEW o \in Ops, local.job = o, ~Settled(o),
           NEW st, outbox' = [outbox EXCEPT ![o].status = st],
           local.pc = "markop" => st = "applied",
           local.pc = "markfailed" => st = Failed(local.retryable)
    PROVE  Verdicts'
<1>0. TypeOK /\ outbox \in [Ops -> Job]
  BY DEF IInv, TypeOK
<1>1. \A v \in Workers : wk'[v] = local
  BY <1>0, BecomesLocal, SingleWorker DEF SingleWorker
<1>2. outbox'[o].status = st /\ \A q \in Ops : q # o => outbox'[q] = outbox[q]
  BY <1>0 DEF Job
<1>3. \A q \in Ops : Settled(q)' <=> Settled(q)
  BY DEF Settled
<1>4. \A q \in Ops : Settled(q)' => outbox'[q].status \in Final
  BY <1>2, <1>3 DEF Verdicts
<1> QED BY <1>1, <1>2, <1>3, <1>4 DEF Verdicts

(* A claim takes a job whose operation has no verdict (Claimable).         *)
LEMMA VerdictsClaim ==
    ASSUME SingleWorker, IInv, Verdicts, faults'.kinds = faults.kinds, NEW w \in Workers,
           NEW o \in Ops, Claim(w, o)
    PROVE  Verdicts'
<1>0. TypeOK /\ outbox \in [Ops -> Job] /\ wk[w] \in Worker /\ Claimable(o) /\ UNCHANGED operations
  BY DEF IInv, TypeOK, Claim, Selects
<1>1. ~Settled(o) /\ peers[operations[o].peer].node \in Nodes \cup {None}
  BY <1>0 DEF Claimable, Verdicts, Final, IInv, OpSound, TypeOK, PeerRow
<1> DEFINE local == [wk[w] EXCEPT !.pc = "read", !.job = o,
                                  !.node = peers[operations[o].peer].node]
<1>2. local \in Worker
  BY <1>0, <1>1, WorkerFields DEF Phase
<1>3. local.job = o /\ local.pc = "read"
  BY <1>0 DEF Worker
<1>4. Becomes(w, local) /\ outbox' = Leased(o)
  BY DEF Claim
<1> HIDE DEF local
<1>5. \A v \in Workers : wk'[v] = local
  BY <1>0, <1>2, <1>4, BecomesLocal, SingleWorker DEF SingleWorker
<1>6. \A q \in Ops : q # o => outbox'[q] = outbox[q]
  BY <1>0, <1>4 DEF Leased
<1>7. \A q \in Ops : Settled(q)' <=> Settled(q)
  BY <1>0 DEF Settled
<1> QED BY <1>1, <1>3, <1>5, <1>6, <1>7 DEF Verdicts

(* Every step keeps it.                                                    *)
LEMMA VerdictsNext ==
    ASSUME SingleWorker, IInv, Verdicts, [Next]_vars
    PROVE  Verdicts'
<1>0. TypeOK /\ JobStep /\ faults'.kinds = faults.kinds /\ outbox \in [Ops -> Job] /\ operations \in [Ops -> Operation]
  BY JobSteps DEF IInv, TypeOK
<1>1. CASE Quiet
  <2>1. \A o : Settled(o)' <=> Settled(o)
    BY <1>1 DEF Quiet, Settled
  <2>2. ASSUME NEW w \in Workers, wk'[w].job # None
        PROVE  /\ wk'[w].job = wk[w].job
               /\ wk'[w].pc \in {"markop", "markfailed"} => wk'[w] = wk[w]
    BY <1>1, <2>2 DEF Quiet
  <2> QED BY <1>0, <1>1, <2>1, <2>2 DEF Quiet, Verdicts
<1>2. ASSUME NEW o \in Ops, NEW p \in Peers, NEW rev \in Nat, Enqueue(o, p, rev), UNCHANGED wk
      PROVE  Verdicts'
  <2>1. operations' = [operations EXCEPT ![o] = [status |-> "pending", peer |-> p, rev |-> rev]]
        /\ outbox' = [outbox EXCEPT ![o].status = "pending"]
    BY <1>2 DEF Enqueue, InsertOperation, InsertJob
  <2>2. \A q \in Ops : q # o => outbox'[q] = outbox[q] /\ (Settled(q)' <=> Settled(q))
    BY <1>0, <2>1 DEF Settled
  <2>3. ~Settled(o)'
    BY <1>0, <2>1 DEF Settled, Final
  <2>4. \A w \in Workers : wk[w].job # None => wk[w].job \in Ops /\ wk[w].job # o
    BY <1>0, <1>2 DEF IInv, WorkerSound, LocalSound, Enqueue, TypeOK, Worker
  <2> QED BY <1>0, <1>2, <2>2, <2>3, <2>4 DEF Verdicts
<1>3. ASSUME NEW w \in Workers, NEW o \in Ops, Claim(w, o)
      PROVE  Verdicts'
  BY <1>0, <1>3, VerdictsClaim
<1>4. ASSUME NEW o \in Ops, ClaimLost(o)
      PROVE  Verdicts'
  BY <1>4 DEF ClaimLost, Verdicts
<1>5. ASSUME NEW w \in Workers, NEW phase \in {"markop", "markfailed"}, wk[w].pc \in Settling
      PROVE  LET r == [wk[w] EXCEPT !.pc = phase]
             IN  /\ r \in Worker /\ r.pc = phase /\ r.retryable = wk[w].retryable
                 /\ r.job = wk[w].job /\ wk[w].job \in Ops /\ ~Settled(wk[w].job)
  <2>1. wk[w] \in Worker /\ phase \in Phase
    BY <1>0 DEF Phase, TypeOK
  <2>2. wk[w].job \in Ops /\ ~Settled(wk[w].job)
    BY <1>5, <2>1 DEF IInv, WorkerSound, LocalSound, Verdicts, Worker
  <2> QED BY <2>1, <2>2 DEF Worker
<1>6. ASSUME NEW w \in Workers, Complete(w)
      PROVE  Verdicts'
  <2> DEFINE r == [wk[w] EXCEPT !.pc = "markop"]
  <2>1. Becomes(w, r) /\ UNCHANGED operations /\ outbox' = [outbox EXCEPT ![wk[w].job].status = "applied"]
    BY <1>6 DEF Complete
  <2>2. /\ r \in Worker /\ r.pc = "markop" /\ r.job = wk[w].job
        /\ wk[w].job \in Ops /\ ~Settled(wk[w].job)
    BY <1>5, <1>6 DEF Complete, Settling
  <2> HIDE DEF r
  <2> QED BY <1>0, <2>1, <2>2, VerdictsOutcome
<1>7. ASSUME NEW w \in Workers, Fail(w)
      PROVE  Verdicts'
  <2> DEFINE r == [wk[w] EXCEPT !.pc = "markfailed"]
  <2>1. Becomes(w, r) /\ UNCHANGED operations
        /\ outbox' = [outbox EXCEPT ![wk[w].job].status = Failed(wk[w].retryable)]
    BY <1>7 DEF Fail
  <2>2. /\ r \in Worker /\ r.pc = "markfailed" /\ r.job = wk[w].job /\ r.retryable = wk[w].retryable
        /\ wk[w].job \in Ops /\ ~Settled(wk[w].job)
    BY <1>5, <1>7 DEF Fail, Settling
  <2> HIDE DEF r
  <2> QED BY <1>0, <2>1, <2>2, VerdictsOutcome
<1>8. ASSUME NEW w \in Workers, MarkApplied(w) \/ MarkFailed(w)
      PROVE  Verdicts'
  <2>1. wk[w].job \in Ops /\ wk[w].job # None
    BY <1>0, <1>8 DEF IInv, WorkerSound, LocalSound, MarkApplied, MarkFailed, Settling, TypeOK, Worker
  <2>2. PICK st : /\ st = outbox[wk[w].job].status
                  /\ operations' = [operations EXCEPT ![wk[w].job].status = st]
    BY <1>8, <2>1 DEF MarkApplied, MarkFailed, Verdicts
  <2>3. \A q \in Ops : Settled(q)' => outbox[q].status \in Final
    BY <1>0, <2>1, <2>2 DEF Settled, Verdicts, Operation
  <2>4. Becomes(w, Resting("idle", {})) /\ UNCHANGED outbox
    BY <1>8 DEF MarkApplied, MarkFailed
  <2> QED BY <1>0, <2>3, <2>4, VerdictsIdle
<1>9. ASSUME NEW w \in Workers, CompleteLost(w)
      PROVE  Verdicts'
  <2>1. wk[w].job \in Ops
    BY <1>0, <1>9 DEF IInv, WorkerSound, LocalSound, CompleteLost, Settling, TypeOK, Worker
  <2>2. \A q \in Ops : Settled(q)' => outbox'[q].status \in Final
    BY <1>0, <1>9, <2>1 DEF CompleteLost, Settled, Verdicts, Job, Final
  <2> QED BY <1>0, <1>9, <2>2, VerdictsIdle DEF CompleteLost
<1>10. ASSUME NEW w \in Workers, FailLost(w)
       PROVE  Verdicts'
  BY <1>10 DEF FailLost, Verdicts
<1>11. ASSUME NEW o \in Ops, LeaseExpire(o) \/ LeaseOutlived(o)
       PROVE  Verdicts'
  <2>1. outbox' = [outbox EXCEPT ![o].lease = FALSE] /\ UNCHANGED <<operations, wk>>
    BY <1>11 DEF LeaseExpire, LeaseOutlived, LeasePasses
  <2>2. \A q \in Ops : outbox'[q].status = outbox[q].status
    BY <1>0, <2>1 DEF Job
  <2>3. \A q : Settled(q)' <=> Settled(q)
    BY <2>1 DEF Settled
  <2>4. \A w \in Workers : wk[w].job # None => wk[w].job \in Ops
    BY <1>0 DEF TypeOK, Worker
  <2> QED BY <1>0, <2>1, <2>2, <2>3, <2>4 DEF Verdicts
<1> QED BY <1>0, <1>1, <1>2, <1>3, <1>4, <1>6, <1>7, <1>8, <1>9, <1>10, <1>11 DEF JobStep

(* With one worker and a database that answers, the verdict of an          *)
(* operation stays (processJob settles the job before the operation, so    *)
(* that no retry follows).                                                 *)
THEOREM VerdictsStay ==
    ASSUME SingleWorker, DatabaseAnswers
    PROVE  Spec => VerdictIsFinal
<1>1. Init => Verdicts
  <2> SUFFICES ASSUME Init PROVE Verdicts
    OBVIOUS
  <2>1. (\A w \in Workers : wk[w].job = None) /\ \A o \in Ops : ~Settled(o)
    BY DEF Init, Resting, Settled, Final
  <2> QED BY <2>1, DatabaseAnswers DEF Init, DatabaseAnswers, Verdicts
<1>2. IInv /\ Verdicts /\ [Next]_vars => Verdicts'
  BY SingleWorker, VerdictsNext
<1>3. IInv /\ Verdicts /\ [Next]_vars =>
         [\A o \in Ops :
             operations[o].status \in {"applied", "failed_terminal"} =>
                 operations'[o].status = operations[o].status]_vars
  <2> SUFFICES ASSUME IInv, Verdicts, [Next]_vars, NEW o \in Ops, Settled(o)
               PROVE  operations'[o].status = operations[o].status
    BY DEF Settled, Final
  <2>0. JobStep /\ operations \in [Ops -> Operation] /\ \A w \in Workers : wk[w] \in Worker
    BY JobSteps DEF IInv, TypeOK
  <2>1. ASSUME NEW w \in Workers, MarkApplied(w) \/ MarkFailed(w)
        PROVE  operations'[o].status = operations[o].status
    <3>1. wk[w].job \in Ops /\ wk[w].job # o
      BY <2>0, <2>1 DEF IInv, WorkerSound, LocalSound, MarkApplied, MarkFailed, Settling, Verdicts, Worker
    <3> QED BY <2>0, <2>1, <3>1 DEF MarkApplied, MarkFailed
  <2>2. ASSUME NEW q \in Ops, NEW p \in Peers, NEW rev \in Nat, Enqueue(q, p, rev)
        PROVE  operations'[o].status = operations[o].status
    <3>1. q # o
      BY <2>2 DEF Enqueue, Settled, Final
    <3> QED BY <2>0, <2>2, <3>1 DEF Enqueue, InsertOperation
  <2>3. UNCHANGED operations => operations'[o].status = operations[o].status
    OBVIOUS
  <2> QED BY <2>0, <2>1, <2>2, <2>3
          DEF JobStep, Quiet, Claim, ClaimLost, Complete, Fail, CompleteLost, FailLost, LeaseExpire,
              LeaseOutlived, LeasePasses
<1> QED BY <1>1, <1>2, <1>3, Invariance, PTL DEF Spec, VerdictIsFinal

-----------------------------------------------------------------------------
(* Revoked peers, with one worker and no config applied late.              *)

Gone(p) == p \notin iface[peers[p].node].peers /\ ~peers[p].present
Confirmed(o) == operations[o].status = "applied" /\ operations[o].rev > 1

(* What an apply knows: every revision after the first is a revocation.    *)
SnapRevokes(r) ==
    \A p \in Peers :
       r.snap[p].state # "absent" =>
          /\ peers[p].node = r.node
          /\ r.snap[p].desired >= 2 => r.snap[p].state = "revoked"

(* Once SyncConf has succeeded, the interface carries no peer that the     *)
(* snapshot has as revoked, and neither does the dump.                     *)
SyncedOff(r) ==
    \A p \in Peers :
       r.snap[p].state = "revoked" =>
          /\ r.pc \in {"dump", "persist"} => p \notin iface[r.node].peers
          /\ r.pc = "persist" => p \notin r.seen

RevokesLast ==
    /\ "late" \notin faults.kinds /\ \A n \in Nodes : flight[n] = {}
    /\ \A p \in Peers : peers[p].desired >= 2 => peers[p].state = "revoked"
    /\ \A w \in Workers :
          /\ wk[w].pc \in Applying => SnapRevokes(wk[w]) /\ SyncedOff(wk[w])
          /\ wk[w].pc \in {"complete", "markop"} /\ operations[wk[w].job].rev > 1 =>
                Gone(operations[wk[w].job].peer)
    /\ \A o \in Ops : Confirmed(o) =>
          /\ Gone(operations[o].peer)
          /\ \A w \in Workers :
                wk[w].pc \in Applying /\ wk[w].node = OpPeer(o).node =>
                   wk[w].snap[operations[o].peer].state = "revoked"

(* The ways into and through an apply and its settling.                    *)
Synced(w) ==
    /\ wk[w].pc \in {"sync", "resync"}
    /\ iface' = Carrying(wk[w].node, Rendered(wk[w].snap))
    /\ wk'[w].pc = "dump" /\ wk'[w].snap = wk[w].snap /\ wk'[w].node = wk[w].node
    /\ UNCHANGED peers

Resyncs(w) ==
    /\ wk[w].pc \in {"sync", "up"} /\ wk'[w].pc \in {"up", "resync"}
    /\ wk'[w].snap = wk[w].snap /\ wk'[w].node = wk[w].node

Dumped(w) ==
    /\ wk[w].pc = "dump" /\ UNCHANGED iface
    /\ wk'[w].pc = "persist" /\ wk'[w].seen = iface[wk[w].node].peers
    /\ wk'[w].snap = wk[w].snap /\ wk'[w].node = wk[w].node

Recorded(w) ==
    /\ wk[w].pc = "persist" /\ peers' = Persisted(w) /\ UNCHANGED <<iface, operations>>
    /\ wk'[w].pc = "complete" /\ wk'[w].job = wk[w].job /\ wk[w].job # None

Completed(w) ==
    /\ wk[w].pc = "complete" /\ wk'[w].pc = "markop" /\ wk'[w].job = wk[w].job
    /\ UNCHANGED <<peers, operations, iface>>

Viewed(w) ==
    /\ wk[w].pc = "read" /\ wk'[w].pc = "sync"
    /\ wk'[w].snap = View(wk[w].node) /\ wk'[w].node = wk[w].node
    /\ UNCHANGED <<peers, operations>>

ApplyMove(w) ==
    \/ wk'[w].pc \notin Applying \cup {"complete", "markop"}
    \/ wk'[w] = wk[w]
    \/ Viewed(w) \/ Synced(w) \/ Resyncs(w) \/ Dumped(w) \/ Recorded(w) \/ Completed(w)

(* A worker that rests, fails or starts an apply holds no snapshot that    *)
(* matters.                                                                *)
LEMMA OutOfApply ==
    ASSUME IInv, NEW w \in Workers, NEW local \in Worker, Becomes(w, local),
           local.pc \notin Applying \cup {"complete", "markop"}
    PROVE  \A v \in Workers : ApplyMove(v)
<1>1. wk'[w] = local /\ \A v \in Workers : v # w => wk'[v] = wk[v]
  BY BecomesLocal DEF IInv
<1> QED BY <1>1 DEF ApplyMove

(* So does one whose apply failed (ApplyFailed).                           *)
LEMMA FailedApply ==
    ASSUME IInv, NEW w \in Workers, NEW r \in BOOLEAN, ApplyFailed(w, r)
    PROVE  \A v \in Workers : ApplyMove(v)
<1>1. Becomes(w, Returned(w, "fail", r)) /\ Returned(w, "fail", r) \in Worker
  BY ReturnedType DEF ApplyFailed, ApplyReturns, Returned, Phase, IInv
<1>2. Returned(w, "fail", r).pc \in {"idle", "fail"}
  BY DEF Returned, Resting
<1> QED BY <1>1, <1>2, OutOfApply DEF Applying

(* A worker that only goes to another phase keeps its snapshot, node and   *)
(* job.                                                                    *)
LEMMA PhaseMove ==
    ASSUME IInv, NEW w \in Workers, NEW phase \in Phase, Becomes(w, [wk[w] EXCEPT !.pc = phase])
    PROVE  /\ wk'[w].pc = phase /\ wk'[w].snap = wk[w].snap
           /\ wk'[w].node = wk[w].node /\ wk'[w].job = wk[w].job
           /\ \A v \in Workers : v # w => wk'[v] = wk[v]
<1>0. TypeOK /\ wk[w] \in Worker
  BY DEF IInv, TypeOK
<1> DEFINE r == [wk[w] EXCEPT !.pc = phase]
<1>1. /\ r \in Worker /\ r.pc = phase /\ r.snap = wk[w].snap
      /\ r.node = wk[w].node /\ r.job = wk[w].job
  BY <1>0 DEF Worker
<1>2. Becomes(w, r)
  OBVIOUS
<1> HIDE DEF r
<1> QED BY <1>0, <1>1, <1>2, BecomesLocal

(* The steps of an apply that goes on (Read, SyncConf, InterfaceUp,        *)
(* ShowDump).                                                              *)
LEMMA ApplyGoesOn ==
    ASSUME IInv, NEW w \in Workers, Read(w) \/ Sync(w) \/ BringUp(w) \/ Dump(w)
    PROVE  \A v \in Workers : ApplyMove(v)
<1>0. TypeOK /\ wk[w] \in Worker
  BY DEF IInv, TypeOK
<1>1. ASSUME NEW local \in Worker, Becomes(w, local)
      PROVE  wk'[w] = local /\ \A v \in Workers : v # w => wk'[v] = wk[v]
  BY <1>0, <1>1, BecomesLocal
<1>2. "dump" \in Phase /\ "up" \in Phase /\ "resync" \in Phase
  BY DEF Phase
<1>3. CASE Read(w)
  <2> DEFINE r == [wk[w] EXCEPT !.pc = "sync", !.snap = View(wk[w].node)]
  <2>1. View(wk[w].node) \in [Peers -> PeerView]
    BY <1>0, ViewType
  <2>2. r \in Worker
    BY <1>0, <2>1, WorkerFields DEF Phase
  <2>3. r.pc = "sync" /\ r.snap = View(wk[w].node) /\ r.node = wk[w].node
    BY <1>0 DEF Worker
  <2>4. Becomes(w, r) /\ wk[w].pc = "read" /\ UNCHANGED <<peers, operations>>
    BY <1>3 DEF Read
  <2> HIDE DEF r
  <2>5. Viewed(w) /\ \A v \in Workers : v # w => wk'[v] = wk[v]
    BY <1>1, <2>2, <2>3, <2>4 DEF Viewed
  <2> QED BY <2>5 DEF ApplyMove
<1>4. CASE Sync(w)
  <2>1. CASE /\ wk[w].pc \in {"sync", "resync"} /\ UNCHANGED peers
             /\ iface' = Carrying(wk[w].node, Rendered(wk[w].snap))
             /\ Becomes(w, [wk[w] EXCEPT !.pc = "dump"])
    <3>1. Synced(w) /\ \A v \in Workers : v # w => wk'[v] = wk[v]
      BY <1>2, <2>1, PhaseMove DEF Synced
    <3> QED BY <3>1 DEF ApplyMove
  <2>2. CASE wk[w].pc = "sync" /\ Becomes(w, [wk[w] EXCEPT !.pc = "up"])
    <3>1. Resyncs(w) /\ \A v \in Workers : v # w => wk'[v] = wk[v]
      BY <1>2, <2>2, PhaseMove DEF Resyncs
    <3> QED BY <3>1 DEF ApplyMove
  <2>3. CASE ApplyFailed(w, TRUE)
    BY <2>3, FailedApply
  <2> QED BY <1>4, <2>1, <2>2, <2>3 DEF Sync
<1>5. CASE BringUp(w)
  <2>1. Resyncs(w) /\ \A v \in Workers : v # w => wk'[v] = wk[v]
    BY <1>2, <1>5, PhaseMove DEF BringUp, Resyncs
  <2> QED BY <2>1 DEF ApplyMove
<1>6. CASE Dump(w)
  <2> DEFINE r == [wk[w] EXCEPT !.pc = "persist", !.seen = iface[wk[w].node].peers]
  <2>1. CASE Becomes(w, r)
    <3>0. wk[w].node \in Nodes
      BY <1>0, <1>6 DEF Dump, IInv, WorkerSound, LocalSound, Applying
    <3>1. iface[wk[w].node].peers \in SUBSET Peers
      BY <1>0, <3>0 DEF TypeOK, Interface
    <3>2. r \in Worker
      BY <1>0, <3>1, WorkerFields DEF Phase
    <3>3. /\ r.pc = "persist" /\ r.seen = iface[wk[w].node].peers
          /\ r.snap = wk[w].snap /\ r.node = wk[w].node
      BY <1>0 DEF Worker
    <3> HIDE DEF r
    <3>4. Dumped(w) /\ \A v \in Workers : v # w => wk'[v] = wk[v]
      BY <1>1, <1>6, <2>1, <3>2, <3>3 DEF Dump, Dumped
    <3> QED BY <3>4 DEF ApplyMove
  <2>2. CASE ApplyFailed(w, TRUE)
    BY <2>2, FailedApply
  <2> QED BY <1>6, <2>1, <2>2 DEF Dump
<1> QED BY <1>3, <1>4, <1>5, <1>6

(* The steps that end an apply or settle its job (persistRuntime,          *)
(* processJob).                                                            *)
LEMMA ApplyEnds ==
    ASSUME IInv, NEW w \in Workers,
           \/ Persist(w) \/ Complete(w) \/ MarkApplied(w) \/ Fail(w) \/ MarkFailed(w)
           \/ (\E n \in Nodes : ReconcileNext(w, n)) \/ (\E o \in Ops : Claim(w, o))
    PROVE  \A v \in Workers : ApplyMove(v)
<1>0. TypeOK /\ wk[w] \in Worker
  BY DEF IInv, TypeOK
<1>1. ASSUME NEW local \in Worker, Becomes(w, local)
      PROVE  wk'[w] = local /\ \A v \in Workers : v # w => wk'[v] = wk[v]
  BY <1>0, <1>1, BecomesLocal
<1>2. CASE Persist(w)
  <2> DEFINE r == Returned(w, "complete", TRUE)
  <2>1. Becomes(w, r) /\ wk[w].pc = "persist" /\ peers' = Persisted(w) /\ UNCHANGED <<iface, operations>>
    BY <1>2 DEF Persist, ApplyReturns, Returned
  <2>2. r \in Worker
    BY <1>0, ReturnedType DEF Phase
  <2>3. r.pc = "idle" \/ (r.pc = "complete" /\ r.job = wk[w].job /\ wk[w].job # None)
    BY DEF Returned, Resting
  <2> HIDE DEF r
  <2>4. CASE r.pc = "idle"
    BY <2>1, <2>2, <2>4, OutOfApply DEF Applying
  <2>5. CASE r.pc = "complete" /\ r.job = wk[w].job /\ wk[w].job # None
    <3>1. Recorded(w) /\ \A v \in Workers : v # w => wk'[v] = wk[v]
      BY <1>1, <2>1, <2>2, <2>5 DEF Recorded
    <3> QED BY <3>1 DEF ApplyMove
  <2> QED BY <2>3, <2>4, <2>5
<1>3. CASE Complete(w)
  <2>1. "markop" \in Phase
    BY DEF Phase
  <2>2. Completed(w) /\ \A v \in Workers : v # w => wk'[v] = wk[v]
    BY <1>3, <2>1, PhaseMove DEF Complete, Completed
  <2> QED BY <2>2 DEF ApplyMove
<1>4. CASE MarkApplied(w) \/ MarkFailed(w)
  <2>1. Resting("idle", {}) \in Worker /\ Resting("idle", {}).pc = "idle"
    BY RestingType DEF Phase, Resting
  <2>2. Becomes(w, Resting("idle", {}))
    BY <1>4 DEF MarkApplied, MarkFailed
  <2> QED BY <2>1, <2>2, OutOfApply DEF Applying
<1>5. CASE Fail(w)
  <2>1. "markfailed" \in Phase
    BY DEF Phase
  <2>2. wk'[w].pc = "markfailed" /\ \A v \in Workers : v # w => wk'[v] = wk[v]
    BY <1>5, <2>1, PhaseMove DEF Fail
  <2> QED BY <2>2 DEF ApplyMove, Applying
<1>6. ASSUME NEW n \in Nodes, ReconcileNext(w, n)
      PROVE  \A v \in Workers : ApplyMove(v)
  <2> DEFINE r == [wk[w] EXCEPT !.pc = "read", !.node = n, !.todo = @ \ {n}]
  <2>1. r \in Worker
    BY <1>0, WorkerFields DEF Phase
  <2>2. r.pc = "read"
    BY <1>0 DEF Worker
  <2>3. Becomes(w, r)
    BY <1>6 DEF ReconcileNext
  <2> HIDE DEF r
  <2> QED BY <2>1, <2>2, <2>3, OutOfApply DEF Applying
<1>7. ASSUME NEW o \in Ops, Claim(w, o)
      PROVE  \A v \in Workers : ApplyMove(v)
  <2> DEFINE r == [wk[w] EXCEPT !.pc = "read", !.job = o,
                                !.node = peers[operations[o].peer].node]
  <2>1. peers[operations[o].peer].node \in Nodes \cup {None}
    BY <1>0, <1>7 DEF Claim, Selects, Claimable, IInv, OpSound, TypeOK, PeerRow
  <2>2. r \in Worker
    BY <1>0, <2>1, WorkerFields DEF Phase
  <2>3. r.pc = "read"
    BY <1>0 DEF Worker
  <2>4. Becomes(w, r)
    BY <1>7 DEF Claim
  <2> HIDE DEF r
  <2> QED BY <2>2, <2>3, <2>4, OutOfApply DEF Applying
<1> QED BY <1>2, <1>3, <1>4, <1>5, <1>6, <1>7

(* Every step moves each worker in one of these ways.                      *)
LEMMA ApplyMoves ==
    ASSUME IInv, [Next]_vars
    PROVE  \A w \in Workers : ApplyMove(w)
<1>1. ASSUME NEW phase \in {"idle", "down"}, NEW todo \in SUBSET Nodes, NEW w \in Workers,
             Becomes(w, Resting(phase, todo))
      PROVE  \A v \in Workers : ApplyMove(v)
  <2>1. Resting(phase, todo) \in Worker /\ Resting(phase, todo).pc = phase
    BY RestingType DEF Phase, Resting
  <2> QED BY <1>1, <2>1, OutOfApply DEF Applying
<1>2. ASSUME NEW w \in Workers, Step(w)
      PROVE  \A v \in Workers : ApplyMove(v)
  <2>1. Poll(w) => \A v \in Workers : ApplyMove(v)
    BY DEF Poll, vars, ApplyMove
  <2> QED BY <1>2, <2>1, ApplyGoesOn, ApplyEnds DEF Step
<1>3. ASSUME NEW w \in Workers, Start(w) \/ Crash(w)
      PROVE  \A v \in Workers : ApplyMove(v)
  BY <1>1, <1>3 DEF Start, Crash
<1>4. ASSUME NEW w \in Workers, ExecFail(w) \/ Timeout(w)
      PROVE  \A v \in Workers : ApplyMove(v)
  BY <1>4, FailedApply DEF ExecFail, Timeout
<1>5. ASSUME NEW w \in Workers, DbError(w)
      PROVE  \A v \in Workers : ApplyMove(v)
  <2>1. wk[w] \in Worker /\ "markfailed" \in Phase
    BY DEF IInv, TypeOK, Phase
  <2>2. CASE wk[w].pc = "idle" /\ Becomes(w, [wk[w] EXCEPT !.todo = {}])
    <3> DEFINE r == [wk[w] EXCEPT !.todo = {}]
    <3>1. r \in Worker /\ r.pc = "idle"
      BY <2>1, <2>2 DEF Worker
    <3>2. Becomes(w, r)
      BY <2>2
    <3> HIDE DEF r
    <3> QED BY <3>1, <3>2, OutOfApply DEF Applying
  <2>3. CASE UNCHANGED wk
    BY <2>3 DEF ApplyMove
  <2>4. CASE ApplyFailed(w, TRUE)
    BY <2>4, FailedApply
  <2>5. CASE Becomes(w, Resting("idle", {}))
    BY <1>1, <2>5
  <2>6. CASE Becomes(w, [wk[w] EXCEPT !.pc = "markfailed"])
    <3>1. wk'[w].pc = "markfailed" /\ \A v \in Workers : v # w => wk'[v] = wk[v]
      BY <2>1, <2>6, PhaseMove
    <3> QED BY <3>1 DEF ApplyMove, Applying
  <2> QED BY <1>5, <2>2, <2>3, <2>4, <2>5, <2>6 DEF DbError
<1>6. HostRestart => \A v \in Workers : ApplyMove(v)
  BY DEF HostRestart, Resting, ApplyMove, Applying
<1>7. UNCHANGED wk => \A v \in Workers : ApplyMove(v)
  BY DEF ApplyMove
<1>8. \/ \E w \in Workers : Start(w) \/ Step(w) \/ ExecFail(w) \/ Timeout(w) \/ DbError(w) \/ Crash(w)
      \/ HostRestart
      \/ UNCHANGED wk
  BY DEF Next, vars, CreatePeer, RevokePeer, InterfaceDown, LateSync, LeaseExpire, LeaseOutlived,
         LeasePasses
<1> QED BY <1>2, <1>3, <1>4, <1>5, <1>6, <1>7, <1>8

(* With nothing in flight, a peer gets onto an interface only by the       *)
(* SyncConf of a worker whose snapshot renders it, be it cut short.        *)
LEMMA OnlyRendered ==
    ASSUME IInv, \A n \in Nodes : flight[n] = {}, [Next]_vars,
           NEW n \in Nodes, NEW p \in iface'[n].peers, p \notin iface[n].peers
    PROVE  \E w \in Workers : /\ wk[w].pc \in {"sync", "resync"} /\ wk[w].node = n
                              /\ p \in Rendered(wk[w].snap)
<1>0. TypeOK /\ iface \in [Nodes -> Interface]
  BY DEF IInv, TypeOK
<1>1. ASSUME NEW m \in Nodes, NEW ps, iface' = Carrying(m, ps)
      PROVE  m = n /\ p \in ps
  BY <1>0, <1>1 DEF Carrying
<1>2. iface' # iface
  OBVIOUS
<1>3. \A m \in Nodes : iface' # LinkUp(m)
  BY <1>1, <1>2 DEF LinkUp
<1>4. \A w \in Workers : wk[w].pc \in {"sync", "resync", "up"} => wk[w].node \in Nodes
  BY DEF IInv, WorkerSound, LocalSound, Applying
<1>5. ASSUME NEW w \in Workers, Interrupted(w)
      PROVE  /\ wk[w].pc \in {"sync", "resync"} /\ wk[w].node = n
             /\ p \in Rendered(wk[w].snap)
  <2>1. /\ wk[w].pc \in {"sync", "resync"}
        /\ \E s \in Partial(iface[wk[w].node].peers, Rendered(wk[w].snap)) : iface' = Carrying(wk[w].node, s)
    BY <1>2, <1>3, <1>4, <1>5 DEF Interrupted
  <2>2. PICK s \in Partial(iface[wk[w].node].peers, Rendered(wk[w].snap)) : iface' = Carrying(wk[w].node, s)
    BY <2>1
  <2>3. wk[w].node = n /\ p \in s
    BY <1>1, <1>4, <2>1, <2>2
  <2>4. s \subseteq iface[n].peers \cup Rendered(wk[w].snap)
    BY <2>2, <2>3 DEF Partial
  <2> QED BY <2>1, <2>3, <2>4
<1>6. ASSUME NEW w \in Workers, Sync(w)
      PROVE  /\ wk[w].pc \in {"sync", "resync"} /\ wk[w].node = n
             /\ p \in Rendered(wk[w].snap)
  <2>1. wk[w].pc \in {"sync", "resync"} /\ iface' = Carrying(wk[w].node, Rendered(wk[w].snap))
    BY <1>2, <1>6 DEF Sync
  <2> QED BY <1>1, <1>4, <2>1
<1>7. \A w \in Workers : ~BringUp(w)
  BY <1>3, <1>4 DEF BringUp
<1>8. \A m \in Nodes : ~InterfaceDown(m)
  BY <1>0 DEF InterfaceDown, LinkDown
<1>9. ~HostRestart
  BY DEF HostRestart, LinkDown
<1>10. \A m \in Nodes, s \in SUBSET Peers : ~LateSync(m, s)
  BY DEF LateSync
<1>11. ASSUME NEW w \in Workers, Step(w)
       PROVE  Sync(w)
  BY <1>2, <1>7, <1>11
     DEF Step, ReconcileNext, Claim, Poll, vars, Read, Dump, Persist, Complete, MarkApplied, Fail,
         MarkFailed
<1>12. ASSUME NEW w \in Workers, Start(w) \/ ExecFail(w) \/ Timeout(w) \/ DbError(w) \/ Crash(w)
       PROVE  Interrupted(w)
  BY <1>2, <1>12 DEF Start, ExecFail, Timeout, DbError, Crash
<1>13. ASSUME NEW o \in Ops
       PROVE  ~LeaseExpire(o) /\ ~LeaseOutlived(o)
  BY <1>2 DEF LeaseExpire, LeaseOutlived, LeasePasses
<1>14. \E w \in Workers : Step(w) \/ Start(w) \/ ExecFail(w) \/ Timeout(w) \/ DbError(w) \/ Crash(w)
  BY <1>2, <1>8, <1>9, <1>10, <1>13 DEF Next, vars, CreatePeer, RevokePeer
<1> QED BY <1>5, <1>6, <1>11, <1>12, <1>14

(* Without timeouts nothing is ever in flight (Timeout).                   *)
LEMMA NoFlights ==
    ASSUME IInv, RevokesLast, [Next]_vars
    PROVE  \A n \in Nodes : flight'[n] = {}
<1>1. flight \in [Nodes -> SUBSET SUBSET Peers] /\ \A n \in Nodes : flight[n] = {}
  BY DEF IInv, TypeOK, RevokesLast
<1>2. \A w \in Workers : ~Timeout(w)
  BY DEF Timeout, Fault, RevokesLast
<1>3. \A n \in Nodes, s \in SUBSET Peers : ~LateSync(n, s)
  BY <1>1 DEF LateSync
<1>4. ASSUME NEW w \in Workers, Step(w) \/ Start(w) \/ ExecFail(w) \/ DbError(w) \/ Crash(w)
      PROVE  UNCHANGED flight
  BY <1>4 DEF Step, ReconcileNext, Claim, Poll, vars, Read, Sync, BringUp, Dump, Persist, Complete,
              MarkApplied, Fail, MarkFailed, Start, ExecFail, DbError, Crash
<1>5. UNCHANGED flight \/ HostRestart
  BY <1>2, <1>3, <1>4
     DEF Next, vars, CreatePeer, RevokePeer, InterfaceDown, LeaseExpire, LeaseOutlived, LeasePasses
<1> QED BY <1>1, <1>5 DEF HostRestart

(* A row beyond its first revision is revoked (MarkRevoked is the only     *)
(* writer of revisions).                                                   *)
LEMMA LaterIsRevoked ==
    ASSUME IInv, RevokesLast, [Next]_vars, NEW p \in Peers, peers'[p].desired >= 2
    PROVE  peers'[p].state = "revoked"
<1>0. TypeOK /\ peers \in [Peers -> PeerRow] /\ (peers[p].desired >= 2 => peers[p].state = "revoked")
  BY DEF IInv, TypeOK, RevokesLast
<1>1. ASSUME NEW q \in Peers, NEW n \in Nodes, NEW o \in Ops, CreatePeer(q, n, o)
      PROVE  peers'[p].state = "revoked"
  BY <1>0, <1>1 DEF CreatePeer, InsertedRow
<1>2. ASSUME NEW q \in Peers, NEW o \in Ops, RevokePeer(q, o)
      PROVE  peers'[p].state = "revoked"
  BY <1>0, <1>2 DEF RevokePeer, MarkedRevoked, PeerRow
<1>3. ASSUME NEW w \in Workers, peers' = Persisted(w)
      PROVE  peers'[p].state = "revoked"
  BY <1>0, <1>3, PersistedRow
<1> QED BY <1>0, <1>1, <1>2, <1>3, PeerWriters

(* peer_runtime is written by persistRuntime only, from the dump.          *)
LEMMA PresentFromDump ==
    ASSUME IInv, [Next]_vars, NEW p \in Peers, peers[p].state # "absent", peers'[p].present,
           ~peers[p].present
    PROVE  \E w \in Workers : /\ wk[w].pc = "persist" /\ wk[w].snap[p].state # "absent"
                              /\ p \in wk[w].seen
<1>0. TypeOK /\ peers \in [Peers -> PeerRow]
  BY DEF IInv, TypeOK
<1>1. ASSUME NEW q \in Peers, NEW n \in Nodes, NEW o \in Ops, CreatePeer(q, n, o)
      PROVE  FALSE
  BY <1>0, <1>1 DEF CreatePeer, InsertedRow
<1>2. ASSUME NEW q \in Peers, NEW o \in Ops, RevokePeer(q, o)
      PROVE  FALSE
  BY <1>0, <1>2 DEF RevokePeer, MarkedRevoked, PeerRow
<1>3. ASSUME NEW w \in Workers, peers' = Persisted(w)
      PROVE  wk[w].snap[p].state # "absent" /\ p \in wk[w].seen
  BY <1>0, <1>3, PersistedRow
<1> QED BY <1>1, <1>2, <1>3, PeerWriters

(* A peer that is gone stays gone while every apply of its node has it as  *)
(* revoked.                                                                *)
LEMMA GoneStays ==
    ASSUME IInv, RevokesLast, [Next]_vars, NEW p \in Peers, peers[p].state # "absent", Gone(p),
           \A w \in Workers : wk[w].pc \in Applying /\ wk[w].node = peers[p].node =>
                                 wk[w].snap[p].state = "revoked"
    PROVE  Gone(p)'
<1>1. peers[p].node \in Nodes /\ peers'[p].node = peers[p].node
  BY Grows DEF IInv, RowSound, Grow
<1>2. p \notin iface'[peers[p].node].peers
  <2> SUFFICES ASSUME p \in iface'[peers[p].node].peers PROVE FALSE
    OBVIOUS
  <2>1. PICK w \in Workers : /\ wk[w].pc \in {"sync", "resync"} /\ wk[w].node = peers[p].node
                             /\ p \in Rendered(wk[w].snap)
    BY <1>1, OnlyRendered DEF Gone, RevokesLast
  <2> QED BY <2>1 DEF Applying, Rendered
<1>3. ~peers'[p].present
  <2> SUFFICES ASSUME peers'[p].present PROVE FALSE
    OBVIOUS
  <2>1. PICK w \in Workers : /\ wk[w].pc = "persist" /\ wk[w].snap[p].state # "absent"
                             /\ p \in wk[w].seen
    BY PresentFromDump DEF Gone
  <2>2. wk[w].node = peers[p].node
    BY <2>1 DEF RevokesLast, SnapRevokes, Applying
  <2>3. wk[w].snap[p].state = "revoked"
    BY <2>1, <2>2 DEF Applying
  <2> QED BY <2>1, <2>3 DEF RevokesLast, SyncedOff, Applying
<1> QED BY <1>1, <1>2, <1>3 DEF Gone

(* With one worker, no apply runs beside its settling of a job.            *)
LEMMA SettledGoneStays ==
    ASSUME SingleWorker, IInv, RevokesLast, [Next]_vars, NEW w \in Workers,
           wk[w].pc \in {"complete", "markop"}, operations[wk[w].job].rev > 1,
           NEW p \in Peers, p = operations[wk[w].job].peer
    PROVE  Gone(p)'
<1>1. wk[w].job \in Ops /\ operations[wk[w].job].status # "none"
  BY DEF IInv, TypeOK, Worker, WorkerSound, LocalSound, Settling
<1>2. peers[p].state # "absent"
  BY <1>1 DEF IInv, OpSound, OpPeer
<1>3. Gone(p)
  BY DEF RevokesLast
<1>4. \A v \in Workers : wk[v].pc \notin Applying
  BY SingleWorker DEF SingleWorker, Applying
<1> QED BY <1>2, <1>3, <1>4, GoneStays

(* The snapshot of an apply keeps saying that revoked peers are revoked.   *)
LEMMA SnapRevokesNext ==
    ASSUME IInv, RevokesLast, [Next]_vars, NEW w \in Workers, wk'[w].pc \in Applying
    PROVE  SnapRevokes(wk[w])'
<1>0. TypeOK /\ TypeOK' /\ wk[w] \in Worker
  BY IInvNext DEF IInv, TypeOK
<1>1. CASE wk[w].pc \in Applying /\ wk'[w].snap = wk[w].snap /\ wk'[w].node = wk[w].node
  <2>1. ASSUME NEW p \in Peers, wk[w].snap[p].state # "absent"
        PROVE  /\ peers'[p].node = wk[w].node
               /\ wk[w].snap[p].desired >= 2 => wk[w].snap[p].state = "revoked"
    <3>1. peers[p].state # "absent" /\ peers[p].node = wk[w].node
          /\ (wk[w].snap[p].desired >= 2 => wk[w].snap[p].state = "revoked")
      BY <1>1, <2>1 DEF RevokesLast, SnapRevokes, IInv, WorkerSound, LocalSound, SnapSound
    <3>2. Grow(p)
      BY Grows DEF IInv
    <3> QED BY <3>1, <3>2 DEF Grow
  <2> QED BY <1>1, <2>1 DEF SnapRevokes
<1>2. CASE Viewed(w)
  <2>1. ASSUME NEW p \in Peers, View(wk[w].node)[p].state # "absent"
        PROVE  /\ peers[p].node = wk[w].node
               /\ View(wk[w].node)[p].desired >= 2 => View(wk[w].node)[p].state = "revoked"
    BY <2>1 DEF View, NotListed, RevokesLast
  <2> QED BY <1>2, <2>1 DEF Viewed, SnapRevokes
<1>3. ApplyMove(w)
  BY ApplyMoves
<1> QED BY <1>1, <1>2, <1>3
        DEF ApplyMove, Synced, Resyncs, Dumped, Recorded, Completed, Applying

(* What SyncConf took off stays off until the rows are written.            *)
LEMMA SyncedOffNext ==
    ASSUME SingleWorker, IInv, RevokesLast, [Next]_vars, NEW w \in Workers, wk'[w].pc \in Applying
    PROVE  SyncedOff(wk[w])'
<1>0. TypeOK /\ wk[w] \in Worker
  BY DEF IInv, TypeOK
<1>1. CASE wk'[w].pc \notin {"dump", "persist"}
  BY <1>1 DEF SyncedOff
<1>2. CASE wk'[w] = wk[w] /\ wk'[w].pc \in {"dump", "persist"}
  <2>1. wk[w].node \in Nodes /\ \A n \in Nodes : flight[n] = {}
    BY <1>2 DEF IInv, WorkerSound, LocalSound, Applying, RevokesLast
  <2>2. ASSUME NEW p \in Peers, wk[w].snap[p].state = "revoked"
        PROVE  p \notin iface'[wk[w].node].peers
    <3> SUFFICES ASSUME p \in iface'[wk[w].node].peers PROVE FALSE
      OBVIOUS
    <3>1. p \notin iface[wk[w].node].peers
      BY <1>2, <2>2 DEF RevokesLast, SyncedOff
    <3>2. \E v \in Workers : wk[v].pc \in {"sync", "resync"}
      BY <2>1, <3>1, OnlyRendered
    <3> QED BY <1>2, <3>2, SingleWorker DEF SingleWorker
  <2>3. ASSUME NEW p \in Peers, wk[w].snap[p].state = "revoked", wk[w].pc = "persist"
        PROVE  p \notin wk[w].seen
    BY <1>2, <2>3 DEF RevokesLast, SyncedOff
  <2> QED BY <1>2, <2>2, <2>3 DEF SyncedOff
<1>3. CASE Synced(w)
  <2>1. wk[w].node \in Nodes /\ iface \in [Nodes -> Interface]
    BY <1>0, <1>3 DEF Synced, IInv, WorkerSound, LocalSound, Applying, TypeOK
  <2>2. iface'[wk[w].node].peers = Rendered(wk[w].snap)
    BY <1>3, <2>1 DEF Synced, Carrying
  <2> QED BY <1>3, <2>2 DEF Synced, SyncedOff, Rendered
<1>4. CASE Dumped(w)
  BY <1>4 DEF Dumped, SyncedOff, RevokesLast, Applying
<1>5. ApplyMove(w)
  BY ApplyMoves
<1> QED BY <1>1, <1>2, <1>3, <1>4, <1>5
        DEF ApplyMove, Viewed, Resyncs, Recorded, Completed, Applying

(* The worker that has a revocation's job to settle has seen the peer      *)
(* gone.                                                                   *)
LEMMA SettlingNext ==
    ASSUME SingleWorker, IInv, RevokesLast, [Next]_vars, NEW w \in Workers,
           wk'[w].pc \in {"complete", "markop"}, operations'[wk'[w].job].rev > 1,
           NEW p, p = operations'[wk'[w].job].peer
    PROVE  Gone(p)'
<1>0. TypeOK /\ wk[w] \in Worker /\ ApplyMove(w)
  BY ApplyMoves DEF IInv, TypeOK
<1>1. ASSUME wk[w].job \in Ops, wk'[w].job = wk[w].job, operations[wk[w].job].status # "none"
      PROVE  /\ operations[wk[w].job].rev > 1 /\ p = operations[wk[w].job].peer
             /\ p \in Peers /\ peers[p].state # "absent"
  BY <1>1, Keeps DEF IInv, Kept, OpSound, OpPeer
<1>2. CASE wk'[w] = wk[w]
  <2>1. wk[w].job \in Ops /\ operations[wk[w].job].status # "none"
    BY <1>0, <1>2 DEF IInv, Worker, WorkerSound, LocalSound, Settling
  <2> QED BY <1>1, <1>2, <2>1, SettledGoneStays
<1>3. CASE Completed(w)
  <2>1. wk[w].job \in Ops /\ operations[wk[w].job].status # "none"
    BY <1>0, <1>3 DEF IInv, Worker, WorkerSound, LocalSound, Settling, Completed
  <2> QED BY <1>1, <1>3, <2>1, SettledGoneStays DEF Completed
<1>4. CASE Recorded(w)
  <2>1. wk[w].job \in Ops /\ operations[wk[w].job].status # "none"
    BY <1>0, <1>4 DEF IInv, Worker, WorkerSound, LocalSound, Recorded
  <2>2. /\ operations[wk[w].job].rev > 1 /\ p = operations[wk[w].job].peer
        /\ p \in Peers /\ peers[p].state # "absent"
    BY <1>1, <1>4, <2>1 DEF Recorded
  <2>3. /\ wk[w].snap[p].state # "absent"
        /\ wk[w].snap[p].desired >= operations[wk[w].job].rev
    BY <1>4, <2>2 DEF IInv, WorkerSound, LocalSound, Recorded, Applying
  <2>4. wk[w].snap[p].desired \in Nat /\ operations[wk[w].job].rev \in Nat
    BY <1>0, <2>1, <2>2 DEF Worker, PeerView, TypeOK, Operation
  <2>5. wk[w].snap[p].state = "revoked" /\ peers[p].node = wk[w].node
    <3>0. \A a, b \in Nat : a >= b /\ b > 1 => a >= 2
      OBVIOUS
    <3>1. wk[w].snap[p].desired >= 2
      BY <2>2, <2>3, <2>4, <3>0
    <3>2. SnapRevokes(wk[w])
      BY <1>4 DEF RevokesLast, Recorded, Applying
    <3> QED BY <2>2, <2>3, <3>1, <3>2 DEF SnapRevokes
  <2>6. p \notin iface[wk[w].node].peers /\ p \notin wk[w].seen
    BY <1>4, <2>2, <2>5 DEF RevokesLast, SyncedOff, Recorded, Applying
  <2>7. peers'[p].node = peers[p].node /\ ~peers'[p].present
    BY <1>0, <1>4, <2>2, <2>3, <2>6, PersistedRow DEF Recorded
  <2> QED BY <1>4, <2>5, <2>6, <2>7 DEF Gone, Recorded
<1> QED BY <1>0, <1>2, <1>3, <1>4 DEF ApplyMove, Viewed, Synced, Resyncs, Dumped, Applying

(* An operation becomes 'applied' by the worker that settles it            *)
(* (Operations.MarkApplied).                                               *)
LEMMA ConfirmedBy ==
    ASSUME IInv, [Next]_vars, NEW o \in Ops, Confirmed(o)'
    PROVE  \/ Confirmed(o)
           \/ \E w \in Workers : MarkApplied(w) /\ wk[w].job = o /\ operations[o].rev > 1
<1>0. JobStep /\ operations \in [Ops -> Operation] /\ \A w \in Workers : wk[w] \in Worker
  BY JobSteps DEF IInv, TypeOK
<1>1. ASSUME NEW q \in Ops, NEW p \in Peers, NEW rev \in Nat, Enqueue(q, p, rev)
      PROVE  Confirmed(o)
  BY <1>0, <1>1 DEF Enqueue, InsertOperation, Confirmed
<1>2. ASSUME NEW w \in Workers, MarkApplied(w)
      PROVE  Confirmed(o) \/ (wk[w].job = o /\ operations[o].rev > 1)
  <2>1. wk[w].job \in Ops
    BY <1>0, <1>2 DEF MarkApplied, IInv, WorkerSound, LocalSound, Settling, Worker
  <2> QED BY <1>0, <1>2, <2>1 DEF MarkApplied, Confirmed, Operation
<1>3. ASSUME NEW w \in Workers, MarkFailed(w)
      PROVE  Confirmed(o)
  <2>1. wk[w].job \in Ops /\ Failed(wk[w].retryable) # "applied"
    BY <1>0, <1>3 DEF MarkFailed, IInv, WorkerSound, LocalSound, Settling, Worker, Failed
  <2> QED BY <1>0, <1>3, <2>1 DEF MarkFailed, Confirmed, Operation
<1>4. CASE UNCHANGED operations
  BY <1>4 DEF Confirmed
<1> QED BY <1>0, <1>1, <1>2, <1>3, <1>4
        DEF JobStep, Quiet, Claim, ClaimLost, Complete, Fail, CompleteLost, FailLost, LeaseExpire,
            LeaseOutlived, LeasePasses

(* A confirmed revocation stays one: what later applies read has the peer  *)
(* as revoked.                                                             *)
LEMMA ConfirmedNext ==
    ASSUME SingleWorker, IInv, RevokesLast, [Next]_vars, NEW o \in Ops, Confirmed(o)',
           NEW p, p = operations'[o].peer
    PROVE  /\ Gone(p)'
           /\ \A w \in Workers : wk'[w].pc \in Applying /\ wk'[w].node = peers'[p].node =>
                                    wk'[w].snap[p].state = "revoked"
<1>0. TypeOK /\ Kept(o) /\ \A w \in Workers : ApplyMove(w) /\ wk[w] \in Worker
  BY ApplyMoves, Keeps DEF IInv, TypeOK
<1>1. CASE Confirmed(o)
  <2>1. /\ p = operations[o].peer /\ p \in Peers /\ peers[p].state # "absent"
        /\ operations[o].rev > 1 /\ operations[o].rev <= peers[p].desired
    BY <1>0, <1>1 DEF Confirmed, Kept, IInv, OpSound, OpPeer
  <2>2. /\ Gone(p)
        /\ \A w \in Workers : wk[w].pc \in Applying /\ wk[w].node = peers[p].node =>
                                 wk[w].snap[p].state = "revoked"
    BY <1>1, <2>1 DEF RevokesLast, OpPeer
  <2>3. Gone(p)'
    BY <2>1, <2>2, GoneStays
  <2>4. peers'[p].node = peers[p].node
    BY <2>1, Grows DEF IInv, Grow
  <2>5. peers[p].state = "revoked"
    <3>1. peers[p].desired \in Nat /\ operations[o].rev \in Nat
      BY <1>0, <2>1 DEF TypeOK, PeerRow, Operation
    <3>2. peers[p].desired >= 2
      BY <2>1, <3>1
    <3> QED BY <2>1, <3>2 DEF RevokesLast
  <2>6. ASSUME NEW w \in Workers, wk'[w].pc \in Applying, wk'[w].node = peers[p].node
        PROVE  wk'[w].snap[p].state = "revoked"
    <3>1. CASE wk[w].pc \in Applying /\ wk'[w].snap = wk[w].snap /\ wk'[w].node = wk[w].node
      BY <2>2, <2>6, <3>1
    <3>2. CASE Viewed(w)
      <4>1. wk[w].node = peers[p].node /\ wk'[w].snap = View(wk[w].node)
        BY <2>6, <3>2 DEF Viewed
      <4>2. View(wk[w].node)[p].state = peers[p].state
        BY <2>1, <4>1 DEF View
      <4> QED BY <2>5, <4>1, <4>2
    <3> QED BY <1>0, <2>6, <3>1, <3>2
            DEF ApplyMove, Synced, Resyncs, Dumped, Recorded, Completed, Applying
  <2> QED BY <2>3, <2>4, <2>6
<1>2. ASSUME NEW w \in Workers, MarkApplied(w), wk[w].job = o, operations[o].rev > 1
      PROVE  Gone(p)' /\ \A v \in Workers : wk'[v].pc \notin Applying
  <2>1. operations[o].status # "none"
    BY <1>2, NoneAssumption DEF IInv, WorkerSound, LocalSound
  <2>2. p = operations[o].peer /\ p \in Peers
    BY <1>0, <2>1 DEF Kept, IInv, OpSound
  <2>3. Gone(p)'
    BY <1>2, <2>2, SettledGoneStays DEF MarkApplied
  <2>4. Resting("idle", {}) \in Worker /\ Resting("idle", {}).pc = "idle"
    BY RestingType DEF Phase, Resting
  <2>5. wk'[w].pc = "idle"
    BY <1>0, <1>2, <2>4, BecomesLocal DEF MarkApplied
  <2>6. \A v \in Workers : wk'[v].pc \notin Applying
    BY <2>5, SingleWorker DEF SingleWorker, Applying
  <2> QED BY <2>3, <2>6
<1> QED BY <1>1, <1>2, ConfirmedBy

(* Every step keeps it.                                                    *)
LEMMA RevokesNext ==
    ASSUME SingleWorker, IInv, RevokesLast, [Next]_vars
    PROVE  RevokesLast'
<1>1. "late" \notin faults'.kinds /\ \A n \in Nodes : flight'[n] = {}
  BY JobSteps, NoFlights DEF RevokesLast
<1>2. \A p \in Peers : peers'[p].desired >= 2 => peers'[p].state = "revoked"
  BY LaterIsRevoked
<1>3. \A w \in Workers : wk'[w].pc \in Applying => SnapRevokes(wk[w])' /\ SyncedOff(wk[w])'
  BY SnapRevokesNext, SyncedOffNext
<1>4. \A w \in Workers : (wk[w].pc \in {"complete", "markop"} /\ operations[wk[w].job].rev > 1 =>
                             Gone(operations[wk[w].job].peer))'
  <2> SUFFICES ASSUME NEW w \in Workers,
                      wk'[w].pc \in {"complete", "markop"}, operations'[wk'[w].job].rev > 1
               PROVE  Gone(operations[wk[w].job].peer)'
    OBVIOUS
  <2> QED BY SettlingNext DEF Gone
<1>5. \A o \in Ops : (Confirmed(o) =>
          /\ Gone(operations[o].peer)
          /\ \A w \in Workers :
                wk[w].pc \in Applying /\ wk[w].node = OpPeer(o).node =>
                   wk[w].snap[operations[o].peer].state = "revoked")'
  <2> SUFFICES ASSUME NEW o \in Ops, Confirmed(o)'
               PROVE  (/\ Gone(operations[o].peer)
                       /\ \A w \in Workers :
                             wk[w].pc \in Applying /\ wk[w].node = OpPeer(o).node =>
                                wk[w].snap[operations[o].peer].state = "revoked")'
    OBVIOUS
  <2> QED BY ConfirmedNext DEF Gone, OpPeer
<1> QED BY <1>1, <1>2, <1>3, <1>4, <1>5 DEF RevokesLast

(* With one worker, and no config applied after its sender gave up, a peer *)
(* whose revocation was reported applied is off its interface and off      *)
(* peer_runtime for good: whatever fails, crashes or restarts, applyNode   *)
(* works from a snapshot that lists the revoked rows.                      *)
THEOREM RevocationsLast ==
    ASSUME SingleWorker, NothingLate
    PROVE  Spec => []RevokedGone
<1>1. Init => RevokesLast
  <2> SUFFICES ASSUME Init PROVE RevokesLast
    OBVIOUS
  <2>1. \A w \in Workers : wk[w].pc = "down"
    BY DEF Init, Resting
  <2>2. \A p \in Peers : ~(peers[p].desired >= 2)
    <3>1. ASSUME NEW p \in Peers PROVE peers[p].desired = 0
      BY DEF Init, NoPeerRow
    <3>2. ~(0 >= 2)
      OBVIOUS
    <3> QED BY <3>1, <3>2, Zenon
  <2>3. \A o \in Ops : ~Confirmed(o)
    BY DEF Init, Confirmed
  <2>4. "late" \notin faults.kinds /\ \A n \in Nodes : flight[n] = {}
    BY NothingLate DEF NothingLate, Init
  <2> QED BY <2>1, <2>2, <2>3, <2>4 DEF RevokesLast, Applying
<1>2. IInv /\ RevokesLast /\ [Next]_vars => RevokesLast'
  BY SingleWorker, RevokesNext
<1>3. RevokesLast => RevokedGone
  BY DEF RevokesLast, RevokedGone, Confirmed, Gone, OpPeer
<1> QED BY <1>1, <1>2, <1>3, Invariance, PTL DEF Spec

=============================================================================
