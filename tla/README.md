# Verification of awg-rest

TLA+ models of the awg-rest control plane, checked with TLC on small instances,
and proofs about them checked with TLAPS. Line numbers of the code that each
definition models are in `PROJECT.json` ("map"), next to the list of hazards, runs,
mutants, findings and theorems.

## The system and its parts

awg-rest manages the peers of AmneziaWG interfaces through a REST API.

| Part | Code | Module | State |
|---|---|---|---|
| Peer API: create and revoke | `internal/api/service.go`, `internal/repo/{peers,idempotency,db}.go` | `PeerApi`, `PeerRegistry` | modelled |
| Address allocation | `internal/ipam/ipam.go` | `Addresses`, `Ipam` | modelled |
| Operation log, outbox | `internal/repo/operations.go` | `ControlPlane` | modelled |
| Worker, reconciler | `internal/outbox/worker.go`, `cmd/awg-worker`, `cmd/awg-api` | `ControlPlane`, `InterfaceKey` | modelled |
| Executor (CLI) | `internal/awg` | `ControlPlane`, `InterfaceKey` | partly |
| Node agent | `internal/nodeagent` | `ControlPlane`, `InterfaceKey` | partly |
| Bootstrap, provisioning | `internal/bootstrap`, `internal/repo/{tenants,profiles,nodes,pools}.go` | `Provisioning` | modelled |
| Rate limiter | `internal/ratelimit`, `internal/api/middleware.go` | `RateLimit`, `Gateway` | modelled |
| Authentication, roles, tenant checks | `internal/auth`, `internal/api/{middleware,service}.go` | `Gateway` | modelled |
| HTTP plumbing, problems, routing | `internal/api` | `Gateway` | partly |
| Profile rules and storage | `internal/domain/profile.go`, `internal/repo/profiles.go` | `Profile` | modelled |
| Rendering | `internal/render` | `Profile`, `ControlPlane`, `InterfaceKey` | partly |
| Migrations | `internal/repo/migrate.go`, `internal/repo/schema` | the constraints, in `PeerApi`, `Provisioning`, `Profile` | partly |
| Key generation, audit log, fake executor, configuration, logging | `internal/{crypto,config,obs}`, `internal/repo/audit.go`, `internal/awg/fake.go` | | not modelled |

How they interact: a request is authenticated, passes the rate limiter and the
role and tenant checks (`Gateway`), and becomes one database transaction
(`PeerApi`) that writes desired state, an operation and an outbox
job. Workers (`ControlPlane`) claim jobs under a lease, take a snapshot of the
rows of the job's node, push it to the interface through the executor, directly
or through the node agent, read the runtime back, and record what was applied.
On the way the interface's private key is put back into the configuration
(`InterfaceKey`). Nodes, pools and bootstrap configs come from `Provisioning`; the
protocol parameters in all configs come from a stored profile (`Profile`).

## Modules

**ControlPlane**: the durable apply path. An action is one database statement
or transaction, or one executor call, since those are the points where another
process can intervene. `peers` merges the rows of `peers` and `peer_runtime`;
`operations` and `outbox` are the tables of that name; `iface` is what the
executor changes; `wk[w].pc` is the place in `Run`, `processJob`, `applyNode`
or `ReconcileAll`. `CreatePeer` and `RevokePeer` are the API transactions as far
as the worker sees them. `Step` is the union of the worker's steps. A lease is a Boolean
(`leased_until >= now()`): `LeaseExpire` is time passing while nobody
works under it, `LeaseOutlived` the same under a worker that is still busy. The
faults are those of a regime, drawn in the initial state from `FaultRegimes`: a set of
kinds and how many of them may still happen. The kinds: a worker crash
(which may leave the executor's call done or not), a host restart, a lost
interface, a failing executor call (retryable, or `reject`: terminal by
`classifyRetryable`), a call that times out and takes effect later, a failing
database call, an outlived lease. A graceful stop is a crash as far as the state is
concerned: the process does not wait for its worker.

**Addresses, Ipam**: the geometry of a pool (`firstHost`, `lastHost`,
`isUsable`, `addrCount`, the gateway) as operators on numbers, and
`ipam.Allocate` as a state machine, one action per outcome of an iteration.
`IsNextFree` is what it promises; `PeerApi` allocates by that promise.

**PeerApi**: concurrent `CreatePeer` and `RevokePeer` requests, one action per
statement under READ COMMITTED. Row locks and entries in unique indexes of open
transactions are kept in `holds`: whoever wants the same one waits. Faults: an
error before the commit, a commit whose confirmation is lost, a key that expires.
A response keeps its code, the operation it names, and whose one-time secrets it
carries.

**PeerRegistry**: the abstract specification of the same API: one registry, every
request answered at one instant, no transactions, locks or indexes. `PeerApi` implements it
under the refinement mapping at its end: `peers`, `body` and `answer` are
themselves, and the owner of a key is the operation in its record. The
registry admits two weaknesses of the code on purpose, since callers do see them:
"exists" may be the answer when a revoked row is in the way, and "internal" may be
the answer of a request that took effect.

**Provisioning**: `RunIfEmpty` of starting API processes, statement by
statement, beside `ProvisionV31Node` commands under their advisory lock, with the
exclusive creation and the clean-up of the config file.

**InterfaceKey**: the PrivateKey line of a configuration on its way from the
worker to the interface, through `preserveRuntimePrivateKey`, the node agent's
redaction and preservation, and the CLI's fallback to the bootstrap config.

**RateLimit**: `TokenBucket.Allow` and the `Retry-After` header. The code's
floating point numbers are exact fractions here.

**Gateway**: the request path up to the service, around `RateLimit`: both
token validators with key selection, algorithm and claim checks, roles, and
`authorizeTenant` where the path names a tenant (`MayRead`, `MayWrite`) or
the row does (`GetOperation`). The middleware runs in the order of `NewRouter`: a
caller that is not authenticated has no bucket, one without the role has. A signature is the
key that made it. `Entitled` says, independently of that chain, what a
token's claims allow.

**Profile**: a protocol profile from submission to the configs of both ends.
`Validate` part by part, the nullable columns and CHECK constraints, the scan back,
and the lines the renderer writes. A special-junk string is its length and its
tags; a number in a config is one token, but signs and the dash of a range are
kept, since `String` and `ParseIntRange` must agree on them. `ReadConfig` is how the
runtime takes a config, with a missing parameter off.

`*Proofs` and `ControlPlaneVerdicts` hold the theorems (see Proofs).

`MC*` modules hold the constants' values and symmetry sets for TLC. The
operators whose names have a suffix (`Claimable_NoRetry`) are mutated forms of the
definition that follows them: each property is shown to fail when its mutant
takes the definition's place.

## Runs

| Run | Checks | Setting |
|---|---|---|
| ControlPlaneFaults | `TypeOK`, `AppliedOpsArePersisted`, `AppliedBounded`, `NoDoubleWork`, `RowsMoveForward` | 2 workers, any 2 faults but outlived leases |
| ControlPlaneJobs | `JobsSettle` | fair, 2 workers, 1 fault of any kind |
| ControlPlaneConverges | `RevokedGone`, `VerdictIsFinal`, `OperationsSettle`, `Converges` | fair, 1 worker, 2 nodes; 3 lost interfaces or failing calls, or 2 crashes and restarts, or 2 of all these |
| Ipam | `TypeOK`, `Contract`, `Returns` | every pool, cursor and reserved set in 8 addresses |
| PeerApi | `TypeOK`, `OneOperationPerKey`, `SecretsIssuedOnce`, `AddressesDistinct`, `NoCollisionWithLive`, `NoCircularWait`, `ImplementsRegistry` | 3 requests, 2 tenants, 2 keys, 2 faults |
| Provisioning | `TypeOK`, `NothingShared`, `NodeHasConfig`, `FailureLeavesNoFile` | 3 commands, 2 API processes, 2 faults |
| InterfaceKey | `TypeOK`, `KeyStaysOnNode`, `KeyIsKept`, `ApplySucceeds` | fair, 2 workers, 4 faults |
| Gateway | `GatewayTypeOK`, `WithinRate`, `HintSuffices`, `ReadsAreEntitled`, `WritesAreEntitled` | 3 validators, 16 tokens, 2 tenants, 1.5 tokens per second |
| Profile | `TypeOK`, `ValidIsStorable`, `RoundTrips`, `PacketTypesDistinct`, `JunkFitsPacket`, `EndsAgree`, `SkeletonLacksOnlyTheKey` | 3 profiles, every pair of fields changed to values at their limits |

`OperationsSettle` speaks of the behaviours of its run without crashes, `Converges` of
those without lost interfaces and failing calls; the third regime mixes all of them
for the safety properties.

Three runs show the code at odds with what it says of itself ("findings" in
`PROJECT.json` quotes both sides):

| Run | Violated | What happens |
|---|---|---|
| ControlPlaneTwoWorkersRevoke | `RevokedGone` | two healthy workers on one node; the older snapshot is applied last and a revoked peer is back |
| PeerApiRevokedAddress | `ExistsMeansDuplicate` | the allocator offers a revoked peer's address, the index refuses it, the create is answered "exists" |
| ProvisioningSeedCrash | `DatabaseGetsSeeded` | a crash after the tenant's insert; later starts skip seeding |

### Where the properties end

A property that holds only in a narrower setting says something about the wider
one too. Each of these is seen by changing the constants named; `OperationsSettle` and
`Converges` name the faults they bear themselves, so there the condition has to go, too.

- `RevokedGone` needs a single worker (the run above) and no request that a node
  applies after its caller gave up (add `"late"` to ControlPlaneConverges).
- `VerdictIsFinal` fails with two workers (one may be between failing its job
  and marking the operation while the other takes the job up and completes it)
  and with one when the database call that settles a rejected job fails (add `"db"`
  to a regime of ControlPlaneConverges): the operation says failed, the job is tried again.
- `OperationsSettle` fails with a crash or a database error between
  `Outbox.Complete` and `Operations.MarkApplied` (`"crash"`, `"db"`): the job is
  applied and the operation stays pending. `processJob` only logs the error, though
  its comment says that all errors are funneled into the status fields.
- `NoDoubleWork` fails once a lease is outlived (`"slow"`): nothing renews a lease.
- `Converges` fails when an executor call fails during the startup reconciliation,
  which is not repeated (`"exec"`), and when an interface is lost while nothing is to
  do (`"loss"`).
- `Claimable` takes a failed job at once, whatever its lease; the comments at
  `Outbox.Fail` and `classifyRetryable` speak of the lease's expiry. There is no
  back-off, and the oldest failing job is always tried first.
- In `PeerApi` a request repeated before the first has committed is answered with
  `peer_exists` or an internal error, not with the first one's operation; and a
  key that has expired can never be stored again, so a retried revoke under it
  always fails.
- An ambiguous commit of a provisioning command makes it remove the config of a
  node that was committed. `docs/awg31-migration.md` describes the recovery.
- `KeyIsKept` fails without a bootstrap config when showconf fails for the worker and
  again in the executor (`BootKeys = {""}`), and with two workers and a foreign key
  in the bootstrap config: a key read before a restart is written back after it.
- `NodeHasConfig` fails when a command names the interface that `RunIfEmpty` seeds
  (`Defaults.iface` among the `Options`): `RunIfEmpty` replaces an existing file.
- `NoCollisionWithLive` and `ImplementsRegistry` fail with overlapping pools (both
  with base 0), which the schema admits and only `ensureV31ProvisioningAvailable` rules out.
- `HintSuffices` fails below one token per second (`Unit = 5`, `Refill = 1`,
  `Second = 2`, `Capacity = 1`): `retryAfterSeconds` rounds the wait down.

### Bounds

Two workers, two or three operations on one or two peers, and two faults let
every pair of applies, failures and restarts overlap in every order; a third
worker adds no new kind of conflict, because workers only meet in rows, leases and
interfaces, pairwise. With `Ops = {1, 2}` a create and a revoke of one peer are
both in flight, with `{1, 2, 3}` also a second revoke, which applies the node again.
Three requests are needed in `PeerApi` for a create, a revoke and a competitor, and
for waiting in a circle. In `Ipam` a space of 8 addresses has pools of 1, 2, 4 and 8
addresses in both families, up to the end of the space, where `Next` has no
result. `MaxTime` and `MaxAdmitted` of `Gateway` leave room for a bucket to be
emptied, refilled and emptied again, and for a token to become valid, to expire and to
outlive the leeway; two tenants are needed for one to be the wrong one, and one peer
is enough, as no check relates two. A profile has some forty fields; pairs of
changes to a legal profile, each to values at and beyond a limit, meet every rule from
both sides and every conflict of two fields; `HMax` (6) stands for
0xFFFFFFFF.

Symmetry sets are used for safety only.

### Fairness

- A worker that can move does, a stopped one is started again (the deployment's
  restart policy), and time passes for leases nobody works under. Nothing is
  assumed of requests or faults; faults are bounded, so "eventually" means after
  the last of them.
- API processes are restarted, commands under way go on.
- An apply under way goes on and a failed one is retried.
- `Allocate` runs on.

Deadlock is checked for `ControlPlane` and `InterfaceKey`, whose workers poll for
ever. The other systems stop when all requests or commands are finished.

## Proofs

Every theorem holds for any number of peers, nodes, workers, requests, tenants,
commands, tokens and faults. The constants' assumptions are named in the modules that
declare them, and TLC evaluates them on the instances of the runs. Where a property
needs more than the code guarantees everywhere, the setting is a hypothesis of its
theorem, named here and defined beside it. "Where the properties end" says what
happens outside.

| Module | Theorem | States | Under |
|---|---|---|---|
| ControlPlaneProofs | `TypeCorrect` | `TypeOK` | |
| | `AppliedIsPersisted` | `AppliedOpsArePersisted` | |
| | `AppliedIsBounded` | `AppliedBounded` | |
| | `RowsAreMonotone` | `RowsMoveForward` | |
| ControlPlaneVerdicts | `JobsAreHeldOnce` | `NoDoubleWork` | `LeasesHold` |
| | `VerdictsStay` | `VerdictIsFinal` | `SingleWorker`, `DatabaseAnswers` |
| | `RevocationsLast` | `RevokedGone` | `SingleWorker`, `NothingLate` |
| IpamProofs | `AllocateMeetsContract` | `Contract` | |
| | `LoopTypeCorrect` | `TypeOK` | |
| PeerApiProofs | `TypeCorrect` | `TypeOK` | |
| | `KeysAreUsedOnce` | `OneOperationPerKey` | |
| | `SecretsAreIssuedOnce` | `SecretsIssuedOnce` | |
| | `AddressesAreDistinct` | `AddressesDistinct` | |
| | `CreatesDoNotCollide` | `NoCollisionWithLive` | `PoolsDisjoint` |
| | `ApiImplementsRegistry` | `ImplementsRegistry` | `PoolsDisjoint` |
| | `WaitingGoesForward` | `WaitsGoForward` | |
| | `NobodyIsStuck` | `SomeoneGoesOn` | |
| InterfaceKeyProofs | `TypeCorrect` | `TypeOK` | |
| | `KeysStayOnNode` | `KeyStaysOnNode` | |
| | `KeyIsNeverLost` | `KeyIsKept` | `KeyAtHand` |
| GatewayProofs | `GatewayTypeCorrect` | `GatewayTypeOK` | |
| | `GatewayImplementsLimiter` | `GatewaySpec` implements `RateLimit`'s `Spec` | |
| | `RateIsKept` | `WithinRate` | |
| | `HintsAreEnough` | `HintSuffices` | `TokenPerSecond` |
| | `ReadsNeedEntitlement` | `ReadsAreEntitled` | |
| | `WritesNeedEntitlement` | `WritesAreEntitled` | |
| ProvisioningProofs | `TypeCorrect` | `TypeOK` | |
| | `CommandsShareNothing` | `NothingShared` | |
| | `FailuresLeaveNoFile` | `FailureLeavesNoFile` | |
| | `NodesHaveConfigs` | `NodeHasConfig` | `OwnInterfaces` |
| ProfileProofs | `TypeCorrect` | `TypeOK` | |
| | `Storable` | `ValidIsStorable` | |
| | `ComesBack` | `RoundTrips` | |
| | `TypesTold` | `PacketTypesDistinct` | |
| | `JunkInLimit` | `JunkFitsPacket` | |
| | `EndsInterwork` | `EndsAgree` | |
| | `SkeletonIsPublic` | `SkeletonLacksOnlyTheKey` | |

**ControlPlaneProofs.** `AppliedOpsArePersisted` is not inductive: a worker about to
complete a job must already have persisted it. The invariant `IInv` says so.
`RowSound` and `OpSound` tie rows, operations and jobs together (an operation's
revision never exceeds the row's desired one); `WorkerSound` says that a worker past
the read of its snapshot holds one that covers its job's revision, since the job
was claimed before the snapshot was read, and that a worker past `persistRuntime`
has brought the row there. The proof has one lemma per action for types and one for
the rest; the argument does not depend on leases at all, which is why it survives
outlived leases and any number of workers.

**ControlPlaneVerdicts** adds to `IInv` what each setting makes true. The settings
are those of a deployment: one worker is the all-in-one container; the others say
that a kind of fault does not happen. `JobStep` lists what a step can do to jobs and
operations, and `ApplyMove` what it can do to a worker's apply; `JobSteps` and
`ApplyMoves` show that every step of `Next` is one of these, and the three proofs
go by these lists.

- `JobsHeld`: a busy worker's job is leased and the lease runs, so `Claimable`
  excludes it. Only `LeaseOutlived` could break that.
- `Verdicts`: the job of an operation with a verdict is final too, nobody is on it, and a
  worker writes to the operation what it wrote to the job before. That needs the
  database, because a lost `Outbox.Fail` leaves the job open, and one worker, because
  another could take up the failed job before the operation is marked.
- `RevokesLast`: every revision after the first is a revocation; the snapshot of an
  apply has such a peer as revoked, so SyncConf takes it off, the dump does not show
  it and persistRuntime records that. After the revoke was reported, whatever
  apply runs next has read the revoked row. `OnlyRendered` is the lemma behind it: a peer
  gets onto an interface only by a SyncConf whose snapshot renders it. Database
  errors, outlived leases, crashes and restarts are all allowed.

**IpamProofs** assumes that a pool lies in its address space and that the
number of its addresses fits an `int` (`PoolAssumption`; IPv6 pools with 63 or more host
bits are excluded). `Turn` is the iteration at which the loop comes to a host; the
invariant says that all hosts whose turn has passed are reserved (`Passed`) and that
the address in hand is the one whose turn it is (`OnTurn`). With the loop bound no
less than the number of hosts, giving up means that nothing is free.

**PeerApiProofs.** The invariant says what each open transaction holds (`Creates`,
`Revokes`), that no lock or index entry has two holders (`Exclusive`), that a request
about to commit holds the index entry of its key, which has no record (`KeyFree`), and what
committed rows, key records and answers are made of (`Rows`, `Recorded`,
`Secrets`). Reads without a lock prove nothing by themselves: it is the unique index entry,
taken before the commit, that makes `OneOperationPerKey` and `AddressesDistinct` hold.

The same module shows the refinement. `PoolsDisjoint` is what `ensureV31ProvisioningAvailable` asks of
a new pool. Under it an allocated address stays unused by live rows until it is
inserted (`FreshAddress`), and every step of the API is a step of the registry, or no
step, under the refinement mapping. This covers what a caller sees of replays,
conflicts and revokes of other tenants' peers, since the registry answers those by
definition.

`NoCircularWait` is stated with ENABLED; what makes it hold is proved without.
`Wants` is what the next statement of a request locks or enters into an index, and
`AcquiresWants` shows that this is what the statements of the model acquire.
`HeldInOrder`, an invariant of its own, says from which statement on a pool, a row, an index
entry and a key entry can be held. So a create waits for its pool only on requests
that are past it, for an index entry or a row only on requests about to store their key or
to commit, and for a key only on one about to commit: waiting goes forward, and the
request furthest on waits for nobody. That a request which waits for nobody can take its
step is the part left to TLC.

**InterfaceKeyProofs.** `Guarded` says what can be on the wire: nothing, or the
placeholder. For `KeyIsNeverLost`, `KeyAtHand` asks that the bootstrap config holds
the node's key or, where there is none, that showconf answers; `Keyed` follows the key
through every config under way.

**GatewayProofs.** `WithinRate` counts admissions over any stretch of time and says nothing of
the tokens left. `Ledger` does: the admissions since an earlier one and the tokens in hand
never exceed a full bucket and the refill since. `HintIsLater` bounds the
`Retry-After` hint from below; `TokenPerSecond` (true of the default
`RATE_REFILL_PER_S`) makes one second enough for one token. That the
gateway implements the limiter carries both over to the server. Entitlement is proved
from the checks of the middleware and of `authorizeTenant` for every token and
validator, assuming what `buildJWTValidator` ensures: an HMAC validator has a secret.

**ProvisioningProofs.** `Clear` says that a command past its check has
no rival in the committed rows, which lasts because the advisory lock is held;
`FilesAreAsked` ties config files to the command that created them exclusively. `NodeHasConfig`
needs `OwnInterfaces`: `RunIfEmpty` overwrites the file of the interface it seeds.

**ProfileProofs** speaks of every profile, not of those near a legal one: any integers,
any number of tags in a junk spec, and any `HMax`. The invariant says that the row of a
stored profile is `RowOf` of it, that what was loaded is the profile itself, and that the
configs are rendered from it; the work is in the lemmas about the operators.

- `ValidRow`: each CHECK constraint follows from the part of `Validate` that speaks of its
  columns.
- `RowRoundTrip`: what is stored as NULL is what the scan turns back into the same value, which
  for a profile below V3.1 holds only because `hasV31OnlyValues` kept the others out.
- `ValueHasOneType`: two ranges that share a value overlap in the sense of
  `rangesOverlap`, so that one of the two pairs of bounds is apart.
- `RangeRoundTrip`: `ParseIntRange` splits at the dash that `String` wrote, since
  a valid range has no signs.
- `LinesAre`, `LinesWritten`: every line of a config has the text of its parameter, and
  every parameter that is not at its default has a line. `ConfigIsRead` puts these
  together for any set of lines between the two, and so covers server and client,
  which leave out different lines.

`ProfileAssumption` says that NULL is none of the values of a column. Texts are the
model's: a header protection key is one token, with or without blanks around it, and nothing is
proved of base64 or of digits.

Model-checked only:

- Liveness (`JobsSettle`, `OperationsSettle`, `Converges`, `Returns`,
  `ApplySucceeds`) and `NoCircularWait`, which is stated with ENABLED: both are beyond
  the prover.
- The findings, which are counterexamples.

## Not modelled

JSON, PEM and dump parsing, request ids, logging, metrics, TLS and the environment are
text or library calls with no state that interleaves with anything. The node
agent's peer endpoints are never called by the worker. The audit log is written and
never read. A node without a profile is not created by any code path, and
migration 0002, which gives the nodes of older installations theirs, is part of a
single transaction at every start and finds nothing to do after the first. The fake executor lives and dies with
the one worker that uses it. The limiter's map of buckets never shrinks and is a fixed set
here.

## Plan

Done: the models, the refinement of `PeerRegistry`, the runs above, and a theorem for
every safety property that is not stated with ENABLED.

Next: the migrations of an older schema at start, and the order in which jobs of a node
are tried when the oldest one keeps failing.
