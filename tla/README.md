# Universal Deposit: TLA+ models, model checking and proofs

Universal Deposit bridges USDC from a source chain to a destination chain. A
user registers an owner, a recipient and a destination; a factory contract
fixes the address of a *universal deposit account* (UDA) for them; the user
sends USDC there; the backend notices the balance, creates an order, deploys
the account and calls its `settle()`, which bridges the balance over Stargate.
Anyone may deploy or settle an account without the backend.

This directory models the contracts and the backend of
`src/packages/contracts` and `src/packages/backend`, checks the models with
TLC on small instances, and proves their main invariants for every instance
with TLAPS. `PROJECT.json` is the index: components, runs, the lines every
definition translates, hazards, findings and theorems.

    tlc -workers 2 -config PipelineHandlers.cfg MCOrderPipeline.tla
    tlapm OrderPipelineSafety.tla

## The system

| Component | State | Operations | Talks to |
| --- | --- | --- | --- |
| `UniversalDepositAccount`, `Utils` | token balance, native balance, `nonce`, owner/recipient/destination | `initialize`, `settle`, `withdrawToken`, `quoteStargateFee` | manager, Stargate |
| `ProxyFactory` | one proxy per salt | `createUniversalAccount`, address view | account |
| `UniversalDepositManager` | route per (token, destination), endpoint per chain, supported tokens | `setStargateRoute`, `setChainIdEid` | read by the account |
| HTTP API | the requests in progress; a daily counter per owner (Redis); the clients table | `POST /register-address`, order queries, client administration | Redis, PostgreSQL, factory view |
| UDA cache (Redis) | hash `uda:<address>` with TTL and `lastProcessedNonce`; set `uda:index` | register, get, update, list, prune | API writes, watcher reads and writes |
| Balance watcher | `running` flag, one pass per address | `processAddress` | Redis, chain, orders, `deploy.q` |
| Orders repository (PostgreSQL) | orders, unique per (address, source chain, nonce) | `ensureOrder`, `updateOrderStatus`, lookups, `findIncompleteOrders` | watcher, workers, recovery, API |
| Queues (RabbitMQ) | `deploy.q`, `settle.q`, retry tiers, residual tiers, `dlq.q` | publish, retry, residual, ack | watcher, workers, recovery |
| Deploy worker | up to 2 unacknowledged messages | one handler per message | orders, chain, queues |
| Settle worker | up to 3 unacknowledged messages | one handler per message | orders, chain, queues |
| Recovery | the list it read at start | `runRecovery`, once per settle-worker process | orders, queues |
| Route validation, chain config, ids, clients | a static registry | pure checks and builders | API, watcher, workers |
| Monitoring | heartbeat keys with TTL | `/health`, heartbeats, metrics | Redis |
| Authentication | the client a request was given | master key, lookup of a key | clients table, API |

### What is hard about it

* **Interleaving.** Watcher, API, two deploy handlers, three settle handlers,
  recovery, users and third parties act on the same account. Every `await`
  splits a handler: the status it tested, the balance it compared and the
  record it read may be out of date when it acts on them. Status writes are
  unconditional.
* **Several stores, no transaction.** Row, message, Redis field and chain are
  written one after the other; an exception or a crash between two of them
  leaves the others behind. Some exceptions are swallowed after an
  acknowledgement.
* **At-least-once delivery.** A message comes back when its process dies, and
  recovery and the watcher publish an order again.
* **A cache with a TTL and partial writes.** `updateUDAState` writes to a hash
  that may have expired; the hash is keyed by the address only, although the
  same address exists on every source chain.
* **Connections.** A lost connection closes the channels under handlers that go
  on: their message is delivered again, their publication waits, their
  acknowledgement throws.
* **Keys and clients change under a request**, and the client of an order comes
  from a registration read several awaits before.
* **Clocks.** TTLs of retries, heartbeats, counters and registrations, in whole
  seconds, against timers that fire late.
* **Loops.** Retries, and residual messages routed back to `deploy.q`.
* **Arithmetic at the bridge.** Shared decimals, a 64-bit cast, partial credit.

### What makes each part correct

* *Watcher and cache*: a sufficient balance at a nonce without an order gets
  one, whatever the cached nonce says; an order is never ahead of the chain;
  an expired address leaves the index; a registration always has a TTL.
* *Workers*: a status never runs ahead of the bytecode; status changes follow
  the graph; settle work exists only for orders past CREATED; no incomplete
  order is without a carrier except where the code drops one; retries end.
* *Recovery*: after a restart that nothing disturbs the incomplete orders end,
  the oldest first, as many as the limit of the query.
* *Runtime*: through outages and deaths an unfinished order keeps a job; a
  FAILED one was given its delays; without a disturbance COMPLETED is final.
* *Heartbeats*: a running service is reported alive, a dead one not for long.
* *API*: a key sees the orders of its own client only; the daily limit of an
  owner holds; what is registered can be served.
* *Contracts*: the balance of a supported token goes down only by a counted
  settlement of at least one unit and at most the balance; partial credit does
  not block; enough credit leaves dust only.

## Modules

| Module | Models |
| --- | --- |
| `UDAChain` | What the backend can observe of one account: balance, nonce, code; deposit, creation, settlement. |
| `UDARecord` | What the watcher of one source chain can tell of the Redis hash: registered or not, the recorded nonce, nonces read by registrations under way. |
| `OrderPipeline` | Watcher, deploy worker, settle worker, recovery, orders table, queues, crashes and failing calls, composed with `UDAChain` and `UDARecord`. |
| `UdaCache` | The hash with TTL, the index, concurrent registrations for several source chains, the watcher's passes. Implements `UDARecord` for each source chain. |
| `DepositAccount` | Account, factory, manager tables, Stargate paths, with integer amounts. Implements `UDAChain`. |
| `RouteRegistry` | The chains registry and the questions asked of it: `validateRoute`, lookups by scan and by map, limits. |
| `ApiService` | Authentication, registration, the daily limit, order queries, client administration; composed with `RouteRegistry`. |
| `RetryTiers` | Work queues, retry and residual queues with their TTLs, the publishers. |
| `Monitoring` | Heartbeats with expiry, outages of Redis, the formula of `/health`. |
| `WorkerRuntime` | Worker processes, channels, confirmed publications, redelivery, deaths; composes `RetryTiers` and `Monitoring`. |
| `OrderLifecycle` | What the workers promise of the rows: statuses, jobs, orders let go. Implemented by `OrderPipeline` and by `WorkerRuntime`. |
| `MCOrderPipeline`, `MCUdaCache`, `MCDepositAccount`, `MCApiService`, `MCWorkerRuntime` | Instances for TLC: budgets, registries, symmetry. |
| `OrderPipelineProofs`, `OrderPipelineSafety`, `OrderPipelineTracked`, `DepositAccountProofs`, `UdaCacheProofs`, `ApiServiceProofs`, `WorkerRuntimeProofs`, `WorkerRuntimeJobs` | Theorems. |

`UDAChain`, `UDARecord` and `OrderLifecycle` are the abstract specifications.
`OrderPipeline`
uses them by `EXTENDS`, so its steps are written in their operations;
`DepositAccount` and `UdaCache` show, by refinement (`ImplementsChain`,
`ImplementsRecord`), that the detailed code stays inside them. `OrderLifecycle`
closes the other side: two models of the same workers, one with every await and
failing call, one with channels, confirmations and delays, implement it.

### OrderLifecycle and the two models of the workers

A *job* of an order at a stage is whatever may still make a worker write its
status: a message that the lookup of the stage will accept, or a handler past
that lookup. Its steps write at most one status, and only with a job (`Create`
excepted); a job may end at any time, is opened only at the stage the status asks
for, and the one it asks for is kept unless the order is `stranded`. From this
follows `RestIsFinal`: the writes are unconditional and come after stale reads, and
still a COMPLETED or FAILED order without a job stays as it is.

The refinement maps `jobs` to `DeployJob` and `SettleJob` of each model, state
functions over queues and handlers; a deploy message counts only while the order
reads CREATED, since the lookup drops it otherwise, and a deploy handler about to
publish is the settle job. `stranded` is `lost` of `OrderPipeline` and `orphaned` of
`WorkerRuntime`.

### OrderPipeline and the code

One UDA on one source chain. Since orders are unique per (address, chain,
nonce), and the watcher derives the order id from fields fixed by the address
plus the nonce, an order *is* its nonce.

* **Handlers** are records `[pc, msg]`, one per prefetched message (`dwork`,
  `swork`). A `pc` names the await the handler is about to make: `lookup` is
  `getOrderById`, `code` the bytecode read, `simulate` the fee quote and
  simulation, `sent` the wait for the receipt, `mark`/`complete` the status
  write, `pass` the publication, `ack` the acknowledgement. `markSeen` and
  `passSeen` are the same two writes on the path outside the inner `try`,
  where an exception has other consequences; `retry` and `lastRetry` are the
  inner and the outer catch of the settle worker.
* **Failing calls.** `DeployTryFault`, `DeployDrop`, `SettleFault`,
  `SettleRetryFault`, `SettleDrop`, `WatchAbort` and `RecoverySkip` let any
  await throw; each goes where the enclosing catch goes. `DeployMinedReverted`
  and `SettleMinedReverted` are mined transactions that reverted.
* **Crashes.** `DeployCrash` and `SettleCrash` requeue what the process held
  and restart it; a settle-worker restart runs recovery again. The watcher
  keeps nothing across passes, so its crash is `WatchAbort`. A failing
  `findIncompleteOrders` ends the process: it is a `SettleCrash`.
* **Queues** are bags of messages `[order, attempt]`. A TTL tier is part of
  the queue it dead-letters to: a message in it may arrive at any later time
  and in any order, which includes every delay.
* **`lost`** is a history variable: the orders whose work item was let go at
  one of the points above and not published since. It guards nothing.

### UdaCache and the code

The hash has the registration's source chain (or none: the required fields
are missing), `lastProcessedNonce`, whether it has a TTL and whether it exists
at all. A registration reads, then writes in one `MULTI`; the watcher scans,
gets, prunes, and writes with `hset`, which recreates an expired hash. Orders
are reduced to the pairs (chain, nonce) that have one. The balance write
before the threshold test (`TouchBalance`) is kept because it can recreate the
hash.

### DepositAccount and the code

A call that reverts changes nothing and is not a step; each `require` or
`revert` is a guard. `settle()` computes the amount from balance, conversion
rate, 64-bit cast and credit, tests quote and fee, sends, and counts. The
credit is read for the route's endpoint, the send goes to the endpoint of the
chain map; Stargate (external) reverts if that path lacks credit. Stargate's
quote may be anything up to the amount; rewards above it are left out.

### ApiService and the code

A request is a record `[pc, key, who, ...]`; each `await` ends a step. `key` is
the header it sent, `who` the client the middleware gave it and the handler
keeps using. `Arrive` is the master key's shortcut and the others' way to the
lookup; `AsMaster` asks for the master *key*: the row that the migration
inserts with the master's id is an ordinary client, active from the start, with
a key of its own (`SeedKey`). `RegisterCheck` is everything before the first
await, the key of the day included; `RegisterCount` is `INCR` with
`PEXPIRE NX`; `RegisterStore` the factory view and `registerOrRefreshUDA`.
`AnswerOnly` is every outcome that changes nothing. `WatchRead` and
`WatchCreate` are the watcher as far as it carries the client of a registration
into an order; `UdaCache` and `OrderPipeline` have the rest of it.

`issued`, `registrants` and `accepted` are history variables: the client a key
was generated for, who has registered an address, and how many registrations
passed the limit today. They guard nothing but `Generated` (32 random bytes are
new), and the properties compare with them.

`RouteRegistry` keeps the difference between the two lookups of the code:
`validateRoute` finds the *first* chain with an id, the maps hold the *last*.
The schema does not ask for distinct ids; the theorems do, by assumption, and
`config/chains.json` has them.

### WorkerRuntime and the code

What a handler does to an order is one step (`Deploys`, `Settles`, `Fails`)
that leaves a status; `OrderPipeline` has what happens inside. What
`OrderPipeline` leaves out is here:

* **Time.** A message in a tier has `left` ticks before it reaches its work
  queue. `Tick` waits for handlers that are not held up by a transaction or an
  outage (`Prompt`): database reads and acknowledgements take no time compared
  with the 1 s of the shortest tier.
* **Channels.** `Disconnect` closes them: unacknowledged messages go back, the
  handlers go on with `open = FALSE`, an unconfirmed publication is sent again
  by the channel wrapper (so a message may be published twice), new ones wait
  for `Reconnect`.
* **Acknowledging on a closed channel throws.** Inside an inner `try`
  (`pc = "ack"`) the catch treats this as a failure of the work and schedules a
  retry or writes FAILED (`AckThrows`); in the outermost catch (`lastAck`) it is
  an unhandled rejection that ends the process (`Exit`).
* **Deaths.** `Crash`, `Exit`, `Restart`: the handlers are gone, and with them a
  settle publication that the deploy worker had not made (`orphaned`, a history
  variable).
* **Heartbeats** run in the same processes. `Write` beats at once on start; a
  command waits while Redis is away, because the client never gives up.

## Runs

All bounds are CONSTANTS; with two workers the longest passing run
(`ApiRequests`, 1.7 million states) takes about two and a half minutes.

| Run | Checks | Instance |
| --- | --- | --- |
| `PipelineHandlers` | `CodeBeforeDeployed`, `StatusSteps`, `OrdersWithinNonce`, `MessagesBacked` | two deploy handlers, one settle handler, one deposit of two units settled in parts, one retry, one failing call |
| `PipelineFaults` | `TypeOK`, `Tracked`, `LossBounded`, `ImplementsLifecycle` | one handler each, two failing calls anywhere, one third-party transaction |
| `PipelineRestart` | `LossBounded`; `Resolved`, `Drains`, `RestartRescues` (liveness) | one crash of either worker, one retry, a recovery limit of one with up to two incomplete orders |
| `PipelineWatching` | `DepositPickedUp` (liveness) | an expiry, a registration read early and written late, a write for another source chain with any nonce |
| `CacheRegistrations` | `TypeOK`, `RegistrationExpires`, `ImplementsRecord`, `IndexPruned`, `DepositOrdered` | two source chains, two registrations, one expiry, one failing call, one settlement per chain |
| `AccountSettles` | `TypeOK`, `Settleable`, `ImplementsChain`, `SettlesAll` | rate 2, SD amounts modulo 4 with balances up to 11 so that the cast wraps, deposits of 1, 3 and 4, three settlements, two endpoints, credit up to 3 |
| `ApiRequests` | `TypeOK`, `OwnOrdersOnly`, `DailyLimit`, `RoutableRegistrations`, `AttributionStable` | two registries, two requests at once, one client beside the master's row, three keys, one owner, a limit of one, two days of two hours |
| `WorkersAndTimers` | `TypeOK`, `JobKept`, `PatientFailure`, `FreshMeansRecent`, `NoFalseAlarm`, `CompletedStays`, `ImplementsLifecycle`, `JobsEnd` (liveness) | one order, tiers of 1 and 2 ticks, two attempts, one deploy and two settle handlers, prefetch 1, one disturbance anywhere |

The bounds are enough for the cases the properties are about: two handlers on
one order need one duplicate message, which recovery provides without a
budget; a catch inside a catch needs two failing calls; an order that regresses
needs one slow handler; one retry shows both the scheduling and the exhausted
branch; two nonces show an order and its successor; a cast that wraps needs
one balance beyond the modulus. A counter that outlives its day needs two
days and a window of one; a request that meets a regenerated key needs a key
before and a key after; two registries show a route that is refused for its
contracts and one that is not configured. Two settle handlers with prefetch 1
show a handler on a closed channel beside the one of the redelivery; two tiers
and two attempts show an index in range and one that is cut. More of the same
adds no new branch, and the theorems cover every value.

Symmetry is used for handlers, endpoints, requests and keys other than `SeedKey`,
in safety runs only. Deadlock is
not checked: budgets and the bounds on nonces and days let the models stop.

### Disagreements with the documentation

Each run checks one statement of the documentation; TLC shows an execution of
the code that contradicts it.

| Run | Statement | What happens |
| --- | --- | --- |
| `CompletedUnbridged` | COMPLETED means the bridge transaction succeeded | the receipt's status is not read: a reverted `settle()` completes its order |
| `DroppedOrder` | failed operations are retried, then FAILED | an exception of the first lookups is acknowledged; the order stays CREATED |
| `FailedStays` | after a bridging limit the order is reprocessed | the residual message goes to the deploy worker, which skips FAILED orders |
| `PrunedRegistration` | a registered address is watched for its TTL | a registration between the watcher's read and its `srem` leaves the index |

Met while modelling, and not runs of their own:

* The slippage test of `settle()` compares the quote with a fraction of itself;
  it fails for no quote and no bound (theorem `SlippageTestVacuous`).
* Two handlers may deploy or settle one order: the status is read, not claimed.
  A late deploy handler writes DEPLOYED over COMPLETED, which `StatusEdges`
  therefore allows.
* A handler that has completed its order and finds its channel closed throws at
  the acknowledgement; the catch schedules a retry, or writes FAILED over
  COMPLETED or DEPLOYED after the last attempt (`settle-worker.ts:193`,
  `deploy-worker.ts:187`). TechnicalDetails.md:110 and 128-130 know no such edge.
  `CompletedStays` is therefore conditional.
* `TechnicalDetails.md:321` gives the retries "1s -> 5s -> 30s -> 2m -> 10m", then
  FAILED and the dead-letter queue. The attempt starts at 1 and indexes the
  tiers from 0: the first tier is never used, the last one twice; every path acknowledges, so
  nothing reaches `dlq.q`. The documented sum is a lower bound (`PatientFailure`).
* The residual delay is always that of tier 0.
* Recovery reads the 100 oldest incomplete orders and does not repeat the query.
  `RestartRescues` speaks of as many: without `WithinLimit` it is false, a younger order
  that was lost stays as it is. And only a settle-worker process recovers:
  an order that a deploy worker lost waits for that restart.
* A settlement between the watcher's two reads creates an order for an empty
  account.
* Registration does not check the destination's USDC, which the watcher needs;
  `validateBridgeAmount`, and with it the maximum amount, is used by nobody.
* `/health` reads healthy with one check down, and heartbeats do not count;
  the probes of Redis and RabbitMQ wait for a reconnection rather than
  report a failure.

### Fairness

`FairSpec` of `OrderPipeline` assumes weak fairness of the watcher, of each
handler and of recovery: `setTimeout` fires again after every tick, RabbitMQ
delivers while a consumer has prefetch capacity, every started await returns
or throws. Nothing is assumed of users, third parties, failing calls, crashes,
registrations or expiries. `UdaCache` assumes the watcher's part. `WorkerRuntime`
assumes that started handlers go on, the connection manager reconnects, the
supervisor restarts, timers fire and time passes; Redis need not come back,
and whether an attempt succeeds is left to the handler. Within a
worker weak fairness picks among its steps, so liveness does not rest on a
transaction succeeding or on a particular message being delivered first.
`DepositPickedUp` and `DepositOrdered` are conditional on the registration
staying; `Resolved` excuses orders in `lost`; `RestartRescues` does not.

## Proofs

| Theorem | States |
| --- | --- |
| `TypeCorrect` | `Spec => []TypeOK` of the pipeline |
| `WorkIsBacked` | `[]MessagesBacked` |
| `NoOrderAhead` | `[]OrdersWithinNonce` |
| `DeployedMeansCode` | `[]CodeBeforeDeployed` |
| `StatusFollowsEdges` | `StatusSteps` |
| `NoneForgotten` | `[]Tracked` |
| `LossesPaid` | `[]LossBounded` |
| `PipelineLifecycle`, `PipelineRest` | `ImplementsLifecycle` and `RestIsFinal` of the pipeline |
| `RecoveryTakesOldest` | the recovery query returns every incomplete order or exactly its limit, the oldest first |
| `AccountTypeCorrect` | `Spec => []TypeOK` of the contracts |
| `AccountImplementsChain` | the contracts implement `UDAChain` once the token is supported |
| `SlippageTestVacuous` | the slippage test never fails, for every quote and bound |
| `CreditNeverBlocks` | `[]Settleable`: partial credit never blocks |
| `SettlementLeavesDust` | `SettlesAll`: enough credit leaves dust only |
| `CacheTypeCorrect`, `RegistrationsExpire` | `[]TypeOK` and `[]RegistrationExpires` of the cache |
| `CacheImplementsRecord` | `ImplementsRecord`: each source chain sees a `UDARecord` |
| `AcceptedRouteResolves` | a route that is accepted by scanning has its contracts in the maps |
| `ApiTypeCorrect`, `OwnOrders`, `DailyLimitHolds`, `RegistrationsRoutable` | `[]TypeOK`, `[]OwnOrdersOnly`, `[]DailyLimit`, `[]RoutableRegistrations` of the API |
| `AttributionsStable` | `AttributionStable` |
| `FreshIsRecent`, `AliveIsFresh` | `[]FreshMeansRecent`, `[]NoFalseAlarm` of the heartbeats |
| `HealthBrackets` | what each overall status says of the number of failing checks |
| `RuntimeTypeCorrect`, `JobsKept` | `[]TypeOK`, `[]JobKept` of the runtime |
| `CompletedIsFinal` | `CompletedStays` |
| `FailuresPatient` | `[]PatientFailure`, for tiers that are `Escalating` |
| `RuntimeLifecycle`, `RuntimeRest` | `ImplementsLifecycle` and `RestIsFinal` of the runtime |

They hold for every number of handlers, attempts, nonces, endpoints, requests,
keys and budgets, every deposit set, rate, width, registry and list of tiers,
from the named assumptions of the modules. `ChainAssumption`,
`PipelineAssumption`, `AccountAssumption`, `CacheAssumption`, `TierAssumption`
and `RuntimeAssumption` say that bounds are naturals, lists of tiers not empty
and handler sets finite. Two say more. `ApiAssumption`: no generated key is the
master key, the window of the limit is a day or longer (the default is a day),
and ids of one registry are distinct. `MonitoringAssumption`: ticks divide
seconds and the interval, and the event loop delays a beat by less than what
the expiry leaves beyond the interval. One theorem has a hypothesis of its own,
`FailuresPatient`: the tiers do not get shorter and are no more than the attempts
(`Escalating`; `topology.ts` has five from 1 s to 10 min, the workers five
attempts). Without it the statement is false: the first tier is never used.

**Pipeline.** None of the invariants but `TypeOK` is inductive alone. The
inductive invariant is

    IInv == TypeOK /\ MessagesBacked /\ OrdersWithinNonce /\ CodeBeforeDeployed

* `CodeBeforeDeployed` needs `MessagesBacked`: a settle handler passes its
  lookup only for an order that reads DEPLOYED, and settle work exists only for
  orders past CREATED. It speaks of handlers as well as of statuses because a
  handler between its bytecode check and its write carries the fact.
* `MessagesBacked` needs that statuses only move forward from NONE and CREATED
  (`NextAdvances`): every writer of the status is one of six
  (`StatusFrame`), and each writes a successor of what its handler's position
  implies. `StatusSteps` follows from the same lemma.
* `OrdersWithinNonce` needs that the nonce never decreases (`ChainForward`).
* `Tracked` is proved on top of `IInv` in `OrderPipelineTracked`: each action
  that takes a carrier away either provides another or adds to `lost`. A crash
  is the subtle step: the requeued message carries what the handler held.

* `LossBounded` needs no history variable to be stated: what is incomplete and not
  carried is within `lost` by `Tracked`, and `Losses` says what each step adds to
  `lost` and pays for it: one order for a failing call, the orders of the deploy
  handlers for a crash, none otherwise.

The proof of a step has one lemma per component (watcher, deploy, settle,
crash, recovery, environment) with one step per action.

`PipelineLifecycle` rests on `IInv` and `Tracked`. `DeployMoves` and `SettleMoves` say
what a step makes of a handler, `JobsOpened` that a job appears only with the
status that asks for it, which is where a duplicate message must not count as a
job of an order that has moved on; `StatusJob` that each writer has a job, and
`LetGoHeld` that an order is let go only with one.

`RecoveryTakesOldest` is about the query and holds in every state. That the limit is
reached exactly takes the oldest order that was left out, and that it is not exceeded the youngest
one that was taken; both exist because sets of orders are finite (`Extremes`).

**Contracts.** `BridgeBound` shows that the amount is a whole number of shared
units, at most the credit and at most the balance, also where the 64-bit cast
wraps; `WholeUnits` that dividing it by the rate gives back exactly the units,
so that credit stays a natural; `WholeBalance` that what is left of a balance
within the width is less than a unit. Type correctness and the refinement follow per
action. `Settleable` says which calls of `settle()` go through in terms of the guard
`CanSettle`, so that no `ENABLED` is needed: with route and chain map on one endpoint
the amount is capped by the credit of the path that is used.

**Cache.** `RegistrationExpires` is inductive with `Placed`, which says that a
pass past its read, and a registration past its own, have a source chain. For
the refinement every step is read from one chain `c`: a registration for `c` is
`ReadRecord`, `WriteRegistration` or `AbandonRead`; everything else either
changes neither registration nor reading for `c` or is a foreign write
(`ForeignWrite`), which may drop the registration and never adds one.

**API.** The inductive invariant relates keys, clients and requests: a key in a
row was issued to that row's client and to no other, a request past the lookup
acts for the client its key was issued to, a registration, a pass and an order
name a client that has registered the address; regenerating a key or
deactivating a client disturbs none of these, because they speak of the history
and not of the row. For the limit, the counter of today has a TTL that reaches
the end of the day, so `accepted` never exceeds it, and the requests past the
limit are among the first `MaxRequests`.

**Runtime.** `JobKept` is strengthened to `JobInv`, which says who keeps a job: a
message that waits, a handler on an *open* channel before its own
publication (`Carries`: its delivery comes back if the channel closes), or a
deploy handler about to publish the settle job, on an open channel or not
(`Passing`). A disconnection then only turns `Carries` into a waiting message, and
a death loses exactly what `orphaned` records. `CompletedStays` rests on one
token per order (`OneToken`): while nothing is disturbed, an order has one message or
one active handler, never two of these, so no other handler is there to take it
back. For the heartbeats, the expiry and the time since the process ran add up to
at most `Ttl`, and the key of a running service is ahead of its timer
(`hb >= Ttl - Interval + beat`), positive because `Interval + MaxLate < Ttl`, which
is the arithmetic of the assumption.

`PatientFailure` compares with the sum of the documented delays, a recursive
function. Its proof needs an induction over the naturals, and is written as a descent: a set of
naturals in which every element has a smaller one is empty (`Descent`, from the
well-foundedness of the strict subset order on finite sets), applied to the set of
counterexamples. `AgeInv` is the invariant: every message, handler and FAILED order
is at least as old as the delays its attempts were given.

`RuntimeLifecycle` follows from `JobInv` as the pipeline's does from `IInv`; new is
that a closed channel leaves its handler working while its delivery comes back, two
jobs of one stage that end one by one.

Only model-checked: the liveness properties, since fairness and `ENABLED` are beyond
the prover (`Resolved`, `Drains`, `RestartRescues`, `DepositPickedUp`,
`IndexPruned`, `DepositOrdered`, `JobsEnd`). Every other property that a passing run
checks is proved.

## What is abstracted or left out

* Message formats, logs, metrics, order metadata
  (amount, hash, message). Malformed messages are acknowledged without effect
  and left out.
* In `OrderPipeline` the configuration is complete: the branches for a missing USDC
  address are not taken; a missing factory or wallet is `DeployNotReady`.
* In `OrderPipeline` channels stay open and a publication happens or throws;
  redelivery under a live handler, unconfirmed publications and delays are in
  `WorkerRuntime`, which in turn reduces a handler's work to the status it leaves and
  has no recovery and no watcher. One process runs each worker there. A database write
  that happens and throws is in neither.
* The index and the pruning are in `UdaCache`; in the pipeline the watcher
  simply does not see an unregistered address. `Retarget` there over-
  approximates a registration for another source chain: any nonce may appear.
* A reorganisation of the chain; ownership transfer of the account; native
  ETH left on the account by callers who overpay; the token's own behaviour
  beyond `transfer` and `balanceOf`.
* In `ApiService` the recipient is not part of the address, pages of a list are
  any subset of the visible orders, bodies that are refused are `AnswerOnly`, and
  the nonce of an order is whatever the chain has by then. The generic rate
  limit plugin (1000 requests a minute), CORS and the schemas of requests refuse a request
  before it has an effect.
* The probes behind `/health`, metrics and logs only observe. RPC URLs, keys of
  signers and display helpers of the registry; construction of clients.
* The Prisma migrations, scripts, CI and tests.

## Plan

Done, in this order: `UDAChain`, `UDARecord`, `OrderPipeline` with its runs and
proofs; `UdaCache`; `DepositAccount` and its proofs; `RouteRegistry` and
`ApiService`; `RetryTiers`, `Monitoring` and `WorkerRuntime`; their proofs and
those of `UdaCache`; `OrderLifecycle` with its two refinements, and the last safety
invariants (`Settleable`, `PatientFailure`, `LossBounded`). Next:

1. The steps on which the liveness properties rest, as theorems about actions: a
   measure of pending work that retries and residual messages decrease (`Drains`,
   `JobsEnd`).
2. `BridgeAmount` and `RouteAccepted` against reference definitions.
3. Channels that close under the full handlers of `OrderPipeline`, with
   `Tracked` and `Drains` checked again.
