---------------------------- MODULE OrderPipeline ----------------------------
(***************************************************************************)
(* The order pipeline of the backend for one UDA on one source chain: the  *)
(* balance watcher, the deploy worker, the settle worker and the recovery  *)
(* that runs when the settle worker starts, over the PostgreSQL orders,    *)
(* the Redis record of the UDA, the two RabbitMQ work queues and the       *)
(* chain.                                                                  *)
(*                                                                         *)
(* Orders are keyed (universalAddress, sourceChainId, nonce), so with one  *)
(* UDA and one chain an order is its nonce.  Every await of a handler ends *)
(* a step: what the handler read before it may be stale in the next.       *)
(*                                                                         *)
(* A message that waits in a TTL retry tier is in the queue that tier      *)
(* dead-letters to: delivery is at any later time, in any order.           *)
(***************************************************************************)
EXTENDS UDAChain, UDARecord, FiniteSets

CONSTANTS
    MinBridge,      \* bridge.minAmount of the source chain
    MaxAttempts,    \* maxAttempts of both workers
    DeploySlots,    \* concurrent deploy handlers: one per prefetched message
    SettleSlots,    \* concurrent settle handlers: one per prefetched message
    RecoveryLimit,  \* findIncompleteOrders' limit
    Limit           \* Limit[k]: how many events of kind k are explored

\* What the environment may do only so many times in one behaviour.
EventKind == {"deposit", "outside", "fault", "crash", "register",
              "expire", "retarget"}

ASSUME PipelineAssumption ==
    /\ MinBridge \in Nat \ {0}
    /\ MaxAttempts \in Nat \ {0}
    /\ RecoveryLimit \in Nat \ {0}
    /\ IsFiniteSet(DeploySlots)
    /\ IsFiniteSet(SettleSlots)
    /\ Limit \in [EventKind -> Nat]

Order == 0..MaxNonce
OrderStatus == {"CREATED", "DEPLOYED", "COMPLETED", "FAILED"}
Incomplete == {"CREATED", "DEPLOYED"}

\* attempt is the number of retries already made: absent in the payload means 0.
Msg == [order : Order, attempt : 0..MaxAttempts]
Fresh(n) == [order |-> n, attempt |-> 0]

WatcherPc == {"idle", "balance", "nonce", "guard", "ensure", "enqueue", "record"}
DeployPc == {"idle", "lookup", "code", "markSeen", "passSeen", "simulate", "sent",
             "verify", "mark", "pass", "fallback", "retry", "ack"}
SettlePc == {"idle", "lookup", "read", "zero", "simulate", "sent", "complete",
             "retry", "residual", "lastRetry", "lastResidual", "ack"}

VARIABLES
    status,    \* status[n]: the orders table, "NONE" while there is no row
    deployQ,   \* messages on deploy.q and on the tiers that lead to it
    settleQ,   \* messages on settle.q and on the tiers that lead to it
    watcher,   \* the balance watcher at this address
    dwork,     \* dwork[s]: deploy handler s and its unacknowledged message
    swork,     \* swork[s]: settle handler s and its unacknowledged message
    recovery,  \* runRecovery of the running settle-worker process
    lost,      \* history: orders whose work item vanished and was not re-published
    spent      \* spent[k]: events of kind k so far

vars == <<chain, redis, status, deployQ, settleQ, watcher, dwork, swork,
          recovery, lost, spent>>

queues == <<deployQ, settleQ>>

\* Only nonces of the chain are recorded.
RecordWithin ==
    /\ RecordTypeOK
    /\ lastProc <= MaxNonce
    /\ \A r \in Requests : reading[r] <= MaxNonce

TypeOK ==
    /\ ChainTypeOK
    /\ status \in [Order -> OrderStatus \cup {"NONE"}]
    /\ RecordWithin
    /\ deployQ \in [Msg -> Nat]
    /\ settleQ \in [Msg -> Nat]
    /\ watcher \in [pc : WatcherPc, seen : -1..MaxNonce, at : Order]
    /\ dwork \in [DeploySlots -> [pc : DeployPc, msg : Msg]]
    /\ swork \in [SettleSlots -> [pc : SettlePc, msg : Msg]]
    /\ recovery \in [pc : {"find", "run"}, todo : SUBSET (Order \X Incomplete)]
    /\ lost \in SUBSET Order
    /\ spent \in [EventKind -> Nat]

-----------------------------------------------------------------------------
(* Budgets, queues and handlers                                            *)

Spend(k) ==
    /\ spent[k] < Limit[k]
    /\ spent' = [spent EXCEPT ![k] = @ + 1]

Put(q, m) == [q EXCEPT ![m] = @ + 1]
Take(q, m) == [q EXCEPT ![m] = @ - 1]

Idle == [pc |-> "idle", msg |-> Fresh(0)]
WatcherIdle == [pc |-> "idle", seen |-> -1, at |-> 0]

\* Unacknowledged messages go back on the queue when their consumer dies.
Requeue(q, work, Slots) ==
    [m \in Msg |-> q[m] + Cardinality({s \in Slots : work[s].pc # "idle" /\ work[s].msg = m})]

\* Mutant: the attempt is not counted.
SameAttempt(m) == [order |-> m.order, attempt |-> m.attempt]

NextAttempt(m) == [order |-> m.order, attempt |-> m.attempt + 1]

\* updateOrderStatus: an unconditional write.
SetStatus(n, st) == status' = [status EXCEPT ![n] = st]

WGoto(pc) == watcher' = [pc |-> pc, seen |-> watcher.seen, at |-> watcher.at]
DGoto(s, pc) == dwork' = [dwork EXCEPT ![s] = [pc |-> pc, msg |-> dwork[s].msg]]
SGoto(s, pc) == swork' = [swork EXCEPT ![s] = [pc |-> pc, msg |-> swork[s].msg]]
DAt(s, pc) == dwork[s].pc = pc
SAt(s, pc) == swork[s].pc = pc
DOrder(s) == dwork[s].msg.order
SOrder(s) == swork[s].msg.order

Init ==
    /\ ChainInit
    /\ status = [n \in Order |-> "NONE"]
    /\ RecordInit
    /\ deployQ = [m \in Msg |-> 0]
    /\ settleQ = [m \in Msg |-> 0]
    /\ watcher = WatcherIdle
    /\ dwork = [s \in DeploySlots |-> Idle]
    /\ swork = [s \in SettleSlots |-> Idle]
    /\ recovery = [pc |-> "find", todo |-> {}]
    /\ lost = {}
    /\ spent = [k \in EventKind |-> 0]

-----------------------------------------------------------------------------
(* Balance watcher: processAddress, one await at a time                    *)

\* getUDA returns a registration for this chain; it is used to the end of the
\* pass.  Without one the address is pruned and the pass ends.
WatchTick ==
    /\ watcher.pc = "idle"
    /\ cached
    /\ watcher' = [pc |-> "balance", seen |-> lastProc, at |-> 0]
    /\ UNCHANGED <<chain, status, redis, queues, dwork, swork, recovery, lost, spent>>

\* balanceOf against the minimum of the chain.
WatchBalance ==
    /\ watcher.pc = "balance"
    /\ IF balance >= MinBridge THEN WGoto("nonce") ELSE watcher' = WatcherIdle
    /\ UNCHANGED <<chain, status, redis, queues, dwork, swork, recovery, lost, spent>>

\* Mutant: the order is numbered after the settle() to come.
WatchNonceAhead ==
    /\ watcher.pc = "nonce"
    /\ watcher' = [pc |-> IF watcher.seen = nonce THEN "guard" ELSE "ensure",
                   seen |-> watcher.seen, at |-> nonce + 1]
    /\ UNCHANGED <<chain, status, redis, queues, dwork, swork, recovery, lost, spent>>

\* UDA.nonce(), which is 0 for an account that is not deployed yet.
WatchNonce ==
    /\ watcher.pc = "nonce"
    /\ watcher' = [pc |-> IF watcher.seen = nonce THEN "guard" ELSE "ensure",
                   seen |-> watcher.seen, at |-> nonce]
    /\ UNCHANGED <<chain, status, redis, queues, dwork, swork, recovery, lost, spent>>

\* Mutant: the record in Redis is trusted, the database is not asked.
WatchSkipCached ==
    /\ watcher.pc = "guard"
    /\ watcher' = WatcherIdle
    /\ UNCHANGED <<chain, status, redis, queues, dwork, swork, recovery, lost, spent>>

\* The nonce is recorded as processed and the database has its order: skip.
WatchSkip ==
    /\ watcher.pc = "guard"
    /\ status[watcher.at] # "NONE"
    /\ watcher' = WatcherIdle
    /\ UNCHANGED <<chain, status, redis, queues, dwork, swork, recovery, lost, spent>>

\* Recorded as processed without an order: repair the record and go on.
WatchRepair ==
    /\ watcher.pc = "guard"
    /\ status[watcher.at] = "NONE"
    /\ RecordNonce(watcher.at - 1)
    /\ WGoto("ensure")
    /\ UNCHANGED <<chain, status, queues, dwork, swork, recovery, lost, spent>>

\* Mutant: the message is published whether or not the row was written.
WatchEnsureUnwritten ==
    /\ watcher.pc = "ensure"
    /\ \/ SetStatus(watcher.at, "CREATED") \/ UNCHANGED status
    /\ WGoto("enqueue")
    /\ UNCHANGED <<chain, redis, queues, dwork, swork, recovery, lost, spent>>

\* ensureOrder: create, or find the order that holds the unique key.
WatchEnsure ==
    /\ watcher.pc = "ensure"
    /\ IF status[watcher.at] = "NONE" THEN SetStatus(watcher.at, "CREATED") ELSE UNCHANGED status
    /\ WGoto("enqueue")
    /\ UNCHANGED <<chain, redis, queues, dwork, swork, recovery, lost, spent>>

WatchEnqueue ==
    /\ watcher.pc = "enqueue"
    /\ deployQ' = Put(deployQ, Fresh(watcher.at))
    /\ lost' = IF status[watcher.at] = "CREATED" THEN lost \ {watcher.at} ELSE lost
    /\ WGoto("record")
    /\ UNCHANGED <<chain, status, redis, settleQ, dwork, swork, recovery, spent>>

WatchRecord ==
    /\ watcher.pc = "record"
    /\ RecordNonce(watcher.at)
    /\ watcher' = WatcherIdle
    /\ UNCHANGED <<chain, status, queues, dwork, swork, recovery, lost, spent>>

\* An await throws and processAddress swallows it, or the watcher process dies:
\* the pass ends where it is.
WatchAbort ==
    /\ watcher.pc # "idle"
    /\ Spend("fault")
    /\ lost' = IF watcher.pc = "enqueue" /\ status[watcher.at] = "CREATED"
               THEN lost \cup {watcher.at} ELSE lost
    /\ watcher' = WatcherIdle
    /\ UNCHANGED <<chain, status, redis, queues, dwork, swork, recovery>>

WatcherStep ==
    \/ WatchTick \/ WatchBalance \/ WatchNonce \/ WatchSkip
    \/ WatchRepair \/ WatchEnsure \/ WatchEnqueue \/ WatchRecord

-----------------------------------------------------------------------------
(* Deploy worker                                                           *)

DeployTake(s) ==
    /\ DAt(s, "idle")
    /\ \E m \in Msg :
        /\ deployQ[m] > 0
        /\ deployQ' = Take(deployQ, m)
        /\ dwork' = [dwork EXCEPT ![s] = [pc |-> "lookup", msg |-> m]]
    /\ UNCHANGED <<chain, status, redis, settleQ, watcher, swork, recovery, lost, spent>>

\* Mutant: a FAILED order that comes back as a residual is worked on again.
DeployLookupFailed(s) ==
    /\ DAt(s, "lookup")
    /\ DGoto(s, IF status[DOrder(s)] \in {"CREATED", "FAILED"} THEN "code" ELSE "ack")
    /\ UNCHANGED <<chain, status, redis, queues, watcher, swork, recovery, lost, spent>>

\* getOrderById: an order that is missing or no longer CREATED is skipped.
DeployLookup(s) ==
    /\ DAt(s, "lookup")
    /\ DGoto(s, IF status[DOrder(s)] = "CREATED" THEN "code" ELSE "ack")
    /\ UNCHANGED <<chain, status, redis, queues, watcher, swork, recovery, lost, spent>>

DeployCheckCode(s) ==
    /\ DAt(s, "code")
    /\ DGoto(s, IF deployed THEN "markSeen" ELSE "simulate")
    /\ UNCHANGED <<chain, status, redis, queues, watcher, swork, recovery, lost, spent>>

\* The simulation of createUniversalAccount passes only while there is no proxy.
DeploySimulate(s) ==
    /\ DAt(s, "simulate")
    /\ DGoto(s, IF deployed THEN "retry" ELSE "sent")
    /\ UNCHANGED <<chain, status, redis, queues, watcher, swork, recovery, lost, spent>>

\* The transaction is mined.  Its receipt is not looked at, so when somebody
\* else created the account first the revert goes unnoticed.
DeployMined(s) ==
    /\ DAt(s, "sent")
    /\ IF deployed THEN UNCHANGED chain ELSE CreateAccount
    /\ DGoto(s, "verify")
    /\ UNCHANGED <<status, redis, queues, watcher, swork, recovery, lost, spent>>

\* The transaction runs out of gas: mined, nothing created.
DeployMinedReverted(s) ==
    /\ DAt(s, "sent")
    /\ Spend("fault")
    /\ DGoto(s, "verify")
    /\ UNCHANGED <<chain, status, redis, queues, watcher, swork, recovery, lost>>

\* Mutant: the mined transaction is taken for a deployed account.
DeployVerifyTrusting(s) ==
    /\ DAt(s, "verify")
    /\ DGoto(s, "mark")
    /\ UNCHANGED <<chain, status, redis, queues, watcher, swork, recovery, lost, spent>>

DeployVerify(s) ==
    /\ DAt(s, "verify")
    /\ DGoto(s, IF deployed THEN "mark" ELSE "fallback")
    /\ UNCHANGED <<chain, status, redis, queues, watcher, swork, recovery, lost, spent>>

\* No factory or no wallet is configured, or the node read does not show the
\* new code yet.
DeployNotReady(s) ==
    /\ DAt(s, "simulate") \/ DAt(s, "verify")
    /\ Spend("fault")
    /\ DGoto(s, "fallback")
    /\ UNCHANGED <<chain, status, redis, queues, watcher, swork, recovery, lost>>

\* Mutant: the settle job is left to recovery.
DeployMarkOnly(s) ==
    /\ DAt(s, "markSeen") \/ DAt(s, "mark")
    /\ SetStatus(DOrder(s), "DEPLOYED")
    /\ DGoto(s, "ack")
    /\ UNCHANGED <<chain, redis, queues, watcher, swork, recovery, lost, spent>>

\* updateOrderStatus(DEPLOYED), whatever the status has become since the lookup.
DeployMark(s) ==
    /\ \/ DAt(s, "markSeen") /\ DGoto(s, "passSeen")
       \/ DAt(s, "mark") /\ DGoto(s, "pass")
    /\ SetStatus(DOrder(s), "DEPLOYED")
    /\ UNCHANGED <<chain, redis, queues, watcher, swork, recovery, lost, spent>>

\* enqueueSettle
DeployPass(s) ==
    /\ DAt(s, "passSeen") \/ DAt(s, "pass")
    /\ settleQ' = Put(settleQ, Fresh(DOrder(s)))
    /\ DGoto(s, "ack")
    /\ UNCHANGED <<chain, status, redis, deployQ, watcher, swork, recovery, lost, spent>>

\* Mutant: scheduling a retry sets the order back to CREATED.
DeployRetryReopens(s) ==
    /\ DAt(s, "fallback") \/ DAt(s, "retry")
    /\ IF dwork[s].msg.attempt < MaxAttempts
       THEN /\ deployQ' = Put(deployQ, NextAttempt(dwork[s].msg))
            /\ SetStatus(DOrder(s), "CREATED")
       ELSE /\ SetStatus(DOrder(s), "FAILED")
            /\ UNCHANGED deployQ
    /\ DGoto(s, "ack")
    /\ UNCHANGED <<chain, redis, settleQ, watcher, swork, recovery, lost, spent>>

\* Mutant: after the last attempt the message is acknowledged and nothing else.
DeployRetryForgotten(s) ==
    /\ DAt(s, "fallback") \/ DAt(s, "retry")
    /\ IF dwork[s].msg.attempt < MaxAttempts
       THEN deployQ' = Put(deployQ, NextAttempt(dwork[s].msg))
       ELSE UNCHANGED deployQ
    /\ DGoto(s, "ack")
    /\ UNCHANGED <<chain, status, redis, settleQ, watcher, swork, recovery, lost, spent>>

\* The next attempt goes to a TTL tier, or the order is FAILED after the last.
DeployRetry(s) ==
    /\ DAt(s, "fallback") \/ DAt(s, "retry")
    /\ IF dwork[s].msg.attempt < MaxAttempts
       THEN /\ deployQ' = Put(deployQ, NextAttempt(dwork[s].msg))
            /\ UNCHANGED status
       ELSE /\ SetStatus(DOrder(s), "FAILED")
            /\ UNCHANGED deployQ
    /\ DGoto(s, "ack")
    /\ UNCHANGED <<chain, redis, settleQ, watcher, swork, recovery, lost, spent>>

\* An await inside the inner try throws: schedule a retry.  A transaction whose
\* wait timed out may still land: that is ExternalDeploy.
DeployTryFault(s) ==
    /\ dwork[s].pc \in {"simulate", "sent", "verify", "mark", "pass", "fallback"}
    /\ Spend("fault")
    /\ lost' = IF DAt(s, "pass") THEN lost \cup {DOrder(s)} ELSE lost
    /\ DGoto(s, "retry")
    /\ UNCHANGED <<chain, status, redis, queues, watcher, swork, recovery>>

\* An await outside it throws: "handler error, ack to avoid poison".
DeployDrop(s) ==
    /\ dwork[s].pc \in {"lookup", "code", "markSeen", "passSeen", "retry"}
    /\ Spend("fault")
    /\ lost' = IF status[DOrder(s)] = "CREATED" \/ DAt(s, "passSeen")
               THEN lost \cup {DOrder(s)} ELSE lost
    /\ DGoto(s, "ack")
    /\ UNCHANGED <<chain, status, redis, queues, watcher, swork, recovery>>

DeployAck(s) ==
    /\ DAt(s, "ack")
    /\ dwork' = [dwork EXCEPT ![s] = Idle]
    /\ UNCHANGED <<chain, status, redis, queues, watcher, swork, recovery, lost, spent>>

\* The deploy-worker process dies and is restarted by its supervisor.
DeployCrash ==
    /\ \E s \in DeploySlots : dwork[s].pc # "idle"
    /\ Spend("crash")
    /\ deployQ' = Requeue(deployQ, dwork, DeploySlots)
    /\ lost' = lost \cup {DOrder(s) : s \in {t \in DeploySlots : DAt(t, "passSeen") \/ DAt(t, "pass")}}
    /\ dwork' = [s \in DeploySlots |-> Idle]
    /\ UNCHANGED <<chain, status, redis, settleQ, watcher, swork, recovery>>

DeployStep(s) ==
    \/ DeployTake(s) \/ DeployLookup(s) \/ DeployCheckCode(s) \/ DeploySimulate(s)
    \/ DeployMined(s) \/ DeployVerify(s) \/ DeployMark(s) \/ DeployPass(s)
    \/ DeployRetry(s) \/ DeployAck(s)

DeployFault(s) ==
    \/ DeployMinedReverted(s) \/ DeployNotReady(s) \/ DeployTryFault(s) \/ DeployDrop(s)

-----------------------------------------------------------------------------
(* Settle worker                                                           *)

SettleTake(s) ==
    /\ SAt(s, "idle")
    /\ \E m \in Msg :
        /\ settleQ[m] > 0
        /\ settleQ' = Take(settleQ, m)
        /\ swork' = [swork EXCEPT ![s] = [pc |-> "lookup", msg |-> m]]
    /\ UNCHANGED <<chain, status, redis, deployQ, watcher, dwork, recovery, lost, spent>>

SettleLookup(s) ==
    /\ SAt(s, "lookup")
    /\ SGoto(s, IF status[SOrder(s)] = "DEPLOYED" THEN "read" ELSE "ack")
    /\ UNCHANGED <<chain, status, redis, queues, watcher, dwork, recovery, lost, spent>>

SettleReadBalance(s) ==
    /\ SAt(s, "read")
    /\ SGoto(s, IF balance = 0 THEN "zero" ELSE "simulate")
    /\ UNCHANGED <<chain, status, redis, queues, watcher, dwork, recovery, lost, spent>>

\* "Zero balance at settlement time"
SettleZero(s) ==
    /\ SAt(s, "zero")
    /\ SetStatus(SOrder(s), "COMPLETED")
    /\ SGoto(s, "ack")
    /\ UNCHANGED <<chain, redis, queues, watcher, dwork, recovery, lost, spent>>

\* The fee quote and the simulation of settle() pass ...
SettleSimulate(s) ==
    /\ SAt(s, "simulate")
    /\ deployed /\ balance > 0
    /\ SGoto(s, "sent")
    /\ UNCHANGED <<chain, status, redis, queues, watcher, dwork, recovery, lost, spent>>

\* ... or revert: nothing left to bridge, or no credit on the Stargate path.
SettleSimulateReverts(s) ==
    /\ SAt(s, "simulate")
    /\ SGoto(s, "retry")
    /\ UNCHANGED <<chain, status, redis, queues, watcher, dwork, recovery, lost, spent>>

SettleMined(s) ==
    /\ SAt(s, "sent")
    /\ \E amount \in 1..balance : Settle(amount)
    /\ SGoto(s, "complete")
    /\ UNCHANGED <<status, redis, queues, watcher, dwork, recovery, lost, spent>>

\* Since the simulation the balance was bridged, the credit used up or the fee
\* raised: the receipt says reverted, and nobody reads receipt.status.
SettleMinedReverted(s) ==
    /\ SAt(s, "sent")
    /\ SGoto(s, "complete")
    /\ UNCHANGED <<chain, status, redis, queues, watcher, dwork, recovery, lost, spent>>

SettleComplete(s) ==
    /\ SAt(s, "complete")
    /\ SetStatus(SOrder(s), "COMPLETED")
    /\ SGoto(s, "ack")
    /\ UNCHANGED <<chain, redis, queues, watcher, dwork, recovery, lost, spent>>

\* An await of the inner try (simulate, sent, complete) or outside it throws:
\* the catch that is reached schedules a retry.
SettleFault(s) ==
    /\ \/ swork[s].pc \in {"simulate", "sent", "complete"} /\ SGoto(s, "retry")
       \/ swork[s].pc \in {"lookup", "read", "zero"} /\ SGoto(s, "lastRetry")
    /\ Spend("fault")
    /\ UNCHANGED <<chain, status, redis, queues, watcher, dwork, recovery, lost>>

SettleRetry(s) ==
    /\ SAt(s, "retry") \/ SAt(s, "lastRetry")
    /\ IF swork[s].msg.attempt < MaxAttempts
       THEN /\ settleQ' = Put(settleQ, NextAttempt(swork[s].msg))
            /\ SGoto(s, "ack")
            /\ UNCHANGED status
       ELSE /\ SetStatus(SOrder(s), "FAILED")
            /\ SGoto(s, IF SAt(s, "retry") THEN "residual" ELSE "lastResidual")
            /\ UNCHANGED settleQ
    /\ UNCHANGED <<chain, redis, deployQ, watcher, dwork, recovery, lost, spent>>

\* enqueueResidualDelay: after its delay the message is routed to deploy.q.
SettleResidual(s) ==
    /\ SAt(s, "residual") \/ SAt(s, "lastResidual")
    /\ deployQ' = Put(deployQ, Fresh(SOrder(s)))
    /\ SGoto(s, "ack")
    /\ UNCHANGED <<chain, status, redis, settleQ, watcher, dwork, recovery, lost, spent>>

\* The inner catch throws while scheduling: the outer catch schedules again.
SettleRetryFault(s) ==
    /\ SAt(s, "retry") \/ SAt(s, "residual")
    /\ Spend("fault")
    /\ SGoto(s, "lastRetry")
    /\ UNCHANGED <<chain, status, redis, queues, watcher, dwork, recovery, lost>>

\* The outer catch throws while scheduling: logged and acknowledged.
SettleDrop(s) ==
    /\ SAt(s, "lastRetry") \/ SAt(s, "lastResidual")
    /\ Spend("fault")
    /\ lost' = IF status[SOrder(s)] = "DEPLOYED" THEN lost \cup {SOrder(s)} ELSE lost
    /\ SGoto(s, "ack")
    /\ UNCHANGED <<chain, status, redis, queues, watcher, dwork, recovery>>

SettleAck(s) ==
    /\ SAt(s, "ack")
    /\ swork' = [swork EXCEPT ![s] = Idle]
    /\ UNCHANGED <<chain, status, redis, queues, watcher, dwork, recovery, lost, spent>>

\* The settle-worker process dies and restarts; recovery runs again.
SettleCrash ==
    /\ Spend("crash")
    /\ settleQ' = Requeue(settleQ, swork, SettleSlots)
    /\ swork' = [s \in SettleSlots |-> Idle]
    /\ recovery' = [pc |-> "find", todo |-> {}]
    /\ UNCHANGED <<chain, status, redis, deployQ, watcher, dwork, lost>>

SettleStep(s) ==
    \/ SettleTake(s) \/ SettleLookup(s) \/ SettleReadBalance(s) \/ SettleZero(s)
    \/ SettleSimulate(s) \/ SettleSimulateReverts(s) \/ SettleMined(s)
    \/ SettleMinedReverted(s) \/ SettleComplete(s) \/ SettleRetry(s)
    \/ SettleResidual(s) \/ SettleAck(s)

SettleFaulty(s) ==
    \/ SettleFault(s) \/ SettleRetryFault(s) \/ SettleDrop(s)

-----------------------------------------------------------------------------
(* Recovery: runRecovery after the settle worker has started               *)

\* Mutant: only orders still CREATED are looked for.
OldestCreated ==
    {n \in Order :
        /\ status[n] = "CREATED"
        /\ Cardinality({k \in Order : k < n /\ status[k] = "CREATED"}) < RecoveryLimit}

\* The oldest incomplete orders; orders are created in nonce order.
OldestIncomplete ==
    {n \in Order :
        /\ status[n] \in Incomplete
        /\ Cardinality({k \in Order : k < n /\ status[k] \in Incomplete}) < RecoveryLimit}

\* findIncompleteOrders; the statuses it returns are those of this moment.
RecoveryFind ==
    /\ recovery.pc = "find"
    /\ recovery' = [pc |-> "run", todo |-> {<<n, status[n]>> : n \in OldestIncomplete}]
    /\ UNCHANGED <<chain, status, redis, queues, watcher, dwork, swork, lost, spent>>

RecoveryEnqueue ==
    \E item \in recovery.todo :
        LET n == item[1] IN
        /\ recovery.pc = "run"
        /\ recovery' = [pc |-> "run", todo |-> recovery.todo \ {item}]
        /\ \/ item[2] = "CREATED" /\ deployQ' = Put(deployQ, Fresh(n)) /\ UNCHANGED settleQ
           \/ item[2] = "DEPLOYED" /\ settleQ' = Put(settleQ, Fresh(n)) /\ UNCHANGED deployQ
        /\ lost' = IF status[n] = item[2] THEN lost \ {n} ELSE lost
        /\ UNCHANGED <<chain, status, redis, watcher, dwork, swork, spent>>

\* Publishing one order fails: logged, and the loop goes on.
RecoverySkip ==
    /\ Spend("fault")
    /\ \E item \in recovery.todo :
        recovery' = [pc |-> "run", todo |-> recovery.todo \ {item}]
    /\ UNCHANGED <<chain, status, redis, queues, watcher, dwork, swork, lost>>

RecoveryStep == RecoveryFind \/ RecoveryEnqueue

-----------------------------------------------------------------------------
(* Environment                                                             *)

UserDeposit ==
    /\ Spend("deposit")
    /\ \E a \in DepositAmounts : Deposit(a)
    /\ UNCHANGED <<status, redis, queues, watcher, dwork, swork, recovery, lost>>

\* Anyone may create the account or settle it, and so may a transaction of a
\* worker that stopped waiting for it.
ExternalDeploy ==
    /\ Spend("outside")
    /\ CreateAccount
    /\ UNCHANGED <<status, redis, queues, watcher, dwork, swork, recovery, lost>>

ExternalSettle ==
    /\ Spend("outside")
    /\ \E amount \in 1..balance : Settle(amount)
    /\ UNCHANGED <<status, redis, queues, watcher, dwork, swork, recovery, lost>>

\* POST /register-address, its read and its write.  A request that fails between
\* them has no effect.
RegisterRead ==
    /\ Spend("register")
    /\ \E r \in Requests : ReadRecord(r)
    /\ UNCHANGED <<chain, status, queues, watcher, dwork, swork, recovery, lost>>

Register ==
    /\ \E r \in Requests : WriteRegistration(r)
    /\ UNCHANGED <<chain, status, queues, watcher, dwork, swork, recovery, lost, spent>>

Expire ==
    /\ Spend("expire")
    /\ ExpireRecord
    /\ UNCHANGED <<chain, status, queues, watcher, dwork, swork, recovery, lost>>

\* The same address is registered, or watched, for another source chain.
Retarget ==
    /\ Spend("retarget")
    /\ \E k \in -1..MaxNonce : ForeignRecord(k)
    /\ UNCHANGED <<chain, status, queues, watcher, dwork, swork, recovery, lost>>

Environment ==
    \/ UserDeposit \/ ExternalDeploy \/ ExternalSettle
    \/ RegisterRead \/ Register \/ Expire \/ Retarget

-----------------------------------------------------------------------------
Next ==
    \/ WatcherStep \/ WatchAbort
    \/ \E s \in DeploySlots : DeployStep(s) \/ DeployFault(s)
    \/ DeployCrash
    \/ \E s \in SettleSlots : SettleStep(s) \/ SettleFaulty(s)
    \/ SettleCrash
    \/ RecoveryStep \/ RecoverySkip
    \/ Environment

Spec == Init /\ [][Next]_vars

\* Every started await returns or throws, delivered messages are handled and the
\* watcher's timer fires again: each handler and loop keeps taking steps.
\* Nothing is assumed of users, faults or crashes.
Fairness ==
    /\ WF_vars(WatcherStep)
    /\ \A s \in DeploySlots : WF_vars(DeployStep(s))
    /\ \A s \in SettleSlots : WF_vars(SettleStep(s))
    /\ WF_vars(RecoveryStep)

FairSpec == Spec /\ Fairness

-----------------------------------------------------------------------------
(* Properties                                                              *)

\* An order is created for a nonce the account has reached: no order of the
\* table, and none the watcher is about to create, is ahead of the chain.
OrdersWithinNonce ==
    /\ \A n \in Order : status[n] # "NONE" => n <= nonce
    /\ watcher.pc \in {"guard", "ensure", "enqueue", "record"} => watcher.at <= nonce

\* The bytecode checks of the deploy worker guard every later status: an order
\* reads DEPLOYED or COMPLETED, and a handler is about to write that, only if the
\* account has code, although other handlers and retries of the same order write
\* the status unconditionally.
CodeBeforeDeployed ==
    \/ deployed
    \/ /\ \A n \in Order : status[n] \notin {"DEPLOYED", "COMPLETED"}
       /\ \A s \in DeploySlots : dwork[s].pc \notin {"markSeen", "passSeen", "mark", "pass"}
       /\ \A s \in SettleSlots :
             swork[s].pc \notin {"read", "zero", "simulate", "sent", "complete"}

HasOrder(n) == status[n] # "NONE"
PastCreated(n) == status[n] \notin {"NONE", "CREATED"}

\* Work is only ever published for a row that is there ("order not found" of
\* both workers cannot happen), and settle work only for an order that a deploy
\* handler has moved on from CREATED, wherever the work waits.
MessagesBacked ==
    /\ \A m \in Msg :
          /\ deployQ[m] > 0 => HasOrder(m.order)
          /\ settleQ[m] > 0 => PastCreated(m.order)
    /\ \A s \in DeploySlots :
          /\ ~DAt(s, "idle") => HasOrder(DOrder(s))
          /\ DAt(s, "passSeen") \/ DAt(s, "pass") => PastCreated(DOrder(s))
    /\ \A s \in SettleSlots : ~SAt(s, "idle") => PastCreated(SOrder(s))
    /\ watcher.pc \in {"enqueue", "record"} => HasOrder(watcher.at)
    /\ \A item \in recovery.todo :
          /\ HasOrder(item[1])
          /\ item[2] = "DEPLOYED" => PastCreated(item[1])

\* Who carries an order: a queued message, or a handler that holds one.
QueuedFor(q, n) == \E m \in Msg : m.order = n /\ q[m] > 0
HeldFor(work, Slots, pcs, n) ==
    \E s \in Slots : work[s].msg.order = n /\ work[s].pc \in pcs

DeployCarried(n) ==
    \/ QueuedFor(deployQ, n)
    \/ HeldFor(dwork, DeploySlots, DeployPc \ {"idle", "ack"}, n)
    \/ watcher.pc = "enqueue" /\ watcher.at = n

SettleCarried(n) ==
    \/ QueuedFor(settleQ, n)
    \/ HeldFor(swork, SettleSlots, SettlePc \ {"idle", "ack", "residual", "lastResidual"}, n)
    \/ HeldFor(dwork, DeploySlots, {"passSeen", "pass"}, n)

\* No order is forgotten in silence: an incomplete order has the message or the
\* handler that will take it on, unless it went through one of the points where
\* the code lets the work item go (a swallowed exception between two writes, or
\* a crash there) and nothing has published it again since.
Tracked ==
    \A n \in Order \ lost :
        /\ status[n] = "CREATED" => DeployCarried(n)
        /\ status[n] = "DEPLOYED" => SettleCarried(n)

\* Orders whose status asks for work that nothing carries.
Uncarried ==
    {n \in Order : \/ status[n] = "CREATED" /\ ~DeployCarried(n)
                   \/ status[n] = "DEPLOYED" /\ ~SettleCarried(n)}

\* What a disturbance costs: an exception, wherever it is thrown and caught, leaves
\* at most one more order without work, and the death of the deploy worker at most
\* its prefetched messages; handlers that overwrite each other's status leave none.
LossBounded ==
    Cardinality(Uncarried) <= spent["fault"] + Cardinality(DeploySlots) * spent["crash"]

\* What concurrent handlers of one order can do to its status.  The writes are
\* unconditional, so COMPLETED and FAILED are not final; but an order is never
\* reopened and never COMPLETED straight from CREATED.
StatusEdges ==
    {<<"NONE", "CREATED">>, <<"CREATED", "DEPLOYED">>, <<"CREATED", "FAILED">>}
      \cup ({"DEPLOYED", "COMPLETED", "FAILED"} \X {"DEPLOYED", "COMPLETED", "FAILED"})

StatusSteps ==
    [][\A n \in Order : status'[n] # status[n] => <<status[n], status'[n]>> \in StatusEdges]_vars

\* The jobs that may still write the status of an order: a deploy job that the
\* lookup will accept or has accepted; a settle job with its handler, even one at
\* its ack (a crash returns the message), with the handler about to publish it, or
\* in recovery's hands.
DeployJob(n) ==
    \/ status[n] = "CREATED" /\ DeployCarried(n)
    \/ HeldFor(dwork, DeploySlots, DeployPc \ {"idle", "lookup", "ack"}, n)

SettleJob(n) ==
    \/ QueuedFor(settleQ, n)
    \/ HeldFor(swork, SettleSlots, SettlePc \ {"idle"}, n)
    \/ HeldFor(dwork, DeploySlots, {"passSeen", "pass"}, n)
    \/ <<n, "DEPLOYED">> \in recovery.todo

Jobs(n) == {stage \in {"deploy", "settle"} :
               IF stage = "deploy" THEN DeployJob(n) ELSE SettleJob(n)}

Lifecycle == INSTANCE OrderLifecycle WITH
    Orders <- Order, jobs <- [n \in Order |-> Jobs(n)], stranded <- lost

\* The pipeline implements OrderLifecycle: handlers, retries, recovery, crashes and
\* registrations together write one status at a time and only with a job of the
\* order, never open a job that the status does not ask for, and keep the one it
\* does.  An order at rest is over.
ImplementsLifecycle == Lifecycle!Spec

-----------------------------------------------------------------------------
(* Liveness                                                                *)

Terminal == {"COMPLETED", "FAILED"}

\* Retries are bounded: an incomplete order reaches COMPLETED or FAILED unless
\* its work item was let go.
Resolved ==
    \A n \in Order : status[n] \in Incomplete ~> (status[n] \in Terminal \/ n \in lost)

\* Queues and handlers do not feed each other for ever (residual messages are
\* routed back to deploy.q): once the environment is quiet the work runs out.
Drains ==
    <>[](/\ \A m \in Msg : deployQ[m] = 0 /\ settleQ[m] = 0
         /\ \A s \in DeploySlots : DAt(s, "idle")
         /\ \A s \in SettleSlots : SAt(s, "idle"))

\* While the account is registered, a sufficient balance at a nonce that has no
\* order gets one.
DepositPickedUp ==
    \A n \in Order :
        (cached /\ balance >= MinBridge /\ nonce = n /\ status[n] = "NONE")
            ~> (status[n] # "NONE" \/ ~cached \/ nonce # n)

\* A restart of the settle worker, if nothing fails after it, brings the oldest
\* incomplete orders to an end, lost or not, up to the limit of the recovery query.
\* The query is not repeated: a younger order that was lost stays as it is.
Quiet == \A k \in {"fault", "crash"} : spent[k] = Limit[k]
WithinLimit(n) == Cardinality({k \in Order : k < n /\ status[k] \in Incomplete}) < RecoveryLimit

RestartRescues ==
    \A n \in Order :
        (Quiet /\ recovery.pc = "find" /\ status[n] \in Incomplete /\ WithinLimit(n))
            ~> status[n] \in Terminal

-----------------------------------------------------------------------------
(* What the documentation says of the pipeline and the code does not do    *)

\* TechnicalDetails.md: COMPLETED means that the bridge transaction of the order
\* succeeded, and each successful settle() increments the nonce.
CompletedMeansBridged == \A n \in Order : status[n] = "COMPLETED" => n < nonce

\* TechnicalDetails.md: an operation that fails is retried, and the order FAILED
\* when the retries are used up; incomplete orders are recovered.
AlwaysResolved == \A n \in Order : status[n] \in Incomplete ~> status[n] \in Terminal

\* TechnicalDetails.md: when a bridging limit is reached the system reprocesses
\* the order after some time, as long as the funds are there.
FailedReprocessed ==
    \A n \in Order :
        (status[n] = "FAILED" /\ nonce = n /\ balance >= MinBridge)
            ~> (status[n] # "FAILED" \/ nonce # n \/ balance < MinBridge)
=============================================================================
