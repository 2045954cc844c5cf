------------------------ MODULE OrderPipelineTracked ------------------------
(* No incomplete order of OrderPipeline is forgotten in silence.           *)
EXTENDS OrderPipelineSafety

-----------------------------------------------------------------------------
(* How publishing, taking and requeueing move the carriers                 *)

\* A published message carries its order, and no other order loses its message.
LEMMA PutCarries ==
    ASSUME NEW q \in [Msg -> Nat], NEW m \in Msg, NEW n
    PROVE  /\ QueuedFor(Put(q, m), m.order)
           /\ QueuedFor(q, n) => QueuedFor(Put(q, m), n)
<1>1. Put(q, m) \in [Msg -> Nat] /\ Put(q, m)[m] = q[m] + 1
    BY DEF Put
<1>2. \A k \in Msg : Put(q, m)[k] >= q[k]
    BY DEF Put
<1>3. \A k \in Msg : q[k] > 0 => Put(q, m)[k] > 0
    BY <1>1, <1>2
<1> QED BY <1>1, <1>3 DEF QueuedFor

\* Consuming a message can only uncover the order of that message.
LEMMA TakeCarries ==
    ASSUME NEW q \in [Msg -> Nat], NEW m \in Msg, NEW n, QueuedFor(q, n)
    PROVE  QueuedFor(Take(q, m), n) \/ m.order = n
BY DEF QueuedFor, Take

\* After a crash the queue carries what it carried and what the handlers held.
LEMMA RequeueCarries ==
    ASSUME NEW q \in [Msg -> Nat], NEW S, IsFiniteSet(S), NEW P, "idle" \notin P,
           NEW work, \A s \in S : work[s].msg \in Msg, NEW n,
           QueuedFor(q, n) \/ HeldFor(work, S, P, n)
    PROVE  QueuedFor(Requeue(q, work, S), n)
<1> DEFINE H(m) == {s \in S : work[s].pc # "idle" /\ work[s].msg = m}
<1>1. \A m \in Msg : /\ Requeue(q, work, S)[m] = q[m] + Cardinality(H(m))
                     /\ Cardinality(H(m)) \in Nat
  <2> TAKE m \in Msg
  <2>1. IsFiniteSet(H(m))
    BY FS_Subset
  <2> QED BY <2>1, FS_CardinalityType DEF Requeue
<1>2. CASE QueuedFor(q, n)
  <2> PICK m \in Msg : m.order = n /\ q[m] > 0
    BY <1>2 DEF QueuedFor
  <2>1. Requeue(q, work, S)[m] > 0
    <3> HIDE DEF H
    <3> QED BY <1>1
  <2> QED BY <2>1 DEF QueuedFor
<1>3. CASE HeldFor(work, S, P, n)
  <2> PICK s \in S : work[s].msg.order = n /\ work[s].pc \in P
    BY <1>3 DEF HeldFor
  <2> DEFINE m == work[s].msg
  <2>1. m \in Msg /\ s \in H(m)
    OBVIOUS
  <2>2. IsFiniteSet(H(m))
    BY FS_Subset
  <2>3. Cardinality(H(m)) # 0
    BY <2>1, <2>2, FS_EmptySet
  <2>4. Requeue(q, work, S)[m] > 0
    BY <1>1, <2>1, <2>3
  <2> QED BY <2>1, <2>4 DEF QueuedFor
<1> QED BY <1>2, <1>3

\* A handler that moves lets go of at most its own order, and holds that of the
\* message it now has.
LEMMA MoveCarries ==
    ASSUME NEW S, NEW s \in S, NEW T, NEW work \in [S -> T], NEW r, NEW P, NEW n
    PROVE  /\ HeldFor(work, S, P, n)
                => \/ HeldFor([work EXCEPT ![s] = r], S, P, n)
                   \/ work[s].msg.order = n /\ work[s].pc \in P
           /\ r.msg.order = n /\ r.pc \in P => HeldFor([work EXCEPT ![s] = r], S, P, n)
BY DEF HeldFor

-----------------------------------------------------------------------------
(* The steps                                                               *)

\* The watcher holds a new order until it has published it.
LEMMA TrackedWatcher ==
    ASSUME TypeOK, Tracked, WatcherStep \/ WatchAbort
    PROVE  Tracked'
<1> USE DEF TypeOK, Tracked, DeployCarried, SettleCarried, QueuedFor, HeldFor,
            WGoto, WatcherIdle, SetStatus, queues
<1>1. CASE WatchTick BY <1>1 DEF WatchTick
<1>2. CASE WatchBalance BY <1>2 DEF WatchBalance
<1>3. CASE WatchNonce
  <2>1. /\ watcher.pc # "enqueue"
        /\ UNCHANGED <<status, deployQ, settleQ, dwork, swork, lost>>
    BY <1>3 DEF WatchNonce
  <2> QED BY <2>1
<1>4. CASE WatchSkip BY <1>4 DEF WatchSkip
<1>5. CASE WatchRepair BY <1>5 DEF WatchRepair
<1>6. CASE WatchEnsure BY <1>6 DEF WatchEnsure
<1>7. CASE WatchEnqueue
  <2> watcher.at \in Order /\ Fresh(watcher.at) \in Msg /\ Fresh(watcher.at).order = watcher.at
    BY MessageTypes DEF Fresh
  <2>1. /\ QueuedFor(deployQ', watcher.at)
        /\ \A n \in Order : QueuedFor(deployQ, n) => QueuedFor(deployQ', n)
    <3> HIDE DEF QueuedFor
    <3> QED BY <1>7, PutCarries DEF WatchEnqueue
  <2> QED BY <1>7, <2>1 DEF WatchEnqueue
<1>8. CASE WatchRecord BY <1>8 DEF WatchRecord
<1>9. CASE WatchAbort BY <1>9 DEF WatchAbort
<1> QED BY <1>1, <1>2, <1>3, <1>4, <1>5, <1>6, <1>7, <1>8, <1>9 DEF WatcherStep

\* A deploy handler holds its order until it has published or recorded it as lost.
LEMMA TrackedDeploy ==
    ASSUME TypeOK, MessagesBacked, Tracked, NEW s \in DeploySlots, DeployStep(s) \/ DeployFault(s)
    PROVE  Tracked'
<1> USE DEF TypeOK, Tracked, DeployCarried, SettleCarried, HeldFor, DAt, DOrder, DGoto, DeployPc,
            SetStatus, queues
<1> /\ dwork[s].msg \in Msg /\ dwork[s].msg.order \in Order
    /\ Fresh(DOrder(s)) \in Msg /\ Fresh(DOrder(s)).order = DOrder(s)
    BY MessageTypes DEF Fresh, Msg
<1>1. CASE DeployTake(s)
  <2> PICK m \in Msg : /\ deployQ[m] > 0
                       /\ deployQ' = Take(deployQ, m)
                       /\ dwork' = [dwork EXCEPT ![s] = [pc |-> "lookup", msg |-> m]]
    BY <1>1 DEF DeployTake
  <2>1. \A n \in Order : QueuedFor(deployQ, n) => QueuedFor(deployQ', n) \/ m.order = n
    BY TakeCarries
  <2>2. dwork[s].pc = "idle" /\ UNCHANGED <<status, settleQ, watcher, swork, lost>>
    BY <1>1 DEF DeployTake
  <2>3. \A n \in Order : /\ DeployCarried(n) => DeployCarried(n)'
                         /\ SettleCarried(n) => SettleCarried(n)'
    <3> TAKE n \in Order
    <3>1. m.order = n => HeldFor(dwork', DeploySlots, {"lookup"}, n)
      OBVIOUS
    <3> QED BY <2>1, <2>2, <3>1 DEF QueuedFor
  <2> HIDE DEF DeployCarried, SettleCarried
  <2> QED BY <2>2, <2>3
<1>2. CASE DeployLookup(s) BY <1>2 DEF DeployLookup
<1>3. CASE DeployCheckCode(s) BY <1>3 DEF DeployCheckCode
<1>4. CASE DeploySimulate(s) BY <1>4 DEF DeploySimulate
<1>5. CASE DeployMined(s)
  <2>1. /\ DAt(s, "sent") /\ DGoto(s, "verify")
        /\ UNCHANGED <<status, queues, watcher, swork, lost>>
    BY <1>5 DEF DeployMined
  <2> QED BY <2>1
<1>6. CASE DeployVerify(s) BY <1>6 DEF DeployVerify
<1>7. CASE DeployMark(s)
  <2>1. /\ dwork[s].pc \in {"markSeen", "mark"}
        /\ \E pc \in {"passSeen", "pass"} : DGoto(s, pc)
        /\ status' = [status EXCEPT ![DOrder(s)] = "DEPLOYED"]
        /\ UNCHANGED <<queues, watcher, swork, lost>>
    BY <1>7 DEF DeployMark
  <2>2. status'[DOrder(s)] = "DEPLOYED" /\ SettleCarried(DOrder(s))'
    BY <2>1
  <2>3. ASSUME NEW n \in Order \ lost, n # DOrder(s)
        PROVE  /\ status'[n] = status[n]
               /\ DeployCarried(n) => DeployCarried(n)'
               /\ SettleCarried(n) => SettleCarried(n)'
    BY <2>1, <2>3
  <2> QED BY <2>1, <2>2, <2>3
<1>8. CASE DeployPass(s)
  <2>1. /\ QueuedFor(settleQ', DOrder(s))
        /\ \A n \in Order : QueuedFor(settleQ, n) => QueuedFor(settleQ', n)
    BY <1>8, PutCarries DEF DeployPass
  <2>2. /\ dwork[s].pc \in {"passSeen", "pass"} /\ DGoto(s, "ack")
        /\ UNCHANGED <<status, deployQ, watcher, swork, lost>>
    BY <1>8 DEF DeployPass
  <2>3. SettleCarried(DOrder(s))'
    BY <2>1, <2>2
  <2>4. ASSUME NEW n \in Order, n # DOrder(s)
        PROVE  /\ DeployCarried(n) => DeployCarried(n)'
               /\ SettleCarried(n) => SettleCarried(n)'
    BY <2>1, <2>2, <2>4
  <2>5. status[DOrder(s)] # "CREATED"
    BY <2>2 DEF MessagesBacked, PastCreated
  <2> QED BY <2>2, <2>3, <2>4, <2>5
<1>9. CASE DeployRetry(s)
  <2>1. CASE dwork[s].msg.attempt < MaxAttempts
    <3> DEFINE m == NextAttempt(dwork[s].msg)
    <3> m \in Msg /\ m.order = DOrder(s)
      BY <2>1, MessageTypes DEF NextAttempt
    <3>1. /\ QueuedFor(deployQ', DOrder(s))
          /\ \A n \in Order : QueuedFor(deployQ, n) => QueuedFor(deployQ', n)
      BY <1>9, <2>1, PutCarries DEF DeployRetry
    <3> QED BY <1>9, <2>1, <3>1 DEF DeployRetry
  <2>2. CASE ~(dwork[s].msg.attempt < MaxAttempts)
    BY <1>9, <2>2 DEF DeployRetry
  <2> QED BY <2>1, <2>2
<1>10. CASE DeployAck(s) BY <1>10 DEF DeployAck, Idle
<1>11. CASE DeployFault(s)
  <2>1. CASE DeployMinedReverted(s)
    <3>1. /\ DAt(s, "sent") /\ DGoto(s, "verify")
          /\ UNCHANGED <<status, queues, watcher, swork, lost>>
      BY <2>1 DEF DeployMinedReverted
    <3> QED BY <3>1
  <2>2. CASE DeployNotReady(s) BY <2>2 DEF DeployNotReady
  <2>3. CASE DeployTryFault(s) BY <2>3 DEF DeployTryFault
  <2>4. CASE DeployDrop(s) BY <2>4 DEF DeployDrop
  <2> QED BY <1>11, <2>1, <2>2, <2>3, <2>4 DEF DeployFault
<1> QED BY <1>1, <1>2, <1>3, <1>4, <1>5, <1>6, <1>7, <1>8, <1>9, <1>10, <1>11 DEF DeployStep

\* The same for a settle handler.
LEMMA TrackedSettle ==
    ASSUME TypeOK, Tracked, NEW s \in SettleSlots, SettleStep(s) \/ SettleFaulty(s)
    PROVE  Tracked'
<1> USE DEF TypeOK, Tracked, DeployCarried, SettleCarried, HeldFor, SAt, SOrder, SGoto, SettlePc,
            SetStatus, queues
<1> /\ swork[s].msg \in Msg /\ swork[s].msg.order \in Order
    /\ Fresh(SOrder(s)) \in Msg /\ Fresh(SOrder(s)).order = SOrder(s)
    BY MessageTypes DEF Fresh, Msg
<1>1. CASE SettleTake(s)
  <2> PICK m \in Msg : /\ settleQ[m] > 0
                       /\ settleQ' = Take(settleQ, m)
                       /\ swork' = [swork EXCEPT ![s] = [pc |-> "lookup", msg |-> m]]
    BY <1>1 DEF SettleTake
  <2>1. \A n \in Order : QueuedFor(settleQ, n) => QueuedFor(settleQ', n) \/ m.order = n
    BY TakeCarries
  <2>2. swork[s].pc = "idle" /\ UNCHANGED <<status, deployQ, watcher, dwork, lost>>
    BY <1>1 DEF SettleTake
  <2>3. \A n \in Order : /\ DeployCarried(n) => DeployCarried(n)'
                         /\ SettleCarried(n) => SettleCarried(n)'
    <3> TAKE n \in Order
    <3>1. m.order = n => HeldFor(swork', SettleSlots, {"lookup"}, n)
      OBVIOUS
    <3> QED BY <2>1, <2>2, <3>1 DEF QueuedFor
  <2> HIDE DEF DeployCarried, SettleCarried
  <2> QED BY <2>2, <2>3
<1>2. CASE SettleLookup(s) BY <1>2 DEF SettleLookup
<1>3. CASE SettleReadBalance(s) BY <1>3 DEF SettleReadBalance
<1>4. CASE SettleZero(s) BY <1>4 DEF SettleZero
<1>5. CASE SettleSimulate(s) BY <1>5 DEF SettleSimulate
<1>6. CASE SettleSimulateReverts(s) BY <1>6 DEF SettleSimulateReverts
<1>7. CASE SettleMined(s) BY <1>7 DEF SettleMined
<1>8. CASE SettleMinedReverted(s) BY <1>8 DEF SettleMinedReverted
<1>9. CASE SettleComplete(s) BY <1>9 DEF SettleComplete
<1>10. CASE SettleRetry(s)
  <2>1. CASE swork[s].msg.attempt < MaxAttempts
    <3> DEFINE m == NextAttempt(swork[s].msg)
    <3> m \in Msg /\ m.order = SOrder(s)
      BY <2>1, MessageTypes DEF NextAttempt
    <3>1. /\ settleQ' = Put(settleQ, m) /\ SGoto(s, "ack")
          /\ UNCHANGED <<status, deployQ, watcher, dwork, lost>>
      BY <1>10, <2>1 DEF SettleRetry
    <3>2. /\ QueuedFor(settleQ', SOrder(s))
          /\ \A n \in Order : QueuedFor(settleQ, n) => QueuedFor(settleQ', n)
      BY <3>1, PutCarries
    <3> QED BY <3>1, <3>2
  <2>2. CASE ~(swork[s].msg.attempt < MaxAttempts)
    <3>1. /\ \E pc \in SettlePc : SGoto(s, pc)
          /\ status' = [status EXCEPT ![SOrder(s)] = "FAILED"]
          /\ UNCHANGED <<deployQ, settleQ, watcher, dwork, lost>>
      BY <1>10, <2>2 DEF SettleRetry
    <3> QED BY <3>1
  <2> QED BY <2>1, <2>2
<1>11. CASE SettleResidual(s)
  <2>1. \A n \in Order : QueuedFor(deployQ, n) => QueuedFor(deployQ', n)
    BY <1>11, PutCarries DEF SettleResidual
  <2> QED BY <1>11, <2>1 DEF SettleResidual
<1>12. CASE SettleAck(s) BY <1>12 DEF SettleAck, Idle
<1>13. CASE SettleFaulty(s)
  <2>1. CASE SettleFault(s)
    <3>1. /\ swork[s].pc \notin {"idle", "ack", "residual", "lastResidual"}
          /\ \E pc \in {"retry", "lastRetry"} :
                swork' = [swork EXCEPT ![s] = [pc |-> pc, msg |-> swork[s].msg]]
          /\ UNCHANGED <<status, deployQ, settleQ, watcher, dwork, lost>>
      BY <2>1 DEF SettleFault
    <3> QED BY <3>1
  <2>2. CASE SettleRetryFault(s) BY <2>2 DEF SettleRetryFault
  <2>3. CASE SettleDrop(s) BY <2>3 DEF SettleDrop
  <2> QED BY <1>13, <2>1, <2>2, <2>3 DEF SettleFaulty
<1> QED BY <1>1, <1>2, <1>3, <1>4, <1>5, <1>6, <1>7, <1>8, <1>9, <1>10, <1>11, <1>12, <1>13
        DEF SettleStep

\* A crash loses only the handlers between a status and its publication.
LEMMA TrackedCrash ==
    ASSUME TypeOK, MessagesBacked, Tracked, DeployCrash \/ SettleCrash
    PROVE  Tracked'
<1> USE PipelineAssumption DEF TypeOK, redis
<1>1. CASE DeployCrash
  <2> DEFINE P == DeployPc \ {"idle", "ack"}
  <2>1. \A n \in Order : QueuedFor(deployQ, n) \/ HeldFor(dwork, DeploySlots, P, n)
                            => QueuedFor(deployQ', n)
    BY <1>1, RequeueCarries DEF DeployCrash
  <2>2. \A n \in Order : HeldFor(dwork, DeploySlots, {"passSeen", "pass"}, n) => n \in lost'
    BY <1>1 DEF DeployCrash, HeldFor, DAt, DOrder
  <2>3. /\ lost \subseteq lost'
        /\ UNCHANGED <<status, settleQ, watcher, swork>>
    BY <1>1 DEF DeployCrash
  <2>4. \A n \in Order : DeployCarried(n) => DeployCarried(n)'
    BY <2>1, <2>3 DEF DeployCarried
  <2>5. \A n \in Order \ lost' : SettleCarried(n) => SettleCarried(n)'
    BY <2>2, <2>3 DEF SettleCarried, QueuedFor, HeldFor
  <2> QED BY <2>3, <2>4, <2>5 DEF Tracked
<1>2. CASE SettleCrash
  <2> DEFINE P == SettlePc \ {"idle", "ack", "residual", "lastResidual"}
  <2>1. \A n \in Order : QueuedFor(settleQ, n) \/ HeldFor(swork, SettleSlots, P, n)
                            => QueuedFor(settleQ', n)
    BY <1>2, RequeueCarries DEF SettleCrash
  <2>2. UNCHANGED <<status, deployQ, watcher, dwork, lost>>
    BY <1>2 DEF SettleCrash
  <2>3. \A n \in Order : /\ DeployCarried(n) => DeployCarried(n)'
                         /\ SettleCarried(n) => SettleCarried(n)'
    BY <2>1, <2>2 DEF DeployCarried, SettleCarried, QueuedFor, HeldFor
  <2> QED BY <2>2, <2>3 DEF Tracked
<1> QED BY <1>1, <1>2

\* Recovery and the environment take no work away.
LEMMA TrackedRest ==
    ASSUME TypeOK, Tracked, RecoveryStep \/ RecoverySkip \/ Environment
    PROVE  Tracked'
<1> USE DEF TypeOK, queues
<1>1. CASE RecoveryEnqueue
  <2> PICK item \in recovery.todo :
        /\ \/ item[2] = "CREATED" /\ deployQ' = Put(deployQ, Fresh(item[1])) /\ UNCHANGED settleQ
           \/ item[2] = "DEPLOYED" /\ settleQ' = Put(settleQ, Fresh(item[1])) /\ UNCHANGED deployQ
        /\ lost' = IF status[item[1]] = item[2] THEN lost \ {item[1]} ELSE lost
        /\ UNCHANGED <<chain, status, redis, watcher, dwork, swork, spent>>
    BY <1>1 DEF RecoveryEnqueue
  <2> DEFINE k == item[1]
  <2>1. k \in Order /\ Fresh(k) \in Msg /\ Fresh(k).order = k
    BY MessageTypes DEF Fresh
  <2>2. \A n \in Order : /\ QueuedFor(deployQ, n) => QueuedFor(deployQ', n)
                         /\ QueuedFor(settleQ, n) => QueuedFor(settleQ', n)
    BY <2>1, PutCarries
  <2>3. /\ item[2] = "CREATED" => QueuedFor(deployQ', k)
        /\ item[2] = "DEPLOYED" => QueuedFor(settleQ', k)
    BY <2>1, PutCarries
  <2>4. \A n \in Order : /\ DeployCarried(n) => DeployCarried(n)'
                         /\ SettleCarried(n) => SettleCarried(n)'
    BY <2>2 DEF DeployCarried, SettleCarried, HeldFor
  <2>5. status[k] = item[2] => /\ status[k] = "CREATED" => DeployCarried(k)'
                               /\ status[k] = "DEPLOYED" => SettleCarried(k)'
    BY <2>3 DEF DeployCarried, SettleCarried
  <2> QED BY <2>4, <2>5 DEF Tracked
<1>2. CASE RecoveryFind \/ RecoverySkip \/ Environment
  <2>1. UNCHANGED <<status, deployQ, settleQ, watcher, dwork, swork, lost>>
    BY <1>2 DEF RecoveryFind, RecoverySkip, Environment, UserDeposit, ExternalDeploy,
                ExternalSettle, Register, Expire, Retarget, RegisterRead
  <2> QED BY <2>1 DEF Tracked, DeployCarried, SettleCarried, QueuedFor, HeldFor
<1> QED BY <1>1, <1>2 DEF RecoveryStep

\* Tracked is inductive relative to TypeOK and MessagesBacked.
LEMMA TrackedStep ==
    TypeOK /\ MessagesBacked /\ Tracked /\ [Next]_vars => Tracked'
<1> SUFFICES ASSUME TypeOK, MessagesBacked, Tracked, [Next]_vars PROVE Tracked'
    OBVIOUS
<1>1. CASE UNCHANGED vars
    BY <1>1 DEF vars, Tracked, DeployCarried, SettleCarried, QueuedFor, HeldFor
<1> QED BY <1>1, TrackedWatcher, TrackedDeploy, TrackedSettle, TrackedCrash, TrackedRest DEF Next

\* An incomplete order always has a message or a handler to take it on, unless it
\* passed one of the points where the code lets its work item go and has not been
\* published again: for any number of handlers, retries, faults and crashes.
THEOREM NoneForgotten == Spec => []Tracked
<1>1. Init => Tracked
    BY DEF Init, Tracked
<1>2. IInv /\ Tracked /\ [Next]_vars => Tracked'
    BY TrackedStep DEF IInv
<1> QED BY <1>1, <1>2, IInvAlways, PTL DEF Spec
-----------------------------------------------------------------------------
(* The pipeline implements OrderLifecycle                                  *)

\* A deploy handler in one of these has passed its lookup and not finished.
Accepted == DeployPc \ {"idle", "lookup", "ack"}

\* What a step makes of a deploy handler: it is left alone; it ends or starts; it
\* goes on, past the lookup only with a CREATED order; it writes DEPLOYED.
DeployMove(s) ==
    \/ dwork'[s] = dwork[s]
    \/ dwork'[s].pc \in {"idle", "lookup", "ack"}
    \/ /\ dwork'[s].msg = dwork[s].msg
       /\ dwork'[s].pc \notin {"passSeen", "pass"}
       /\ \/ dwork[s].pc \in Accepted
          \/ DAt(s, "lookup") /\ status[DOrder(s)] = "CREATED"
    \/ /\ dwork'[s].msg = dwork[s].msg
       /\ dwork[s].pc \in Accepted
       /\ status'[DOrder(s)] = "DEPLOYED"

\* A deploy handler gets past its lookup only with an order that was CREATED then.
LEMMA DeployMoves ==
    ASSUME TypeOK, Next, NEW s \in DeploySlots
    PROVE  DeployMove(s)
<1> USE DEF TypeOK, DeployMove, Accepted, DeployPc, DAt, DOrder, DGoto
<1>1. CASE UNCHANGED dwork
    BY <1>1
<1>2. CASE DeployCrash
    BY <1>2 DEF DeployCrash, Idle
<1>3. ASSUME NEW t \in DeploySlots, DeployMark(t) PROVE DeployMove(s)
    BY <1>3 DEF DeployMark, SetStatus, Msg
<1>4. ASSUME NEW t \in DeploySlots, DeployTake(t) PROVE DeployMove(s)
    BY <1>4 DEF DeployTake
<1>5. ASSUME NEW t \in DeploySlots, DeployLookup(t) PROVE DeployMove(s)
  <2>1. CASE t # s
    BY <1>5, <2>1 DEF DeployLookup
  <2>2. CASE t = s
    <3>1. dwork'[s] = [pc |-> IF status[DOrder(s)] = "CREATED" THEN "code" ELSE "ack",
                       msg |-> dwork[s].msg]
      BY <1>5, <2>2 DEF DeployLookup
    <3>2. DAt(s, "lookup")
      BY <1>5, <2>2 DEF DeployLookup
    <3> QED BY <3>1, <3>2
  <2> QED BY <2>1, <2>2
<1>6. ASSUME NEW t \in DeploySlots, DeployCheckCode(t) \/ DeploySimulate(t) PROVE DeployMove(s)
    BY <1>6 DEF DeployCheckCode, DeploySimulate
<1>7. ASSUME NEW t \in DeploySlots,
             \/ DeployMined(t) \/ DeployVerify(t) \/ DeployPass(t) \/ DeployRetry(t)
             \/ DeployAck(t) \/ DeployFault(t)
      PROVE  DeployMove(s)
    BY <1>7 DEF DeployMined, DeployVerify, DeployPass, DeployRetry, DeployAck, DeployFault,
                DeployMinedReverted, DeployNotReady, DeployTryFault, DeployDrop, Idle
<1> HIDE DEF TypeOK, DeployMove, Accepted, DeployPc, DAt, DOrder, DGoto
<1>8. \/ UNCHANGED dwork \/ DeployCrash
      \/ \E t \in DeploySlots : DeployStep(t) \/ DeployFault(t)
    BY DEF Next, WatcherStep, WatchTick, WatchBalance, WatchNonce, WatchSkip, WatchRepair,
           WatchEnsure, WatchEnqueue, WatchRecord, WatchAbort,
           SettleStep, SettleTake, SettleLookup, SettleReadBalance, SettleZero, SettleSimulate,
           SettleSimulateReverts, SettleMined, SettleMinedReverted, SettleComplete, SettleRetry,
           SettleResidual, SettleAck, SettleFaulty, SettleFault, SettleRetryFault, SettleDrop,
           SettleCrash, RecoveryStep, RecoveryFind, RecoveryEnqueue, RecoverySkip,
           Environment, UserDeposit, ExternalDeploy, ExternalSettle, Register, Expire, Retarget,
           RegisterRead
<1> QED BY <1>1, <1>2, <1>3, <1>4, <1>5, <1>6, <1>7, <1>8 DEF DeployStep

\* Settle handlers work on what was queued or what they already held.
LEMMA SettleMoves ==
    ASSUME TypeOK, Next, NEW s \in SettleSlots, swork'[s].pc # "idle"
    PROVE  \/ swork[s].pc # "idle" /\ swork'[s].msg = swork[s].msg
           \/ swork'[s].msg \in Msg /\ settleQ[swork'[s].msg] > 0
<1> USE DEF TypeOK, SettlePc, SAt
<1>1. CASE UNCHANGED swork
    BY <1>1
<1>2. CASE SettleCrash
    BY <1>2 DEF SettleCrash, Idle
<1>3. ASSUME NEW t \in SettleSlots, SettleTake(t)
      PROVE  \/ swork[s].pc # "idle" /\ swork'[s].msg = swork[s].msg
             \/ swork'[s].msg \in Msg /\ settleQ[swork'[s].msg] > 0
    BY <1>3 DEF SettleTake
<1>4. ASSUME NEW t \in SettleSlots,
             \/ SettleLookup(t) \/ SettleReadBalance(t) \/ SettleZero(t)
             \/ SettleSimulate(t) \/ SettleSimulateReverts(t) \/ SettleMined(t)
             \/ SettleMinedReverted(t) \/ SettleComplete(t) \/ SettleRetry(t)
             \/ SettleResidual(t) \/ SettleAck(t) \/ SettleFaulty(t)
      PROVE  swork[s].pc # "idle" /\ swork'[s].msg = swork[s].msg
    BY <1>4 DEF SettleLookup, SettleReadBalance, SettleZero, SettleSimulate,
                SettleSimulateReverts, SettleMined, SettleMinedReverted, SettleComplete,
                SettleRetry, SettleResidual, SettleAck, SettleFaulty, SettleFault,
                SettleRetryFault, SettleDrop, SGoto, Idle
<1>5. UNCHANGED swork \/ SettleCrash \/ \E t \in SettleSlots : SettleStep(t) \/ SettleFaulty(t)
    BY DEF Next, WatcherStep, WatchTick, WatchBalance, WatchNonce, WatchSkip, WatchRepair,
           WatchEnsure, WatchEnqueue, WatchRecord, WatchAbort,
           DeployStep, DeployTake, DeployLookup, DeployCheckCode, DeploySimulate, DeployMined,
           DeployVerify, DeployMark, DeployPass, DeployRetry, DeployAck, DeployFault,
           DeployMinedReverted, DeployNotReady, DeployTryFault, DeployDrop, DeployCrash,
           RecoveryStep, RecoveryFind, RecoveryEnqueue, RecoverySkip,
           Environment, UserDeposit, ExternalDeploy, ExternalSettle, Register, Expire, Retarget,
           RegisterRead
<1> HIDE DEF TypeOK, SettlePc, SAt
<1> QED BY <1>1, <1>2, <1>3, <1>4, <1>5 DEF SettleStep

\* What is on settle.q was there, or comes from a handler or from recovery.
LEMMA SettleQueued ==
    ASSUME TypeOK, Next, NEW m \in Msg, settleQ'[m] > 0
    PROVE  SettleJob(m.order)
<1> USE DEF TypeOK, SettleJob
<1>1. CASE settleQ[m] > 0
    BY <1>1 DEF QueuedFor
<1>2. ASSUME settleQ[m] = 0, NEW s \in DeploySlots, DeployPass(s) PROVE SettleJob(m.order)
  <2>1. m.order = DOrder(s)
    BY <1>2 DEF DeployPass, Put, Fresh, Msg
  <2> QED BY <1>2, <2>1 DEF DeployPass, HeldFor, DAt, DOrder
<1>3. ASSUME settleQ[m] = 0, NEW s \in SettleSlots, SettleTake(s) PROVE FALSE
    BY <1>3 DEF SettleTake, Take
<1>4. ASSUME settleQ[m] = 0, NEW s \in SettleSlots, SettleRetry(s) PROVE SettleJob(m.order)
  <2>1. m.order = SOrder(s)
    BY <1>4 DEF SettleRetry, Put, NextAttempt, SOrder, Msg
  <2> QED BY <1>4, <2>1 DEF SettleRetry, HeldFor, SAt, SOrder, SettlePc
<1>5. ASSUME settleQ[m] = 0, SettleCrash PROVE SettleJob(m.order)
  <2> PICK s \in SettleSlots : swork[s].pc # "idle" /\ swork[s].msg = m
    BY <1>5, RequeueSource, PipelineAssumption DEF SettleCrash
  <2> QED BY DEF HeldFor
<1>6. ASSUME settleQ[m] = 0, RecoveryEnqueue PROVE SettleJob(m.order)
  <2> PICK item \in recovery.todo :
        /\ item[2] = "DEPLOYED" /\ settleQ' = Put(settleQ, Fresh(item[1]))
    BY <1>6 DEF RecoveryEnqueue
  <2>1. m.order = item[1] /\ item = <<item[1], "DEPLOYED">>
    BY <1>6 DEF Put, Fresh, Msg
  <2> QED BY <2>1
<1>7. \/ UNCHANGED settleQ \/ SettleCrash \/ RecoveryEnqueue
      \/ \E s \in DeploySlots : DeployPass(s)
      \/ \E s \in SettleSlots : SettleTake(s) \/ SettleRetry(s)
    BY DEF Next, queues, WatcherStep, WatchTick, WatchBalance, WatchNonce, WatchSkip, WatchRepair,
           WatchEnsure, WatchEnqueue, WatchRecord, WatchAbort,
           DeployStep, DeployTake, DeployLookup, DeployCheckCode, DeploySimulate, DeployMined,
           DeployVerify, DeployMark, DeployRetry, DeployAck, DeployFault,
           DeployMinedReverted, DeployNotReady, DeployTryFault, DeployDrop, DeployCrash,
           SettleStep, SettleLookup, SettleReadBalance, SettleZero, SettleSimulate,
           SettleSimulateReverts, SettleMined, SettleMinedReverted, SettleComplete,
           SettleResidual, SettleAck, SettleFaulty, SettleFault, SettleRetryFault, SettleDrop,
           RecoveryStep, RecoveryFind, RecoverySkip,
           Environment, UserDeposit, ExternalDeploy, ExternalSettle, Register, Expire, Retarget,
           RegisterRead
<1>8. settleQ[m] \in Nat
    OBVIOUS
<1> HIDE DEF TypeOK, SettleJob
<1> QED BY <1>1, <1>2, <1>3, <1>4, <1>5, <1>6, <1>7, <1>8

\* Recovery takes up the orders whose status it has just read.
LEMMA TodoMoves ==
    ASSUME TypeOK, Next, NEW n \in Order, <<n, "DEPLOYED">> \in recovery'.todo
    PROVE  <<n, "DEPLOYED">> \in recovery.todo \/ status'[n] = "DEPLOYED"
<1>1. CASE UNCHANGED recovery
    BY <1>1
<1>2. CASE RecoveryFind
    BY <1>2 DEF RecoveryFind
<1>3. CASE RecoveryEnqueue \/ RecoverySkip \/ SettleCrash
    BY <1>3 DEF RecoveryEnqueue, RecoverySkip, SettleCrash
<1>4. UNCHANGED recovery \/ RecoveryFind \/ RecoveryEnqueue \/ RecoverySkip \/ SettleCrash
    BY DEF Next, WatcherStep, WatchTick, WatchBalance, WatchNonce, WatchSkip, WatchRepair,
           WatchEnsure, WatchEnqueue, WatchRecord, WatchAbort,
           DeployStep, DeployTake, DeployLookup, DeployCheckCode, DeploySimulate, DeployMined,
           DeployVerify, DeployMark, DeployPass, DeployRetry, DeployAck, DeployFault,
           DeployMinedReverted, DeployNotReady, DeployTryFault, DeployDrop, DeployCrash,
           SettleStep, SettleTake, SettleLookup, SettleReadBalance, SettleZero, SettleSimulate,
           SettleSimulateReverts, SettleMined, SettleMinedReverted, SettleComplete, SettleRetry,
           SettleResidual, SettleAck, SettleFaulty, SettleFault, SettleRetryFault, SettleDrop,
           RecoveryStep, Environment, UserDeposit, ExternalDeploy, ExternalSettle, Register,
           Expire, Retarget, RegisterRead
<1> QED BY <1>1, <1>2, <1>3, <1>4

\* A handler past its lookup carries a deploy job, at the publication a settle job.
LEMMA HandlerJobs ==
    ASSUME TypeOK, NEW s \in DeploySlots
    PROVE  /\ dwork[s].pc \in Accepted => DeployJob(DOrder(s))
           /\ DAt(s, "lookup") /\ status[DOrder(s)] = "CREATED" => DeployJob(DOrder(s))
           /\ DAt(s, "passSeen") \/ DAt(s, "pass") => SettleJob(DOrder(s))
BY DEF DeployJob, SettleJob, DeployCarried, HeldFor, Accepted, DeployPc, DAt, DOrder

\* A job is opened only at the stage that the status asks for.
LEMMA JobsOpened ==
    ASSUME TypeOK, Next, NEW n \in Order
    PROVE  /\ DeployJob(n)' => DeployJob(n) \/ status'[n] = "CREATED"
           /\ SettleJob(n)' => SettleJob(n) \/ status'[n] = "DEPLOYED"
<1>1. ASSUME DeployJob(n)', status'[n] # "CREATED" PROVE DeployJob(n)
  <2> PICK s \in DeploySlots : dwork'[s].msg.order = n /\ dwork'[s].pc \in Accepted
    BY <1>1 DEF DeployJob, HeldFor, Accepted
  <2>1. dwork'[s].pc \notin {"idle", "lookup", "ack"}
    BY DEF Accepted
  <2>2. CASE dwork'[s] = dwork[s]
    BY <2>2, HandlerJobs DEF DOrder
  <2>3. CASE dwork'[s] # dwork[s]
    BY <2>1, <2>3, DeployMoves, HandlerJobs DEF DeployMove, DOrder
  <2> QED BY <2>2, <2>3
<1>2. ASSUME SettleJob(n)', status'[n] # "DEPLOYED" PROVE SettleJob(n)
  <2>1. CASE QueuedFor(settleQ, n)'
    BY <2>1, SettleQueued DEF QueuedFor
  <2>2. CASE HeldFor(swork, SettleSlots, SettlePc \ {"idle"}, n)'
    <3> PICK s \in SettleSlots : swork'[s].msg.order = n /\ swork'[s].pc # "idle"
      BY <2>2 DEF HeldFor
    <3>1. CASE swork[s].pc # "idle" /\ swork'[s].msg = swork[s].msg
      <4>1. swork[s].pc \in SettlePc \ {"idle"} /\ swork[s].msg.order = n
        BY <3>1 DEF TypeOK
      <4> QED BY <4>1 DEF SettleJob, HeldFor
    <3>2. CASE swork'[s].msg \in Msg /\ settleQ[swork'[s].msg] > 0
      BY <3>2 DEF SettleJob, QueuedFor
    <3> QED BY <3>1, <3>2, SettleMoves
  <2>3. CASE HeldFor(dwork, DeploySlots, {"passSeen", "pass"}, n)'
    <3> PICK s \in DeploySlots : dwork'[s].msg.order = n /\ dwork'[s].pc \in {"passSeen", "pass"}
      BY <2>3 DEF HeldFor
    <3>1. dwork'[s] = dwork[s]
      BY <1>2, DeployMoves DEF DeployMove, DOrder
    <3> QED BY <3>1, HandlerJobs DEF DAt, DOrder
  <2>4. CASE <<n, "DEPLOYED">> \in recovery'.todo
    BY <1>2, <2>4, TodoMoves DEF SettleJob
  <2> QED BY <1>2, <2>1, <2>2, <2>3, <2>4 DEF SettleJob
<1> QED BY <1>1, <1>2

\* An order is let go by a handler, or by the watcher, that has a job of it.
LEMMA LetGoHeld ==
    ASSUME TypeOK, Next, NEW n \in lost', n \notin lost
    PROVE  DeployJob(n) \/ SettleJob(n)
<1> USE DEF TypeOK
<1>1. CASE WatchAbort
    BY <1>1 DEF WatchAbort, DeployJob, DeployCarried
<1>2. ASSUME NEW s \in DeploySlots, DeployTryFault(s) \/ DeployDrop(s)
      PROVE  DeployJob(n) \/ SettleJob(n)
  <2>1. /\ n = DOrder(s)
        /\ \/ dwork[s].pc \in Accepted
           \/ DAt(s, "lookup") /\ status[DOrder(s)] = "CREATED"
    BY <1>2 DEF DeployTryFault, DeployDrop, DAt, Accepted, DeployPc
  <2> QED BY <2>1, HandlerJobs
<1>3. CASE DeployCrash
  <2> PICK s \in DeploySlots : n = DOrder(s) /\ (DAt(s, "passSeen") \/ DAt(s, "pass"))
    BY <1>3 DEF DeployCrash
  <2> QED BY HandlerJobs
<1>4. ASSUME NEW s \in SettleSlots, SettleDrop(s) PROVE SettleJob(n)
    BY <1>4 DEF SettleDrop, SettleJob, HeldFor, SAt, SOrder, SettlePc
<1>5. \/ lost' \subseteq lost \/ WatchAbort \/ DeployCrash
      \/ \E s \in DeploySlots : DeployTryFault(s) \/ DeployDrop(s)
      \/ \E s \in SettleSlots : SettleDrop(s)
    BY DEF Next, WatcherStep, WatchTick, WatchBalance, WatchNonce, WatchSkip, WatchRepair,
           WatchEnsure, WatchEnqueue, WatchRecord,
           DeployStep, DeployTake, DeployLookup, DeployCheckCode, DeploySimulate, DeployMined,
           DeployVerify, DeployMark, DeployPass, DeployRetry, DeployAck, DeployFault,
           DeployMinedReverted, DeployNotReady,
           SettleStep, SettleTake, SettleLookup, SettleReadBalance, SettleZero, SettleSimulate,
           SettleSimulateReverts, SettleMined, SettleMinedReverted, SettleComplete, SettleRetry,
           SettleResidual, SettleAck, SettleFaulty, SettleFault, SettleRetryFault, SettleCrash,
           RecoveryStep, RecoveryFind, RecoveryEnqueue, RecoverySkip,
           Environment, UserDeposit, ExternalDeploy, ExternalSettle, Register, Expire, Retarget,
           RegisterRead
<1> HIDE DEF TypeOK
<1> QED BY <1>1, <1>2, <1>3, <1>4, <1>5

\* A status is written for one order, and by a worker that has a job of it.
LEMMA StatusJob ==
    ASSUME TypeOK, MessagesBacked, StatusWriter
    PROVE  \/ UNCHANGED status
           \/ \E n \in Order :
                 \/ status[n] = "NONE" /\ SetStatus(n, "CREATED")
                 \/ DeployJob(n) /\ SetStatus(n, "DEPLOYED")
                 \/ SettleJob(n) /\ PastCreated(n) /\ SetStatus(n, "COMPLETED")
                 \/ (DeployJob(n) \/ SettleJob(n)) /\ SetStatus(n, "FAILED")
<1>1. CASE WatchEnsure
    BY <1>1 DEF WatchEnsure, TypeOK
<1>2. ASSUME NEW s \in DeploySlots, DeployMark(s) \/ DeployRetry(s)
      PROVE  /\ DOrder(s) \in Order /\ DeployJob(DOrder(s))
             /\ UNCHANGED status \/ \E st \in {"DEPLOYED", "FAILED"} : SetStatus(DOrder(s), st)
  <2>1. dwork[s].pc \in Accepted /\ DOrder(s) \in Order
    BY <1>2 DEF DeployMark, DeployRetry, DAt, Accepted, DeployPc, TypeOK, DOrder, Msg
  <2> QED BY <1>2, <2>1, HandlerJobs DEF DeployMark, DeployRetry
<1>3. ASSUME NEW s \in SettleSlots, SettleZero(s) \/ SettleComplete(s) \/ SettleRetry(s)
      PROVE  /\ SOrder(s) \in Order /\ SettleJob(SOrder(s)) /\ PastCreated(SOrder(s))
             /\ UNCHANGED status \/ \E st \in {"COMPLETED", "FAILED"} : SetStatus(SOrder(s), st)
  <2>1. swork[s].pc \in SettlePc \ {"idle"} /\ SOrder(s) \in Order
    BY <1>3 DEF SettleZero, SettleComplete, SettleRetry, SAt, SettlePc, TypeOK, SOrder, Msg
  <2>2. SettleJob(SOrder(s)) /\ PastCreated(SOrder(s))
    BY <2>1 DEF SettleJob, HeldFor, SOrder, MessagesBacked, SAt
  <2> QED BY <1>3, <2>1, <2>2 DEF SettleZero, SettleComplete, SettleRetry
<1> QED BY <1>1, <1>2, <1>3 DEF StatusWriter

AllKept == \A n \in Order : Lifecycle!Kept(n)

\* What is tracked has the job that its status asks for.
LEMMA TrackedKept == IInv /\ Tracked => AllKept
<1> SUFFICES ASSUME IInv, Tracked, NEW n \in Order PROVE Lifecycle!Kept(n)
    BY DEF AllKept
<1>0. TypeOK
    BY DEF IInv
<1>1. status[n] \in {"NONE", "CREATED", "DEPLOYED", "COMPLETED", "FAILED"}
    BY <1>0 DEF TypeOK, OrderStatus
<1>2. n \notin lost /\ status[n] = "CREATED" => "deploy" \in Jobs(n)
    BY DEF Tracked, DeployJob, Jobs
<1>3. n \notin lost /\ status[n] = "DEPLOYED" => "settle" \in Jobs(n)
  <2> SUFFICES ASSUME SettleCarried(n) PROVE SettleJob(n)
    BY DEF Tracked, Jobs
  <2> QED BY DEF SettleCarried, SettleJob, HeldFor
<1> QED BY <1>1, <1>2, <1>3 DEF Lifecycle!Kept, Lifecycle!Asked

\* The pipeline starts with an empty table and no work.
LEMMA LifecycleStart == Init => Lifecycle!Init
<1> SUFFICES ASSUME Init PROVE Lifecycle!Init
    OBVIOUS
<1>1. \A n \in Order : status[n] = "NONE"
    BY DEF Init
<1>2. ASSUME NEW n \in Order PROVE ~DeployJob(n) /\ ~SettleJob(n)
    BY DEF Init, DeployJob, SettleJob, DeployCarried, QueuedFor, HeldFor, Idle, WatcherIdle
<1>3. \A n \in Order : Jobs(n) = {}
    BY <1>2 DEF Jobs
<1> QED BY <1>1, <1>3 DEF Init, Lifecycle!Init, Lifecycle!Asked, Lifecycle!Stage

\* Every step is a step of OrderLifecycle, or leaves the table and the jobs alone.
LEMMA LifecycleStep ==
    ASSUME IInv, AllKept', [Next]_vars
    PROVE  [Lifecycle!Next]_Lifecycle!lifecycle
<1>1. CASE UNCHANGED vars
  <2>1. \A n \in Order : Jobs(n)' = Jobs(n)
    BY <1>1 DEF vars, Jobs, DeployJob, SettleJob, DeployCarried, QueuedFor, HeldFor
  <2> QED BY <1>1, <2>1 DEF vars, Lifecycle!lifecycle
<1>2. CASE Next
  <2> DEFINE jobs == [n \in Order |-> Jobs(n)]
  <2>1. \A n \in Order : Lifecycle!Kept(n)'
    BY DEF AllKept
  <2>2. ASSUME NEW n \in Order PROVE Lifecycle!Opens(n)
    <3>1. /\ DeployJob(n)' => DeployJob(n) \/ status'[n] = "CREATED"
          /\ SettleJob(n)' => SettleJob(n) \/ status'[n] = "DEPLOYED"
      BY <1>2, JobsOpened DEF IInv
    <3>2. jobs'[n] = Jobs(n)' /\ jobs[n] = Jobs(n)
      OBVIOUS
    <3> QED BY <3>1, <3>2 DEF Lifecycle!Opens, Lifecycle!Asked, Jobs
  <2>3. ASSUME NEW n \in Order PROVE Lifecycle!LetGo(n)
    BY <1>2, LetGoHeld DEF IInv, Lifecycle!LetGo, Jobs
  <2>4. \/ \E n \in Order : \/ Lifecycle!Create(n) \/ Lifecycle!Deploy(n)
                           \/ Lifecycle!Complete(n) \/ Lifecycle!Fail(n)
        \/ UNCHANGED status
    <3>1. CASE StatusWriter
      BY <3>1, StatusJob
         DEF IInv, SetStatus, Jobs, PastCreated, Lifecycle!Write, Lifecycle!Create,
             Lifecycle!Deploy, Lifecycle!Complete, Lifecycle!Fail
    <3> QED BY <1>2, <3>1, StatusFrame
  <2> QED BY <2>1, <2>2, <2>3, <2>4 DEF Lifecycle!Next
<1> QED BY <1>1, <1>2

\* Handlers, retries, recovery, crashes and registrations together are one
\* OrderLifecycle: the status of an order is written only with a job of it, a job
\* is opened only at the stage the status asks for, and that one is kept.
THEOREM PipelineLifecycle == Spec => ImplementsLifecycle
<1>1. IInv /\ Tracked /\ [Next]_vars => Tracked'
    BY TrackedStep DEF IInv
<1>2. IInv /\ AllKept' /\ [Next]_vars => [Lifecycle!Next]_Lifecycle!lifecycle
    BY LifecycleStep
<1> QED BY <1>1, <1>2, TrackedKept, LifecycleStart, IInvAlways, NoneForgotten, PTL
        DEF Spec, ImplementsLifecycle, Lifecycle!Spec

\* The writes of a status are unconditional and come after stale reads, and yet an
\* order that is COMPLETED or FAILED and has no job left is over for good.
THEOREM PipelineRest == Spec => Lifecycle!RestIsFinal
<1> DEFINE Final == \A o \in Order :
                        Lifecycle!AtRest(o) => Lifecycle!AtRest(o)' /\ UNCHANGED status[o]
<1>1. IInv /\ [Lifecycle!Next]_Lifecycle!lifecycle => [Final]_Lifecycle!lifecycle
  <2> SUFFICES ASSUME IInv, Lifecycle!Next, NEW n \in Order, Lifecycle!AtRest(n)
               PROVE  Lifecycle!AtRest(n)' /\ UNCHANGED status[n]
      OBVIOUS
  <2>1. status \in [Order -> OrderStatus \cup {"NONE"}]
      BY DEF IInv, TypeOK
  <2>2. UNCHANGED status[n]
      BY <2>1 DEF Lifecycle!Next, Lifecycle!AtRest, Lifecycle!Create, Lifecycle!Deploy,
                  Lifecycle!Complete, Lifecycle!Fail, Lifecycle!Write
  <2>3. Jobs(n)' = {}
      BY <2>2 DEF Lifecycle!Next, Lifecycle!AtRest, Lifecycle!Opens, Lifecycle!Asked
  <2> QED BY <2>2, <2>3 DEF Lifecycle!AtRest
<1>2. Spec => [][Final]_Lifecycle!lifecycle
    BY <1>1, IInvAlways, PipelineLifecycle, PTL DEF ImplementsLifecycle, Lifecycle!Spec
<1> QED BY <1>2, PTL DEF Lifecycle!RestIsFinal
-----------------------------------------------------------------------------
(* What the query of recovery returns                                      *)

\* Among finite sets attached to the elements of a set, one holds no smaller one.
LEMMA SmallestPart ==
    ASSUME NEW S, S # {}, NEW f \in [S -> SUBSET Order]
    PROVE  \E m \in S : \A k \in S : f[k] \subseteq f[m] => f[k] = f[m]
<1> DEFINE R == StrictSubsetOrdering(Order)
           F == FiniteSubsetsOf(Order)
           T == {f[n] : n \in S}
<1>1. IsWellFoundedOn(R, F)
    BY FS_StrictSubsetOrderingWellFounded
<1>2. T \subseteq F
  <2>1. IsFiniteSet(Order)
    BY ChainAssumption, FS_Interval DEF Order
  <2>2. FiniteSubsetsOf(Order) = SUBSET Order
    BY <2>1, FS_FiniteSubsetsOfFinite
  <2> QED BY <2>2
<1>3. PICK x \in T : \A y \in T : ~(<<y, x>> \in R)
  <2>1. T # {}
    OBVIOUS
  <2> HIDE DEF T, R, F
  <2> QED BY <1>1, <1>2, <2>1, WFMin
<1>4. PICK m \in S : x = f[m]
    BY <1>3
<1>5. ASSUME NEW k \in S, f[k] \subseteq f[m], f[k] # f[m] PROVE FALSE
  <2>1. <<f[k], f[m]>> \in R
    BY <1>5 DEF StrictSubsetOrdering
  <2> QED BY <1>3, <1>4, <2>1
<1> QED BY <1>5

\* A set of orders that is not empty has an oldest one and a youngest one.
LEMMA Extremes ==
    ASSUME NEW S \in SUBSET Order, S # {}
    PROVE  /\ \E m \in S : \A k \in S : m <= k
           /\ \E m \in S : \A k \in S : k <= m
<1>0. Order \subseteq Nat
    BY ChainAssumption DEF Order
<1>1. \E m \in S : \A k \in S : m <= k
  <2> DEFINE f == [n \in S |-> {k \in Order : k < n}]
  <2>1. PICK m \in S : \A k \in S : f[k] \subseteq f[m] => f[k] = f[m]
    <3>1. f \in [S -> SUBSET Order]
      OBVIOUS
    <3> HIDE DEF f
    <3> QED BY <3>1, SmallestPart
  <2>2. ASSUME NEW k \in S, k < m PROVE FALSE
    <3>1. k \in f[m] /\ k \notin f[k]
      BY <1>0, <2>2
    <3>2. f[k] \subseteq f[m]
      <4>1. \A j \in Order : j < k => j < m
        BY <1>0, <2>2
      <4>2. f[k] = {j \in Order : j < k} /\ f[m] = {j \in Order : j < m}
        OBVIOUS
      <4> HIDE DEF f
      <4> QED BY <4>1, <4>2
    <3> QED BY <2>1, <3>1, <3>2
  <2> QED BY <1>0, <2>2
<1>2. \E m \in S : \A k \in S : k <= m
  <2> DEFINE f == [n \in S |-> {k \in Order : n < k}]
  <2>1. PICK m \in S : \A k \in S : f[k] \subseteq f[m] => f[k] = f[m]
    <3>1. f \in [S -> SUBSET Order]
      OBVIOUS
    <3> HIDE DEF f
    <3> QED BY <3>1, SmallestPart
  <2>2. ASSUME NEW k \in S, m < k PROVE FALSE
    <3>1. k \in f[m] /\ k \notin f[k]
      BY <1>0, <2>2
    <3>2. f[k] \subseteq f[m]
      <4>1. \A j \in Order : k < j => m < j
        BY <1>0, <2>2
      <4>2. f[k] = {j \in Order : k < j} /\ f[m] = {j \in Order : m < j}
        OBVIOUS
      <4> HIDE DEF f
      <4> QED BY <4>1, <4>2
    <3> QED BY <2>1, <3>1, <3>2
  <2> QED BY <1>0, <2>2
<1> QED BY <1>1, <1>2

\* Recovery takes a beginning of the incomplete orders, as long as the limit allows:
\* no order before an older one, all of them when they fit, and exactly as many as
\* the limit when they do not (findIncompleteOrders, oldest first, take).
THEOREM RecoveryTakesOldest ==
    LET open == {n \in Order : status[n] \in Incomplete}
    IN  /\ \A n \in OldestIncomplete : \A k \in open : k < n => k \in OldestIncomplete
        /\ Cardinality(open) <= RecoveryLimit => OldestIncomplete = open
        /\ Cardinality(open) > RecoveryLimit
               => Cardinality(OldestIncomplete) = RecoveryLimit
<1> DEFINE open == {n \in Order : status[n] \in Incomplete}
           older(n) == {k \in Order : k < n /\ status[k] \in Incomplete}
<1>1. /\ Order \subseteq Nat /\ IsFiniteSet(Order) /\ RecoveryLimit \in Nat \ {0}
    BY ChainAssumption, PipelineAssumption, FS_Interval DEF Order
<1>2. \A n \in Order : n \in OldestIncomplete
                           <=> n \in open /\ Cardinality(older(n)) < RecoveryLimit
    BY DEF OldestIncomplete
<1>3. ASSUME NEW A \in SUBSET Order, NEW B \in SUBSET A
      PROVE  /\ IsFiniteSet(A) /\ IsFiniteSet(B)
             /\ Cardinality(A) \in Nat /\ Cardinality(B) \in Nat
             /\ Cardinality(B) <= Cardinality(A)
             /\ Cardinality(B) = Cardinality(A) => B = A
  <2>1. IsFiniteSet(A)
    BY <1>1, FS_Subset
  <2>2. IsFiniteSet(B)
    BY <2>1, FS_Subset
  <2>3. Cardinality(B) <= Cardinality(A) /\ (Cardinality(B) = Cardinality(A) => B = A)
    BY <2>1, FS_Subset
  <2> QED BY <2>1, <2>2, <2>3, FS_CardinalityType
<1>4. /\ open \in SUBSET Order
      /\ OldestIncomplete \in SUBSET open
      /\ \A n \in Order : older(n) \in SUBSET open
    BY DEF OldestIncomplete
<1>5. ASSUME NEW n \in OldestIncomplete, NEW k \in open, k < n
      PROVE  k \in OldestIncomplete
  <2>1. n \in Order /\ k \in Order
    BY <1>4
  <2>2. older(k) \in SUBSET older(n) /\ older(n) \in SUBSET Order
    <3>1. \A j \in Order : j < k => j < n
      BY <1>1, <1>5, <2>1
    <3> QED BY <3>1
  <2>3. Cardinality(older(k)) <= Cardinality(older(n)) /\ Cardinality(older(k)) \in Nat
        /\ Cardinality(older(n)) \in Nat
    <3> HIDE DEF older
    <3> QED BY <1>3, <2>2
  <2>4. Cardinality(older(n)) < RecoveryLimit
    BY <1>2, <2>1
  <2> QED BY <1>1, <1>2, <2>1, <2>3, <2>4
<1>6. Cardinality(OldestIncomplete) <= RecoveryLimit
  <2>1. CASE OldestIncomplete = {}
    BY <1>1, <2>1, FS_EmptySet
  <2>2. CASE OldestIncomplete # {}
    <3>1. PICK n \in OldestIncomplete : \A k \in OldestIncomplete : k <= n
      BY <1>4, <2>2, Extremes
    <3>2. n \in Order /\ Cardinality(older(n)) < RecoveryLimit
      BY <1>2, <1>4
    <3>3. OldestIncomplete \subseteq older(n) \cup {n}
      <4>1. ASSUME NEW k \in OldestIncomplete PROVE k \in older(n) \/ k = n
        BY <1>1, <1>4, <3>1, <3>2
      <4> QED BY <4>1
    <3> HIDE DEF older, open
    <3>4. IsFiniteSet(older(n)) /\ Cardinality(older(n)) \in Nat
      BY <1>3, <1>4, <3>2
    <3>5. /\ older(n) \cup {n} \in SUBSET Order
          /\ Cardinality(older(n) \cup {n}) <= Cardinality(older(n)) + 1
          /\ Cardinality(older(n) \cup {n}) \in Nat
      <4>1. older(n) \cup {n} \in SUBSET Order
        BY <1>4, <3>2
      <4>2. Cardinality(older(n) \cup {n}) \in Nat
        BY <1>3, <4>1
      <4>3. Cardinality(older(n) \cup {n})
              = IF n \in older(n) THEN Cardinality(older(n)) ELSE Cardinality(older(n)) + 1
        BY <3>4, FS_AddElement
      <4> QED BY <3>4, <4>1, <4>2, <4>3
    <3>6. Cardinality(OldestIncomplete) <= Cardinality(older(n) \cup {n})
          /\ Cardinality(OldestIncomplete) \in Nat
      BY <1>3, <3>3, <3>5
    <3> QED BY <1>1, <3>2, <3>4, <3>5, <3>6
  <2> QED BY <2>1, <2>2
<1>7. ASSUME OldestIncomplete # open PROVE Cardinality(OldestIncomplete) >= RecoveryLimit
  <2>1. PICK m \in open \ OldestIncomplete :
          \A k \in open \ OldestIncomplete : m <= k
    <3>1. open \ OldestIncomplete \in SUBSET Order /\ open \ OldestIncomplete # {}
      BY <1>4, <1>7
    <3> HIDE DEF open
    <3> QED BY <3>1, Extremes
  <2>2. m \in Order /\ ~(Cardinality(older(m)) < RecoveryLimit)
    BY <1>2, <1>4, <2>1
  <2>3. older(m) \in SUBSET OldestIncomplete
    <3>1. ASSUME NEW k \in older(m) PROVE k \in OldestIncomplete
      BY <1>1, <2>1, <2>2
    <3> QED BY <3>1
  <2> HIDE DEF older, open
  <2>4. /\ Cardinality(older(m)) <= Cardinality(OldestIncomplete)
        /\ Cardinality(older(m)) \in Nat /\ Cardinality(OldestIncomplete) \in Nat
    BY <1>3, <1>4, <2>3
  <2> QED BY <1>1, <2>2, <2>4
<1>8. Cardinality(OldestIncomplete) \in Nat /\ Cardinality(open) \in Nat
      /\ Cardinality(OldestIncomplete) <= Cardinality(open)
      /\ (Cardinality(OldestIncomplete) = Cardinality(open) => OldestIncomplete = open)
  <2> HIDE DEF open
  <2> QED BY <1>3, <1>4
<1>9. Cardinality(open) <= RecoveryLimit => OldestIncomplete = open
    BY <1>1, <1>7, <1>8
<1>10. Cardinality(open) > RecoveryLimit => Cardinality(OldestIncomplete) = RecoveryLimit
  <2> HIDE DEF open
  <2> QED BY <1>1, <1>6, <1>7, <1>8
<1> QED BY <1>5, <1>9, <1>10
-----------------------------------------------------------------------------
(* What a disturbance costs                                                *)

Price == spent["fault"] + Cardinality(DeploySlots) * spent["crash"]

\* A step lets no order go, or one at the price of a failing call, or those of the
\* deploy handlers at the price of a crash; the budgets spent never shrink.
LossStep ==
    \/ /\ lost' \subseteq lost
       /\ spent'["fault"] >= spent["fault"]
       /\ spent'["crash"] \in {spent["crash"], spent["crash"] + 1}
    \/ /\ \E n \in Order : lost' \subseteq lost \cup {n}
       /\ spent'["fault"] = spent["fault"] + 1
       /\ spent'["crash"] = spent["crash"]
    \/ /\ \E S \in SUBSET DeploySlots : lost' \subseteq lost \cup {DOrder(s) : s \in S}
       /\ spent'["fault"] = spent["fault"]
       /\ spent'["crash"] = spent["crash"] + 1

\* An event adds one to its own budget and nothing to the others.
LEMMA SpendOne ==
    ASSUME spent \in [EventKind -> Nat], NEW k \in EventKind, Spend(k)
    PROVE  \A j \in EventKind : spent'[j] = IF j = k THEN spent[j] + 1 ELSE spent[j]
BY DEF Spend

LEMMA Losses == TypeOK /\ [Next]_vars => LossStep
<1> SUFFICES ASSUME TypeOK, [Next]_vars PROVE LossStep
    OBVIOUS
<1>0. /\ spent \in [EventKind -> Nat] /\ spent["fault"] \in Nat /\ spent["crash"] \in Nat
      /\ {"fault", "crash", "deposit", "outside", "register", "expire", "retarget"} = EventKind
    BY DEF TypeOK, EventKind
<1> USE DEF LossStep
<1>1. ASSUME lost' \subseteq lost, UNCHANGED spent PROVE LossStep
    BY <1>0, <1>1
<1>2. ASSUME UNCHANGED lost, NEW k \in EventKind, Spend(k) PROVE LossStep
    BY <1>0, <1>2, SpendOne
<1>3. ASSUME NEW n \in Order, lost' \subseteq lost \cup {n}, Spend("fault") PROVE LossStep
    BY <1>0, <1>3, SpendOne
<1>4. CASE UNCHANGED vars
    BY <1>1, <1>4 DEF vars
<1>5. CASE WatcherStep \/ RecoveryStep \/ (\E s \in DeploySlots : DeployStep(s))
           \/ (\E s \in SettleSlots : SettleStep(s)) \/ Register
  <2>1. lost' \subseteq lost /\ UNCHANGED spent
    BY <1>5 DEF WatcherStep, WatchTick, WatchBalance, WatchNonce, WatchSkip, WatchRepair,
       WatchEnsure, WatchEnqueue, WatchRecord, RecoveryStep, RecoveryFind, RecoveryEnqueue,
       DeployStep, DeployTake, DeployLookup, DeployCheckCode, DeploySimulate, DeployMined,
       DeployVerify, DeployMark, DeployPass, DeployRetry, DeployAck,
       SettleStep, SettleTake, SettleLookup, SettleReadBalance, SettleZero, SettleSimulate,
       SettleSimulateReverts, SettleMined, SettleMinedReverted, SettleComplete, SettleRetry,
       SettleResidual, SettleAck, Register
  <2> QED BY <1>1, <2>1
<1>6. CASE Environment /\ ~Register
  <2>1. UNCHANGED lost
    BY <1>6 DEF Environment, UserDeposit, ExternalDeploy, ExternalSettle, RegisterRead,
       Expire, Retarget
  <2>2. \E k \in EventKind : Spend(k)
    BY <1>0, <1>6 DEF Environment, UserDeposit, ExternalDeploy, ExternalSettle, RegisterRead,
       Expire, Retarget
  <2> QED BY <1>2, <2>1, <2>2
<1>7. CASE WatchAbort \/ RecoverySkip
  <2>1. watcher.at \in Order
    BY DEF TypeOK
  <2>2. Spend("fault") /\ lost' \subseteq lost \cup {watcher.at}
    BY <1>7 DEF WatchAbort, RecoverySkip
  <2> QED BY <1>3, <2>1, <2>2
<1>8. ASSUME NEW s \in DeploySlots, DeployFault(s) PROVE LossStep
  <2>1. DOrder(s) \in Order
    BY DEF TypeOK, DOrder, Msg
  <2>2. Spend("fault") /\ lost' \subseteq lost \cup {DOrder(s)}
    BY <1>8 DEF DeployFault, DeployMinedReverted, DeployNotReady, DeployTryFault, DeployDrop
  <2> QED BY <1>3, <2>1, <2>2
<1>9. ASSUME NEW s \in SettleSlots, SettleFaulty(s) PROVE LossStep
  <2>1. SOrder(s) \in Order
    BY DEF TypeOK, SOrder, Msg
  <2>2. Spend("fault") /\ lost' \subseteq lost \cup {SOrder(s)}
    BY <1>9 DEF SettleFaulty, SettleFault, SettleRetryFault, SettleDrop
  <2> QED BY <1>3, <2>1, <2>2
<1>10. CASE DeployCrash
  <2> DEFINE S == {t \in DeploySlots : DAt(t, "passSeen") \/ DAt(t, "pass")}
  <2>1. Spend("crash") /\ lost' = lost \cup {DOrder(s) : s \in S}
    BY <1>10 DEF DeployCrash
  <2>2. spent'["fault"] = spent["fault"] /\ spent'["crash"] = spent["crash"] + 1
    BY <1>0, <2>1, SpendOne
  <2>3. S \in SUBSET DeploySlots /\ lost' \subseteq lost \cup {DOrder(s) : s \in S}
    BY <2>1
  <2> HIDE DEF S
  <2> QED BY <2>2, <2>3
<1>11. CASE SettleCrash
  <2>1. Spend("crash") /\ UNCHANGED lost
    BY <1>11 DEF SettleCrash
  <2> QED BY <1>0, <1>2, <2>1
<1> QED BY <1>4, <1>5, <1>6, <1>7, <1>8, <1>9, <1>10, <1>11 DEF Next

\* No more orders are let go than the disturbances have paid for.
LossPaid == Cardinality(lost) <= Price

LEMMA LossPaidStep == TypeOK /\ TypeOK' /\ LossPaid /\ LossStep => LossPaid'
<1> SUFFICES ASSUME TypeOK, TypeOK', LossPaid, LossStep PROVE LossPaid'
    OBVIOUS
<1> DEFINE slots == Cardinality(DeploySlots)
           f == spent["fault"]
           c == spent["crash"]
<1>1. IsFiniteSet(DeploySlots) /\ slots \in Nat
    BY PipelineAssumption, FS_CardinalityType
<1>2. f \in Nat /\ c \in Nat /\ f' \in Nat /\ c' \in Nat
    BY DEF TypeOK, EventKind
<1>3. IsFiniteSet(lost) /\ Cardinality(lost) \in Nat /\ Cardinality(lost') \in Nat
  <2>1. IsFiniteSet(Order)
    BY ChainAssumption, FS_Interval DEF Order
  <2>2. IsFiniteSet(lost) /\ IsFiniteSet(lost')
    BY <2>1, FS_Subset DEF TypeOK
  <2> QED BY <2>2, FS_CardinalityType
<1>4. Cardinality(lost) <= f + slots * c
    BY DEF LossPaid, Price
<1>5. CASE lost' \subseteq lost /\ f' >= f /\ c' \in {c, c + 1}
  <2>1. Cardinality(lost') <= Cardinality(lost)
    BY <1>3, <1>5, FS_Subset
  <2>2. slots * c \in Nat /\ slots * c' \in {slots * c, slots * c + slots}
    <3> HIDE DEF slots, c
    <3>0. slots * c \in Nat
      BY <1>1, <1>2
    <3>1. CASE c' = c BY <3>0, <3>1
    <3>2. CASE c' = c + 1
      <4>1. slots * c' = slots * c + slots
        BY <1>1, <1>2, <3>2
      <4> QED BY <3>0, <4>1
    <3> QED BY <1>5, <3>1, <3>2
  <2>3. Cardinality(lost') <= f' + slots * c'
    <3> HIDE DEF slots, c, f
    <3> QED BY <1>1, <1>2, <1>3, <1>4, <1>5, <2>1, <2>2
  <2> QED BY <2>3 DEF LossPaid, Price
<1>6. CASE /\ \E n \in Order : lost' \subseteq lost \cup {n}
           /\ f' = f + 1
           /\ c' = c
  <2> PICK n \in Order : lost' \subseteq lost \cup {n}
    BY <1>6
  <2>1. /\ IsFiniteSet(lost \cup {n})
        /\ Cardinality(lost \cup {n}) \in {Cardinality(lost), Cardinality(lost) + 1}
    BY <1>3, FS_AddElement
  <2>2. Cardinality(lost') <= Cardinality(lost \cup {n})
    BY <2>1, FS_Subset
  <2>3. slots * c \in Nat /\ slots * c' = slots * c
    <3> HIDE DEF slots, c
    <3> QED BY <1>1, <1>2, <1>6
  <2>4. Cardinality(lost') <= f' + slots * c'
    <3> HIDE DEF slots, c, f
    <3> QED BY <1>2, <1>3, <1>4, <1>6, <2>1, <2>2, <2>3
  <2> QED BY <2>4 DEF LossPaid, Price
<1>7. CASE /\ \E S \in SUBSET DeploySlots : lost' \subseteq lost \cup {DOrder(s) : s \in S}
           /\ f' = f
           /\ c' = c + 1
  <2> PICK S \in SUBSET DeploySlots : lost' \subseteq lost \cup {DOrder(s) : s \in S}
    BY <1>7
  <2> DEFINE T == {DOrder(s) : s \in S}
  <2>1. IsFiniteSet(S) /\ Cardinality(S) \in Nat /\ Cardinality(S) <= slots
    <3>1. IsFiniteSet(S) /\ Cardinality(S) <= slots
      BY <1>1, FS_Subset
    <3> QED BY <3>1, FS_CardinalityType
  <2>2. IsFiniteSet(T) /\ Cardinality(T) <= Cardinality(S) /\ Cardinality(T) \in Nat
    <3>1. [s \in S |-> DOrder(s)] \in Surjection(S, T)
      BY DEF Surjection
    <3> HIDE DEF T
    <3>2. IsFiniteSet(T) /\ Cardinality(T) <= Cardinality(S)
      BY <2>1, <3>1, FS_Surjection
    <3> QED BY <3>2, FS_CardinalityType
  <2>3. /\ IsFiniteSet(lost \cup T)
        /\ Cardinality(lost \cup T) \in Nat
        /\ Cardinality(lost \cup T) <= Cardinality(lost) + Cardinality(T)
    <3> HIDE DEF T
    <3>1. /\ IsFiniteSet(lost \cup T)
          /\ Cardinality(lost \cup T)
               = Cardinality(lost) + Cardinality(T) - Cardinality(lost \cap T)
      BY <1>3, <2>2, FS_Union
    <3>2. IsFiniteSet(lost \cap T)
      BY <1>3, FS_Intersection
    <3> QED BY <1>3, <2>2, <3>1, <3>2, FS_CardinalityType
  <2>4. Cardinality(lost') <= Cardinality(lost \cup T)
    BY <2>3, FS_Subset
  <2>5. slots * c \in Nat /\ slots * c' = slots * c + slots
    <3> HIDE DEF slots, c
    <3> QED BY <1>1, <1>2, <1>7
  <2>6. Cardinality(lost') <= f' + slots * c'
    <3> HIDE DEF slots, c, f, T
    <3> QED BY <1>1, <1>2, <1>3, <1>4, <1>7, <2>1, <2>2, <2>3, <2>4, <2>5
  <2> QED BY <2>6 DEF LossPaid, Price
<1> QED BY <1>5, <1>6, <1>7 DEF LossStep

\* However handlers interleave and overwrite each other, the incomplete orders that
\* nothing carries are at most one for every exception and the prefetched messages
\* of the deploy worker for every death: without a disturbance there are none.
THEOREM LossesPaid == Spec => []LossBounded
<1>1. Init => LossPaid
  <2> SUFFICES ASSUME Init PROVE LossPaid
      OBVIOUS
  <2>1. lost = {} /\ spent["fault"] = 0 /\ spent["crash"] = 0
    BY DEF Init, EventKind
  <2>2. Cardinality(DeploySlots) * 0 = 0
    BY PipelineAssumption, FS_CardinalityType
  <2> QED BY <2>1, <2>2, FS_EmptySet DEF LossPaid, Price
<1>2. TypeOK /\ TypeOK' /\ LossPaid /\ [Next]_vars => LossPaid'
    BY Losses, LossPaidStep
<1>3. TypeOK /\ Tracked /\ LossPaid => LossBounded
  <2> SUFFICES ASSUME TypeOK, Tracked, LossPaid PROVE LossBounded
      OBVIOUS
  <2>1. Uncarried \subseteq lost
    BY DEF Tracked, Uncarried
  <2>2. IsFiniteSet(lost)
    <3>1. IsFiniteSet(Order)
      BY ChainAssumption, FS_Interval DEF Order
    <3> QED BY <3>1, FS_Subset DEF TypeOK
  <2>3. /\ Cardinality(Uncarried) \in Nat /\ Cardinality(lost) \in Nat
        /\ Cardinality(Uncarried) <= Cardinality(lost)
    <3>1. IsFiniteSet(Uncarried) /\ Cardinality(Uncarried) <= Cardinality(lost)
      BY <2>1, <2>2, FS_Subset
    <3> QED BY <2>2, <3>1, FS_CardinalityType
  <2>4. Price \in Nat
    <3> DEFINE slots == Cardinality(DeploySlots)
    <3>1. slots \in Nat /\ spent["fault"] \in Nat /\ spent["crash"] \in Nat
      BY PipelineAssumption, FS_CardinalityType DEF TypeOK, EventKind
    <3> HIDE DEF slots
    <3>2. spent["fault"] + slots * spent["crash"] \in Nat
      BY <3>1
    <3> QED BY <3>2 DEF Price, slots
  <2> QED BY <2>3, <2>4 DEF LossPaid, LossBounded, Price
<1> QED BY <1>1, <1>2, <1>3, TypeCorrect, NoneForgotten, PTL DEF Spec
=============================================================================
