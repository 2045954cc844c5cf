------------------------- MODULE OrderPipelineSafety -------------------------
(* The safety invariants of OrderPipeline.  MessagesBacked carries the     *)
(* induction: what a handler may do to the status of its order depends on  *)
(* where its message can have come from.                                   *)
EXTENDS OrderPipelineProofs

\* An order's row stays, and an order that has left CREATED never returns.
Advances ==
    \A n \in Order :
        /\ HasOrder(n) => HasOrder(n)'
        /\ PastCreated(n) => PastCreated(n)'

\* Every write of the status follows an edge.
StatusEdge ==
    \A n \in Order : status'[n] # status[n] => <<status[n], status'[n]>> \in StatusEdges

-----------------------------------------------------------------------------
(* The status of an order                                                  *)

\* Only these actions write a status at all.
StatusWriter ==
    \/ WatchEnsure
    \/ \E s \in DeploySlots : DeployMark(s) \/ DeployRetry(s)
    \/ \E s \in SettleSlots : SettleZero(s) \/ SettleComplete(s) \/ SettleRetry(s)

\* Every other action leaves the status of every order alone.
LEMMA StatusFrame == Next => StatusWriter \/ UNCHANGED status
BY DEF Next, StatusWriter, WatcherStep, WatchTick, WatchBalance, WatchNonce, WatchSkip,
       WatchRepair, WatchEnqueue, WatchRecord, WatchAbort,
       DeployStep, DeployTake, DeployLookup, DeployCheckCode, DeploySimulate, DeployMined,
       DeployVerify, DeployPass, DeployAck, DeployFault, DeployMinedReverted,
       DeployNotReady, DeployTryFault, DeployDrop, DeployCrash,
       SettleStep, SettleTake, SettleLookup, SettleReadBalance, SettleSimulate,
       SettleSimulateReverts, SettleMined, SettleMinedReverted, SettleResidual, SettleAck,
       SettleFaulty, SettleFault, SettleRetryFault, SettleDrop, SettleCrash,
       RecoveryStep, RecoveryFind, RecoveryEnqueue, RecoverySkip,
       Environment, UserDeposit, ExternalDeploy, ExternalSettle, Register, Expire, Retarget, RegisterRead

\* A worker that holds a message writes to an order that exists; a settle worker
\* to one that has left CREATED.
LEMMA StatusWrite ==
    ASSUME TypeOK, MessagesBacked, StatusWriter
    PROVE  StatusEdge
<1> USE DEF TypeOK, StatusEdge, StatusEdges, SetStatus
<1>1. CASE WatchEnsure
    BY <1>1 DEF WatchEnsure
<1>2. ASSUME NEW s \in DeploySlots, DeployMark(s) \/ DeployRetry(s)
      PROVE  StatusEdge
  <2>1. HasOrder(DOrder(s)) /\ DOrder(s) \in Order
    BY <1>2 DEF DeployMark, DeployRetry, MessagesBacked, DAt, DOrder, Msg
  <2>2. status[DOrder(s)] \in OrderStatus
    BY <2>1 DEF HasOrder
  <2>3. status' = status \/ status' = [status EXCEPT ![DOrder(s)] = "DEPLOYED"]
           \/ status' = [status EXCEPT ![DOrder(s)] = "FAILED"]
    BY <1>2 DEF DeployMark, DeployRetry
  <2> HIDE DEF TypeOK
  <2> QED BY <2>1, <2>2, <2>3 DEF OrderStatus, TypeOK
<1>3. ASSUME NEW s \in SettleSlots, SettleZero(s) \/ SettleComplete(s) \/ SettleRetry(s)
      PROVE  StatusEdge
  <2>1. PastCreated(SOrder(s)) /\ SOrder(s) \in Order
    BY <1>3 DEF SettleZero, SettleComplete, SettleRetry, MessagesBacked, SAt, SOrder, Msg
  <2>2. status[SOrder(s)] \in {"DEPLOYED", "COMPLETED", "FAILED"}
    BY <2>1 DEF PastCreated, OrderStatus
  <2>3. status' = status \/ status' = [status EXCEPT ![SOrder(s)] = "COMPLETED"]
           \/ status' = [status EXCEPT ![SOrder(s)] = "FAILED"]
    BY <1>3 DEF SettleZero, SettleComplete, SettleRetry
  <2> QED BY <2>1, <2>2, <2>3
<1> QED BY <1>1, <1>2, <1>3 DEF StatusWriter

\* A status edge never takes an order back to NONE or CREATED.
LEMMA EdgesAdvance ==
    ASSUME TypeOK, StatusEdge
    PROVE  Advances
BY DEF Advances, StatusEdge, StatusEdges, HasOrder, PastCreated

\* Hence no step does.
LEMMA NextAdvances ==
    ASSUME TypeOK, MessagesBacked, Next
    PROVE  StatusEdge /\ Advances
<1>1. StatusEdge
    BY StatusFrame, StatusWrite DEF StatusEdge
<1> QED BY <1>1, EdgesAdvance

-----------------------------------------------------------------------------
(* MessagesBacked                                                          *)

\* Nothing is published in the initial state.
LEMMA BackedInit == Init => MessagesBacked
BY MessageTypes DEF Init, MessagesBacked, DAt, SAt, Idle, WatcherIdle

\* The watcher publishes for the order it has ensured.
LEMMA BackedWatcher ==
    ASSUME TypeOK, MessagesBacked, Advances, WatcherStep \/ WatchAbort
    PROVE  MessagesBacked'
<1> USE DEF TypeOK, MessagesBacked, Advances, DAt, SAt, DOrder, SOrder, Msg, WatcherIdle, WGoto,
            queues
<1>1. CASE WatchTick BY <1>1 DEF WatchTick
<1>2. CASE WatchBalance BY <1>2 DEF WatchBalance
<1>3. CASE WatchNonce BY <1>3 DEF WatchNonce
<1>4. CASE WatchSkip BY <1>4 DEF WatchSkip
<1>5. CASE WatchRepair BY <1>5 DEF WatchRepair
<1>6. CASE WatchEnsure BY <1>6 DEF WatchEnsure, SetStatus, HasOrder
<1>7. CASE WatchEnqueue BY <1>7 DEF WatchEnqueue, Put, Fresh
<1>8. CASE WatchRecord BY <1>8 DEF WatchRecord
<1>9. CASE WatchAbort BY <1>9 DEF WatchAbort
<1> QED BY <1>1, <1>2, <1>3, <1>4, <1>5, <1>6, <1>7, <1>8, <1>9 DEF WatcherStep

\* A deploy handler publishes settle work after the status has moved.
LEMMA BackedDeploy ==
    ASSUME TypeOK, MessagesBacked, Advances,
           NEW s \in DeploySlots, DeployStep(s) \/ DeployFault(s)
    PROVE  MessagesBacked'
<1> USE DEF TypeOK, MessagesBacked, Advances, DAt, SAt, DOrder, SOrder, Msg, DGoto, queues
<1>1. CASE DeployTake(s) BY <1>1 DEF DeployTake, Take
<1>2. CASE DeployLookup(s) BY <1>2 DEF DeployLookup
<1>3. CASE DeployCheckCode(s) BY <1>3 DEF DeployCheckCode
<1>4. CASE DeploySimulate(s) BY <1>4 DEF DeploySimulate
<1>5. CASE DeployMined(s) BY <1>5 DEF DeployMined
<1>6. CASE DeployVerify(s) BY <1>6 DEF DeployVerify
<1>7. CASE DeployMark(s) BY <1>7 DEF DeployMark, SetStatus, PastCreated
<1>8. CASE DeployPass(s) BY <1>8 DEF DeployPass, Put, Fresh
<1>9. CASE DeployRetry(s)
  <2>1. /\ dwork[s].pc # "idle"
        /\ dwork' = [dwork EXCEPT ![s] = [pc |-> "ack", msg |-> dwork[s].msg]]
        /\ UNCHANGED <<settleQ, watcher, swork, recovery>>
        /\ UNCHANGED deployQ \/ deployQ' = Put(deployQ, NextAttempt(dwork[s].msg))
    BY <1>9 DEF DeployRetry
  <2>2. \A m \in Msg : deployQ'[m] > 0 => HasOrder(m.order)
    BY <2>1 DEF Put, NextAttempt
  <2> QED BY <2>1, <2>2
<1>10. CASE DeployAck(s) BY <1>10 DEF DeployAck, Idle
<1>11. CASE DeployFault(s)
  <2>1. CASE DeployMinedReverted(s) BY <2>1 DEF DeployMinedReverted
  <2>2. CASE DeployNotReady(s) BY <2>2 DEF DeployNotReady
  <2>3. CASE DeployTryFault(s) BY <2>3 DEF DeployTryFault
  <2>4. CASE DeployDrop(s) BY <2>4 DEF DeployDrop
  <2> QED BY <1>11, <2>1, <2>2, <2>3, <2>4 DEF DeployFault
<1> QED BY <1>1, <1>2, <1>3, <1>4, <1>5, <1>6, <1>7, <1>8, <1>9, <1>10, <1>11 DEF DeployStep

\* A settle handler publishes for the order it holds.
LEMMA BackedSettle ==
    ASSUME TypeOK, MessagesBacked, Advances,
           NEW s \in SettleSlots, SettleStep(s) \/ SettleFaulty(s)
    PROVE  MessagesBacked'
<1> USE DEF TypeOK, MessagesBacked, Advances, DAt, SAt, DOrder, SOrder, Msg, SGoto, queues
<1>1. CASE SettleTake(s) BY <1>1 DEF SettleTake, Take
<1>2. CASE SettleLookup(s) BY <1>2 DEF SettleLookup
<1>3. CASE SettleReadBalance(s) BY <1>3 DEF SettleReadBalance
<1>4. CASE SettleZero(s) BY <1>4 DEF SettleZero
<1>5. CASE SettleSimulate(s) BY <1>5 DEF SettleSimulate
<1>6. CASE SettleSimulateReverts(s) BY <1>6 DEF SettleSimulateReverts
<1>7. CASE SettleMined(s) BY <1>7 DEF SettleMined
<1>8. CASE SettleMinedReverted(s) BY <1>8 DEF SettleMinedReverted
<1>9. CASE SettleComplete(s) BY <1>9 DEF SettleComplete
<1>10. CASE SettleRetry(s)
  <2>1. /\ swork[s].pc # "idle"
        /\ \E pc \in SettlePc : swork' = [swork EXCEPT ![s] = [pc |-> pc, msg |-> swork[s].msg]]
        /\ UNCHANGED <<deployQ, watcher, dwork, recovery>>
        /\ UNCHANGED settleQ \/ settleQ' = Put(settleQ, NextAttempt(swork[s].msg))
    BY <1>10 DEF SettleRetry, SettlePc
  <2>2. \A m \in Msg : settleQ'[m] > 0 => PastCreated(m.order)
    BY <2>1 DEF Put, NextAttempt
  <2> QED BY <2>1, <2>2
<1>11. CASE SettleResidual(s) BY <1>11 DEF SettleResidual, Put, Fresh, HasOrder, PastCreated
<1>12. CASE SettleAck(s) BY <1>12 DEF SettleAck, Idle
<1>13. CASE SettleFaulty(s)
  <2>1. CASE SettleFault(s)
    <3>1. /\ swork[s].pc # "idle"
          /\ \E pc \in SettlePc : swork' = [swork EXCEPT ![s] = [pc |-> pc, msg |-> swork[s].msg]]
          /\ UNCHANGED <<deployQ, settleQ, watcher, dwork, recovery>>
      BY <2>1 DEF SettleFault, SettlePc
    <3> QED BY <3>1
  <2>2. CASE SettleRetryFault(s) BY <2>2 DEF SettleRetryFault
  <2>3. CASE SettleDrop(s) BY <2>3 DEF SettleDrop
  <2> QED BY <1>13, <2>1, <2>2, <2>3 DEF SettleFaulty
<1> QED BY <1>1, <1>2, <1>3, <1>4, <1>5, <1>6, <1>7, <1>8, <1>9, <1>10, <1>11, <1>12, <1>13
        DEF SettleStep

\* A message that a crash puts back was held by a handler, or was queued already.
LEMMA RequeueSource ==
    ASSUME NEW q \in [Msg -> Nat], NEW work, NEW S, IsFiniteSet(S),
           NEW m \in Msg, Requeue(q, work, S)[m] > 0
    PROVE  q[m] > 0 \/ \E s \in S : work[s].pc # "idle" /\ work[s].msg = m
<1> DEFINE H == {s \in S : work[s].pc # "idle" /\ work[s].msg = m}
<1>1. Requeue(q, work, S)[m] = q[m] + Cardinality(H)
    BY DEF Requeue
<1>2. H = {} => Cardinality(H) = 0
    BY FS_EmptySet
<1> QED BY <1>1, <1>2

\* Redelivered messages were backed while their handler held them.
LEMMA BackedCrash ==
    ASSUME TypeOK, MessagesBacked, Advances, DeployCrash \/ SettleCrash
    PROVE  MessagesBacked'
<1>1. CASE DeployCrash
  <2>1. \A m \in Msg : deployQ'[m] > 0 => HasOrder(m.order)
    BY <1>1, RequeueSource, PipelineAssumption
       DEF DeployCrash, TypeOK, MessagesBacked, DAt, DOrder
  <2> QED BY <1>1, <2>1
          DEF DeployCrash, TypeOK, MessagesBacked, Advances, DAt, SAt, DOrder, SOrder, Msg, Idle,
              redis
<1>2. CASE SettleCrash
  <2>1. \A m \in Msg : settleQ'[m] > 0 => PastCreated(m.order)
    <3> SUFFICES ASSUME NEW m \in Msg, Requeue(settleQ, swork, SettleSlots)[m] > 0
                 PROVE  PastCreated(m.order)
      BY <1>2 DEF SettleCrash
    <3>1. settleQ[m] > 0 \/ \E s \in SettleSlots : swork[s].pc # "idle" /\ swork[s].msg = m
      BY RequeueSource, PipelineAssumption DEF TypeOK
    <3> QED BY <3>1 DEF MessagesBacked, SAt, SOrder
  <2> QED BY <1>2, <2>1
          DEF SettleCrash, TypeOK, MessagesBacked, Advances, DAt, SAt, DOrder, SOrder, Msg, Idle,
              redis
<1> QED BY <1>1, <1>2

\* Recovery publishes what its query returned.
LEMMA BackedRest ==
    ASSUME TypeOK, MessagesBacked, Advances, RecoveryStep \/ RecoverySkip \/ Environment
    PROVE  MessagesBacked'
<1> USE DEF TypeOK, MessagesBacked, Advances, DAt, SAt, DOrder, SOrder, Msg, queues
<1>1. CASE RecoveryFind
  <2>1. \A item \in recovery'.todo : item[1] \in OldestIncomplete /\ item[2] = status[item[1]]
    BY <1>1 DEF RecoveryFind
  <2>2. \A n \in OldestIncomplete : status[n] \in Incomplete
    BY DEF OldestIncomplete
  <2>3. \A item \in recovery'.todo : /\ HasOrder(item[1])
                                     /\ item[2] = "DEPLOYED" => PastCreated(item[1])
    BY <2>1, <2>2 DEF HasOrder, PastCreated, Incomplete
  <2> QED BY <1>1, <2>3 DEF RecoveryFind, HasOrder, PastCreated
<1>2. CASE RecoveryEnqueue
  <2> PICK item \in recovery.todo :
        /\ recovery' = [pc |-> "run", todo |-> recovery.todo \ {item}]
        /\ \/ item[2] = "CREATED" /\ deployQ' = Put(deployQ, Fresh(item[1])) /\ UNCHANGED settleQ
           \/ item[2] = "DEPLOYED" /\ settleQ' = Put(settleQ, Fresh(item[1])) /\ UNCHANGED deployQ
        /\ UNCHANGED <<chain, status, redis, watcher, dwork, swork, spent>>
    BY <1>2 DEF RecoveryEnqueue
  <2>1. Fresh(item[1]).order = item[1]
    BY DEF Fresh
  <2>2. \A m \in Msg : /\ deployQ'[m] > 0 => HasOrder(m.order)
                       /\ settleQ'[m] > 0 => PastCreated(m.order)
    BY <2>1 DEF Put
  <2> QED BY <2>2 DEF HasOrder, PastCreated
<1>3. CASE RecoverySkip BY <1>3 DEF RecoverySkip
<1>4. CASE Environment
    BY <1>4 DEF Environment, UserDeposit, ExternalDeploy, ExternalSettle, RegisterRead, Register, Expire,
                Retarget
<1> QED BY <1>1, <1>2, <1>3, <1>4 DEF RecoveryStep

\* MessagesBacked is inductive relative to TypeOK.
LEMMA BackedStep ==
    TypeOK /\ MessagesBacked /\ [Next]_vars => MessagesBacked'
<1> SUFFICES ASSUME TypeOK, MessagesBacked, [Next]_vars PROVE MessagesBacked'
    OBVIOUS
<1>1. CASE UNCHANGED vars
    BY <1>1 DEF vars, MessagesBacked, HasOrder, PastCreated, DAt, SAt, DOrder, SOrder
<1>2. CASE Next
    BY <1>2, NextAdvances, BackedWatcher, BackedDeploy, BackedSettle, BackedCrash, BackedRest
       DEF Next
<1> QED BY <1>1, <1>2

-----------------------------------------------------------------------------
(* The order table against the chain                                       *)

\* The nonce never falls and the code of an account never disappears.
LEMMA ChainForward ==
    ASSUME TypeOK, Next
    PROVE  nonce' >= nonce /\ (deployed => deployed')
<1> USE DEF TypeOK, ChainTypeOK, chain
<1>1. UNCHANGED chain \/ CreateAccount \/ (\E a \in DepositAmounts : Deposit(a))
        \/ (\E amount \in 1..balance : Settle(amount))
    BY DEF Next, WatcherStep, WatchTick, WatchBalance, WatchNonce, WatchSkip, WatchRepair,
       WatchEnsure, WatchEnqueue, WatchRecord, WatchAbort,
       DeployStep, DeployTake, DeployLookup, DeployCheckCode, DeploySimulate, DeployMined,
       DeployVerify, DeployMark, DeployPass, DeployRetry, DeployAck, DeployFault,
       DeployMinedReverted, DeployNotReady, DeployTryFault, DeployDrop, DeployCrash,
       SettleStep, SettleTake, SettleLookup, SettleReadBalance, SettleZero, SettleSimulate,
       SettleSimulateReverts, SettleMined, SettleMinedReverted, SettleComplete, SettleRetry,
       SettleResidual, SettleAck, SettleFaulty, SettleFault, SettleRetryFault, SettleDrop,
       SettleCrash, RecoveryStep, RecoveryFind, RecoveryEnqueue, RecoverySkip,
       Environment, UserDeposit, ExternalDeploy, ExternalSettle, Register, Expire, Retarget, RegisterRead
<1>2. nonce' >= nonce
    BY <1>1, ChainAssumption DEF CreateAccount, Deposit, Settle
<1>3. deployed => deployed'
    BY <1>1, Zenon DEF CreateAccount, Deposit, Settle
<1> QED BY <1>2, <1>3

\* What the watcher is about to record was read from the chain in this pass.
LEMMA WithinStep ==
    TypeOK /\ MessagesBacked /\ OrdersWithinNonce /\ [Next]_vars => OrdersWithinNonce'
<1> SUFFICES ASSUME TypeOK, MessagesBacked, OrdersWithinNonce, [Next]_vars
             PROVE  OrdersWithinNonce'
    OBVIOUS
<1>1. CASE UNCHANGED vars
    BY <1>1 DEF vars, chain, OrdersWithinNonce
<1>2. CASE Next
  <2>1. \A n \in Order : n <= nonce => n <= nonce'
    <3>1. nonce' >= nonce
      BY <1>2, ChainForward
    <3>2. nonce \in Int /\ nonce' \in Int
      BY <1>2, TypeStep DEF TypeOK, ChainTypeOK
    <3> QED BY <3>1, <3>2 DEF Order
  <2>2. CASE WatcherStep \/ WatchAbort
    <3> watcher.at \in Order /\ nonce \in Order
      BY DEF TypeOK, ChainTypeOK, Order
    <3> USE <2>1 DEF OrdersWithinNonce, WGoto, WatcherIdle, SetStatus, chain
    <3>1. CASE WatchTick BY <3>1 DEF WatchTick
    <3>2. CASE WatchBalance BY <3>2 DEF WatchBalance
    <3>3. CASE WatchNonce BY <3>3 DEF WatchNonce, Order
    <3>4. CASE WatchSkip BY <3>4 DEF WatchSkip
    <3>5. CASE WatchRepair BY <3>5 DEF WatchRepair
    <3>6. CASE WatchEnsure BY <3>6 DEF WatchEnsure, TypeOK
    <3>7. CASE WatchEnqueue BY <3>7 DEF WatchEnqueue
    <3>8. CASE WatchRecord BY <3>8 DEF WatchRecord
    <3>9. CASE WatchAbort BY <3>9 DEF WatchAbort
    <3> QED BY <2>2, <3>1, <3>2, <3>3, <3>4, <3>5, <3>6, <3>7, <3>8, <3>9 DEF WatcherStep
  <2>3. CASE ~(WatcherStep \/ WatchAbort)
    <3>1. UNCHANGED watcher
      BY <1>2, <2>3
         DEF Next, DeployStep, DeployTake, DeployLookup, DeployCheckCode, DeploySimulate,
             DeployMined, DeployVerify, DeployMark, DeployPass, DeployRetry, DeployAck,
             DeployFault, DeployMinedReverted, DeployNotReady, DeployTryFault, DeployDrop,
             DeployCrash, SettleStep, SettleTake, SettleLookup, SettleReadBalance, SettleZero,
             SettleSimulate, SettleSimulateReverts, SettleMined, SettleMinedReverted,
             SettleComplete, SettleRetry, SettleResidual, SettleAck, SettleFaulty, SettleFault,
             SettleRetryFault, SettleDrop, SettleCrash, RecoveryStep, RecoveryFind,
             RecoveryEnqueue, RecoverySkip, Environment, UserDeposit, ExternalDeploy,
             ExternalSettle, Register, Expire, Retarget, RegisterRead
    <3>2. \A n \in Order : status[n] = "NONE" => status'[n] = "NONE"
      <4>1. (StatusWriter /\ ~WatchEnsure) \/ UNCHANGED status
        BY <1>2, <2>3, StatusFrame DEF WatcherStep
      <4>2. ASSUME NEW s \in DeploySlots, DeployMark(s) \/ DeployRetry(s)
            PROVE  \A n \in Order : status[n] = "NONE" => status'[n] = "NONE"
        BY <4>2 DEF DeployMark, DeployRetry, SetStatus, MessagesBacked, HasOrder, DAt, DOrder,
                    TypeOK, Msg
      <4>3. ASSUME NEW s \in SettleSlots, SettleZero(s) \/ SettleComplete(s) \/ SettleRetry(s)
            PROVE  \A n \in Order : status[n] = "NONE" => status'[n] = "NONE"
        BY <4>3 DEF SettleZero, SettleComplete, SettleRetry, SetStatus, MessagesBacked,
                    PastCreated, SAt, SOrder, TypeOK, Msg
      <4> QED BY <4>1, <4>2, <4>3 DEF StatusWriter
    <3> QED BY <2>1, <3>1, <3>2 DEF OrdersWithinNonce, TypeOK
  <2> QED BY <2>2, <2>3
<1> QED BY <1>1, <1>2

\* A handler writes DEPLOYED or COMPLETED at the end of a path on which it, or the
\* handler that moved its order on, has seen the code of the account.
LEMMA CodeStep ==
    TypeOK /\ CodeBeforeDeployed /\ [Next]_vars => CodeBeforeDeployed'
<1> SUFFICES ASSUME TypeOK, CodeBeforeDeployed, [Next]_vars, ~deployed'
             PROVE  CodeBeforeDeployed'
    BY DEF CodeBeforeDeployed
<1>1. CASE UNCHANGED vars
    BY <1>1 DEF vars, chain, CodeBeforeDeployed
<1>2. CASE Next
  <2>1. ~deployed
    BY <1>2, ChainForward
  <2>2. /\ \A n \in Order : status[n] \notin {"DEPLOYED", "COMPLETED"}
        /\ \A s \in DeploySlots : dwork[s].pc \notin {"markSeen", "passSeen", "mark", "pass"}
        /\ \A s \in SettleSlots :
              swork[s].pc \notin {"read", "zero", "simulate", "sent", "complete"}
    BY <2>1 DEF CodeBeforeDeployed
  <2> SUFFICES
        /\ \A n \in Order : status'[n] \notin {"DEPLOYED", "COMPLETED"}
        /\ \A s \in DeploySlots : dwork'[s].pc \notin {"markSeen", "passSeen", "mark", "pass"}
        /\ \A s \in SettleSlots :
              swork'[s].pc \notin {"read", "zero", "simulate", "sent", "complete"}
    BY DEF CodeBeforeDeployed
  <2> USE <2>1, <2>2 DEF DAt, SAt
  <2>3. CASE WatcherStep \/ WatchAbort
    BY <2>3 DEF WatcherStep, WatchTick, WatchBalance, WatchNonce, WatchSkip, WatchRepair,
                WatchEnsure, WatchEnqueue, WatchRecord, WatchAbort, SetStatus, TypeOK
  <2>4. ASSUME NEW s \in DeploySlots, DeployStep(s) \/ DeployFault(s)
        PROVE  /\ UNCHANGED swork
               /\ \A n \in Order : status'[n] \notin {"DEPLOYED", "COMPLETED"}
               /\ dwork' \in [DeploySlots -> [pc : DeployPc, msg : Msg]]
               /\ \A t \in DeploySlots \ {s} : dwork'[t] = dwork[t]
               /\ dwork'[s].pc \notin {"markSeen", "passSeen", "mark", "pass"}
    <3>1. TypeOK'
      BY <2>4, TypeDeploy
    <3>2. CASE DeployStep(s)
      BY <2>4, <3>1, <3>2
         DEF DeployStep, DeployTake, DeployLookup, DeployCheckCode, DeploySimulate, DeployMined,
             DeployVerify, DeployMark, DeployPass, DeployRetry, DeployAck, DGoto, SetStatus,
             Idle, TypeOK, CreateAccount
    <3>3. CASE DeployFault(s)
      BY <2>4, <3>1, <3>3
         DEF DeployFault, DeployMinedReverted, DeployNotReady, DeployTryFault, DeployDrop,
             DGoto, TypeOK
    <3> QED BY <2>4, <3>2, <3>3
  <2>5. ASSUME NEW s \in SettleSlots, SettleStep(s) \/ SettleFaulty(s)
        PROVE  /\ UNCHANGED dwork
               /\ \A n \in Order : status'[n] \notin {"DEPLOYED", "COMPLETED"}
               /\ \A t \in SettleSlots \ {s} : swork'[t] = swork[t]
               /\ swork'[s].pc \notin {"read", "zero", "simulate", "sent", "complete"}
    <3>1. CASE SettleStep(s)
      BY <2>5, <3>1
         DEF SettleStep, SettleTake, SettleLookup, SettleReadBalance, SettleZero,
             SettleSimulate, SettleSimulateReverts, SettleMined, SettleMinedReverted,
             SettleComplete, SettleRetry, SettleResidual, SettleAck, SGoto, SetStatus, Idle,
             TypeOK, SOrder, Msg
    <3>2. CASE SettleFaulty(s)
      BY <2>5, <3>2 DEF SettleFaulty, SettleFault, SettleRetryFault, SettleDrop, SGoto, TypeOK
    <3> QED BY <2>5, <3>1, <3>2
  <2>6. CASE DeployCrash
    BY <2>6 DEF DeployCrash, Idle
  <2>7. CASE SettleCrash
    BY <2>7 DEF SettleCrash, Idle
  <2>8. CASE RecoveryStep \/ RecoverySkip
    BY <2>8 DEF RecoveryStep, RecoveryFind, RecoveryEnqueue, RecoverySkip
  <2>9. CASE Environment
    BY <2>9 DEF Environment, UserDeposit, ExternalDeploy, ExternalSettle, RegisterRead, Register, Expire,
                Retarget
  <2> QED BY <1>2, <2>3, <2>4, <2>5, <2>6, <2>7, <2>8, <2>9 DEF Next
<1> QED BY <1>1, <1>2

-----------------------------------------------------------------------------
(* Theorems of the specification                                           *)

\* The inductive invariant.
IInv == TypeOK /\ MessagesBacked /\ OrdersWithinNonce /\ CodeBeforeDeployed

\* The inductive invariant holds initially.
LEMMA IInvInit == Init => IInv
<1> SUFFICES ASSUME Init PROVE IInv
    OBVIOUS
<1>1. OrdersWithinNonce
    BY DEF Init, OrdersWithinNonce, WatcherIdle
<1>2. CodeBeforeDeployed
    BY DEF Init, CodeBeforeDeployed, Idle
<1> QED BY <1>1, <1>2, TypeInit, BackedInit DEF IInv

\* Every step preserves it.
LEMMA IInvStep == IInv /\ [Next]_vars => IInv'
BY TypeStep, BackedStep, WithinStep, CodeStep DEF IInv

\* It is an invariant of the pipeline.
LEMMA IInvAlways == Spec => []IInv
BY IInvInit, IInvStep, PTL DEF Spec

\* Work is published only for an order in the table, and settle work only for an
\* order past CREATED, wherever it waits: the recovery's publications, requeued
\* messages and retries included.
THEOREM WorkIsBacked == Spec => []MessagesBacked
<1>1. IInv => MessagesBacked
    BY DEF IInv
<1> QED BY <1>1, IInvAlways, PTL

\* No order, in the table or in the watcher's hands, is ahead of the account's
\* nonce, although the watcher's nonce is stale by the time it is used.
THEOREM NoOrderAhead == Spec => []OrdersWithinNonce
<1>1. IInv => OrdersWithinNonce
    BY DEF IInv
<1> QED BY <1>1, IInvAlways, PTL

\* No status says DEPLOYED or COMPLETED, and no handler is about to write it, for
\* an account without code.
THEOREM DeployedMeansCode == Spec => []CodeBeforeDeployed
<1>1. IInv => CodeBeforeDeployed
    BY DEF IInv
<1> QED BY <1>1, IInvAlways, PTL

\* However many handlers write the status of an order at once, it is never
\* reopened and never jumps from CREATED to COMPLETED.
THEOREM StatusFollowsEdges == Spec => StatusSteps
<1> DEFINE Edge == \A n \in Order :
                     status'[n] # status[n] => <<status[n], status'[n]>> \in StatusEdges
<1>1. IInv /\ [Next]_vars => [Edge]_vars
  <2> SUFFICES ASSUME IInv, Next PROVE Edge
    OBVIOUS
  <2> QED BY NextAdvances DEF IInv, StatusEdge
<1>2. Spec => [][Edge]_vars
    BY <1>1, IInvAlways, PTL DEF Spec
<1> QED BY <1>2 DEF StatusSteps
=============================================================================
