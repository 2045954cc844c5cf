------------------------ MODULE OrderPipelineProofs ------------------------
(* Safety of OrderPipeline for every chain bound, number of handlers,      *)
(* number of attempts and budget.                                          *)
EXTENDS OrderPipeline, FiniteSetTheorems, TLAPS

-----------------------------------------------------------------------------
(* Lemmas on the data of the model                                         *)

\* The messages the workers publish: a first attempt, and one after a retry.
LEMMA MessageTypes ==
    /\ 0 \in Order
    /\ \A n \in Order : Fresh(n) \in Msg
    /\ \A m \in Msg : m.attempt < MaxAttempts => NextAttempt(m) \in Msg
BY ChainAssumption, PipelineAssumption DEF Order, Msg, Fresh, NextAttempt

\* A handler and the watcher between two passes.
LEMMA IdleTypes ==
    /\ Idle \in [pc : DeployPc, msg : Msg]
    /\ Idle \in [pc : SettlePc, msg : Msg]
    /\ WatcherIdle \in [pc : WatcherPc, seen : -1..MaxNonce, at : Order]
<1>1. Fresh(0) \in Msg /\ 0 \in Order /\ -1 \in -1..MaxNonce
    BY MessageTypes, ChainAssumption
<1> QED BY <1>1 DEF Idle, WatcherIdle, DeployPc, SettlePc, WatcherPc

\* A queue stays a count per message when one message is published or taken.
LEMMA QueueTypes ==
    ASSUME NEW q \in [Msg -> Nat], NEW m \in Msg
    PROVE  /\ Put(q, m) \in [Msg -> Nat]
           /\ q[m] > 0 => Take(q, m) \in [Msg -> Nat]
BY DEF Put, Take

\* The messages of a dead consumer go back: their number is a natural number.
LEMMA RequeueType ==
    ASSUME NEW q \in [Msg -> Nat], NEW work, NEW S, IsFiniteSet(S)
    PROVE  Requeue(q, work, S) \in [Msg -> Nat]
<1> SUFFICES ASSUME NEW m \in Msg
             PROVE  Cardinality({s \in S : work[s].pc # "idle" /\ work[s].msg = m}) \in Nat
    BY DEF Requeue
<1> DEFINE H == {s \in S : work[s].pc # "idle" /\ work[s].msg = m}
<1>1. IsFiniteSet(H)
    BY FS_Subset
<1> QED BY <1>1, FS_CardinalityType

\* Counting an event keeps the budget counters natural numbers.
LEMMA SpendType ==
    ASSUME NEW k \in EventKind, spent \in [EventKind -> Nat], Spend(k)
    PROVE  spent' \in [EventKind -> Nat]
BY DEF Spend

\* The record in Redis is only touched by the actions that name it.
LEMMA RecordFrame == RecordWithin /\ UNCHANGED redis => RecordWithin'
BY DEF RecordWithin, RecordTypeOK, redis

\* Writing a nonce of the chain keeps the record within the bounds.
LEMMA RecordWritten ==
    ASSUME RecordWithin, NEW k \in -1..MaxNonce, RecordNonce(k)
    PROVE  RecordWithin'
<1>1. lastProc' \in Nat \cup {-1} /\ lastProc' <= MaxNonce
    BY ChainAssumption DEF RecordNonce
<1>2. cached' \in BOOLEAN
    BY Zenon DEF RecordNonce, RecordWithin, RecordTypeOK
<1> QED BY <1>1, <1>2 DEF RecordNonce, RecordWithin, RecordTypeOK

-----------------------------------------------------------------------------
(* Type correctness                                                        *)

\* The empty system is well typed.
LEMMA TypeInit == Init => TypeOK
<1> SUFFICES ASSUME Init PROVE TypeOK
    OBVIOUS
<1> USE MessageTypes, ChainAssumption DEF Init, ChainInit
<1>1. ChainTypeOK
  <2>1. balance \in Nat /\ nonce \in 0..MaxNonce
    OBVIOUS
  <2>2. deployed \in BOOLEAN
    BY Zenon
  <2> QED BY <2>1, <2>2 DEF ChainTypeOK
<1>2. /\ status \in [Order -> OrderStatus \cup {"NONE"}]
      /\ deployQ \in [Msg -> Nat] /\ settleQ \in [Msg -> Nat]
      /\ spent \in [EventKind -> Nat]
    OBVIOUS
<1>3. RecordWithin
  <2>1. cached \in BOOLEAN
    BY Zenon DEF RecordInit
  <2> QED BY <2>1 DEF RecordInit, RecordWithin, RecordTypeOK, NotReading
<1>4. watcher \in [pc : WatcherPc, seen : -1..MaxNonce, at : Order]
    BY IdleTypes
<1>6. /\ dwork \in [DeploySlots -> [pc : DeployPc, msg : Msg]]
      /\ swork \in [SettleSlots -> [pc : SettlePc, msg : Msg]]
    BY IdleTypes
<1>7. recovery \in [pc : {"find", "run"}, todo : SUBSET (Order \X Incomplete)]
    OBVIOUS
<1> QED BY <1>1, <1>2, <1>3, <1>4, <1>6, <1>7 DEF TypeOK, Init

\* The watcher reads and records only nonces of the chain.
LEMMA TypeWatcher ==
    TypeOK /\ (WatcherStep \/ WatchAbort) => TypeOK'
<1> SUFFICES ASSUME TypeOK, WatcherStep \/ WatchAbort PROVE TypeOK'
    OBVIOUS
<1> USE MessageTypes, IdleTypes, ChainAssumption, RecordFrame
    DEF TypeOK, ChainTypeOK, WGoto, WatcherPc, Order, chain, queues
<1>1. CASE WatchTick
  <2>1. lastProc \in -1..MaxNonce
    BY DEF RecordWithin, RecordTypeOK
  <2> QED BY <1>1, <2>1 DEF WatchTick
<1>2. CASE WatchBalance
  <2>1. watcher' \in [pc : WatcherPc, seen : -1..MaxNonce, at : Order]
    BY <1>2 DEF WatchBalance
  <2> QED BY <1>2, <2>1 DEF WatchBalance
<1>3. CASE WatchNonce BY <1>3 DEF WatchNonce, Order
<1>4. CASE WatchSkip BY <1>4 DEF WatchSkip
<1>5. CASE WatchRepair
  <2>1. watcher.at \in 0..MaxNonce
    OBVIOUS
  <2>2. watcher.at - 1 \in -1..MaxNonce
    BY ONLY ChainAssumption, <2>1
  <2>3. RecordWithin'
    BY <1>5, <2>2, RecordWritten DEF WatchRepair
  <2> QED BY <1>5, <2>3 DEF WatchRepair
<1>6. CASE WatchEnsure BY <1>6 DEF WatchEnsure, SetStatus, OrderStatus
<1>7. CASE WatchEnqueue BY <1>7, QueueTypes DEF WatchEnqueue
<1>8. CASE WatchRecord
  <2>1. RecordWithin'
    BY <1>8, RecordWritten DEF WatchRecord
  <2> QED BY <1>8, <2>1 DEF WatchRecord
<1>9. CASE WatchAbort
  <2>1. lost' \in SUBSET Order
    BY <1>9 DEF WatchAbort
  <2>2. spent' \in [EventKind -> Nat]
    BY <1>9, SpendType DEF WatchAbort, EventKind
  <2> QED BY <1>9, <2>1, <2>2 DEF WatchAbort
<1> QED BY <1>1, <1>2, <1>3, <1>4, <1>5, <1>6, <1>7, <1>8, <1>9 DEF WatcherStep

\* A deploy handler keeps its message, and publishes only messages within the attempts.
LEMMA TypeDeploy ==
    ASSUME TypeOK, NEW s \in DeploySlots, DeployStep(s) \/ DeployFault(s)
    PROVE  TypeOK'
<1> USE MessageTypes, IdleTypes, ChainAssumption, RecordFrame
    DEF TypeOK, ChainTypeOK, DGoto, DeployPc, chain, queues
<1> /\ dwork[s].msg \in Msg /\ DOrder(s) \in Order
    /\ \A pc \in DeployPc : [pc |-> pc, msg |-> dwork[s].msg] \in [pc : DeployPc, msg : Msg]
    BY DEF DOrder, Msg
<1>1. CASE DeployTake(s)
  <2> PICK m \in Msg : /\ deployQ[m] > 0
                       /\ deployQ' = Take(deployQ, m)
                       /\ dwork' = [dwork EXCEPT ![s] = [pc |-> "lookup", msg |-> m]]
    BY <1>1 DEF DeployTake
  <2>1. deployQ' \in [Msg -> Nat]
    BY QueueTypes
  <2> QED BY <1>1, <2>1 DEF DeployTake
<1>2. CASE DeployLookup(s) BY <1>2 DEF DeployLookup
<1>3. CASE DeployCheckCode(s) BY <1>3 DEF DeployCheckCode
<1>4. CASE DeploySimulate(s) BY <1>4 DEF DeploySimulate
<1>5. CASE DeployMined(s)
  <2>1. deployed' \in BOOLEAN
    BY <1>5, Zenon DEF DeployMined, CreateAccount
  <2>2. balance' \in Nat /\ nonce' \in 0..MaxNonce
    BY <1>5 DEF DeployMined, CreateAccount
  <2> QED BY <1>5, <2>1, <2>2 DEF DeployMined
<1>6. CASE DeployVerify(s) BY <1>6 DEF DeployVerify
<1>7. CASE DeployMark(s) BY <1>7 DEF DeployMark, SetStatus, OrderStatus
<1>8. CASE DeployPass(s)
  <2>1. settleQ' \in [Msg -> Nat]
    BY <1>8, QueueTypes DEF DeployPass
  <2> QED BY <1>8, <2>1 DEF DeployPass
<1>9. CASE DeployRetry(s)
  <2>3. dwork[s].msg.attempt < MaxAttempts => Put(deployQ, NextAttempt(dwork[s].msg)) \in [Msg -> Nat]
    BY QueueTypes
  <2>1. deployQ' \in [Msg -> Nat]
    BY <1>9, <2>3 DEF DeployRetry
  <2>2. status' \in [Order -> OrderStatus \cup {"NONE"}]
    BY <1>9 DEF DeployRetry, SetStatus, OrderStatus
  <2> QED BY <1>9, <2>1, <2>2 DEF DeployRetry
<1>10. CASE DeployAck(s) BY <1>10 DEF DeployAck
<1>11. CASE DeployFault(s)
  <2>1. spent' \in [EventKind -> Nat]
    BY <1>11, SpendType
       DEF DeployFault, DeployMinedReverted, DeployNotReady, DeployTryFault, DeployDrop, EventKind
  <2>2. lost' \in SUBSET Order
    BY <1>11
       DEF DeployFault, DeployMinedReverted, DeployNotReady, DeployTryFault, DeployDrop
  <2>3. dwork' \in [DeploySlots -> [pc : DeployPc, msg : Msg]]
    BY <1>11
       DEF DeployFault, DeployMinedReverted, DeployNotReady, DeployTryFault, DeployDrop
  <2> QED BY <1>11, <2>1, <2>2, <2>3
          DEF DeployFault, DeployMinedReverted, DeployNotReady, DeployTryFault, DeployDrop
<1> QED BY <1>1, <1>2, <1>3, <1>4, <1>5, <1>6, <1>7, <1>8, <1>9, <1>10, <1>11 DEF DeployStep

\* The same for a settle handler.
LEMMA TypeSettle ==
    ASSUME TypeOK, NEW s \in SettleSlots, SettleStep(s) \/ SettleFaulty(s)
    PROVE  TypeOK'
<1> USE MessageTypes, IdleTypes, ChainAssumption, RecordFrame
    DEF TypeOK, ChainTypeOK, SGoto, SettlePc, chain, queues
<1> /\ swork[s].msg \in Msg /\ SOrder(s) \in Order
    /\ \A pc \in SettlePc : [pc |-> pc, msg |-> swork[s].msg] \in [pc : SettlePc, msg : Msg]
    BY DEF SOrder, Msg
<1>1. CASE SettleTake(s)
  <2> PICK m \in Msg : /\ settleQ[m] > 0
                       /\ settleQ' = Take(settleQ, m)
                       /\ swork' = [swork EXCEPT ![s] = [pc |-> "lookup", msg |-> m]]
    BY <1>1 DEF SettleTake
  <2>1. settleQ' \in [Msg -> Nat]
    BY QueueTypes
  <2> QED BY <1>1, <2>1 DEF SettleTake
<1>2. CASE SettleLookup(s) BY <1>2 DEF SettleLookup
<1>3. CASE SettleReadBalance(s) BY <1>3 DEF SettleReadBalance
<1>4. CASE SettleZero(s) BY <1>4 DEF SettleZero, SetStatus, OrderStatus
<1>5. CASE SettleSimulate(s) BY <1>5 DEF SettleSimulate
<1>6. CASE SettleSimulateReverts(s) BY <1>6 DEF SettleSimulateReverts
<1>7. CASE SettleMined(s)
  <2> PICK amount \in 1..balance : Settle(amount)
    BY <1>7 DEF SettleMined
  <2>1. balance' \in Nat /\ nonce' \in 0..MaxNonce /\ deployed' = deployed
    BY DEF Settle
  <2> QED BY <1>7, <2>1 DEF SettleMined
<1>8. CASE SettleMinedReverted(s) BY <1>8 DEF SettleMinedReverted
<1>9. CASE SettleComplete(s) BY <1>9 DEF SettleComplete, SetStatus, OrderStatus
<1>10. CASE SettleRetry(s)
  <2>1. swork' \in [SettleSlots -> [pc : SettlePc, msg : Msg]]
    BY <1>10 DEF SettleRetry
  <2>2. CASE swork[s].msg.attempt < MaxAttempts
    <3>1. settleQ' = Put(settleQ, NextAttempt(swork[s].msg)) /\ UNCHANGED status
      BY <1>10, <2>2 DEF SettleRetry
    <3>2. settleQ' \in [Msg -> Nat]
      BY <2>2, <3>1, QueueTypes
    <3> QED BY <1>10, <2>1, <3>1, <3>2 DEF SettleRetry
  <2>3. CASE ~(swork[s].msg.attempt < MaxAttempts)
    <3>1. SetStatus(SOrder(s), "FAILED") /\ UNCHANGED settleQ
      BY <1>10, <2>3 DEF SettleRetry
    <3> QED BY <1>10, <2>1, <3>1 DEF SettleRetry, SetStatus, OrderStatus
  <2> QED BY <2>2, <2>3
<1>11. CASE SettleResidual(s)
  <2>1. deployQ' \in [Msg -> Nat]
    BY <1>11, QueueTypes DEF SettleResidual
  <2> QED BY <1>11, <2>1 DEF SettleResidual
<1>12. CASE SettleAck(s) BY <1>12 DEF SettleAck
<1>13. CASE SettleFaulty(s)
  <2>1. spent' \in [EventKind -> Nat]
    BY <1>13, SpendType DEF SettleFaulty, SettleFault, SettleRetryFault, SettleDrop, EventKind
  <2>2. lost' \in SUBSET Order
    BY <1>13 DEF SettleFaulty, SettleFault, SettleRetryFault, SettleDrop
  <2>3. swork' \in [SettleSlots -> [pc : SettlePc, msg : Msg]]
    BY <1>13 DEF SettleFaulty, SettleFault, SettleRetryFault, SettleDrop
  <2> QED BY <1>13, <2>1, <2>2, <2>3 DEF SettleFaulty, SettleFault, SettleRetryFault, SettleDrop
<1> QED BY <1>1, <1>2, <1>3, <1>4, <1>5, <1>6, <1>7, <1>8, <1>9, <1>10, <1>11, <1>12, <1>13
        DEF SettleStep

\* Recovery publishes first attempts of orders of the table.
LEMMA TypeRecovery ==
    TypeOK /\ (RecoveryStep \/ RecoverySkip) => TypeOK'
<1> SUFFICES ASSUME TypeOK, RecoveryStep \/ RecoverySkip PROVE TypeOK'
    OBVIOUS
<1> USE MessageTypes, RecordFrame DEF TypeOK, ChainTypeOK, chain, queues
<1>1. CASE RecoveryFind
  <2>1. {<<n, status[n]>> : n \in OldestIncomplete} \subseteq Order \X Incomplete
    <3>1. \A n \in OldestIncomplete : n \in Order /\ status[n] \in Incomplete
      BY DEF OldestIncomplete
    <3> HIDE DEF TypeOK
    <3> QED BY <3>1
  <2> QED BY <1>1, <2>1 DEF RecoveryFind
<1>2. CASE RecoveryEnqueue
  <2> PICK item \in recovery.todo :
        /\ recovery' = [pc |-> "run", todo |-> recovery.todo \ {item}]
        /\ \/ deployQ' = Put(deployQ, Fresh(item[1])) /\ UNCHANGED settleQ
           \/ settleQ' = Put(settleQ, Fresh(item[1])) /\ UNCHANGED deployQ
        /\ lost' \in {lost, lost \ {item[1]}}
        /\ UNCHANGED <<chain, status, redis, watcher, dwork, swork, spent>>
    BY <1>2 DEF RecoveryEnqueue
  <2>1. item[1] \in Order
    BY DEF Incomplete
  <2>3. Put(deployQ, Fresh(item[1])) \in [Msg -> Nat] /\ Put(settleQ, Fresh(item[1])) \in [Msg -> Nat]
    BY <2>1, QueueTypes
  <2>2. deployQ' \in [Msg -> Nat] /\ settleQ' \in [Msg -> Nat]
    BY <2>3
  <2> QED BY <2>2
<1>3. CASE RecoverySkip
  <2>1. spent' \in [EventKind -> Nat]
    BY <1>3, SpendType DEF RecoverySkip, EventKind
  <2>2. recovery' \in [pc : {"find", "run"}, todo : SUBSET (Order \X Incomplete)]
    BY <1>3 DEF RecoverySkip
  <2> QED BY <1>3, <2>1, <2>2 DEF RecoverySkip
<1> QED BY <1>1, <1>2, <1>3 DEF RecoveryStep

\* A crash returns the messages that were held and loses none of the types.
LEMMA TypeCrash ==
    TypeOK /\ (DeployCrash \/ SettleCrash) => TypeOK'
<1> SUFFICES ASSUME TypeOK, DeployCrash \/ SettleCrash PROVE TypeOK'
    OBVIOUS
<1> USE IdleTypes, PipelineAssumption, RecordFrame DEF TypeOK, ChainTypeOK, chain, queues
<1>1. spent' \in [EventKind -> Nat]
    BY SpendType DEF DeployCrash, SettleCrash, EventKind
<1>2. CASE DeployCrash
  <2>1. deployQ' \in [Msg -> Nat]
    BY <1>2, RequeueType DEF DeployCrash
  <2>2. lost' \in SUBSET Order
    BY <1>2 DEF DeployCrash, DOrder, Msg
  <2> QED BY <1>1, <1>2, <2>1, <2>2 DEF DeployCrash
<1>3. CASE SettleCrash
  <2>1. settleQ' \in [Msg -> Nat]
    BY <1>3, RequeueType DEF SettleCrash
  <2> QED BY <1>1, <1>3, <2>1 DEF SettleCrash
<1> QED BY <1>2, <1>3

\* Registration, expiry and a foreign record write only nonces of the chain to Redis.
LEMMA TypeRecord ==
    ASSUME RecordWithin,
           \/ \E r \in Requests : ReadRecord(r) \/ WriteRegistration(r)
           \/ ExpireRecord
           \/ \E k \in -1..MaxNonce : ForeignRecord(k)
    PROVE  RecordWithin'
<1> USE ChainAssumption DEF RecordWithin, RecordTypeOK, NotReading
<1>1. CASE \E r \in Requests : ReadRecord(r)
  <2>1. cached' \in BOOLEAN
    BY <1>1, Zenon DEF ReadRecord
  <2> QED BY <1>1, <2>1 DEF ReadRecord
<1>2. CASE \E r \in Requests : WriteRegistration(r)
  <2>1. cached' \in BOOLEAN
    BY <1>2, Zenon DEF WriteRegistration
  <2> QED BY <1>2, <2>1 DEF WriteRegistration
<1>3. CASE ExpireRecord
  <2>1. cached' \in BOOLEAN
    BY <1>3, Zenon DEF ExpireRecord
  <2> QED BY <1>3, <2>1 DEF ExpireRecord
<1>4. CASE \E k \in -1..MaxNonce : ForeignRecord(k)
  <2>1. cached' \in BOOLEAN
    BY <1>4, Zenon DEF ForeignRecord
  <2> QED BY <1>4, <2>1 DEF ForeignRecord
<1> QED BY <1>1, <1>2, <1>3, <1>4

\* Users and third parties keep the chain and the record well typed.
LEMMA TypeEnvironment == TypeOK /\ Environment => TypeOK'
<1> SUFFICES ASSUME TypeOK, Environment PROVE TypeOK'
    OBVIOUS
<1> USE ChainAssumption, RecordFrame DEF TypeOK, ChainTypeOK, chain, queues
<1>1. spent' \in [EventKind -> Nat]
    BY SpendType DEF Environment, UserDeposit, ExternalDeploy, ExternalSettle, RegisterRead,
       Register, Expire, Retarget, EventKind
<1>2. CASE UserDeposit
  <2>1. balance' \in Nat
    BY <1>2 DEF UserDeposit, Deposit
  <2> QED BY <1>1, <1>2, <2>1 DEF UserDeposit, Deposit
<1>3. CASE ExternalDeploy
  <2>1. deployed' \in BOOLEAN
    BY <1>3, Zenon DEF ExternalDeploy, CreateAccount
  <2> QED BY <1>1, <1>3, <2>1 DEF ExternalDeploy, CreateAccount
<1>4. CASE ExternalSettle
  <2> PICK amount \in 1..balance : Settle(amount)
    BY <1>4 DEF ExternalSettle
  <2>1. balance' \in Nat /\ nonce' \in 0..MaxNonce /\ deployed' = deployed
    BY DEF Settle
  <2> QED BY <1>1, <1>4, <2>1 DEF ExternalSettle
<1>5. CASE RegisterRead \/ Register \/ Expire \/ Retarget
  <2>1. RecordWithin'
    BY <1>5, TypeRecord DEF RegisterRead, Register, Expire, Retarget
  <2> QED BY <1>1, <1>5, <2>1 DEF RegisterRead, Register, Expire, Retarget
<1> QED BY <1>2, <1>3, <1>4, <1>5 DEF Environment

\* TypeOK is inductive.
LEMMA TypeStep == TypeOK /\ [Next]_vars => TypeOK'
<1> SUFFICES ASSUME TypeOK, [Next]_vars PROVE TypeOK'
    OBVIOUS
<1>1. CASE UNCHANGED vars
    BY <1>1, RecordFrame DEF vars, chain, TypeOK, ChainTypeOK
<1> QED BY <1>1, TypeWatcher, TypeDeploy, TypeSettle, TypeRecovery, TypeCrash, TypeEnvironment
        DEF Next

\* Every variable stays in its type: in particular no handler holds, and no
\* queue receives, a message beyond the last attempt.
THEOREM TypeCorrect == Spec => []TypeOK
BY TypeInit, TypeStep, PTL DEF Spec
=============================================================================
