-------------------------- MODULE WorkerRuntimeJobs --------------------------
(* Proofs that the jobs of WorkerRuntime keep their type and are kept.     *)
EXTENDS WorkerRuntimeProofs, FiniteSetTheorems

-----------------------------------------------------------------------------
(* Messages and handlers                                                   *)

\* The index is in the tiers whatever the attempt, and what is published is a
\* message.
LEMMA Messages ==
    ASSUME NEW o \in Orders, NEW w \in Worker
    PROVE  /\ Job(o, w) \in Msg
           /\ \A attempt \in 1..MaxAttempts : HasTier(attempt) /\ Retry(o, w, attempt) \in Msg
           /\ Residual(o, 0) \in Msg
<1>1. /\ MaxTtl \in Nat /\ MaxAttempts \in Nat \ {0}
      /\ Len(RetryTtl) \in Nat \ {0} /\ Len(ResidualTtl) \in Nat \ {0}
      /\ \A n \in 1..Len(RetryTtl) : RetryTtl[n] \in 0..MaxTtl
      /\ \A n \in 1..Len(ResidualTtl) : ResidualTtl[n] \in 0..MaxTtl
      /\ DOMAIN RetryTtl = 1..Len(RetryTtl)
  BY TierAssumption
<1>2. Job(o, w) \in Msg
  BY <1>1 DEF Job, Msg
<1>3. ASSUME NEW attempt \in 1..MaxAttempts
      PROVE  HasTier(attempt) /\ Retry(o, w, attempt) \in Msg
  <2> DEFINE n == Len(RetryTtl) - 1
  <2>1. n \in Nat /\ attempt \in Nat
    BY <1>1
  <2> HIDE DEF n
  <2>2. RetryIndex(attempt) = Min({attempt, n})
    BY DEF RetryIndex, n
  <2>3. attempt \in Int /\ n \in Int
    BY <2>1
  <2>4. Min({attempt, n}) \in {attempt, n} /\ Min({attempt, n}) <= n
    BY <2>3, MinPair
  <2>5. RetryIndex(attempt) + 1 \in 1..Len(RetryTtl)
    BY <1>1, <2>1, <2>2, <2>4 DEF n
  <2>6. RetryTtl[RetryIndex(attempt) + 1] \in 0..MaxTtl
    BY <1>1, <2>5
  <2> QED BY <1>1, <2>5, <2>6 DEF HasTier, Retry, Msg
<1>4. Residual(o, 0) \in Msg
  <2> DEFINE n == Len(ResidualTtl) - 1
  <2>1. n \in Nat /\ n \in Int
    BY <1>1
  <2> HIDE DEF n
  <2>2. Min({0, n}) = 0
    <3>1. Min({0, n}) \in {0, n} /\ Min({0, n}) <= 0
      BY <2>1, MinPair
    <3> QED BY <2>1, <3>1
  <2>3. ResidualIndex(0) = Max({0, 0})
    BY <2>2 DEF ResidualIndex, n
  <2>4. ResidualIndex(0) = 0
    BY <2>3, MaxPair
  <2>5. ResidualTtl[ResidualIndex(0) + 1] \in 0..MaxTtl
    BY <1>1, <2>4
  <2> QED BY <1>1, <2>5 DEF Residual, Msg, Worker
<1> QED BY <1>2, <1>3, <1>4

HandlerOK(w, h) ==
    /\ h \in Handler
    /\ h.pc # "idle" => h.msg \in Msg /\ h.msg.to = w
    /\ h.pc \in {"publish", "confirm"} => h.next \in Msg

WorkOK ==
    /\ DOMAIN work = Worker
    /\ \A w \in Worker :
          /\ work[w] \in [Slots[w] -> Handler]
          /\ \A i \in Slots[w] : HandlerOK(w, work[w][i])

LEMMA IdleOK == ASSUME NEW w \in Worker PROVE HandlerOK(w, Idle)
BY DEF HandlerOK, Handler, Idle, HandlerPc

\* One handler changes and the others do not.
LEMMA SetKeeps ==
    ASSUME WorkOK, NEW w \in Worker, NEW i \in Slots[w], NEW h, HandlerOK(w, h), Set(w, i, h)
    PROVE  /\ WorkOK'
           /\ work'[w][i] = h
           /\ \A v \in Worker : \A j \in Slots[v] :
                 v # w \/ j # i => work'[v][j] = work[v][j]
<1>1. h \in Handler
  BY DEF HandlerOK
<1>2. /\ DOMAIN work' = Worker
      /\ work'[w] = [work[w] EXCEPT ![i] = h]
      /\ \A v \in Worker : v # w => work'[v] = work[v]
  BY DEF Set, WorkOK
<1>3. work[w] \in [Slots[w] -> Handler]
  BY DEF WorkOK
<1>4. work'[w] \in [Slots[w] -> Handler]
  BY <1>1, <1>2, <1>3
<1>5. work'[w][i] = h /\ \A j \in Slots[w] : j # i => work'[w][j] = work[w][j]
  BY <1>2, <1>3
<1>6. ASSUME NEW v \in Worker
      PROVE  /\ work'[v] \in [Slots[v] -> Handler]
             /\ \A j \in Slots[v] : HandlerOK(v, work'[v][j])
             /\ \A j \in Slots[v] : v # w \/ j # i => work'[v][j] = work[v][j]
  <2>1. CASE v = w
    BY <2>1, <1>4, <1>5 DEF WorkOK
  <2>2. CASE v # w
    BY <2>2, <1>2 DEF WorkOK
  <2> QED BY <2>1, <2>2
<1>7. WorkOK'
  BY <1>2, <1>6 DEF WorkOK, HandlerOK
<1> QED BY <1>5, <1>6, <1>7

\* What a due publication leaves of the handler.
LEMMA ThenPublishEffect ==
    ASSUME WorkOK, NEW w \in Worker, NEW i \in Slots[w], work[w][i].pc # "idle",
           NEW m \in Msg \cup {NoMsg}, NEW pc \in {"ack", "lastAck"}, ThenPublish(w, i, m, pc)
    PROVE  \E h :
              /\ HandlerOK(w, h) /\ Set(w, i, h)
              /\ h.msg = work[w][i].msg /\ h.open = work[w][i].open
              /\ h.pc = (IF m = NoMsg THEN pc ELSE "publish") /\ h.next = m
<1> DEFINE h == [work[w][i] EXCEPT !.pc = IF m = NoMsg THEN pc ELSE "publish",
                                   !.next = m, !.then = pc]
<1>1. HandlerOK(w, work[w][i]) /\ work[w][i] \in Handler
  BY DEF WorkOK, HandlerOK
<1>2. h \in Handler
  BY <1>1 DEF Handler, HandlerPc
<1>3. /\ h.msg = work[w][i].msg /\ h.open = work[w][i].open
      /\ h.pc = (IF m = NoMsg THEN pc ELSE "publish") /\ h.next = m
  BY <1>1 DEF Handler
<1>4. h.pc = "publish" => h.next \in Msg
  BY <1>3
<1>5. Set(w, i, h)
  BY DEF ThenPublish
<1> HIDE DEF h
<1>6. HandlerOK(w, h)
  BY <1>1, <1>2, <1>3, <1>4 DEF HandlerOK
<1> QED BY <1>3, <1>5, <1>6

\* A failed attempt: the retry is due, or the order is FAILED.
LEMMA ScheduleEffect ==
    ASSUME WorkOK, NEW w \in Worker, NEW i \in Slots[w], work[w][i].pc # "idle",
           NEW pc \in {"ack", "lastAck"}, Schedule(w, i, pc)
    PROVE  \E h :
              /\ HandlerOK(w, h) /\ Set(w, i, h)
              /\ h.msg = work[w][i].msg /\ h.open = work[w][i].open
              /\ h.pc \in {"publish", "ack", "lastAck"}
              /\ h.pc = "publish" => h.next.order = OrderOf(w, i)
              /\ w = "deploy" /\ h.pc = "publish" => h.next.to = w
              /\ \/ /\ status' = status
                    /\ h.pc = "publish" /\ h.next.to = w
                 \/ status' = [status EXCEPT ![OrderOf(w, i)] = "FAILED"]
<1> DEFINE o == OrderOf(w, i)
           attempt == work[w][i].msg.attempt + 1
<1>1. o \in Orders /\ work[w][i].msg.attempt \in 0..MaxAttempts /\ MaxAttempts \in Nat
  BY TierAssumption DEF WorkOK, HandlerOK, Msg, OrderOf
<1>2. CASE attempt <= MaxAttempts
  <2>1. attempt \in 1..MaxAttempts
    BY <1>1, <1>2
  <2>2. HasTier(attempt) /\ Retry(o, w, attempt) \in Msg
    BY <1>1, <2>1, Messages
  <2>3. ThenPublish(w, i, Retry(o, w, attempt), pc) /\ status' = status
    BY <1>2, <2>2 DEF Schedule
  <2>4. Retry(o, w, attempt) # NoMsg
    BY <2>2, RuntimeAssumption
  <2>5. PICK h : /\ HandlerOK(w, h) /\ Set(w, i, h)
                 /\ h.msg = work[w][i].msg /\ h.open = work[w][i].open
                 /\ h.pc = "publish" /\ h.next = Retry(o, w, attempt)
    BY <2>2, <2>3, <2>4, ThenPublishEffect
  <2>6. h.next.order = o /\ h.next.to = w
    BY <2>5 DEF Retry
  <2> QED BY <2>3, <2>5, <2>6
<1>3. CASE ~(attempt <= MaxAttempts)
  <2> DEFINE m == IF w = "settle" THEN Residual(o, 0) ELSE NoMsg
  <2>1. ThenPublish(w, i, m, pc) /\ status' = [status EXCEPT ![o] = "FAILED"]
    BY <1>3 DEF Schedule, SetStatus
  <2>2. m \in Msg \cup {NoMsg}
    BY <1>1, Messages
  <2>3. (m # NoMsg => m.order = o) /\ (w = "deploy" => m = NoMsg)
    BY DEF Residual
  <2> HIDE DEF m
  <2>4. PICK h : /\ HandlerOK(w, h) /\ Set(w, i, h)
                 /\ h.msg = work[w][i].msg /\ h.open = work[w][i].open
                 /\ h.pc = (IF m = NoMsg THEN pc ELSE "publish") /\ h.next = m
    BY <2>1, <2>2, ThenPublishEffect
  <2> QED BY <2>1, <2>3, <2>4
<1> QED BY <1>2, <1>3

-----------------------------------------------------------------------------
(* Types                                                                   *)

RuntimeInv == TypeOK /\ WorkOK

LEMMA PutKeeps ==
    ASSUME BrokerTypeOK, NEW m \in Msg, Put(m)
    PROVE  /\ BrokerTypeOK' /\ broker'[m] > 0
           /\ \A n \in Msg : broker'[n] >= broker[n]
BY DEF BrokerTypeOK, Put

LEMMA TakeKeeps ==
    ASSUME BrokerTypeOK, NEW m \in Msg, Take(m)
    PROVE  /\ BrokerTypeOK' /\ broker[m] > 0 /\ m.left = 0
           /\ \A n \in Msg : n # m => broker'[n] = broker[n]
<1>1. broker[m] \in Nat /\ broker[m] > 0
  BY DEF BrokerTypeOK, Take
<1>2. broker[m] - 1 \in Nat
  BY <1>1
<1>3. broker' = [broker EXCEPT ![m] = broker[m] - 1] /\ m.left = 0
  BY DEF Take
<1> QED BY <1>1, <1>2, <1>3 DEF BrokerTypeOK

\* Statuses written by a step of a handler.
LEMMA HandleTypes ==
    ASSUME RuntimeInv, NEW w \in Worker, NEW i \in Slots[w], Handle(w, i)
    PROVE  /\ \E h : HandlerOK(w, h) /\ Set(w, i, h)
           /\ BrokerTypeOK'
           /\ status' \in [Orders -> OrderStatus]
           /\ UNCHANGED <<monitoring, age, link, orphaned, disturbed>>
<1> DEFINE g == work[w][i]
<1>0. /\ HandlerOK(w, g) /\ g \in Handler /\ BrokerTypeOK /\ status \in [Orders -> OrderStatus]
      /\ WorkOK
  BY DEF RuntimeInv, WorkOK, HandlerOK, TypeOK
<1> HIDE DEF g
<1>1. CASE Deliver(w, i)
  <2>1. PICK m \in Msg : /\ m.to = w /\ Take(m)
                         /\ Set(w, i, [Idle EXCEPT !.pc = "lookup", !.msg = m, !.open = TRUE])
    BY <1>1 DEF Deliver
  <2>2. HandlerOK(w, [Idle EXCEPT !.pc = "lookup", !.msg = m, !.open = TRUE])
    BY <2>1 DEF HandlerOK, Handler, HandlerPc, Idle
  <2> QED BY <1>0, <1>1, <2>1, <2>2, TakeKeeps DEF Deliver
<1>2. CASE Lookup(w, i)
  <2> DEFINE pc == IF status[OrderOf(w, i)] = Expected[w] THEN "work"
                   ELSE IF w = "deploy" THEN "lastAck" ELSE "ack"
  <2>1. g.pc = "lookup" /\ Set(w, i, [g EXCEPT !.pc = pc])
    BY <1>2 DEF Lookup, At, g
  <2>2. pc \in {"work", "lastAck", "ack"}
    OBVIOUS
  <2> HIDE DEF pc
  <2>3. HandlerOK(w, [g EXCEPT !.pc = pc])
    BY <1>0, <2>1, <2>2 DEF HandlerOK, Handler, HandlerPc
  <2> QED BY <1>0, <1>2, <2>1, <2>3 DEF Lookup, BrokerTypeOK
<1>3. CASE Fails(w, i) \/ AckThrows(w, i)
  <2>1. /\ work[w][i].pc # "idle" /\ \E pc \in {"ack", "lastAck"} : Schedule(w, i, pc)
        /\ UNCHANGED <<broker, monitoring, age, link, orphaned, disturbed>>
    BY <1>3 DEF Fails, AckThrows, At
  <2>2. \E h : /\ HandlerOK(w, h) /\ Set(w, i, h)
               /\ status' = status \/ status' = [status EXCEPT ![OrderOf(w, i)] = "FAILED"]
    BY <1>0, <2>1, ScheduleEffect
  <2> QED BY <1>0, <2>1, <2>2 DEF BrokerTypeOK, OrderStatus
<1>4. CASE Publish(w, i)
  <2>1. /\ g.pc = "publish" /\ g.next \in Msg /\ Put(g.next) /\ Set(w, i, [g EXCEPT !.pc = "confirm"])
    BY <1>0, <1>4 DEF Publish, At, HandlerOK, g
  <2>2. HandlerOK(w, [g EXCEPT !.pc = "confirm"])
    BY <1>0, <2>1 DEF HandlerOK, Handler, HandlerPc
  <2> QED BY <1>0, <1>4, <2>1, <2>2, PutKeeps DEF Publish
<1>5. CASE Confirm(w, i)
  <2>1. g.pc = "confirm" /\ Set(w, i, [g EXCEPT !.pc = g.then, !.next = NoMsg])
    BY <1>5 DEF Confirm, At, g
  <2>2. HandlerOK(w, [g EXCEPT !.pc = g.then, !.next = NoMsg])
    BY <1>0, <2>1 DEF HandlerOK, Handler, HandlerPc
  <2> QED BY <1>0, <1>5, <2>1, <2>2 DEF Confirm, BrokerTypeOK
<1>6. CASE Ack(w, i)
  BY <1>0, <1>6, IdleOK DEF Ack, BrokerTypeOK
<1>7. CASE w = "deploy" /\ Deploys(i)
  <2> DEFINE o == OrderOf(w, i)
  <2>1. /\ g.pc = "work" /\ status' = [status EXCEPT ![o] = "DEPLOYED"]
        /\ \E pc \in {"ack", "lastAck"} : ThenPublish(w, i, Job(o, "settle"), pc)
        /\ UNCHANGED <<broker, monitoring, age, link, orphaned, disturbed>>
    BY <1>7 DEF Deploys, At, SetStatus, g
  <2>2. Job(o, "settle") \in Msg
    BY <1>0, <2>1, Messages DEF OrderOf, HandlerOK, Msg, Worker, g
  <2>3. \E h : HandlerOK(w, h) /\ Set(w, i, h)
    BY <1>0, <2>1, <2>2, ThenPublishEffect DEF g
  <2> QED BY <1>0, <2>1, <2>3 DEF BrokerTypeOK, OrderStatus
<1>8. CASE w = "settle" /\ Settles(i)
  <2> DEFINE o == OrderOf(w, i)
  <2>1. /\ g.pc = "work" /\ status' = [status EXCEPT ![o] = "COMPLETED"]
        /\ ThenPublish(w, i, NoMsg, "ack")
        /\ UNCHANGED <<broker, monitoring, age, link, orphaned, disturbed>>
    BY <1>8 DEF Settles, At, SetStatus, g
  <2>2. \E h : HandlerOK(w, h) /\ Set(w, i, h)
    BY <1>0, <2>1, ThenPublishEffect DEF g
  <2> QED BY <1>0, <2>1, <2>2 DEF BrokerTypeOK, OrderStatus
<1> QED BY <1>1, <1>2, <1>3, <1>4, <1>5, <1>6, <1>7, <1>8 DEF Handle

\* What was not acknowledged is back at the broker.
LEMMA RequeuedKeeps ==
    ASSUME RuntimeInv, NEW w \in Worker, broker' = Requeued(w)
    PROVE  /\ BrokerTypeOK'
           /\ \A m \in Msg : broker'[m] >= broker[m]
           /\ \A i \in Slots[w] :
                 work[w][i].pc # "idle" /\ work[w][i].open => broker'[work[w][i].msg] > 0
<1> DEFINE Of(m) == {i \in Busy(w) : work[w][i].msg = m}
<1>1. ASSUME NEW m \in Msg
      PROVE  /\ Cardinality(Of(m)) \in Nat
             /\ Of(m) # {} => Cardinality(Of(m)) > 0
             /\ broker[m] \in Nat
             /\ broker'[m] = broker[m] + Cardinality(Of(m))
  <2>1. IsFiniteSet(Slots[w]) /\ Of(m) \subseteq Slots[w]
    BY RuntimeAssumption DEF Busy
  <2>2. IsFiniteSet(Of(m))
    BY <2>1, FS_Subset
  <2>3. Cardinality(Of(m)) \in Nat /\ (Cardinality(Of(m)) = 0 => Of(m) = {})
    BY <2>2, FS_CardinalityType, FS_EmptySet
  <2>4. broker[m] \in Nat
    BY DEF RuntimeInv, TypeOK, BrokerTypeOK
  <2> QED BY <2>3, <2>4 DEF Requeued
<1>2. broker' = [m \in Msg |-> broker'[m]]
  BY DEF Requeued
<1> HIDE DEF Of
<1>3. BrokerTypeOK'
  <2>1. \A m \in Msg : broker'[m] \in Nat
    BY <1>1
  <2> QED BY <1>2, <2>1 DEF BrokerTypeOK
<1>4. ASSUME NEW m \in Msg PROVE broker'[m] >= broker[m]
  BY <1>1
<1>5. ASSUME NEW i \in Slots[w], work[w][i].pc # "idle", work[w][i].open
      PROVE  broker'[work[w][i].msg] > 0
  <2>1. work[w][i].msg \in Msg
    BY <1>5 DEF RuntimeInv, WorkOK, HandlerOK
  <2>2. i \in Of(work[w][i].msg)
    BY <1>5 DEF Busy, Of
  <2> QED BY <1>1, <2>1, <2>2
<1> QED BY <1>3, <1>4, <1>5

LEMMA DisturbKeeps == TypeOK /\ Disturb => disturbed' \in 0..Limit
BY RuntimeAssumption DEF TypeOK, Disturb

LEMMA DisconnectTypes ==
    ASSUME RuntimeInv, NEW w \in Worker, Disconnect(w)
    PROVE  /\ WorkOK' /\ BrokerTypeOK' /\ link' \in [Worker -> BOOLEAN]
           /\ disturbed' \in 0..Limit
           /\ UNCHANGED <<status, age, orphaned>>
<1> DEFINE Closed(h) == [h EXCEPT !.open = FALSE,
                                  !.pc = IF h.pc = "confirm" THEN "publish" ELSE h.pc]
<1>1. ASSUME NEW h, HandlerOK(w, h) PROVE HandlerOK(w, Closed(h))
  BY <1>1 DEF HandlerOK, Handler, HandlerPc
<1>2. work' = [work EXCEPT ![w] = [i \in Slots[w] |-> Closed(work[w][i])]]
  BY DEF Disconnect
<1> HIDE DEF Closed
<1>3. WorkOK
  BY DEF RuntimeInv
<1>4. /\ DOMAIN work' = Worker /\ work'[w] = [i \in Slots[w] |-> Closed(work[w][i])]
      /\ \A v \in Worker : v # w => work'[v] = work[v]
  BY <1>2, <1>3 DEF WorkOK
<1>5. ASSUME NEW v \in Worker
      PROVE  work'[v] \in [Slots[v] -> Handler] /\ \A i \in Slots[v] : HandlerOK(v, work'[v][i])
  <2>1. CASE v = w
    <3>1. \A i \in Slots[w] : HandlerOK(w, Closed(work[w][i])) /\ Closed(work[w][i]) \in Handler
      BY <1>1, <1>3 DEF WorkOK, HandlerOK
    <3> QED BY <1>4, <2>1, <3>1
  <2>2. CASE v # w
    BY <1>3, <1>4, <2>2 DEF WorkOK
  <2> QED BY <2>1, <2>2
<1>6. WorkOK'
  BY <1>4, <1>5 DEF WorkOK, HandlerOK
<1>7. BrokerTypeOK' /\ disturbed' \in 0..Limit
  BY RequeuedKeeps, DisturbKeeps DEF Disconnect, RuntimeInv
<1> QED BY <1>6, <1>7 DEF Disconnect, RuntimeInv, TypeOK

LEMMA DiesTypes ==
    ASSUME RuntimeInv, NEW w \in Worker, Dies(w)
    PROVE  /\ WorkOK' /\ BrokerTypeOK' /\ link' \in [Worker -> BOOLEAN]
           /\ orphaned' \in SUBSET Orders /\ orphaned \subseteq orphaned'
           /\ UNCHANGED <<status, age>>
<1>1. WorkOK
  BY DEF RuntimeInv
<1>2. /\ DOMAIN work' = Worker /\ work'[w] = [i \in Slots[w] |-> Idle]
      /\ \A v \in Worker : v # w => work'[v] = work[v]
  BY <1>1 DEF WorkOK, Dies
<1>3. ASSUME NEW v \in Worker
      PROVE  work'[v] \in [Slots[v] -> Handler] /\ \A i \in Slots[v] : HandlerOK(v, work'[v][i])
  <2>1. CASE v = w
    BY <1>2, <2>1, IdleOK DEF HandlerOK
  <2>2. CASE v # w
    BY <1>1, <1>2, <2>2 DEF WorkOK
  <2> QED BY <2>1, <2>2
<1>4. WorkOK'
  BY <1>2, <1>3 DEF WorkOK, HandlerOK
<1>5. BrokerTypeOK'
  BY RequeuedKeeps DEF Dies
<1>6. \A i \in Slots[w] : At(w, i, "publish") => OrderOf(w, i) \in Orders
  BY <1>1 DEF At, OrderOf, WorkOK, HandlerOK, Msg
<1>7. orphaned' \in SUBSET Orders /\ orphaned \subseteq orphaned'
  BY <1>6 DEF Dies, RuntimeInv, TypeOK
<1> QED BY <1>4, <1>5, <1>7 DEF Dies, RuntimeInv, TypeOK

\* Time does not lose messages.
LEMMA TtlsPassKeeps ==
    ASSUME BrokerTypeOK, TtlsPass
    PROVE  /\ BrokerTypeOK'
           /\ \A m \in Msg : m.left = 0 => broker'[m] >= broker[m]
           /\ \A m \in Msg : m.left > 0 => broker'[[m EXCEPT !.left = @ - 1]] >= broker[m]
<1>1. MaxTtl \in Nat
  BY TierAssumption
<1> DEFINE Older(m) == [m EXCEPT !.left = @ + 1]
<1>2. ASSUME NEW m \in Msg, m.left < MaxTtl PROVE Older(m) \in Msg /\ broker[Older(m)] \in Nat
  <2>1. m.left \in 0..MaxTtl /\ m.left + 1 \in 0..MaxTtl
    BY <1>1, <1>2 DEF Msg
  <2>2. Older(m) \in Msg
    BY <2>1 DEF Msg
  <2> HIDE DEF Older
  <2> QED BY <2>2 DEF BrokerTypeOK
<1>3. ASSUME NEW m \in Msg
      PROVE  broker'[m] = (IF m.left < MaxTtl THEN broker[Older(m)] ELSE 0)
                            + (IF m.left = 0 THEN broker[m] ELSE 0)
  BY Zenon DEF TtlsPass
<1> HIDE DEF Older
<1>4. \A m \in Msg : broker[m] \in Nat
  BY DEF BrokerTypeOK
<1>5. \A m \in Msg : broker'[m] \in Nat
  BY <1>2, <1>3, <1>4
<1>6. broker' = [m \in Msg |-> broker'[m]]
  BY DEF TtlsPass
<1>7. BrokerTypeOK'
  BY <1>5, <1>6 DEF BrokerTypeOK
<1>8. ASSUME NEW m \in Msg, m.left = 0 PROVE broker'[m] >= broker[m]
  BY <1>2, <1>3, <1>4, <1>8
<1>9. ASSUME NEW m \in Msg, m.left > 0 PROVE broker'[[m EXCEPT !.left = @ - 1]] >= broker[m]
  <2> DEFINE n == [m EXCEPT !.left = @ - 1]
  <2>1. m.left \in 1..MaxTtl
    BY <1>1, <1>9 DEF Msg
  <2>2. n \in Msg /\ n.left = m.left - 1
    BY <1>1, <2>1 DEF Msg
  <2>3. n.left < MaxTtl
    BY <1>1, <2>1, <2>2
  <2>4. Older(n) = m
    <3>1. Older(n) = [m EXCEPT !.left = m.left - 1 + 1]
      BY DEF Msg, Older
    <3>2. m.left - 1 + 1 = m.left
      BY <2>1
    <3> QED BY <3>1, <3>2 DEF Msg
  <2> HIDE DEF n
  <2>5. broker'[n] = broker[m] + (IF n.left = 0 THEN broker[n] ELSE 0)
    BY <1>3, <2>2, <2>3, <2>4
  <2>6. broker'[n] >= broker[m]
    BY <1>4, <2>2, <2>5
  <2> QED BY <2>6 DEF n
<1> QED BY <1>7, <1>8, <1>9

LEMMA TypesStart == Init => RuntimeInv
<1> SUFFICES ASSUME Init PROVE RuntimeInv
  OBVIOUS
<1>1. BrokerTypeOK
  BY DEF Init, BrokerTypeOK
<1>2. MonitoringTypeOK
  BY MonitoringStarts DEF Init, MonitoringInv
<1>3. /\ status \in [Orders -> OrderStatus] /\ link \in [Worker -> BOOLEAN]
      /\ age \in [Orders -> 0..MaxAge] /\ orphaned \in SUBSET Orders /\ disturbed \in 0..Limit
  BY RuntimeAssumption DEF Init, OrderStatus
<1>4. WorkOK
  <2>1. \A w \in Worker : work[w] = [i \in Slots[w] |-> Idle]
    BY DEF Init
  <2>2. \A w \in Worker : HandlerOK(w, Idle)
    BY IdleOK
  <2>3. Idle \in Handler
    BY <2>2 DEF HandlerOK, Worker
  <2> QED BY <2>1, <2>2, <2>3 DEF Init, WorkOK
<1> QED BY <1>1, <1>2, <1>3, <1>4 DEF RuntimeInv, TypeOK, WorkOK

LEMMA TypesStep == RuntimeInv /\ MonitoringInv /\ [Next]_vars => RuntimeInv' /\ MonitoringInv'
<1> SUFFICES ASSUME RuntimeInv, MonitoringInv, [Next]_vars PROVE RuntimeInv' /\ MonitoringInv'
  OBVIOUS
<1>1. MonitoringInv'
  BY MonitoringFrame, MonitoringKeeps
<1>2. /\ WorkOK /\ BrokerTypeOK /\ status \in [Orders -> OrderStatus]
      /\ link \in [Worker -> BOOLEAN] /\ age \in [Orders -> 0..MaxAge]
      /\ orphaned \in SUBSET Orders /\ disturbed \in 0..Limit
  BY DEF RuntimeInv, TypeOK
<1> DEFINE Rest == /\ WorkOK /\ BrokerTypeOK /\ status \in [Orders -> OrderStatus]
                   /\ link \in [Worker -> BOOLEAN] /\ age \in [Orders -> 0..MaxAge]
                   /\ orphaned \in SUBSET Orders /\ disturbed \in 0..Limit
<1>3. ASSUME NEW w \in Worker, NEW i \in Slots[w], Handle(w, i) PROVE Rest'
  <2>1. WorkOK'
    BY <1>2, <1>3, HandleTypes, SetKeeps
  <2> QED BY <1>2, <1>3, <2>1, HandleTypes
<1>4. ASSUME NEW w \in Worker, Disconnect(w) PROVE Rest'
  BY <1>2, <1>4, DisconnectTypes
<1>5. ASSUME NEW w \in Worker, Crash(w) \/ Exit(w) PROVE Rest'
  <2>1. Dies(w) /\ disturbed' \in 0..Limit
    BY <1>2, <1>5, DisturbKeeps DEF Crash, Exit, RuntimeInv
  <2> QED BY <1>2, <2>1, DiesTypes
<1>6. ASSUME NEW w \in Worker, Reconnect(w) PROVE Rest'
  BY <1>2, <1>6 DEF Reconnect, WorkOK, BrokerTypeOK
<1>7. ASSUME NEW w \in Worker, Restart(w) \/ Housekeeping(w) PROVE Rest'
  BY <1>2, <1>7 DEF Restart, Housekeeping, handlers, WorkOK, BrokerTypeOK
<1>8. ASSUME RedisOutage \/ RedisBack PROVE Rest'
  <2>1. disturbed' \in 0..Limit
    BY <1>2, <1>8, DisturbKeeps DEF RedisOutage, RedisBack, RuntimeInv
  <2> QED BY <1>2, <1>8, <2>1 DEF RedisOutage, RedisBack, handlers, WorkOK, BrokerTypeOK
<1>9. ASSUME Tick PROVE Rest'
  <2>1. age' \in [Orders -> 0..MaxAge]
    <3>1. ASSUME NEW o \in Orders PROVE Min({MaxAge, age[o] + 1}) \in 0..MaxAge
      <4> DEFINE a == age[o] + 1
      <4>1. MaxAge \in Nat /\ a \in Nat /\ MaxAge \in Int /\ a \in Int
        BY <1>2, RuntimeAssumption
      <4> HIDE DEF a
      <4>2. Min({MaxAge, a}) \in {MaxAge, a} /\ Min({MaxAge, a}) <= MaxAge
        BY <4>1, MinPair
      <4>3. Min({MaxAge, a}) \in 0..MaxAge
        BY <4>1, <4>2
      <4> QED BY <4>3 DEF a
    <3> QED BY <1>9, <3>1 DEF Tick
  <2>2. BrokerTypeOK'
    BY <1>2, <1>9, TtlsPassKeeps DEF Tick
  <2> QED BY <1>2, <1>9, <2>1, <2>2 DEF Tick, handlers, WorkOK
<1>10. ASSUME UNCHANGED vars PROVE Rest'
  BY <1>2, <1>10 DEF vars, WorkOK, BrokerTypeOK
<1>11. Rest'
  BY <1>3, <1>4, <1>5, <1>6, <1>7, <1>8, <1>9, <1>10 DEF Next
<1>12. TypeOK'
  BY <1>1, <1>11 DEF TypeOK, WorkOK, MonitoringInv
<1> QED BY <1>1, <1>11, <1>12 DEF RuntimeInv

LEMMA TypesHold == Spec => [](RuntimeInv /\ MonitoringInv)
<1>1. Init => RuntimeInv /\ MonitoringInv
  BY TypesStart, MonitoringStarts DEF Init
<1> QED BY <1>1, TypesStep, PTL DEF Spec

\* Every variable keeps its type: no message is published with an attempt beyond
\* the maximum or for a tier that does not exist.
THEOREM RuntimeTypeCorrect == Spec => []TypeOK
BY TypesHold, PTL DEF RuntimeInv

-----------------------------------------------------------------------------
(* No job is lost                                                          *)

\* The handler will pass the job of o on at w, or its delivery comes back.
Carries(w, i, o) ==
    /\ work[w][i].open /\ work[w][i].msg.order = o
    /\ \/ work[w][i].pc \in {"lookup", "work"}
       \/ work[w][i].pc = "publish" /\ work[w][i].next.to = w /\ work[w][i].next.order = o

\* A deploy handler, of an open channel or not, is about to publish the settle job.
Passing(i, o) ==
    /\ work["deploy"][i].pc = "publish" /\ work["deploy"][i].msg.order = o
    /\ work["deploy"][i].next = Job(o, "settle")

Covered(o, w) == Waiting(o, w) \/ \E i \in Slots[w] : Carries(w, i, o)

\* The strengthening of JobKept: who keeps the job of an order.
JobInv ==
    \A o \in Orders \ orphaned :
        /\ status[o] = "CREATED" => Covered(o, "deploy")
        /\ status[o] = "DEPLOYED" =>
              Covered(o, "settle") \/ \E i \in Slots["deploy"] : Passing(i, o)

\* A message that waits, before a step of a handler.
LEMMA HandleWaiting ==
    ASSUME RuntimeInv, NEW v \in Worker, NEW i \in Slots[v], Handle(v, i),
           NEW w \in Worker, NEW o \in Orders, Waiting(o, w)
    PROVE  Covered(o, w)'
<1>0. WorkOK /\ BrokerTypeOK /\ \A m \in Msg : broker[m] \in Nat
  BY DEF RuntimeInv, TypeOK, BrokerTypeOK
<1>1. PICK m \in Msg : broker[m] > 0 /\ m.order = o /\ m.to = w
  BY DEF Waiting
<1>2. CASE broker'[m] > 0
  BY <1>1, <1>2 DEF Covered, Waiting
<1>3. CASE Deliver(v, i) /\ ~(broker'[m] > 0)
  <2>1. PICK n \in Msg : /\ n.to = v /\ Take(n)
                         /\ Set(v, i, [Idle EXCEPT !.pc = "lookup", !.msg = n, !.open = TRUE])
    BY <1>3 DEF Deliver
  <2>2. n = m
    BY <1>0, <1>1, <1>3, <2>1, TakeKeeps
  <2> DEFINE h == [Idle EXCEPT !.pc = "lookup", !.msg = n, !.open = TRUE]
  <2>3. h.pc = "lookup" /\ h.msg = n /\ h.open
    BY DEF Idle
  <2>4. HandlerOK(v, h)
    BY <2>1 DEF HandlerOK, Handler, HandlerPc, Idle
  <2> HIDE DEF h
  <2>5. work'[v][i] = h
    BY <1>0, <2>1, <2>4, SetKeeps DEF h
  <2>6. Carries(v, i, o)'
    BY <1>1, <2>2, <2>3, <2>5 DEF Carries
  <2> QED BY <1>1, <2>1, <2>2, <2>6 DEF Covered
<1>4. CASE ~Deliver(v, i)
  <2>1. CASE Publish(v, i)
    <3>1. work[v][i].next \in Msg /\ Put(work[v][i].next)
      BY <1>0, <2>1 DEF Publish, At, WorkOK, HandlerOK
    <3>2. broker'[m] >= broker[m] /\ broker'[m] \in Nat
      BY <1>0, <3>1, PutKeeps DEF BrokerTypeOK
    <3>3. broker'[m] > 0
      BY <1>0, <1>1, <3>2
    <3> QED BY <1>1, <3>3 DEF Covered, Waiting
  <2>2. CASE ~Publish(v, i)
    <3>1. broker' = broker
      BY <1>4, <2>2 DEF Handle, Lookup, Fails, Confirm, Ack, AckThrows, Deploys, Settles
    <3> QED BY <1>1, <3>1 DEF Covered, Waiting
  <2> QED BY <2>1, <2>2
<1> QED BY <1>2, <1>3, <1>4

\* A handler that carries the job, before a step of a handler.
LEMMA HandleCarries ==
    ASSUME RuntimeInv, NEW v \in Worker, NEW i \in Slots[v], Handle(v, i),
           NEW w \in Worker, NEW o \in Orders, NEW j \in Slots[w], Carries(w, j, o),
           status[o] = Expected[w]
    PROVE  status'[o] # Expected[w] \/ Covered(o, w)'
<1> DEFINE g == work[w][j]
<1>0. /\ WorkOK /\ BrokerTypeOK /\ status \in [Orders -> OrderStatus]
      /\ HandlerOK(w, g) /\ g \in Handler
      /\ Expected["deploy"] = "CREATED" /\ Expected["settle"] = "DEPLOYED"
  BY DEF RuntimeInv, TypeOK, WorkOK, HandlerOK, Expected
<1>1. CASE v # w \/ i # j
  <2>1. work'[w][j] = work[w][j]
    BY <1>0, <1>1, HandleTypes, SetKeeps
  <2>2. Carries(w, j, o)'
    BY <2>1 DEF Carries
  <2> QED BY <2>2 DEF Covered
<1>2. CASE v = w /\ i = j
  <2>1. /\ g.open /\ g.msg.order = o /\ OrderOf(v, i) = o
        /\ \/ g.pc \in {"lookup", "work"}
           \/ g.pc = "publish" /\ g.next.to = w /\ g.next.order = o
    BY <1>2 DEF Carries, OrderOf
  <2>2. CASE Lookup(v, i)
    <3>1. g.pc = "lookup" /\ Set(w, j, [g EXCEPT !.pc = "work"])
      BY <1>2, <2>1, <2>2 DEF Lookup, At
    <3> DEFINE h == [g EXCEPT !.pc = "work"]
    <3>2. HandlerOK(w, h)
      BY <1>0, <3>1 DEF HandlerOK, Handler, HandlerPc
    <3>3. h.pc = "work" /\ h.open /\ h.msg = g.msg
      BY <1>0, <2>1 DEF Handler
    <3>4. Set(w, j, h)
      BY <3>1
    <3> HIDE DEF h
    <3>5. work'[w][j] = h
      BY <1>0, <3>2, <3>4, SetKeeps
    <3>6. Carries(w, j, o)'
      BY <2>1, <3>3, <3>5 DEF Carries
    <3> QED BY <3>6 DEF Covered
  <2>3. CASE Fails(v, i) \/ AckThrows(v, i)
    <3>1. PICK pc \in {"ack", "lastAck"} : Schedule(w, j, pc)
      BY <1>2, <2>3 DEF Fails, AckThrows
    <3>2. g.pc # "idle"
      BY <2>1
    <3>0. OrderOf(w, j) = o
      BY <2>1, <1>2
    <3>3. PICK h : /\ HandlerOK(w, h) /\ Set(w, j, h)
                   /\ h.msg = g.msg /\ h.open = g.open
                   /\ h.pc = "publish" => h.next.order = OrderOf(w, j)
                   /\ \/ /\ status' = status
                         /\ h.pc = "publish" /\ h.next.to = w
                      \/ status' = [status EXCEPT ![OrderOf(w, j)] = "FAILED"]
      BY <1>0, <3>1, <3>2, ScheduleEffect
    <3>4. work'[w][j] = h
      BY <1>0, <3>3, SetKeeps
    <3>5. CASE h.pc = "publish" /\ h.next.to = w
      <4>1. Carries(w, j, o)'
        BY <2>1, <3>0, <3>3, <3>4, <3>5 DEF Carries
      <4> QED BY <4>1 DEF Covered
    <3>6. CASE status' = [status EXCEPT ![o] = "FAILED"]
      BY <1>0, <3>6 DEF Worker
    <3> QED BY <3>0, <3>3, <3>5, <3>6
  <2>4. CASE Publish(v, i)
    <3>1. g.pc = "publish" /\ g.next \in Msg /\ Put(g.next)
      BY <1>0, <1>2, <2>4 DEF Publish, At, HandlerOK
    <3>2. broker'[g.next] > 0 /\ g.next.to = w /\ g.next.order = o
      BY <1>0, <2>1, <3>1, PutKeeps
    <3> QED BY <3>1, <3>2 DEF Covered, Waiting
  <2>5. CASE v = "deploy" /\ Deploys(i)
    BY <1>0, <1>2, <2>1, <2>5 DEF Deploys, SetStatus
  <2>6. CASE v = "settle" /\ Settles(i)
    BY <1>0, <1>2, <2>1, <2>6 DEF Settles, SetStatus
  <2>7. CASE Deliver(v, i) \/ Confirm(v, i) \/ Ack(v, i)
    BY <1>2, <2>1, <2>7 DEF Deliver, Confirm, Ack, At
  <2> QED BY <2>2, <2>3, <2>4, <2>5, <2>6, <2>7 DEF Handle
<1> QED BY <1>1, <1>2

\* A settle job that is about to be published, before a step of a handler.
LEMMA HandlePassing ==
    ASSUME RuntimeInv, NEW v \in Worker, NEW i \in Slots[v], Handle(v, i),
           NEW o \in Orders, NEW j \in Slots["deploy"], Passing(j, o)
    PROVE  Waiting(o, "settle")' \/ Passing(j, o)'
<1>0. WorkOK /\ BrokerTypeOK /\ "deploy" \in Worker /\ "settle" \in Worker
  BY DEF RuntimeInv, TypeOK, Worker
<1>1. CASE v # "deploy" \/ i # j
  <2>1. work'["deploy"][j] = work["deploy"][j]
    BY <1>0, <1>1, HandleTypes, SetKeeps
  <2> QED BY <2>1 DEF Passing
<1>2. CASE v = "deploy" /\ i = j
  <2>1. work[v][i].pc = "publish" /\ work[v][i].next = Job(o, "settle")
    BY <1>2 DEF Passing
  <2>2. Publish(v, i)
    BY <2>1 DEF Handle, Deliver, Lookup, Fails, Confirm, Ack, AckThrows, Deploys, Settles, At
  <2>3. Put(Job(o, "settle")) /\ Job(o, "settle") \in Msg
    BY <1>0, <2>1, <2>2, Messages DEF Publish
  <2>4. broker'[Job(o, "settle")] > 0
    BY <1>0, <2>3, PutKeeps
  <2> QED BY <2>3, <2>4 DEF Waiting, Job
<1> QED BY <1>1, <1>2

\* No step of a handler makes an order CREATED, and the one that makes it DEPLOYED
\* is about to publish its settle job.
LEMMA HandleStatus ==
    ASSUME RuntimeInv, NEW v \in Worker, NEW i \in Slots[v], Handle(v, i), NEW o \in Orders
    PROVE  /\ status'[o] = "CREATED" => status[o] = "CREATED"
           /\ status'[o] = "DEPLOYED" =>
                 status[o] = "DEPLOYED" \/ \E j \in Slots["deploy"] : Passing(j, o)'
<1>0. WorkOK /\ status \in [Orders -> OrderStatus]
  BY DEF RuntimeInv, TypeOK
<1>1. CASE v = "deploy" /\ Deploys(i)
  <2>0. OrderOf(v, i) \in Orders
    BY <1>0, <1>1 DEF Deploys, At, OrderOf, WorkOK, HandlerOK, Msg
  <2> PICK p \in Orders : p = OrderOf(v, i)
    BY <2>0
  <2>1. /\ work[v][i].pc = "work" /\ status' = [status EXCEPT ![p] = "DEPLOYED"]
        /\ \E pc \in {"ack", "lastAck"} : ThenPublish(v, i, Job(p, "settle"), pc)
    BY <1>1 DEF Deploys, SetStatus, At
  <2>2. Job(p, "settle") \in Msg /\ Job(p, "settle") # NoMsg
    BY Messages, RuntimeAssumption DEF Worker
  <2>3. PICK h : /\ HandlerOK(v, h) /\ Set(v, i, h) /\ h.msg = work[v][i].msg
                 /\ h.pc = "publish" /\ h.next = Job(p, "settle")
    BY <1>0, <2>1, <2>2, ThenPublishEffect
  <2>4. work'[v][i] = h
    BY <1>0, <2>3, SetKeeps
  <2>5. h.msg.order = p
    BY <2>3 DEF OrderOf
  <2>6. Passing(i, p)'
    BY <1>1, <2>3, <2>4, <2>5 DEF Passing
  <2>7. CASE o = p
    BY <1>0, <1>1, <2>1, <2>6, <2>7
  <2>8. CASE o # p
    BY <1>0, <2>1, <2>8
  <2> QED BY <2>7, <2>8
<1>2. CASE v = "settle" /\ Settles(i)
  BY <1>0, <1>2 DEF Settles, SetStatus
<1>3. CASE Fails(v, i) \/ AckThrows(v, i)
  BY <1>0, <1>3 DEF Fails, AckThrows, Schedule, SetStatus
<1>4. CASE Deliver(v, i) \/ Lookup(v, i) \/ Publish(v, i) \/ Confirm(v, i) \/ Ack(v, i)
  BY <1>4 DEF Deliver, Lookup, Publish, Confirm, Ack
<1> QED BY <1>1, <1>2, <1>3, <1>4 DEF Handle

LEMMA HandleJobs ==
    ASSUME RuntimeInv, JobInv, NEW v \in Worker, NEW i \in Slots[v], Handle(v, i)
    PROVE  JobInv'
<1>0. /\ "deploy" \in Worker /\ "settle" \in Worker /\ orphaned' = orphaned
      /\ Expected["deploy"] = "CREATED" /\ Expected["settle"] = "DEPLOYED"
  BY HandleTypes DEF Worker, Expected
<1>1. ASSUME NEW o \in Orders, NEW w \in Worker, status[o] = Expected[w], Covered(o, w)
      PROVE  status'[o] # Expected[w] \/ Covered(o, w)'
  BY <1>1, HandleWaiting, HandleCarries DEF Covered
<1>2. ASSUME NEW o \in Orders \ orphaned
      PROVE  /\ status'[o] = "CREATED" => Covered(o, "deploy")'
             /\ status'[o] = "DEPLOYED" =>
                   Covered(o, "settle")' \/ \E j \in Slots["deploy"] : Passing(j, o)'
  <2>1. /\ status'[o] = "CREATED" => status[o] = "CREATED"
        /\ status'[o] = "DEPLOYED" =>
              status[o] = "DEPLOYED" \/ \E j \in Slots["deploy"] : Passing(j, o)'
    BY HandleStatus
  <2>2. ASSUME NEW j \in Slots["deploy"], Passing(j, o)
        PROVE  Covered(o, "settle")' \/ Passing(j, o)'
    BY <2>2, HandlePassing DEF Covered
  <2> QED BY <1>0, <1>1, <2>1, <2>2 DEF JobInv
<1> QED BY <1>0, <1>2 DEF JobInv

\* A connection or a process is lost: what was delivered and not acknowledged waits
\* again, and a settle job that goes down with its process is recorded.
LEMMA LossJobs ==
    ASSUME RuntimeInv, JobInv, NEW w \in Worker, Disconnect(w) \/ Dies(w)
    PROVE  JobInv'
<1>0. /\ WorkOK /\ broker' = Requeued(w) /\ status' = status /\ orphaned \subseteq orphaned'
      /\ \A m \in Msg : broker[m] \in Nat
      /\ \A v \in Worker : v # w => work'[v] = work[v]
  <2>1. WorkOK /\ BrokerTypeOK
    BY DEF RuntimeInv, TypeOK
  <2> QED BY <2>1, DiesTypes DEF Disconnect, Dies, WorkOK, BrokerTypeOK
<1>1. ASSUME NEW o \in Orders, NEW v \in Worker, Covered(o, v) PROVE Covered(o, v)'
  <2>1. CASE Waiting(o, v)
    <3>1. PICK m \in Msg : broker[m] > 0 /\ m.order = o /\ m.to = v
      BY <2>1 DEF Waiting
    <3>2. broker'[m] >= broker[m] /\ broker'[m] \in Nat
      BY <1>0, RequeuedKeeps DEF BrokerTypeOK
    <3>3. broker'[m] > 0
      BY <1>0, <3>1, <3>2
    <3> QED BY <3>1, <3>3 DEF Covered, Waiting
  <2>2. ASSUME NEW i \in Slots[v], Carries(v, i, o) PROVE Covered(o, v)'
    <3>1. CASE v = w
      <4>1. work[v][i].pc # "idle" /\ work[v][i].open /\ work[v][i].msg.order = o
        BY <2>2 DEF Carries
      <4>2. broker'[work[v][i].msg] > 0
        BY <1>0, <3>1, <4>1, RequeuedKeeps
      <4>3. work[v][i].msg \in Msg /\ work[v][i].msg.to = v
        BY <1>0, <4>1 DEF WorkOK, HandlerOK
      <4> QED BY <4>1, <4>2, <4>3 DEF Covered, Waiting
    <3>2. CASE v # w
      BY <1>0, <2>2, <3>2 DEF Carries, Covered
    <3> QED BY <3>1, <3>2
  <2> QED BY <1>1, <2>1, <2>2 DEF Covered
<1>2. ASSUME NEW o \in Orders, NEW j \in Slots["deploy"], Passing(j, o)
      PROVE  Passing(j, o)' \/ o \in orphaned'
  <2>0. "deploy" \in Worker
    BY DEF Worker
  <2>1. CASE w # "deploy"
    BY <1>0, <1>2, <2>0, <2>1 DEF Passing
  <2>2. CASE w = "deploy" /\ Disconnect(w)
    <3> DEFINE h == work["deploy"][j]
    <3>1. h.pc = "publish" /\ h \in Handler
      BY <1>0, <1>2, <2>0 DEF Passing, WorkOK
    <3>2. work'["deploy"][j] = [h EXCEPT !.open = FALSE, !.pc = "publish"]
      BY <1>0, <2>0, <2>2, <3>1 DEF Disconnect, WorkOK
    <3> QED BY <1>2, <3>1, <3>2 DEF Passing, Handler
  <2>3. CASE w = "deploy" /\ Dies(w)
    BY <1>2, <2>3 DEF Dies, Passing, At, OrderOf
  <2> QED BY <2>1, <2>2, <2>3
<1>3. "deploy" \in Worker /\ "settle" \in Worker
  BY DEF Worker
<1> QED BY <1>0, <1>1, <1>2, <1>3 DEF JobInv

\* Time passes: a message comes closer to its queue.
LEMMA TickJobs == RuntimeInv /\ JobInv /\ Tick => JobInv'
<1> SUFFICES ASSUME RuntimeInv, JobInv, Tick PROVE JobInv'
  OBVIOUS
<1>0. /\ BrokerTypeOK /\ TtlsPass /\ \A m \in Msg : broker[m] \in Nat /\ broker'[m] \in Nat
      /\ status' = status /\ work' = work /\ orphaned' = orphaned
  BY TtlsPassKeeps DEF RuntimeInv, TypeOK, BrokerTypeOK, Tick, handlers
<1>1. ASSUME NEW o \in Orders, NEW w \in Worker, Waiting(o, w) PROVE Waiting(o, w)'
  <2>1. PICK m \in Msg : broker[m] > 0 /\ m.order = o /\ m.to = w
    BY <1>1 DEF Waiting
  <2>2. m.left \in 0..MaxTtl /\ MaxTtl \in Nat
    BY TierAssumption DEF Msg
  <2>3. CASE m.left = 0
    <3>1. broker'[m] >= broker[m]
      BY <1>0, <2>3, TtlsPassKeeps
    <3>2. broker'[m] > 0
      BY <1>0, <2>1, <3>1
    <3> QED BY <2>1, <3>2 DEF Waiting
  <2>4. CASE m.left > 0
    <3> DEFINE n == [m EXCEPT !.left = @ - 1]
    <3>1. broker'[n] >= broker[m]
      BY <1>0, <2>4, TtlsPassKeeps
    <3>2. m.left - 1 \in 0..MaxTtl
      BY <2>2, <2>4
    <3>3. n \in Msg /\ n.order = o /\ n.to = w
      BY <2>1, <3>2 DEF Msg
    <3> HIDE DEF n
    <3>4. broker'[n] > 0
      BY <1>0, <2>1, <3>1, <3>3
    <3> QED BY <3>3, <3>4 DEF Waiting
  <2> QED BY <2>2, <2>3, <2>4
<1>2. "deploy" \in Worker /\ "settle" \in Worker
  BY DEF Worker
<1> QED BY <1>0, <1>1, <1>2 DEF JobInv, Covered, Carries, Passing

LEMMA JobStep == RuntimeInv /\ JobInv /\ [Next]_vars => JobInv'
<1> SUFFICES ASSUME RuntimeInv, JobInv, [Next]_vars PROVE JobInv'
  OBVIOUS
<1>1. ASSUME NEW w \in Worker, NEW i \in Slots[w], Handle(w, i) PROVE JobInv'
  BY <1>1, HandleJobs
<1>2. ASSUME NEW w \in Worker, Disconnect(w) \/ Crash(w) \/ Exit(w) PROVE JobInv'
  BY <1>2, LossJobs DEF Crash, Exit
<1>3. CASE Tick
  BY <1>3, TickJobs
<1>4. ASSUME UNCHANGED <<broker, status, work, orphaned>> PROVE JobInv'
  BY <1>4 DEF JobInv, Covered, Waiting, Carries, Passing
<1>5. ASSUME NEW w \in Worker, Reconnect(w) \/ Restart(w) \/ Housekeeping(w) PROVE JobInv'
  BY <1>4, <1>5 DEF Reconnect, Restart, Housekeeping, handlers
<1>6. CASE RedisOutage \/ RedisBack \/ UNCHANGED vars
  BY <1>4, <1>6 DEF RedisOutage, RedisBack, handlers, vars
<1> QED BY <1>1, <1>2, <1>3, <1>5, <1>6 DEF Next

LEMMA JobStart == Init => JobInv
<1> SUFFICES ASSUME Init, NEW o \in Orders PROVE status[o] = "CREATED" /\ Covered(o, "deploy")
  BY DEF JobInv
<1>1. Job(o, "deploy") \in Msg
  BY Messages DEF Worker
<1>2. broker[Job(o, "deploy")] > 0
  BY <1>1 DEF Init
<1>3. Waiting(o, "deploy")
  BY <1>1, <1>2 DEF Waiting, Job
<1> QED BY <1>3 DEF Init, Covered

LEMMA JobGives == RuntimeInv /\ JobInv => JobKept
<1> SUFFICES ASSUME RuntimeInv, JobInv, NEW o \in Orders \ orphaned
             PROVE  /\ status[o] = "CREATED" =>
                          Waiting(o, "deploy") \/ \E i \in Slots["deploy"] : Holds("deploy", i, o)
                    /\ status[o] = "DEPLOYED" =>
                          \/ Waiting(o, "settle")
                          \/ \E i \in Slots["settle"] : Holds("settle", i, o)
                          \/ \E i \in Slots["deploy"] :
                                At("deploy", i, "publish") /\ work["deploy"][i].next = Job(o, "settle")
  BY DEF JobKept
<1>1. \A w \in Worker : \A i \in Slots[w] : Carries(w, i, o) => Holds(w, i, o)
  BY DEF Carries, Holds, OrderOf
<1>2. \A i \in Slots["deploy"] :
         Passing(i, o) => At("deploy", i, "publish") /\ work["deploy"][i].next = Job(o, "settle")
  BY DEF Passing, At
<1> QED BY <1>1, <1>2 DEF JobInv, Covered, Worker

\* Whatever connections and processes are lost and whenever: an order that is not
\* finished keeps a job, except where the deploy process dies with the settle job.
THEOREM JobsKept == Spec => []JobKept
<1>1. Init => RuntimeInv /\ MonitoringInv /\ JobInv
  BY TypesStart, MonitoringStarts, JobStart DEF Init
<1>2. RuntimeInv /\ MonitoringInv /\ JobInv /\ [Next]_vars
        => (RuntimeInv /\ MonitoringInv /\ JobInv)'
  BY TypesStep, JobStep
<1> QED BY <1>1, <1>2, JobGives, PTL DEF Spec

-----------------------------------------------------------------------------
(* Undisturbed, COMPLETED stays                                            *)

\* The handler holds the one token of o: the message it took, or its next one.
Active(w, i, o) ==
    work[w][i].pc \in {"lookup", "work", "publish"} /\ work[w][i].msg.order = o

\* Nothing is closed, and an order has one token, a message or a handler.
OneToken ==
    /\ \A w \in Worker : \A i \in Slots[w] : work[w][i].pc # "idle" => work[w][i].open
    /\ \A w \in Worker : \A i \in Slots[w] :
          work[w][i].pc = "publish" => work[w][i].next.order = work[w][i].msg.order
    /\ \A m \in Msg : broker[m] <= 1
    /\ \A m, n \in Msg : broker[m] > 0 /\ broker[n] > 0 /\ m.order = n.order => m = n
    /\ \A m \in Msg : \A w \in Worker : \A i \in Slots[w] :
          broker[m] > 0 => ~Active(w, i, m.order)
    /\ \A o \in Orders : \A v, w \in Worker : \A i \in Slots[v], j \in Slots[w] :
          Active(v, i, o) /\ Active(w, j, o) => v = w /\ i = j

NoWorkLeft ==
    \A o \in Orders : \A w \in Worker : \A i \in Slots[w] :
        status[o] = "COMPLETED" => ~(work[w][i].pc = "work" /\ work[w][i].msg.order = o)

QuietInv == disturbed = 0 => OneToken /\ NoWorkLeft

\* A step of the handler that moves no message and takes no token.
LEMMA TokenStays ==
    ASSUME RuntimeInv, OneToken, NEW v \in Worker, NEW i \in Slots[v], NEW h,
           HandlerOK(v, h), Set(v, i, h), UNCHANGED broker,
           h.pc # "idle" => h.open /\ h.msg = work[v][i].msg,
           h.pc = "publish" => h.next.order = h.msg.order,
           h.pc \in {"lookup", "work", "publish"} =>
              work[v][i].pc \in {"lookup", "work", "publish"}
    PROVE  OneToken'
<1>1. /\ work'[v][i] = h
      /\ \A w \in Worker : \A j \in Slots[w] : w # v \/ j # i => work'[w][j] = work[w][j]
  BY SetKeeps DEF RuntimeInv
<1>2. ASSUME NEW w \in Worker, NEW j \in Slots[w]
      PROVE  /\ work'[w][j].pc # "idle" => work'[w][j].open
             /\ work'[w][j].pc = "publish" => work'[w][j].next.order = work'[w][j].msg.order
  BY <1>1 DEF OneToken
<1>3. ASSUME NEW o, NEW w \in Worker, NEW j \in Slots[w], Active(w, j, o)'
      PROVE  Active(w, j, o)
  BY <1>1, <1>3 DEF Active
<1> QED BY <1>2, <1>3 DEF OneToken

LEMMA TokenDelivered ==
    ASSUME RuntimeInv, OneToken, NEW v \in Worker, NEW i \in Slots[v], Deliver(v, i)
    PROVE  OneToken' /\ work'[v][i].pc = "lookup"
<1>0. WorkOK /\ BrokerTypeOK /\ \A m \in Msg : broker[m] \in Nat
  BY DEF RuntimeInv, TypeOK, BrokerTypeOK
<1>1. PICK m \in Msg : /\ m.to = v /\ Take(m)
                       /\ Set(v, i, [Idle EXCEPT !.pc = "lookup", !.msg = m, !.open = TRUE])
  BY DEF Deliver
<1> DEFINE h == [Idle EXCEPT !.pc = "lookup", !.msg = m, !.open = TRUE]
<1>2. h.pc = "lookup" /\ h.msg = m /\ h.open /\ HandlerOK(v, h)
  BY <1>1 DEF Idle, HandlerOK, Handler, HandlerPc
<1>3. /\ work'[v][i] = h
      /\ \A w \in Worker : \A j \in Slots[w] : w # v \/ j # i => work'[w][j] = work[w][j]
  BY <1>0, <1>1, <1>2, SetKeeps
<1> HIDE DEF h
<1>4. /\ broker[m] > 0 /\ broker'[m] = 0
      /\ \A n \in Msg : broker'[n] \in Nat /\ (n # m => broker'[n] = broker[n])
  <2>1. broker[m] = 1
    BY <1>0, <1>1, TakeKeeps DEF OneToken
  <2>2. broker'[m] = broker[m] - 1
    BY <1>0, <1>1 DEF Take, BrokerTypeOK
  <2> QED BY <1>0, <1>1, <2>1, <2>2, TakeKeeps DEF BrokerTypeOK
<1>5. \A n \in Msg : broker'[n] > 0 => n # m /\ broker[n] > 0 /\ n.order # m.order
  <2>1. ASSUME NEW n \in Msg, broker'[n] > 0 PROVE n # m /\ broker[n] > 0
    BY <1>4, <2>1
  <2> QED BY <1>4, <2>1 DEF OneToken
<1>6. \A w \in Worker : \A j \in Slots[w] : ~Active(w, j, m.order)
  BY <1>4 DEF OneToken
<1>7. \A o : \A w \in Worker : \A j \in Slots[w] :
         Active(w, j, o)' => Active(w, j, o) \/ (w = v /\ j = i /\ o = m.order)
  BY <1>2, <1>3 DEF Active
<1>8. /\ \A w \in Worker : \A j \in Slots[w] : work'[w][j].pc # "idle" => work'[w][j].open
      /\ \A w \in Worker : \A j \in Slots[w] :
            work'[w][j].pc = "publish" => work'[w][j].next.order = work'[w][j].msg.order
  BY <1>2, <1>3 DEF OneToken
<1>9. \A n \in Msg : broker'[n] <= 1
  BY <1>4 DEF OneToken
<1>10. \A n, q \in Msg : broker'[n] > 0 /\ broker'[q] > 0 /\ n.order = q.order => n = q
  BY <1>5 DEF OneToken
<1>11. \A n \in Msg : \A w \in Worker : \A j \in Slots[w] :
          broker'[n] > 0 => ~Active(w, j, n.order)'
  BY <1>5, <1>7 DEF OneToken
<1>12. \A o \in Orders : \A u, w \in Worker : \A k \in Slots[u], j \in Slots[w] :
          Active(u, k, o)' /\ Active(w, j, o)' => u = w /\ k = j
  BY <1>6, <1>7 DEF OneToken
<1> QED BY <1>2, <1>3, <1>8, <1>9, <1>10, <1>11, <1>12 DEF OneToken

LEMMA TokenPublished ==
    ASSUME RuntimeInv, OneToken, NEW v \in Worker, NEW i \in Slots[v], Publish(v, i)
    PROVE  OneToken' /\ work'[v][i].pc = "confirm"
<1> DEFINE g == work[v][i]
<1>0. /\ WorkOK /\ BrokerTypeOK /\ \A n \in Msg : broker[n] \in Nat
      /\ HandlerOK(v, g) /\ g \in Handler /\ g.pc = "publish" /\ g.open
      /\ g.next.order = g.msg.order
  BY DEF RuntimeInv, TypeOK, BrokerTypeOK, WorkOK, HandlerOK, Publish, At, OneToken
<1> PICK m \in Msg : m = g.next
  BY <1>0 DEF HandlerOK
<1>1. Put(m) /\ Set(v, i, [g EXCEPT !.pc = "confirm"]) /\ m.order = g.msg.order
  BY <1>0 DEF Publish
<1> DEFINE h == [g EXCEPT !.pc = "confirm"]
<1>2. h.pc = "confirm" /\ h.open /\ HandlerOK(v, h)
  BY <1>0 DEF HandlerOK, Handler, HandlerPc
<1>3. /\ work'[v][i].pc = "confirm" /\ work'[v][i].open
      /\ \A w \in Worker : \A j \in Slots[w] : w # v \/ j # i => work'[w][j] = work[w][j]
  <2>1. Set(v, i, h)
    BY <1>1
  <2> HIDE DEF h
  <2> QED BY <1>0, <1>2, <2>1, SetKeeps
<1>4. Active(v, i, m.order)
  BY <1>0, <1>1 DEF Active
<1>5. \A n \in Msg : n.order = m.order => broker[n] = 0
  <2>1. \A n \in Msg : n.order = m.order => ~(broker[n] > 0)
    BY <1>4 DEF OneToken
  <2> QED BY <1>0, <2>1
<1>6. broker'[m] = 1 /\ \A n \in Msg : n # m => broker'[n] = broker[n]
  BY <1>0, <1>1, <1>5 DEF Put, BrokerTypeOK
<1>7. \A o \in Orders : \A w \in Worker : \A j \in Slots[w] :
         Active(w, j, o)' => Active(w, j, o) /\ o # m.order
  <2> SUFFICES ASSUME NEW o \in Orders, NEW w \in Worker, NEW j \in Slots[w], Active(w, j, o)'
               PROVE  Active(w, j, o) /\ o # m.order
    OBVIOUS
  <2>1. w # v \/ j # i
    BY <1>3 DEF Active
  <2>2. Active(w, j, o)
    BY <1>3, <2>1 DEF Active
  <2> QED BY <1>4, <2>1, <2>2 DEF OneToken
<1>8. /\ \A w \in Worker : \A j \in Slots[w] : work'[w][j].pc # "idle" => work'[w][j].open
      /\ \A w \in Worker : \A j \in Slots[w] :
            work'[w][j].pc = "publish" => work'[w][j].next.order = work'[w][j].msg.order
  BY <1>3 DEF OneToken
<1>9. \A n \in Msg : broker'[n] <= 1
  BY <1>6 DEF OneToken
<1>10. ASSUME NEW n \in Msg, broker'[n] > 0 PROVE n = m \/ (broker[n] > 0 /\ n.order # m.order)
  BY <1>5, <1>6, <1>10
<1>11. \A n, q \in Msg : broker'[n] > 0 /\ broker'[q] > 0 /\ n.order = q.order => n = q
  BY <1>10 DEF OneToken
<1>12. \A n \in Msg : \A w \in Worker : \A j \in Slots[w] :
          broker'[n] > 0 => ~Active(w, j, n.order)'
  BY <1>7, <1>10 DEF OneToken, Msg
<1>13. \A o \in Orders : \A u, w \in Worker : \A k \in Slots[u], j \in Slots[w] :
          Active(u, k, o)' /\ Active(w, j, o)' => u = w /\ k = j
  BY <1>7 DEF OneToken
<1> QED BY <1>3, <1>8, <1>9, <1>11, <1>12, <1>13 DEF OneToken

\* A step of a handler while nothing is disturbed.
LEMMA HandleQuiet ==
    ASSUME RuntimeInv, OneToken, NoWorkLeft, NEW v \in Worker, NEW i \in Slots[v], Handle(v, i)
    PROVE  /\ OneToken' /\ NoWorkLeft'
           /\ \A o \in Orders : status[o] = "COMPLETED" => status'[o] = "COMPLETED"
<1> DEFINE g == work[v][i]
<1>0. /\ WorkOK /\ HandlerOK(v, g) /\ g \in Handler /\ status \in [Orders -> OrderStatus]
      /\ g.pc # "idle" => g.open /\ OrderOf(v, i) \in Orders
  BY DEF RuntimeInv, TypeOK, WorkOK, HandlerOK, OneToken, OrderOf, Msg
<1> DEFINE Goal(h) ==
        /\ HandlerOK(v, h) /\ Set(v, i, h) /\ broker' = broker
        /\ h.pc # "idle" => h.open /\ h.msg = g.msg
        /\ h.pc = "publish" => h.next.order = h.msg.order
        /\ h.pc \in {"lookup", "work", "publish"} => g.pc \in {"lookup", "work", "publish"}
<1>1. ASSUME NEW h, Goal(h) PROVE OneToken' /\ work'[v][i] = h
  BY <1>0, <1>1, TokenStays, SetKeeps
<1>2. ASSUME status' = status, work'[v][i].pc # "work" PROVE NoWorkLeft'
  <2>1. \A w \in Worker : \A j \in Slots[w] : w # v \/ j # i => work'[w][j] = work[w][j]
    BY <1>0, HandleTypes, SetKeeps
  <2> QED BY <1>2, <2>1 DEF NoWorkLeft
<1>3. CASE Deliver(v, i)
  <2>1. OneToken' /\ work'[v][i].pc # "work" /\ status' = status
    BY <1>3, TokenDelivered DEF Deliver
  <2> QED BY <1>2, <2>1
<1>4. CASE Publish(v, i)
  <2>1. OneToken' /\ work'[v][i].pc # "work" /\ status' = status
    BY <1>4, TokenPublished DEF Publish
  <2> QED BY <1>2, <2>1
<1>5. CASE Lookup(v, i)
  <2> DEFINE pc == IF status[OrderOf(v, i)] = Expected[v] THEN "work"
                   ELSE IF v = "deploy" THEN "lastAck" ELSE "ack"
  <2>1. /\ g.pc = "lookup" /\ Set(v, i, [g EXCEPT !.pc = pc])
        /\ broker' = broker /\ status' = status
    BY <1>5 DEF Lookup, At
  <2>2. pc \in {"work", "lastAck", "ack"} /\ (pc = "work" => status[OrderOf(v, i)] # "COMPLETED")
    BY DEF Expected, Worker
  <2> HIDE DEF pc
  <2> DEFINE h == [g EXCEPT !.pc = pc]
  <2>3. h.pc = pc /\ h.open = g.open /\ h.msg = g.msg /\ HandlerOK(v, h)
    BY <1>0, <2>1, <2>2 DEF HandlerOK, Handler, HandlerPc
  <2>4. Set(v, i, h)
    BY <2>1
  <2> HIDE DEF h
  <2>5. OneToken' /\ work'[v][i] = h
    <3>1. Goal(h)
      BY <1>0, <2>1, <2>2, <2>3, <2>4
    <3> QED BY <1>1, <3>1
  <2>6. \A w \in Worker : \A j \in Slots[w] : w # v \/ j # i => work'[w][j] = work[w][j]
    BY <1>0, <2>3, <2>4, SetKeeps
  <2>7. NoWorkLeft'
    <3> SUFFICES ASSUME NEW o \in Orders, NEW w \in Worker, NEW j \in Slots[w],
                        status'[o] = "COMPLETED", work'[w][j].pc = "work",
                        work'[w][j].msg.order = o
                 PROVE  FALSE
      BY DEF NoWorkLeft
    <3>1. CASE w # v \/ j # i
      BY <2>1, <2>6, <3>1 DEF NoWorkLeft
    <3>2. CASE w = v /\ j = i
      BY <2>1, <2>2, <2>3, <2>5, <3>2 DEF OrderOf
    <3> QED BY <3>1, <3>2
  <2> QED BY <2>1, <2>5, <2>7
<1>6. CASE Confirm(v, i)
  <2> DEFINE h == [g EXCEPT !.pc = g.then, !.next = NoMsg]
  <2>1. g.pc = "confirm" /\ Set(v, i, h) /\ broker' = broker /\ status' = status
    BY <1>6 DEF Confirm, At
  <2>2. h.pc \in {"ack", "lastAck"} /\ h.open = g.open /\ h.msg = g.msg /\ HandlerOK(v, h)
    BY <1>0, <2>1 DEF HandlerOK, Handler, HandlerPc
  <2> HIDE DEF h
  <2>3. Goal(h)
    BY <1>0, <2>1, <2>2
  <2>4. OneToken' /\ work'[v][i].pc # "work"
    BY <1>1, <2>2, <2>3
  <2> QED BY <1>2, <2>1, <2>4
<1>7. CASE Ack(v, i)
  <2>1. Set(v, i, Idle) /\ broker' = broker /\ status' = status /\ HandlerOK(v, Idle)
    BY <1>7, IdleOK DEF Ack
  <2>2. Goal(Idle)
    BY <2>1 DEF Idle
  <2>3. OneToken' /\ work'[v][i].pc # "work"
    BY <1>1, <2>2 DEF Idle
  <2> QED BY <1>2, <2>1, <2>3
<1>8. CASE AckThrows(v, i)
  BY <1>0, <1>8 DEF AckThrows, At
<1>9. CASE Fails(v, i) \/ (v = "deploy" /\ Deploys(i)) \/ (v = "settle" /\ Settles(i))
  <2> DEFINE o == OrderOf(v, i)
  <2>1. g.pc = "work" /\ broker' = broker
    BY <1>9 DEF Fails, Deploys, Settles, At
  <2>2. PICK h : /\ HandlerOK(v, h) /\ Set(v, i, h) /\ h.msg = g.msg /\ h.open = g.open
                 /\ h.pc \in {"publish", "ack", "lastAck"}
                 /\ h.pc = "publish" => h.next.order = o
                 /\ status' = status \/ \E st \in OrderStatus : status' = [status EXCEPT ![o] = st]
    <3>1. CASE Fails(v, i)
      <4>1. PICK pc \in {"ack", "lastAck"} : Schedule(v, i, pc)
        BY <3>1 DEF Fails
      <4>2. g.pc # "idle"
        BY <2>1
      <4>3. \E h : /\ HandlerOK(v, h) /\ Set(v, i, h) /\ h.msg = g.msg /\ h.open = g.open
                   /\ h.pc \in {"publish", "ack", "lastAck"}
                   /\ h.pc = "publish" => h.next.order = OrderOf(v, i)
                   /\ \/ status' = status
                      \/ status' = [status EXCEPT ![OrderOf(v, i)] = "FAILED"]
        BY <1>0, <4>1, <4>2, ScheduleEffect
      <4> QED BY <4>3 DEF OrderStatus
    <3>2. CASE v = "deploy" /\ Deploys(i)
      <4>1. /\ status' = [status EXCEPT ![o] = "DEPLOYED"]
            /\ \E pc \in {"ack", "lastAck"} : ThenPublish(v, i, Job(o, "settle"), pc)
        BY <3>2 DEF Deploys, SetStatus
      <4>2. /\ Job(o, "settle") \in Msg /\ Job(o, "settle") # NoMsg
            /\ Job(o, "settle").order = o /\ g.pc # "idle"
        BY <1>0, <2>1, Messages, RuntimeAssumption DEF Worker, Job
      <4>3. \E h : /\ HandlerOK(v, h) /\ Set(v, i, h) /\ h.msg = g.msg /\ h.open = g.open
                   /\ h.pc = "publish" /\ h.next = Job(o, "settle")
        BY <1>0, <4>1, <4>2, ThenPublishEffect
      <4> QED BY <4>1, <4>2, <4>3 DEF OrderStatus
    <3>3. CASE v = "settle" /\ Settles(i)
      <4>1. /\ status' = [status EXCEPT ![o] = "COMPLETED"] /\ ThenPublish(v, i, NoMsg, "ack")
            /\ g.pc # "idle"
        BY <2>1, <3>3 DEF Settles, SetStatus
      <4>2. \E h : /\ HandlerOK(v, h) /\ Set(v, i, h) /\ h.msg = g.msg /\ h.open = g.open
                   /\ h.pc = "ack"
        BY <1>0, <4>1, ThenPublishEffect
      <4> QED BY <4>1, <4>2 DEF OrderStatus
    <3> QED BY <1>9, <3>1, <3>2, <3>3
  <2>3. g.msg.order = o /\ h.msg.order = o
    BY <2>2 DEF OrderOf
  <2>4. Goal(h)
    BY <1>0, <2>1, <2>2, <2>3
  <2>5. OneToken' /\ work'[v][i] = h
    BY <1>1, <2>4
  <2>6. \A w \in Worker : \A j \in Slots[w] : w # v \/ j # i => work'[w][j] = work[w][j]
    BY <1>0, <2>2, SetKeeps
  <2>7. ASSUME NEW w \in Worker, NEW j \in Slots[w], work'[w][j].pc = "work"
        PROVE  work[w][j].pc = "work" /\ work'[w][j] = work[w][j] /\ work[w][j].msg.order # o
    <3>1. w # v \/ j # i
      BY <2>2, <2>5, <2>7
    <3>2. work'[w][j] = work[w][j] /\ work[w][j].pc = "work"
      BY <2>6, <2>7, <3>1
    <3>3. Active(v, i, o) /\ o \in Orders
      BY <1>0, <2>1, <2>3 DEF Active
    <3>4. work[w][j].msg.order = o => Active(w, j, o)
      BY <3>2 DEF Active
    <3> QED BY <3>1, <3>2, <3>3, <3>4 DEF OneToken
  <2>8. status[o] # "COMPLETED"
    BY <1>0, <2>1, <2>3 DEF NoWorkLeft
  <2>9. \A p \in Orders : p # o => status'[p] = status[p]
    BY <1>0, <2>2
  <2> HIDE DEF Goal
  <2>10. NoWorkLeft'
    BY <2>7, <2>9 DEF NoWorkLeft
  <2>11. \A p \in Orders : status[p] = "COMPLETED" => status'[p] = "COMPLETED"
    BY <2>8, <2>9
  <2> QED BY <2>5, <2>10, <2>11
<1> QED BY <1>3, <1>4, <1>5, <1>6, <1>7, <1>8, <1>9 DEF Handle

CompletedKept ==
    \A o \in Orders :
        status[o] = "COMPLETED" /\ disturbed = 0 => status'[o] = "COMPLETED"

\* Messages of an order with a token are as many after time has passed.
LEMMA TickTokens == RuntimeInv /\ OneToken /\ Tick => OneToken'
<1> SUFFICES ASSUME RuntimeInv, OneToken, Tick PROVE OneToken'
  OBVIOUS
<1> DEFINE Older(m) == [m EXCEPT !.left = @ + 1]
<1>0. /\ work' = work /\ \A m \in Msg : broker[m] \in Nat /\ broker'[m] \in Nat
      /\ \A m \in Msg : broker'[m] = (IF m.left < MaxTtl THEN broker[Older(m)] ELSE 0)
                                       + (IF m.left = 0 THEN broker[m] ELSE 0)
  <2>1. BrokerTypeOK /\ TtlsPass /\ work' = work
    BY DEF RuntimeInv, TypeOK, Tick, handlers
  <2>2. \A m \in Msg : broker[m] \in Nat /\ broker'[m] \in Nat
    BY <2>1, TtlsPassKeeps DEF BrokerTypeOK
  <2>3. \A m \in Msg : broker'[m] = (IF m.left < MaxTtl THEN broker[Older(m)] ELSE 0)
                                       + (IF m.left = 0 THEN broker[m] ELSE 0)
    BY <2>1, Zenon DEF TtlsPass
  <2> QED BY <2>1, <2>2, <2>3
<1>1. ASSUME NEW m \in Msg
      PROVE  /\ m.left \in 0..MaxTtl /\ MaxTtl \in Nat
             /\ m.left < MaxTtl => /\ Older(m) \in Msg /\ Older(m).order = m.order
                                   /\ Older(m).left = m.left + 1
                                   /\ Older(m).to = m.to /\ Older(m).attempt = m.attempt
  <2>1. m.left \in 0..MaxTtl /\ MaxTtl \in Nat
    BY TierAssumption DEF Msg
  <2>2. m.left < MaxTtl => m.left + 1 \in 0..MaxTtl
    BY <2>1
  <2> QED BY <2>1, <2>2 DEF Msg
<1>2. ASSUME NEW m \in Msg, NEW n \in Msg, m.order = n.order, m.to = n.to,
             m.attempt = n.attempt, m.left = n.left
      PROVE  m = n
  <2>1. m = [order |-> m.order, to |-> m.to, attempt |-> m.attempt, left |-> m.left]
    BY DEF Msg
  <2>2. n = [order |-> n.order, to |-> n.to, attempt |-> n.attempt, left |-> n.left]
    BY DEF Msg
  <2> HIDE DEF Older
  <2>3. [order |-> m.order, to |-> m.to, attempt |-> m.attempt, left |-> m.left]
          = [order |-> n.order, to |-> n.to, attempt |-> n.attempt, left |-> n.left]
    BY <1>2
  <2> QED BY <2>1, <2>2, <2>3
<1> HIDE DEF Older
\* Where a message comes from.
<1> DEFINE From(m, k) == /\ k \in Msg /\ broker[k] > 0 /\ k.order = m.order
                         /\ k.to = m.to /\ k.attempt = m.attempt
                         /\ m.left = (IF k.left = 0 THEN 0 ELSE k.left - 1)
<1>3. ASSUME NEW m \in Msg, broker'[m] > 0
      PROVE  broker'[m] = 1 /\ \E k \in Msg : From(m, k)
  <2>1. CASE m.left < MaxTtl /\ broker[Older(m)] > 0
    <3>1. broker[Older(m)] = 1 /\ From(m, Older(m)) /\ Older(m) \in Msg /\ Older(m) # m
      BY <1>0, <1>1, <2>1 DEF OneToken
    <3>2. broker[m] = 0
      <4>1. ~(broker[m] > 0)
        BY <1>1, <2>1, <3>1 DEF OneToken
      <4> QED BY <1>0, <4>1
    <3>3. broker'[m] = 1
      BY <1>0, <2>1, <3>1, <3>2
    <3> QED BY <3>1, <3>3
  <2>2. CASE ~(m.left < MaxTtl /\ broker[Older(m)] > 0)
    <3>1. (IF m.left < MaxTtl THEN broker[Older(m)] ELSE 0) = 0
      BY <1>0, <1>1, <2>2
    <3>2. m.left = 0 /\ broker'[m] = broker[m] /\ broker[m] > 0
      BY <1>0, <1>3, <3>1
    <3>3. broker[m] = 1 /\ From(m, m)
      BY <1>0, <3>2 DEF OneToken
    <3> QED BY <3>2, <3>3
  <2> QED BY <2>1, <2>2
<1>4. ASSUME NEW m \in Msg, NEW n \in Msg, broker'[m] > 0, broker'[n] > 0, m.order = n.order
      PROVE  m = n
  <2>1. PICK k \in Msg : From(m, k)
    BY <1>3, <1>4
  <2>2. PICK q \in Msg : From(n, q)
    BY <1>3, <1>4
  <2>3. k = q
    BY <1>4, <2>1, <2>2 DEF OneToken
  <2> QED BY <1>2, <1>4, <2>1, <2>2, <2>3
<1>5. ASSUME NEW m \in Msg, NEW w \in Worker, NEW i \in Slots[w], broker'[m] > 0
      PROVE  ~Active(w, i, m.order)'
  <2>1. PICK k \in Msg : From(m, k)
    BY <1>3, <1>5
  <2>2. ~Active(w, i, m.order)
    BY <2>1 DEF OneToken
  <2> QED BY <1>0, <2>2 DEF Active
<1>6. \A m \in Msg : broker'[m] <= 1
  <2> SUFFICES ASSUME NEW m \in Msg PROVE broker'[m] <= 1
    OBVIOUS
  <2>1. CASE broker'[m] > 0
    BY <1>3, <2>1
  <2>2. CASE ~(broker'[m] > 0)
    BY <1>0, <2>2
  <2> QED BY <2>1, <2>2
<1> HIDE DEF From
<1> QED BY <1>0, <1>4, <1>5, <1>6 DEF OneToken, Active

LEMMA QuietStep == RuntimeInv /\ QuietInv /\ [Next]_vars => QuietInv' /\ CompletedKept
<1> SUFFICES ASSUME RuntimeInv, QuietInv, [Next]_vars PROVE QuietInv' /\ CompletedKept
  OBVIOUS
<1> DEFINE Goal == QuietInv' /\ CompletedKept
<1>0. disturbed \in Nat
  BY RuntimeAssumption DEF RuntimeInv, TypeOK
<1>1. ASSUME NEW w \in Worker, NEW i \in Slots[w], Handle(w, i) PROVE Goal
  <2>1. disturbed' = disturbed
    BY <1>1, HandleTypes
  <2> QED BY <1>1, <2>1, HandleQuiet DEF QuietInv, CompletedKept
<1>2. ASSUME Disturb, status' = status PROVE Goal
  <2>1. disturbed' # 0
    BY <1>0, <1>2 DEF Disturb
  <2> QED BY <1>2, <2>1 DEF QuietInv, CompletedKept
<1>3. ASSUME UNCHANGED <<broker, status, work, disturbed>> PROVE Goal
  BY <1>3 DEF QuietInv, OneToken, NoWorkLeft, Active, CompletedKept
<1>4. ASSUME NEW w \in Worker, Disconnect(w) \/ Crash(w) PROVE Goal
  BY <1>2, <1>4 DEF Disconnect, Crash, Dies
<1>5. ASSUME NEW w \in Worker, Exit(w) PROVE Goal
  <2>1. ~OneToken
    BY <1>5 DEF Exit, At, OneToken
  <2>2. disturbed' = disturbed
    BY <1>5 DEF Exit
  <2> QED BY <2>1, <2>2 DEF QuietInv, CompletedKept
<1>6. ASSUME NEW w \in Worker, Reconnect(w) \/ Restart(w) \/ Housekeeping(w) PROVE Goal
  BY <1>3, <1>6 DEF Reconnect, Restart, Housekeeping, handlers
<1>7. ASSUME RedisOutage \/ RedisBack \/ UNCHANGED vars PROVE Goal
  <2>1. CASE RedisOutage
    BY <1>2, <2>1 DEF RedisOutage, handlers
  <2>2. CASE RedisBack \/ UNCHANGED vars
    BY <1>3, <2>2 DEF RedisBack, handlers, vars
  <2> QED BY <1>7, <2>1, <2>2
<1>8. ASSUME Tick PROVE Goal
  <2>1. status' = status /\ work' = work /\ disturbed' = disturbed
    BY <1>8 DEF Tick, handlers
  <2>2. OneToken => OneToken'
    BY <1>8, TickTokens
  <2> QED BY <2>1, <2>2 DEF QuietInv, NoWorkLeft, CompletedKept
<1> QED BY <1>1, <1>4, <1>5, <1>6, <1>7, <1>8 DEF Next

LEMMA QuietStart == Init => QuietInv
<1> SUFFICES ASSUME Init PROVE OneToken /\ NoWorkLeft
  BY DEF QuietInv
<1>1. \A w \in Worker : \A i \in Slots[w] : work[w][i].pc = "idle"
  BY DEF Init, Idle
<1>2. \A m \in Msg : /\ broker[m] \in {0, 1}
                     /\ broker[m] > 0 => m = Job(m.order, "deploy")
  BY DEF Init, Job
<1> QED BY <1>1, <1>2 DEF OneToken, NoWorkLeft, Active

\* As long as no connection and no process was lost, no handler takes a COMPLETED
\* order back, whatever fails, however long the retries take and however many
\* handlers run: there is one token for every order.
THEOREM CompletedIsFinal == Spec => CompletedStays
<1>1. Init => RuntimeInv /\ MonitoringInv /\ QuietInv
  BY TypesStart, MonitoringStarts, QuietStart DEF Init
<1>2. RuntimeInv /\ MonitoringInv /\ QuietInv /\ [Next]_vars
        => (RuntimeInv /\ MonitoringInv /\ QuietInv)' /\ [CompletedKept]_vars
  BY TypesStep, QuietStep
<1> QED BY <1>1, <1>2, PTL DEF Spec, CompletedStays, CompletedKept

-----------------------------------------------------------------------------
(* No order fails early                                                    *)

\* Given[k]: the delays that the k-th attempt has waited for, in the tiers that the
\* code takes.
Given[k \in 0..MaxAttempts] ==
    IF k = 0 THEN 0 ELSE Given[k - 1] + RetryTtl[RetryIndex(k) + 1]

Aged(o, ticks) == age[o] >= ticks \/ age[o] = MaxAge

\* The message has waited for the delays before its attempt, but for what is left.
Timely(m) == Aged(m.order, Given[m.attempt] - m.left)

\* What a handler has taken has waited, and so will what it publishes have.
HandlerAged(h) ==
    /\ h.pc # "idle" => Aged(h.msg.order, Given[h.msg.attempt])
    /\ h.pc \in {"publish", "confirm"} => Timely(h.next)

AgeInv ==
    /\ \A m \in Msg : broker[m] > 0 => Timely(m)
    /\ \A w \in Worker : \A i \in Slots[w] : HandlerAged(work[w][i])
    /\ \A o \in Orders : status[o] = "FAILED" => Aged(o, Given[MaxAttempts])

\* Induction on the naturals, as descent: a set of naturals with no least element
\* is empty.
LEMMA Descent ==
    ASSUME NEW Bad \in SUBSET Nat, \A n \in Bad : \E k \in Bad : k < n
    PROVE  Bad = {}
<1> DEFINE Segments == {1 .. n : n \in Bad}
           R == StrictSubsetOrdering(Nat)
           F == FiniteSubsetsOf(Nat)
<1>0. \A n \in Nat : 1 .. n \in SUBSET Nat
  OBVIOUS
<1>1. IsWellFoundedOn(R, F)
  BY FS_StrictSubsetOrderingWellFounded
<1>2. Segments \subseteq F
  <2>1. \A n \in Bad : 1 .. n \in SUBSET Nat /\ IsFiniteSet(1 .. n)
    BY FS_Interval
  <2> QED BY <2>1 DEF FiniteSubsetsOf
<1> SUFFICES ASSUME Bad # {} PROVE FALSE
  OBVIOUS
<1>3. PICK x \in Segments : \A y \in Segments : ~(<<y, x>> \in R)
  <2>1. Segments # {}
    OBVIOUS
  <2> HIDE DEF Segments, R, F
  <2> QED BY <1>1, <1>2, <2>1, WFMin
<1>4. PICK n \in Bad : x = 1 .. n
  BY <1>3
<1>5. PICK k \in Bad : k < n
  OBVIOUS
<1>6. 1 .. k \subseteq 1 .. n /\ 1 .. k # 1 .. n
  <2>1. n \in 1 .. n /\ n \notin 1 .. k
    BY <1>5
  <2> QED BY <1>5, <2>1
<1>7. <<1 .. k, 1 .. n>> \in R
  <2> DEFINE s == 1 .. k
             t == 1 .. n
  <2>1. s \in SUBSET Nat /\ t \in SUBSET Nat /\ s \subseteq t /\ s # t
    BY <1>0, <1>6, Zenon
  <2> HIDE DEF Segments, F, s, t
  <2>2. <<s, t>> \in R
    BY <2>1 DEF StrictSubsetOrdering
  <2> QED BY <2>2 DEF s, t
<1>8. 1 .. k \in Segments
  OBVIOUS
<1> QED BY <1>3, <1>4, <1>7, <1>8

\* A function that sums the first values of d exists: the definitions of
\* Documented and Given are not empty.
LEMMA SumExists ==
    ASSUME NEW n \in Nat, NEW d
    PROVE  \E f : f = [k \in 0..n |-> IF k = 0 THEN 0 ELSE f[k - 1] + d[k]]
<1> DEFINE Good(m) == \E f : f = [k \in 0..m |-> IF k = 0 THEN 0 ELSE f[k - 1] + d[k]]
           Bad == {m \in Nat : ~Good(m)}
<1>1. ASSUME NEW m \in Bad PROVE m # 0 /\ m - 1 \in Bad
  <2>1. Good(0)
    <3>1. [k \in 0..0 |-> 0]
            = [k \in 0..0 |-> IF k = 0 THEN 0 ELSE [j \in 0..0 |-> 0][k - 1] + d[k]]
      OBVIOUS
    <3> QED BY <3>1
  <2>2. m \in Nat /\ m # 0
    BY <1>1, <2>1
  <2>3. ASSUME Good(m - 1) PROVE Good(m)
    <3>1. PICK f : f = [k \in 0..(m - 1) |-> IF k = 0 THEN 0 ELSE f[k - 1] + d[k]]
      BY <2>3
    <3> DEFINE g == [k \in 0..m |-> IF k = m THEN f[m - 1] + d[m] ELSE f[k]]
    <3>2. \A k \in 0..m : g[k] = IF k = 0 THEN 0 ELSE g[k - 1] + d[k]
      <4> TAKE k \in 0..m
      <4>1. CASE k = m
        BY <2>2, <4>1
      <4>2. CASE k # m
        <5>1. k \in 0..(m - 1) /\ (k # 0 => k - 1 \in 0..m /\ k - 1 # m)
          BY <2>2, <4>2
        <5>2. f[k] = IF k = 0 THEN 0 ELSE f[k - 1] + d[k]
          BY <3>1, <5>1
        <5> QED BY <4>2, <5>1, <5>2
      <4> QED BY <4>1, <4>2
    <3>3. g = [k \in 0..m |-> IF k = 0 THEN 0 ELSE g[k - 1] + d[k]]
      BY <3>2
    <3> HIDE DEF g
    <3> QED BY <3>3
  <2> HIDE DEF Good
  <2> QED BY <1>1, <2>2, <2>3
<1>2. Bad = {}
  <2> HIDE DEF Good
  <2>1. ASSUME NEW m \in Bad PROVE \E k \in Bad : k < m
    <3>1. m \in Nat /\ m # 0 /\ m - 1 \in Bad
      BY <1>1
    <3> QED BY <3>1
  <2>2. Bad \in SUBSET Nat
    OBVIOUS
  <2> HIDE DEF Bad
  <2> QED BY <2>1, <2>2, Descent
<1> HIDE DEF Good
<1>3. Good(n)
  BY <1>2
<1> QED BY <1>3 DEF Good

\* Sums of naturals are naturals.
LEMMA SumType ==
    ASSUME NEW n \in Nat, NEW d, \A k \in 1..n : d[k] \in Nat,
           NEW f, f = [k \in 0..n |-> IF k = 0 THEN 0 ELSE f[k - 1] + d[k]]
    PROVE  \A k \in 0..n : f[k] \in Nat
<1> DEFINE Bad == {k \in 0..n : f[k] \notin Nat}
<1>1. ASSUME NEW k \in Bad PROVE k - 1 \in Bad /\ k - 1 < k
  <2>1. k \in 0..n /\ f[k] \notin Nat
    OBVIOUS
  <2>2. k # 0
    BY <2>1
  <2>3. f[k] = f[k - 1] + d[k] /\ d[k] \in Nat /\ k - 1 \in 0..n
    BY <2>1, <2>2
  <2>4. f[k - 1] \notin Nat
    BY <2>1, <2>3
  <2> QED BY <2>1, <2>3, <2>4
<1>2. Bad \in SUBSET Nat
  OBVIOUS
<1>3. Bad = {}
  <2> HIDE DEF Bad
  <2> QED BY <1>1, <1>2, Descent
<1> QED BY <1>3

\* Tiers and indices of attempts.
LEMMA Tiers ==
    /\ Len(RetryTtl) \in Nat \ {0} /\ MaxAttempts \in Nat \ {0}
    /\ \A k \in 1..Len(RetryTtl) : RetryTtl[k] \in Nat
    /\ \A k \in 1..MaxAttempts :
          /\ RetryIndex(k) + 1 = IF k < Len(RetryTtl) THEN k + 1 ELSE Len(RetryTtl)
          /\ RetryTtl[RetryIndex(k) + 1] \in Nat
<1> DEFINE n == Len(RetryTtl)
<1>1. n \in Nat \ {0} /\ MaxAttempts \in Nat \ {0} /\ \A k \in 1..n : RetryTtl[k] \in Nat
  BY TierAssumption
<1> HIDE DEF n
<1>2. ASSUME NEW k \in 1..MaxAttempts PROVE RetryIndex(k) + 1 = IF k < n THEN k + 1 ELSE n
  <2>1. k \in Int /\ n - 1 \in Int
    BY <1>1
  <2>2. /\ Min({k, n - 1}) \in {k, n - 1}
        /\ Min({k, n - 1}) <= k /\ Min({k, n - 1}) <= n - 1
    BY <2>1, MinPair
  <2>3. RetryIndex(k) = Min({k, n - 1})
    BY DEF RetryIndex, n
  <2> QED BY <1>1, <2>1, <2>2, <2>3
<1>3. ASSUME NEW k \in 1..MaxAttempts PROVE RetryIndex(k) + 1 \in 1..n
  BY <1>1, <1>2
<1> QED BY <1>1, <1>2, <1>3 DEF n

LEMMA DocumentedSums ==
    \A k \in 0..Len(RetryTtl) :
        /\ Documented[k] = IF k = 0 THEN 0 ELSE Documented[k - 1] + RetryTtl[k]
        /\ Documented[k] \in Nat
<1> DEFINE n == Len(RetryTtl)
<1>1. n \in Nat /\ \A k \in 1..n : RetryTtl[k] \in Nat
  BY Tiers
<1>2. \E f : f = [k \in 0..n |-> IF k = 0 THEN 0 ELSE f[k - 1] + RetryTtl[k]]
  <2> HIDE DEF n
  <2> QED BY <1>1, SumExists
<1>3. Documented = [k \in 0..n |-> IF k = 0 THEN 0 ELSE Documented[k - 1] + RetryTtl[k]]
  BY <1>2 DEF Documented
<1> HIDE DEF n
<1>4. \A k \in 0..n : Documented[k] \in Nat
  BY <1>1, <1>3, SumType
<1>5. \A k \in 0..n : Documented[k] = IF k = 0 THEN 0 ELSE Documented[k - 1] + RetryTtl[k]
  BY <1>3
<1> QED BY <1>4, <1>5 DEF n

LEMMA GivenSums ==
    \A k \in 0..MaxAttempts :
        /\ Given[k] = IF k = 0 THEN 0 ELSE Given[k - 1] + RetryTtl[RetryIndex(k) + 1]
        /\ Given[k] \in Nat
<1> DEFINE d == [k \in 1..MaxAttempts |-> RetryTtl[RetryIndex(k) + 1]]
<1>1. MaxAttempts \in Nat /\ \A k \in 1..MaxAttempts : d[k] \in Nat
  BY Tiers
<1>2. PICK f : f = [k \in 0..MaxAttempts |-> IF k = 0 THEN 0 ELSE f[k - 1] + d[k]]
  <2> HIDE DEF d
  <2> QED BY <1>1, SumExists
<1>3. \A k \in 0..MaxAttempts : k # 0 => d[k] = RetryTtl[RetryIndex(k) + 1]
  BY <1>1
<1> HIDE DEF d
<1>4. f = [k \in 0..MaxAttempts |->
              IF k = 0 THEN 0 ELSE f[k - 1] + RetryTtl[RetryIndex(k) + 1]]
  BY <1>2, <1>3
<1>5. Given = [k \in 0..MaxAttempts |->
              IF k = 0 THEN 0 ELSE Given[k - 1] + RetryTtl[RetryIndex(k) + 1]]
  BY <1>4 DEF Given
<1>6. Given = [k \in 0..MaxAttempts |-> IF k = 0 THEN 0 ELSE Given[k - 1] + d[k]]
  BY <1>3, <1>5
<1>7. \A k \in 0..MaxAttempts : Given[k] \in Nat
  BY <1>1, <1>6, SumType
<1>8. \A k \in 0..MaxAttempts :
         Given[k] = IF k = 0 THEN 0 ELSE Given[k - 1] + RetryTtl[RetryIndex(k) + 1]
  BY <1>5
<1> QED BY <1>7, <1>8

\* The tiers get longer, and there are attempts for all of them: as declared in
\* topology.ts and the workers, five tiers of 1s to 10m and five attempts.
Escalating ==
    /\ MaxAttempts >= Len(RetryTtl)
    /\ \A k \in 1..(Len(RetryTtl) - 1) : RetryTtl[k] <= RetryTtl[k + 1]

\* With the code's tiers the attempts wait at least as long as is documented: what
\* the tier that is never taken gives is made up for by the next one, tier by tier,
\* and by the last one in the end.
LEMMA GivenCovers == Escalating => Patience <= Given[MaxAttempts]
<1> SUFFICES ASSUME Escalating PROVE Patience <= Given[MaxAttempts]
  OBVIOUS
<1> DEFINE n == Len(RetryTtl)
<1>1. /\ n \in Nat \ {0} /\ MaxAttempts \in Nat /\ n <= MaxAttempts
      /\ \A k \in 1..n : RetryTtl[k] \in Nat
      /\ \A k \in 1..(n - 1) : RetryTtl[k] <= RetryTtl[k + 1]
      /\ \A k \in 0..n : /\ Documented[k] = IF k = 0 THEN 0 ELSE Documented[k - 1] + RetryTtl[k]
                         /\ Documented[k] \in Nat
  BY Tiers, DocumentedSums DEF Escalating
<1>2. /\ \A k \in 1..MaxAttempts : RetryIndex(k) + 1 = IF k < n THEN k + 1 ELSE n
      /\ \A k \in 1..MaxAttempts : RetryTtl[RetryIndex(k) + 1] \in Nat
      /\ \A k \in 0..MaxAttempts :
            /\ Given[k] = IF k = 0 THEN 0 ELSE Given[k - 1] + RetryTtl[RetryIndex(k) + 1]
            /\ Given[k] \in Nat
  BY Tiers, GivenSums
<1> DEFINE Short == {k \in 0..n : ~(Documented[k] <= Given[k])}
           Falls == {k \in n..MaxAttempts : ~(Documented[n] <= Given[k])}
<1> HIDE DEF n
<1>3. Short = {}
  <2>1. ASSUME NEW k \in Short PROVE k - 1 \in Short /\ k - 1 < k
    <3>1. k \in 0..n /\ k \in 0..MaxAttempts /\ ~(Documented[k] <= Given[k])
      BY <1>1
    <3>2. k # 0
      <4>1. CASE k = 0
        <5>1. Documented[k] = 0 /\ Given[k] = 0
          BY <1>1, <1>2, <3>1, <4>1
        <5> QED BY <3>1, <5>1
      <4> QED BY <4>1
    <3>3. /\ k \in 1..n /\ k \in 1..MaxAttempts /\ k - 1 \in 0..n /\ k - 1 \in 0..MaxAttempts
          /\ k < n => k \in 1..(n - 1)
      BY <1>1, <3>1, <3>2
    <3>4. RetryTtl[k] <= RetryTtl[RetryIndex(k) + 1]
      <4>1. CASE k < n
        BY <1>1, <1>2, <3>3, <4>1
      <4>2. CASE ~(k < n)
        <5>1. RetryIndex(k) + 1 = k
          BY <1>1, <1>2, <3>3, <4>2
        <5>2. RetryTtl[k] \in Nat
          BY <1>1, <3>3
        <5> QED BY <5>1, <5>2
      <4> QED BY <4>1, <4>2
    <3>5. Documented[k] = Documented[k - 1] + RetryTtl[k]
      BY <1>1, <3>1, <3>2
    <3>6. Given[k] = Given[k - 1] + RetryTtl[RetryIndex(k) + 1]
      BY <1>2, <3>1, <3>2
    <3>7. /\ Documented[k - 1] \in Nat /\ Given[k - 1] \in Nat
          /\ RetryTtl[k] \in Nat /\ RetryTtl[RetryIndex(k) + 1] \in Nat
      BY <1>1, <1>2, <3>3
    <3>8. ~(Documented[k - 1] <= Given[k - 1])
      BY <3>1, <3>4, <3>5, <3>6, <3>7
    <3> QED BY <3>3, <3>8
  <2>2. Short \in SUBSET Nat
    BY <1>1
  <2> HIDE DEF Short
  <2> QED BY <2>1, <2>2, Descent
<1>4. Documented[n] <= Given[n]
  BY <1>1, <1>3
<1>5. Falls = {}
  <2>1. ASSUME NEW k \in Falls PROVE k - 1 \in Falls /\ k - 1 < k
    <3>1. k \in n..MaxAttempts /\ ~(Documented[n] <= Given[k])
      OBVIOUS
    <3>2. k # n
      BY <1>4, <3>1
    <3>3. k \in 1..MaxAttempts /\ k \in 0..MaxAttempts /\ k # 0
          /\ k - 1 \in n..MaxAttempts /\ k - 1 \in 0..MaxAttempts
      BY <1>1, <3>1, <3>2
    <3>4. Given[k] = Given[k - 1] + RetryTtl[RetryIndex(k) + 1]
      BY <1>2, <3>3
    <3>5. Given[k - 1] \in Nat /\ RetryTtl[RetryIndex(k) + 1] \in Nat /\ Documented[n] \in Nat
      BY <1>1, <1>2, <3>3
    <3>6. ~(Documented[n] <= Given[k - 1])
      BY <3>1, <3>4, <3>5
    <3> QED BY <3>3, <3>6
  <2>2. Falls \in SUBSET Nat
    BY <1>1
  <2> HIDE DEF Falls
  <2> QED BY <2>1, <2>2, Descent
<1>6. MaxAttempts \in n..MaxAttempts
  BY <1>1
<1> QED BY <1>5, <1>6 DEF Patience, n

\* An order of any age has waited for nothing, and what is due at once is timely.
LEMMA AgedZero ==
    ASSUME RuntimeInv, NEW m \in Msg, m.attempt = 0
    PROVE  Timely(m)
<1>1. age[m.order] \in Nat
  BY RuntimeAssumption DEF RuntimeInv, TypeOK, Msg
<1>2. m.left \in Nat /\ Given[0] = 0
  BY Tiers, GivenSums, TierAssumption DEF Msg
<1> QED BY <1>1, <1>2 DEF Timely, Aged

\* A failed attempt: its retry is timely, and after the last one all the delays
\* have been given.
LEMMA ScheduleAges ==
    ASSUME RuntimeInv, AgeInv, NEW w \in Worker, NEW i \in Slots[w], work[w][i].pc # "idle",
           NEW pc \in {"ack", "lastAck"}, Schedule(w, i, pc)
    PROVE  /\ \E h : HandlerOK(w, h) /\ Set(w, i, h) /\ HandlerAged(h)
           /\ \/ status' = status
              \/ /\ status' = [status EXCEPT ![OrderOf(w, i)] = "FAILED"]
                 /\ Aged(OrderOf(w, i), Given[MaxAttempts])
<1> DEFINE o == OrderOf(w, i)
           last == work[w][i].msg.attempt
           attempt == last + 1
<1>1. /\ WorkOK /\ o \in Orders /\ last \in 0..MaxAttempts /\ MaxAttempts \in Nat
      /\ Aged(o, Given[last])
  BY TierAssumption DEF RuntimeInv, AgeInv, HandlerAged, WorkOK, HandlerOK, Msg, OrderOf
<1>2. ASSUME NEW m \in Msg \cup {NoMsg}, ThenPublish(w, i, m, pc), m # NoMsg => Timely(m)
      PROVE  \E h : HandlerOK(w, h) /\ Set(w, i, h) /\ HandlerAged(h)
  <2>1. PICK h : /\ HandlerOK(w, h) /\ Set(w, i, h)
                 /\ h.msg = work[w][i].msg
                 /\ h.pc = (IF m = NoMsg THEN pc ELSE "publish") /\ h.next = m
    BY <1>1, <1>2, ThenPublishEffect
  <2>2. HandlerAged(h)
    BY <1>1, <1>2, <2>1 DEF HandlerAged, OrderOf
  <2> QED BY <2>1, <2>2
<1>3. CASE attempt <= MaxAttempts
  <2>1. attempt \in 1..MaxAttempts /\ attempt \in 0..MaxAttempts /\ attempt # 0
        /\ attempt - 1 = last
    BY <1>1, <1>3
  <2> HIDE DEF attempt, last, o
  <2>2. HasTier(attempt) /\ Retry(o, w, attempt) \in Msg
    BY <1>1, <2>1, Messages
  <2>3. ThenPublish(w, i, Retry(o, w, attempt), pc) /\ status' = status
    BY <1>3, <2>2 DEF Schedule, attempt, last, o
  <2>4. Timely(Retry(o, w, attempt))
    <3> DEFINE left == RetryTtl[RetryIndex(attempt) + 1]
    <3>1. /\ Given[attempt] = Given[last] + left
          /\ Given[last] \in Nat /\ left \in Nat
      BY <1>1, <2>1, GivenSums, Tiers
    <3> HIDE DEF left
    <3>2. Given[attempt] - left = Given[last]
      BY <3>1
    <3>3. Aged(o, Given[attempt] - left)
      BY <1>1, <3>2
    <3> QED BY <3>3 DEF Timely, Retry, left
  <2> QED BY <1>2, <2>2, <2>3, <2>4
<1>4. CASE ~(attempt <= MaxAttempts)
  <2> DEFINE m == IF w = "settle" THEN Residual(o, 0) ELSE NoMsg
  <2>1. ThenPublish(w, i, m, pc) /\ status' = [status EXCEPT ![o] = "FAILED"]
    BY <1>4 DEF Schedule, SetStatus
  <2>2. m \in Msg \cup {NoMsg}
    BY <1>1, Messages
  <2>3. m # NoMsg => Timely(m)
    <3>1. Residual(o, 0) \in Msg
      BY <1>1, Messages
    <3>2. Timely(Residual(o, 0))
      BY <3>1, AgedZero DEF Residual
    <3> QED BY <3>2
  <2>4. last = MaxAttempts
    BY <1>1, <1>4
  <2> HIDE DEF m
  <2> QED BY <1>1, <1>2, <2>1, <2>2, <2>3, <2>4
<1> QED BY <1>3, <1>4

\* What a step of a handler does, as far as ages are concerned.
LEMMA HandleAges ==
    ASSUME RuntimeInv, AgeInv, NEW v \in Worker, NEW i \in Slots[v], Handle(v, i)
    PROVE  AgeInv'
<1> DEFINE g == work[v][i]
<1>0. /\ WorkOK /\ HandlerOK(v, g) /\ g \in Handler /\ HandlerAged(g) /\ BrokerTypeOK
      /\ status \in [Orders -> OrderStatus] /\ age' = age
      /\ \A m \in Msg : broker[m] \in Nat
  BY HandleTypes DEF RuntimeInv, AgeInv, TypeOK, WorkOK, HandlerOK, BrokerTypeOK
<1> DEFINE Goal == /\ \E h : HandlerOK(v, h) /\ Set(v, i, h) /\ HandlerAged(h)
                   /\ \A m \in Msg : broker'[m] > 0 => Timely(m)
                   /\ \A o \in Orders : status'[o] = "FAILED" => Aged(o, Given[MaxAttempts])
<1>1. ASSUME Goal PROVE AgeInv'
  <2>1. PICK h : HandlerOK(v, h) /\ Set(v, i, h) /\ HandlerAged(h)
    BY <1>1
  <2>2. /\ work'[v][i] = h
        /\ \A w \in Worker : \A j \in Slots[w] : w # v \/ j # i => work'[w][j] = work[w][j]
    BY <1>0, <2>1, SetKeeps
  <2>3. \A w \in Worker : \A j \in Slots[w] : HandlerAged(work'[w][j])
    BY <2>1, <2>2 DEF AgeInv
  <2>4. /\ \A m \in Msg : Timely(m) => Timely(m)'
        /\ \A o \in Orders : Aged(o, Given[MaxAttempts]) => Aged(o, Given[MaxAttempts])'
    BY <1>0 DEF Timely, Aged
  <2>5. \A w \in Worker : \A j \in Slots[w] : HandlerAged(work[w][j])'
    BY <1>0, <2>3 DEF HandlerAged, Timely, Aged
  <2> QED BY <1>1, <2>4, <2>5 DEF AgeInv
<1> SUFFICES Goal
  BY <1>1
<1>2. CASE Deliver(v, i)
  <2>1. PICK m \in Msg : /\ m.to = v /\ Take(m)
                         /\ Set(v, i, [Idle EXCEPT !.pc = "lookup", !.msg = m, !.open = TRUE])
    BY <1>2 DEF Deliver
  <2> DEFINE h == [Idle EXCEPT !.pc = "lookup", !.msg = m, !.open = TRUE]
  <2>2. h.pc = "lookup" /\ h.msg = m /\ HandlerOK(v, h)
    BY <2>1 DEF Idle, HandlerOK, Handler, HandlerPc
  <2>3. Set(v, i, h)
    BY <2>1
  <2> HIDE DEF h
  <2>4. broker[m] > 0 /\ m.left = 0 /\ \A n \in Msg : n # m => broker'[n] = broker[n]
    BY <1>0, <2>1, TakeKeeps
  <2>5. Timely(m) /\ Given[m.attempt] \in Nat
    BY <2>4, GivenSums DEF AgeInv, Msg
  <2>6. HandlerAged(h)
    BY <2>2, <2>4, <2>5 DEF HandlerAged, Timely, Aged
  <2>7. \A n \in Msg : broker'[n] > 0 => Timely(n)
    BY <2>4, <2>5 DEF AgeInv
  <2> QED BY <1>2, <2>2, <2>3, <2>6, <2>7 DEF Deliver, AgeInv
<1>3. CASE Publish(v, i)
  <2>1. g.pc = "publish" /\ Put(g.next) /\ Set(v, i, [g EXCEPT !.pc = "confirm"])
    BY <1>3 DEF Publish, At
  <2> DEFINE h == [g EXCEPT !.pc = "confirm"]
  <2>2. h.pc = "confirm" /\ h.next = g.next /\ h.msg = g.msg /\ HandlerOK(v, h)
    BY <1>0, <2>1 DEF HandlerOK, Handler, HandlerPc
  <2>3. Set(v, i, h)
    BY <2>1
  <2> HIDE DEF h
  <2>4. HandlerAged(h) /\ Timely(g.next)
    BY <1>0, <2>1, <2>2 DEF HandlerAged
  <2>5. \A n \in Msg : n # g.next => broker'[n] = broker[n]
    BY <1>0, <2>1 DEF Put, BrokerTypeOK
  <2>6. \A n \in Msg : broker'[n] > 0 => Timely(n)
    BY <2>4, <2>5 DEF AgeInv
  <2> QED BY <1>3, <2>2, <2>3, <2>4, <2>6 DEF Publish, AgeInv
<1>4. CASE Lookup(v, i) \/ Confirm(v, i) \/ Ack(v, i)
  <2>1. PICK h : Set(v, i, h) /\ HandlerOK(v, h) /\ HandlerAged(h)
    <3>1. CASE Lookup(v, i)
      <4>1. PICK pc \in {"work", "lastAck", "ack"} :
                 g.pc = "lookup" /\ Set(v, i, [g EXCEPT !.pc = pc])
        BY <3>1, Zenon DEF Lookup, At
      <4> DEFINE h == [g EXCEPT !.pc = pc]
      <4>2. h.pc = pc /\ h.msg = g.msg /\ HandlerOK(v, h)
        BY <1>0, <4>1 DEF HandlerOK, Handler, HandlerPc
      <4>3. Set(v, i, h)
        BY <4>1
      <4> HIDE DEF h
      <4>4. HandlerAged(h)
        BY <1>0, <4>1, <4>2 DEF HandlerAged
      <4> QED BY <4>2, <4>3, <4>4
    <3>2. CASE Confirm(v, i)
      <4>1. g.pc = "confirm" /\ Set(v, i, [g EXCEPT !.pc = g.then, !.next = NoMsg])
        BY <3>2 DEF Confirm, At
      <4> DEFINE h == [g EXCEPT !.pc = g.then, !.next = NoMsg]
      <4>2. h.pc \in {"ack", "lastAck"} /\ h.msg = g.msg /\ HandlerOK(v, h)
        BY <1>0, <4>1 DEF HandlerOK, Handler, HandlerPc
      <4>3. Set(v, i, h)
        BY <4>1
      <4> HIDE DEF h
      <4>4. HandlerAged(h)
        BY <1>0, <4>1, <4>2 DEF HandlerAged
      <4> QED BY <4>2, <4>3, <4>4
    <3>3. CASE Ack(v, i)
      <4>1. Set(v, i, Idle) /\ HandlerAged(Idle)
        BY <3>3 DEF Ack, HandlerAged, Idle
      <4> QED BY <4>1, IdleOK
    <3> QED BY <1>4, <3>1, <3>2, <3>3
  <2>2. broker' = broker /\ status' = status
    BY <1>4 DEF Lookup, Confirm, Ack
  <2> QED BY <2>1, <2>2 DEF AgeInv
<1>5. CASE Fails(v, i) \/ AckThrows(v, i)
  <2>1. g.pc # "idle" /\ broker' = broker /\ \E pc \in {"ack", "lastAck"} : Schedule(v, i, pc)
    BY <1>5 DEF Fails, AckThrows, At
  <2>2. /\ \E h : HandlerOK(v, h) /\ Set(v, i, h) /\ HandlerAged(h)
        /\ \/ status' = status
           \/ /\ status' = [status EXCEPT ![OrderOf(v, i)] = "FAILED"]
              /\ Aged(OrderOf(v, i), Given[MaxAttempts])
    BY <2>1, ScheduleAges
  <2>3. \A o \in Orders : status'[o] = "FAILED" => Aged(o, Given[MaxAttempts])
    BY <1>0, <2>2 DEF AgeInv
  <2> QED BY <2>1, <2>2, <2>3 DEF AgeInv
<1>6. CASE (v = "deploy" /\ Deploys(i)) \/ (v = "settle" /\ Settles(i))
  <2> DEFINE o == OrderOf(v, i)
  <2>1. /\ g.pc = "work" /\ broker' = broker
        /\ \E st \in {"DEPLOYED", "COMPLETED"} : status' = [status EXCEPT ![o] = st]
        /\ \E pc \in {"ack", "lastAck"}, m \in {Job(o, "settle"), NoMsg} : ThenPublish(v, i, m, pc)
    BY <1>6 DEF Deploys, Settles, SetStatus, At
  <2>2. o \in Orders /\ Job(o, "settle") \in Msg
    <3>1. o \in Orders
      BY <1>0, <2>1 DEF HandlerOK, Msg, OrderOf
    <3> QED BY <3>1, Messages DEF Worker
  <2>3. Timely(Job(o, "settle"))
    BY <2>2, AgedZero DEF Job
  <2>4. PICK pc \in {"ack", "lastAck"}, m \in {Job(o, "settle"), NoMsg} : ThenPublish(v, i, m, pc)
    BY <2>1
  <2>5. g.pc # "idle" /\ m \in Msg \cup {NoMsg}
    BY <2>1, <2>2
  <2>6. PICK h : /\ HandlerOK(v, h) /\ Set(v, i, h) /\ h.msg = g.msg
                 /\ h.pc = (IF m = NoMsg THEN pc ELSE "publish") /\ h.next = m
    BY <1>0, <2>4, <2>5, ThenPublishEffect
  <2>7. HandlerAged(h)
    BY <1>0, <2>1, <2>3, <2>6 DEF HandlerAged
  <2>8. \A q \in Orders : status'[q] = "FAILED" => status[q] = "FAILED"
    BY <1>0, <2>1
  <2> QED BY <2>1, <2>6, <2>7, <2>8 DEF AgeInv
<1> QED BY <1>2, <1>3, <1>4, <1>5, <1>6 DEF Handle


\* A connection or a process is lost: only what a handler has taken comes back, and
\* handlers keep what they had or end.
LEMMA LossAges ==
    ASSUME RuntimeInv, AgeInv, NEW w \in Worker, Disconnect(w) \/ Dies(w)
    PROVE  AgeInv'
<1>0. /\ WorkOK /\ broker' = Requeued(w) /\ status' = status /\ age' = age
      /\ \A v \in Worker : v # w => work'[v] = work[v]
  <2>1. WorkOK
    BY DEF RuntimeInv
  <2> QED BY <2>1, DiesTypes DEF Disconnect, Dies, WorkOK
<1>1. ASSUME NEW m \in Msg, broker'[m] > 0 PROVE Timely(m)
  <2>1. CASE broker[m] > 0
    BY <2>1 DEF AgeInv
  <2>2. CASE ~(broker[m] > 0)
    <3> DEFINE S == {i \in Busy(w) : work[w][i].msg = m}
    <3>1. broker'[m] = broker[m] + Cardinality(S) /\ broker[m] \in Nat
      BY <1>0 DEF Requeued, RuntimeInv, TypeOK, BrokerTypeOK
    <3>2. S # {}
      <4> SUFFICES ASSUME S = {} PROVE FALSE
        OBVIOUS
      <4>1. Cardinality(S) = 0
        BY FS_EmptySet
      <4> HIDE DEF S
      <4> QED BY <1>1, <2>2, <3>1, <4>1
    <3>3. PICK i \in Slots[w] : work[w][i].pc # "idle" /\ work[w][i].msg = m
      BY <3>2 DEF Busy
    <3>4. Aged(m.order, Given[m.attempt])
      BY <3>3 DEF AgeInv, HandlerAged
    <3>5. age[m.order] \in Nat /\ Given[m.attempt] \in Nat /\ m.left \in Nat
      BY GivenSums, TierAssumption, RuntimeAssumption DEF Msg, RuntimeInv, TypeOK
    <3> QED BY <3>4, <3>5 DEF Timely, Aged
  <2> QED BY <2>1, <2>2
<1>2. ASSUME NEW v \in Worker, NEW i \in Slots[v] PROVE HandlerAged(work'[v][i])
  <2>1. CASE v # w
    BY <1>0, <2>1 DEF AgeInv
  <2>2. CASE v = w /\ Disconnect(w)
    <3> DEFINE h == work[w][i]
               pc == IF h.pc = "confirm" THEN "publish" ELSE h.pc
    <3>1. h \in Handler /\ HandlerAged(h)
      BY <1>0, <2>2 DEF WorkOK, AgeInv
    <3>2. work'[w][i] = [h EXCEPT !.open = FALSE, !.pc = pc]
      BY <1>0, <2>2 DEF Disconnect, WorkOK
    <3> HIDE DEF h
    <3> QED BY <2>2, <3>1, <3>2 DEF HandlerAged, Handler
  <2>3. CASE v = w /\ Dies(w)
    <3>1. work'[w][i] = Idle
      BY <1>0, <2>3 DEF Dies, WorkOK
    <3> QED BY <2>3, <3>1 DEF HandlerAged, Idle
  <2> QED BY <2>1, <2>2, <2>3
<1>3. /\ \A m \in Msg : Timely(m) => Timely(m)'
      /\ \A o \in Orders : Aged(o, Given[MaxAttempts]) => Aged(o, Given[MaxAttempts])'
  BY <1>0 DEF Timely, Aged
<1>4. \A v \in Worker : \A i \in Slots[v] : HandlerAged(work[v][i])'
  BY <1>0, <1>2 DEF HandlerAged, Timely, Aged
<1> QED BY <1>0, <1>1, <1>3, <1>4 DEF AgeInv

\* A tick makes every order older and brings no message closer than by one tick.
LEMMA TickAges == RuntimeInv /\ AgeInv /\ Tick => AgeInv'
<1> SUFFICES ASSUME RuntimeInv, AgeInv, Tick PROVE AgeInv'
  OBVIOUS
<1>0. /\ status' = status /\ work' = work /\ WorkOK /\ BrokerTypeOK /\ TtlsPass
      /\ \A m \in Msg : broker[m] \in Nat /\ broker'[m] \in Nat
  BY TtlsPassKeeps DEF RuntimeInv, TypeOK, BrokerTypeOK, Tick, handlers
<1>1. ASSUME NEW o \in Orders, NEW t \in Int, Aged(o, t) PROVE Aged(o, t)' /\ Aged(o, t + 1)'
  <2> DEFINE a == age[o] + 1
  <2>1. age[o] \in 0..MaxAge /\ MaxAge \in Nat /\ a \in Int
    BY RuntimeAssumption DEF RuntimeInv, TypeOK
  <2>2. age'[o] = Min({MaxAge, a})
    BY DEF Tick
  <2>3. /\ Min({MaxAge, a}) \in {MaxAge, a}
        /\ Min({MaxAge, a}) <= MaxAge /\ Min({MaxAge, a}) <= a
    <3> HIDE DEF a
    <3> QED BY <2>1, MinPair
  <2>4. age[o] >= t \/ age[o] = MaxAge
    BY <1>1 DEF Aged
  <2>5. (age'[o] >= t \/ age'[o] = MaxAge) /\ (age'[o] >= t + 1 \/ age'[o] = MaxAge)
    BY <2>1, <2>2, <2>3, <2>4
  <2> QED BY <2>5 DEF Aged
<1>2. \A k \in 0..MaxAttempts : Given[k] \in Nat
  BY GivenSums
<1>3. \A m \in Msg : m.order \in Orders /\ Given[m.attempt] \in Nat /\ m.left \in 0..MaxTtl
  BY <1>2 DEF Msg
<1>4. ASSUME NEW m \in Msg, Timely(m) PROVE Timely(m)'
  <2>1. Given[m.attempt] - m.left \in Int
    BY <1>3
  <2> QED BY <1>1, <1>3, <1>4, <2>1 DEF Timely
<1>5. ASSUME NEW m \in Msg, broker'[m] > 0 PROVE Timely(m)'
  <2> DEFINE n == [m EXCEPT !.left = @ + 1]
  <2>1. broker'[m] = (IF m.left < MaxTtl THEN broker[n] ELSE 0) + (IF m.left = 0 THEN broker[m] ELSE 0)
    BY <1>0, Zenon DEF TtlsPass
  <2>2. CASE m.left < MaxTtl /\ broker[n] > 0
    <3>1. m.left + 1 \in 0..MaxTtl
      BY <1>3, <2>2, TierAssumption
    <3>2. n \in Msg /\ n.order = m.order /\ n.attempt = m.attempt /\ n.left = m.left + 1
      BY <3>1 DEF Msg
    <3> HIDE DEF n
    <3> DEFINE t == Given[m.attempt] - (m.left + 1)
    <3>3. t \in Int /\ Aged(m.order, t)
      BY <1>3, <2>2, <3>1, <3>2 DEF AgeInv, Timely
    <3>4. t + 1 = Given[m.attempt] - m.left
      BY <1>3
    <3> HIDE DEF t
    <3>5. Aged(m.order, t + 1)'
      BY <1>1, <1>3, <3>3
    <3> QED BY <3>4, <3>5 DEF Timely
  <2>3. CASE ~(m.left < MaxTtl /\ broker[n] > 0)
    <3>1. m.left < MaxTtl => n \in Msg
      <4>1. m.left < MaxTtl => m.left + 1 \in 0..MaxTtl
        BY <1>3, TierAssumption
      <4> QED BY <4>1 DEF Msg
    <3> HIDE DEF n
    <3>2. (IF m.left < MaxTtl THEN broker[n] ELSE 0) = 0
      BY <1>0, <2>3, <3>1
    <3>3. broker[m] > 0
      BY <1>0, <1>5, <2>1, <3>2
    <3> QED BY <1>4, <3>3 DEF AgeInv
  <2> QED BY <2>2, <2>3
<1>6. ASSUME NEW w \in Worker, NEW i \in Slots[w] PROVE HandlerAged(work[w][i])'
  <2>1. PICK h \in Handler : h = work[w][i]
    BY <1>0 DEF WorkOK
  <2>2. /\ work'[w][i] = h /\ HandlerAged(h)
        /\ h.pc # "idle" => h.msg \in Msg
        /\ h.pc \in {"publish", "confirm"} => h.next \in Msg
    BY <1>0, <2>1 DEF AgeInv, WorkOK, HandlerOK
  <2>3. h.pc # "idle" => Aged(h.msg.order, Given[h.msg.attempt])'
    <3>1. h.pc # "idle" => h.msg.order \in Orders /\ Given[h.msg.attempt] \in Int
      BY <1>3, <2>2
    <3> QED BY <1>1, <2>2, <3>1 DEF HandlerAged
  <2>4. h.pc \in {"publish", "confirm"} => Timely(h.next)'
    BY <1>4, <2>2 DEF HandlerAged
  <2> QED BY <2>2, <2>3, <2>4 DEF HandlerAged
<1>7. ASSUME NEW o \in Orders, status[o] = "FAILED" PROVE Aged(o, Given[MaxAttempts])'
  <2>1. Given[MaxAttempts] \in Int
    BY <1>2, Tiers
  <2> QED BY <1>1, <1>7, <2>1 DEF AgeInv
<1> QED BY <1>0, <1>5, <1>6, <1>7 DEF AgeInv

LEMMA AgeStep == RuntimeInv /\ AgeInv /\ [Next]_vars => AgeInv'
<1> SUFFICES ASSUME RuntimeInv, AgeInv, [Next]_vars PROVE AgeInv'
  OBVIOUS
<1>1. ASSUME NEW w \in Worker, NEW i \in Slots[w], Handle(w, i) PROVE AgeInv'
  BY <1>1, HandleAges
<1>2. ASSUME NEW w \in Worker, Disconnect(w) \/ Crash(w) \/ Exit(w) PROVE AgeInv'
  BY <1>2, LossAges DEF Crash, Exit
<1>3. CASE Tick
  BY <1>3, TickAges
<1>4. ASSUME UNCHANGED <<broker, status, work, age>> PROVE AgeInv'
  BY <1>4 DEF AgeInv, HandlerAged, Timely, Aged
<1>5. ASSUME NEW w \in Worker, Reconnect(w) \/ Restart(w) \/ Housekeeping(w) PROVE AgeInv'
  BY <1>4, <1>5 DEF Reconnect, Restart, Housekeeping, handlers
<1>6. CASE RedisOutage \/ RedisBack \/ UNCHANGED vars
  BY <1>4, <1>6 DEF RedisOutage, RedisBack, handlers, vars
<1> QED BY <1>1, <1>2, <1>3, <1>5, <1>6 DEF Next

LEMMA AgeStart == Init => AgeInv
<1> SUFFICES ASSUME Init PROVE AgeInv
  OBVIOUS
<1>1. RuntimeInv
  BY TypesStart
<1>2. ASSUME NEW m \in Msg, broker[m] > 0 PROVE Timely(m)
  <2>1. m.attempt = 0
    BY <1>2 DEF Init, Job
  <2> QED BY <1>1, <2>1, AgedZero
<1>3. \A w \in Worker : \A i \in Slots[w] : HandlerAged(work[w][i])
  BY DEF Init, Idle, HandlerAged
<1> QED BY <1>2, <1>3 DEF AgeInv, Init

\* What the invariant says of an order that is FAILED.
LEMMA AgeGives == RuntimeInv /\ AgeInv /\ Escalating => PatientFailure
<1> SUFFICES ASSUME RuntimeInv, AgeInv, Escalating, NEW o \in Orders, status[o] = "FAILED"
             PROVE  age[o] >= Min({Patience, MaxAge})
  BY DEF PatientFailure
<1>1. age[o] \in Nat /\ MaxAge \in Int /\ (age[o] >= Given[MaxAttempts] \/ age[o] = MaxAge)
  BY RuntimeAssumption DEF RuntimeInv, TypeOK, AgeInv, Aged
<1>2. Given[MaxAttempts] \in Nat /\ Patience <= Given[MaxAttempts] /\ Patience \in Int
  BY GivenCovers, GivenSums, DocumentedSums, Tiers DEF Patience
<1>3. Min({Patience, MaxAge}) \in Int /\ Min({Patience, MaxAge}) <= Patience
      /\ Min({Patience, MaxAge}) <= MaxAge
  BY <1>1, <1>2, MinPair
<1> QED BY <1>1, <1>2, <1>3

\* Whatever is redelivered, duplicated or taken up again after its channel was
\* closed: an order is FAILED only after at least the documented delays.
THEOREM FailuresPatient ==
    ASSUME Escalating
    PROVE  Spec => []PatientFailure
<1>1. Init => RuntimeInv /\ MonitoringInv /\ AgeInv
  BY TypesStart, MonitoringStarts, AgeStart DEF Init
<1>2. RuntimeInv /\ MonitoringInv /\ AgeInv /\ [Next]_vars
        => (RuntimeInv /\ MonitoringInv /\ AgeInv)'
  BY TypesStep, AgeStep
<1>3. RuntimeInv /\ AgeInv => PatientFailure
  BY AgeGives
<1> QED BY <1>1, <1>2, <1>3, PTL DEF Spec
-----------------------------------------------------------------------------
(* The workers implement OrderLifecycle                                    *)

\* A deploy handler in one of these has passed its lookup and may still write.
Accepted == {"work", "publish", "confirm", "ack"}

\* A handler publishes for the order of its message, and a deploy handler that
\* publishes to the settle worker publishes the settle job.
Publishing(w, h) ==
    h.pc \in {"publish", "confirm"} =>
        /\ h.next.order = h.msg.order
        /\ w = "deploy" /\ h.next.to = "settle" => h.next = Job(h.msg.order, "settle")

AllPublishing == \A w \in Worker : \A i \in Slots[w] : Publishing(w, work[w][i])

\* What a step makes of handler g of worker v, now h, and of the broker and the
\* statuses with it.
HandlerMove(v, g, h) ==
    /\ Publishing(v, h)
    /\ \A m \in Msg : broker'[m] > 0 => broker[m] > 0 \/ (g.pc = "publish" /\ m = g.next)
    /\ h.pc # "idle" =>
          \/ g.pc # "idle" /\ h.msg = g.msg
          \/ h.pc = "lookup" /\ h.msg \in Msg /\ broker[h.msg] > 0
    /\ v = "deploy" /\ h.pc \in Accepted =>
          \/ g.pc \in Accepted /\ h.msg = g.msg
          \/ g.pc = "lookup" /\ h.msg = g.msg /\ status[g.msg.order] = "CREATED"
    /\ v = "deploy" /\ h.pc \in {"publish", "confirm"} /\ h.next.to = "settle" =>
          \/ g.pc \in {"publish", "confirm"} /\ g.next = h.next
          \/ status' = [status EXCEPT ![h.msg.order] = "DEPLOYED"]
    /\ \/ UNCHANGED status
       \/ v = "deploy" /\ g.pc = "work" /\ SetStatus(g.msg.order, "DEPLOYED")
       \/ v = "settle" /\ g.pc = "work" /\ SetStatus(g.msg.order, "COMPLETED")
       \/ g.pc \in {"work", "ack"} /\ SetStatus(g.msg.order, "FAILED")

LEMMA HandleMoves ==
    ASSUME RuntimeInv, AllPublishing, NEW v \in Worker, NEW i \in Slots[v], Handle(v, i)
    PROVE  \E h : HandlerOK(v, h) /\ Set(v, i, h) /\ HandlerMove(v, work[v][i], h)
<1> DEFINE g == work[v][i]
<1>0. /\ HandlerOK(v, g) /\ g \in Handler /\ Publishing(v, g) /\ BrokerTypeOK /\ WorkOK
      /\ g.pc # "idle" => g.msg.order \in Orders
  BY DEF RuntimeInv, WorkOK, HandlerOK, TypeOK, AllPublishing, Msg
<1>1. CASE Deliver(v, i)
  <2>1. PICK m \in Msg : /\ m.to = v /\ Take(m)
                         /\ Set(v, i, [Idle EXCEPT !.pc = "lookup", !.msg = m, !.open = TRUE])
    BY <1>1 DEF Deliver
  <2> DEFINE h == [Idle EXCEPT !.pc = "lookup", !.msg = m, !.open = TRUE]
  <2>2. HandlerOK(v, h) /\ h.pc = "lookup" /\ h.msg = m
    BY <2>1 DEF HandlerOK, Handler, HandlerPc, Idle
  <2>3. Set(v, i, h) /\ UNCHANGED status
    BY <1>1, <2>1 DEF Deliver
  <2> HIDE DEF h
  <2>4. broker[m] > 0 /\ \A n \in Msg : broker'[n] > 0 => broker[n] > 0
    BY <1>0, <2>1, TakeKeeps
  <2>5. HandlerMove(v, g, h)
    BY <2>2, <2>3, <2>4 DEF HandlerMove, Publishing, Accepted
  <2> QED BY <2>2, <2>3, <2>5
<1>2. CASE Lookup(v, i)
  <2> DEFINE pc == IF status[OrderOf(v, i)] = Expected[v] THEN "work"
                   ELSE IF v = "deploy" THEN "lastAck" ELSE "ack"
  <2>1. g.pc = "lookup" /\ Set(v, i, [g EXCEPT !.pc = pc]) /\ broker' = broker /\ status' = status
    BY <1>2 DEF Lookup, At
  <2>2. /\ pc \in {"work", "lastAck", "ack"}
        /\ v = "deploy" /\ pc \in Accepted => status[g.msg.order] = "CREATED"
    BY DEF Expected, OrderOf, Accepted
  <2> HIDE DEF pc
  <2> DEFINE h == [g EXCEPT !.pc = pc]
  <2>3. HandlerOK(v, h) /\ h.pc = pc /\ h.msg = g.msg
    BY <1>0, <2>1, <2>2 DEF HandlerOK, Handler, HandlerPc
  <2>4. Set(v, i, h)
    BY <2>1
  <2> HIDE DEF h
  <2>5. HandlerMove(v, g, h)
    BY <2>1, <2>2, <2>3 DEF HandlerMove, Publishing
  <2> QED BY <2>3, <2>4, <2>5
<1>3. CASE Fails(v, i) \/ AckThrows(v, i)
  <2>1. /\ g.pc \in {"work", "ack"} /\ broker' = broker
        /\ \E pc \in {"ack", "lastAck"} : Schedule(v, i, pc)
    BY <1>3 DEF Fails, AckThrows, At
  <2>2. PICK h : /\ HandlerOK(v, h) /\ Set(v, i, h)
                 /\ h.msg = g.msg
                 /\ h.pc \in {"publish", "ack", "lastAck"}
                 /\ h.pc = "publish" => h.next.order = g.msg.order
                 /\ v = "deploy" /\ h.pc = "publish" => h.next.to = "deploy"
                 /\ status' = status \/ status' = [status EXCEPT ![g.msg.order] = "FAILED"]
    BY <1>0, <2>1, ScheduleEffect DEF OrderOf
  <2>3. HandlerMove(v, g, h)
    BY <2>1, <2>2 DEF HandlerMove, Publishing, Accepted, SetStatus
  <2> QED BY <2>2, <2>3
<1>4. CASE Publish(v, i)
  <2> DEFINE h == [g EXCEPT !.pc = "confirm"]
  <2>1. /\ g.pc = "publish" /\ g.next \in Msg /\ Put(g.next) /\ Set(v, i, h)
        /\ status' = status
    BY <1>0, <1>4 DEF Publish, At, HandlerOK
  <2>2. HandlerOK(v, h) /\ h.pc = "confirm" /\ h.msg = g.msg /\ h.next = g.next
    BY <1>0, <2>1 DEF HandlerOK, Handler, HandlerPc
  <2> HIDE DEF h
  <2>3. \A m \in Msg : m # g.next => broker'[m] = broker[m]
    BY <1>0, <2>1 DEF Put, BrokerTypeOK
  <2>4. HandlerMove(v, g, h)
    BY <1>0, <2>1, <2>2, <2>3 DEF HandlerMove, Publishing, Accepted
  <2> QED BY <2>1, <2>2, <2>4
<1>5. CASE Confirm(v, i)
  <2> DEFINE h == [g EXCEPT !.pc = g.then, !.next = NoMsg]
  <2>1. g.pc = "confirm" /\ Set(v, i, h) /\ broker' = broker /\ status' = status
    BY <1>5 DEF Confirm, At
  <2>2. HandlerOK(v, h) /\ h.pc \in {"ack", "lastAck"} /\ h.msg = g.msg
    BY <1>0, <2>1 DEF HandlerOK, Handler, HandlerPc
  <2> HIDE DEF h
  <2>3. HandlerMove(v, g, h)
    BY <2>1, <2>2 DEF HandlerMove, Publishing, Accepted
  <2> QED BY <2>1, <2>2, <2>3
<1>6. CASE Ack(v, i)
  <2>1. Set(v, i, Idle) /\ broker' = broker /\ status' = status /\ Idle.pc = "idle"
    BY <1>6 DEF Ack, Idle
  <2>2. HandlerMove(v, g, Idle)
    BY <2>1 DEF HandlerMove, Publishing, Accepted
  <2> QED BY <2>1, <2>2, IdleOK
<1>7. CASE v = "deploy" /\ Deploys(i)
  <2> DEFINE o == g.msg.order
  <2>1. /\ g.pc = "work" /\ status' = [status EXCEPT ![o] = "DEPLOYED"]
        /\ \E pc \in {"ack", "lastAck"} : ThenPublish(v, i, Job(o, "settle"), pc)
        /\ broker' = broker
    BY <1>7 DEF Deploys, At, SetStatus, OrderOf
  <2>2. Job(o, "settle") \in Msg /\ Job(o, "settle") # NoMsg /\ Job(o, "settle").order = o
    BY <1>0, <2>1, Messages, RuntimeAssumption DEF Worker, Job
  <2>3. PICK h : /\ HandlerOK(v, h) /\ Set(v, i, h) /\ h.msg = g.msg
                 /\ h.pc = "publish" /\ h.next = Job(o, "settle")
    BY <1>0, <2>1, <2>2, ThenPublishEffect
  <2>4. HandlerMove(v, g, h)
    BY <1>7, <2>1, <2>2, <2>3 DEF HandlerMove, Publishing, Accepted, SetStatus
  <2> QED BY <2>3, <2>4
<1>8. CASE v = "settle" /\ Settles(i)
  <2>1. /\ g.pc = "work" /\ SetStatus(g.msg.order, "COMPLETED")
        /\ ThenPublish(v, i, NoMsg, "ack") /\ broker' = broker
    BY <1>8 DEF Settles, At, OrderOf
  <2>2. PICK h : HandlerOK(v, h) /\ Set(v, i, h) /\ h.msg = g.msg /\ h.pc = "ack"
    BY <1>0, <2>1, ThenPublishEffect
  <2>3. HandlerMove(v, g, h)
    BY <1>8, <2>1, <2>2 DEF HandlerMove, Publishing, Accepted
  <2> QED BY <2>2, <2>3
<1> QED BY <1>1, <1>2, <1>3, <1>4, <1>5, <1>6, <1>7, <1>8 DEF Handle

\* A handler past its lookup carries a deploy job, one of the settle worker or
\* about to publish to it a settle job.
LEMMA HandlerJobs ==
    ASSUME RuntimeInv, AllPublishing, NEW v \in Worker, NEW i \in Slots[v]
    PROVE  LET g == work[v][i] IN
           /\ v = "deploy" /\ g.pc \in Accepted => DeployJob(g.msg.order)
           /\ v = "deploy" /\ g.pc = "lookup" /\ status[g.msg.order] = "CREATED"
                 => DeployJob(g.msg.order)
           /\ v = "settle" /\ g.pc # "idle" => SettleJob(g.msg.order)
           /\ g.pc \in {"publish", "confirm"} /\ g.next.to = "settle" => SettleJob(g.next.order)
<1> DEFINE g == work[v][i]
<1>1. v = "deploy" /\ g.pc \in Accepted => DeployJob(g.msg.order)
  BY DEF DeployJob, OrderOf, Accepted
<1>2. v = "deploy" /\ g.pc = "lookup" /\ status[g.msg.order] = "CREATED" => DeployJob(g.msg.order)
  BY DEF DeployJob, OrderOf, Holds
<1>3. v = "settle" /\ g.pc # "idle" => SettleJob(g.msg.order)
  BY DEF SettleJob, OrderOf, At
<1>4. ASSUME g.pc \in {"publish", "confirm"}, g.next.to = "settle" PROVE SettleJob(g.next.order)
  <2>1. Publishing(v, g)
    BY DEF AllPublishing
  <2>2. CASE v = "settle"
    <3>1. g.next.order = g.msg.order
      BY <1>4, <2>1 DEF Publishing
    <3> QED BY <1>3, <1>4, <2>2, <3>1
  <2>3. CASE v = "deploy"
    <3>1. g.next = Job(g.next.order, "settle")
      BY <1>4, <2>1, <2>3 DEF Publishing
    <3> QED BY <1>4, <2>3, <3>1 DEF SettleJob
  <2> QED BY <2>2, <2>3 DEF Worker
<1> QED BY <1>1, <1>2, <1>3, <1>4

\* What a step may do to the jobs of an order.
Opened(o) ==
    /\ DeployJob(o)' => DeployJob(o) \/ status'[o] = "CREATED"
    /\ SettleJob(o)' => SettleJob(o) \/ status'[o] = "DEPLOYED"

\* A job is opened only at the stage that the status asks for: by a handler,
LEMMA HandleOpens ==
    ASSUME RuntimeInv, AllPublishing, NEW v \in Worker, NEW i \in Slots[v], Handle(v, i)
    PROVE  AllPublishing' /\ \A o \in Orders : Opened(o)
<1> DEFINE g == work[v][i]
<1>1. PICK h : HandlerOK(v, h) /\ Set(v, i, h) /\ HandlerMove(v, g, h)
  BY HandleMoves
<1>2. /\ WorkOK' /\ work'[v][i] = h
      /\ \A w \in Worker : \A j \in Slots[w] : w # v \/ j # i => work'[w][j] = work[w][j]
  BY <1>1, SetKeeps DEF RuntimeInv
<1>3. AllPublishing'
  BY <1>1, <1>2 DEF AllPublishing, HandlerMove
<1>4. ASSUME NEW o \in Orders, DeployJob(o)', status'[o] # "CREATED" PROVE DeployJob(o)
  <2>1. PICK j \in Slots["deploy"] :
           work'["deploy"][j].pc \in Accepted /\ work'["deploy"][j].msg.order = o
    BY <1>4 DEF DeployJob, OrderOf, Accepted
  <2>2. CASE v = "deploy" /\ i = j
    <3>1. \/ g.pc \in Accepted /\ h.msg = g.msg
          \/ g.pc = "lookup" /\ h.msg = g.msg /\ status[g.msg.order] = "CREATED"
      BY <1>1, <1>2, <2>1, <2>2 DEF HandlerMove
    <3> QED BY <1>2, <2>1, <2>2, <3>1, HandlerJobs
  <2>3. CASE ~(v = "deploy" /\ i = j)
    <3>1. work'["deploy"][j] = work["deploy"][j]
      BY <1>2, <2>3 DEF Worker
    <3> QED BY <2>1, <3>1, HandlerJobs DEF Worker
  <2> QED BY <2>2, <2>3
<1>5. ASSUME NEW o \in Orders, SettleJob(o)', status'[o] # "DEPLOYED" PROVE SettleJob(o)
  <2>1. ASSUME NEW m \in Msg, broker'[m] > 0, m.order = o, m.to = "settle" PROVE SettleJob(o)
    <3>1. CASE broker[m] > 0
      BY <2>1, <3>1 DEF SettleJob, Waiting
    <3>2. CASE g.pc = "publish" /\ m = g.next
      BY <2>1, <3>2, HandlerJobs
    <3> QED BY <1>1, <2>1, <3>1, <3>2 DEF HandlerMove
  <2>2. ASSUME NEW j \in Slots["settle"], work'["settle"][j].pc # "idle",
               work'["settle"][j].msg.order = o
        PROVE  SettleJob(o)
    <3>1. CASE v = "settle" /\ i = j
      <4>1. CASE g.pc # "idle" /\ h.msg = g.msg
        BY <1>2, <2>2, <3>1, <4>1, HandlerJobs
      <4>2. CASE h.msg \in Msg /\ broker[h.msg] > 0
        <5>1. h.msg.order = o /\ h.msg.to = "settle"
          BY <1>1, <1>2, <2>2, <3>1 DEF HandlerOK
        <5> QED BY <4>2, <5>1 DEF SettleJob, Waiting
      <4> QED BY <1>1, <1>2, <2>2, <3>1, <4>1, <4>2 DEF HandlerMove
    <3>2. CASE ~(v = "settle" /\ i = j)
      <4>1. work'["settle"][j] = work["settle"][j]
        BY <1>2, <3>2 DEF Worker
      <4> QED BY <2>2, <4>1, HandlerJobs DEF Worker
    <3> QED BY <3>1, <3>2
  <2>3. ASSUME NEW j \in Slots["deploy"], work'["deploy"][j].pc \in {"publish", "confirm"},
               work'["deploy"][j].next = Job(o, "settle")
        PROVE  SettleJob(o)
    <3>0. Job(o, "settle").order = o /\ Job(o, "settle").to = "settle"
      BY DEF Job
    <3>1. CASE v = "deploy" /\ i = j
      <4>1. CASE g.pc \in {"publish", "confirm"} /\ g.next = h.next
        BY <1>2, <2>3, <3>0, <3>1, <4>1, HandlerJobs
      <4>2. CASE status' = [status EXCEPT ![h.msg.order] = "DEPLOYED"]
        <5>1. h.msg.order = o
          BY <1>1, <1>2, <2>3, <3>0, <3>1 DEF HandlerMove, Publishing
        <5> QED BY <1>5, <4>2, <5>1 DEF RuntimeInv, TypeOK
      <4> QED BY <1>1, <1>2, <2>3, <3>0, <3>1, <4>1, <4>2 DEF HandlerMove
    <3>2. CASE ~(v = "deploy" /\ i = j)
      <4>1. work'["deploy"][j] = work["deploy"][j]
        BY <1>2, <3>2 DEF Worker
      <4> QED BY <2>3, <3>0, <4>1, HandlerJobs DEF Worker
    <3> QED BY <3>1, <3>2
  <2> QED BY <1>5, <2>1, <2>2, <2>3 DEF SettleJob, Waiting, At, OrderOf
<1> QED BY <1>3, <1>4, <1>5 DEF Opened

\* Messages that are put back were with a handler.
LEMMA RequeuedSource ==
    ASSUME RuntimeInv, NEW w \in Worker, broker' = Requeued(w), NEW m \in Msg, broker'[m] > 0
    PROVE  broker[m] > 0 \/ \E i \in Slots[w] : work[w][i].pc # "idle" /\ work[w][i].msg = m
<1> DEFINE Of == {i \in Busy(w) : work[w][i].msg = m}
<1>1. broker'[m] = broker[m] + Cardinality(Of) /\ broker[m] \in Nat
  BY DEF Requeued, RuntimeInv, TypeOK, BrokerTypeOK
<1>2. Of = {} => Cardinality(Of) = 0
  BY FS_EmptySet
<1>3. CASE Of = {}
  BY <1>1, <1>2, <1>3
<1>4. CASE Of # {}
  BY <1>4 DEF Busy
<1> QED BY <1>3, <1>4

\* by the loss of a connection or a process,
LEMMA LossOpens ==
    ASSUME RuntimeInv, AllPublishing, NEW w \in Worker, Disconnect(w) \/ Dies(w)
    PROVE  AllPublishing' /\ \A o \in Orders : Opened(o)
<1>0. WorkOK /\ broker' = Requeued(w) /\ status' = status
  BY DEF RuntimeInv, Disconnect, Dies
<1>1. ASSUME NEW v \in Worker, NEW j \in Slots[v]
      PROVE  \/ work'[v][j].pc = "idle"
             \/ /\ work'[v][j].pc = work[v][j].pc
                   \/ (work[v][j].pc = "confirm" /\ work'[v][j].pc = "publish")
                /\ work'[v][j].msg = work[v][j].msg
                /\ work'[v][j].next = work[v][j].next
  <2>1. CASE v # w
    <3>1. work'[v] = work[v]
      BY <1>0, <2>1 DEF Disconnect, Dies, WorkOK
    <3> QED BY <3>1
  <2>2. CASE v = w /\ Dies(w)
    BY <1>0, <2>2 DEF Dies, Idle, WorkOK
  <2>3. CASE v = w /\ Disconnect(w)
    <3> DEFINE h == work[v][j]
               k == [h EXCEPT !.open = FALSE, !.pc = IF h.pc = "confirm" THEN "publish" ELSE h.pc]
    <3>1. h \in Handler /\ work'[v][j] = k
      BY <1>0, <2>3 DEF Disconnect, WorkOK
    <3> QED BY <3>1 DEF Handler
  <2> QED BY <2>1, <2>2, <2>3
<1>2. AllPublishing'
  BY <1>1 DEF AllPublishing, Publishing
<1>3. "deploy" \in Worker /\ "settle" \in Worker
  BY DEF Worker
<1>4. ASSUME NEW o \in Orders, DeployJob(o)', status'[o] # "CREATED" PROVE DeployJob(o)
  <2>1. PICK j \in Slots["deploy"] :
           work'["deploy"][j].pc \in Accepted /\ work'["deploy"][j].msg.order = o
    BY <1>4 DEF DeployJob, OrderOf, Accepted
  <2>2. work["deploy"][j].pc \in Accepted /\ work["deploy"][j].msg.order = o
    BY <1>1, <1>3, <2>1 DEF Accepted
  <2> QED BY <1>3, <2>2, HandlerJobs
<1>5. ASSUME NEW o \in Orders, SettleJob(o)' PROVE SettleJob(o)
  <2>1. ASSUME NEW m \in Msg, broker'[m] > 0, m.order = o, m.to = "settle" PROVE SettleJob(o)
    <3>1. CASE broker[m] > 0
      BY <2>1, <3>1 DEF SettleJob, Waiting
    <3>2. ASSUME NEW i \in Slots[w], work[w][i].pc # "idle", work[w][i].msg = m PROVE SettleJob(o)
      <4>1. w = "settle"
        BY <1>0, <2>1, <3>2 DEF WorkOK, HandlerOK
      <4> QED BY <2>1, <3>2, <4>1, HandlerJobs
    <3> QED BY <1>0, <2>1, <3>1, <3>2, RequeuedSource
  <2>2. ASSUME NEW j \in Slots["settle"], work'["settle"][j].pc # "idle",
               work'["settle"][j].msg.order = o
        PROVE  SettleJob(o)
    <3>1. work["settle"][j].pc # "idle" /\ work["settle"][j].msg.order = o
      BY <1>1, <1>3, <2>2
    <3> QED BY <1>3, <3>1, HandlerJobs
  <2>3. ASSUME NEW j \in Slots["deploy"], work'["deploy"][j].pc \in {"publish", "confirm"},
               work'["deploy"][j].next = Job(o, "settle")
        PROVE  SettleJob(o)
    <3>1. work["deploy"][j].pc \in {"publish", "confirm"} /\ work["deploy"][j].next = Job(o, "settle")
      BY <1>1, <1>3, <2>3
    <3> QED BY <3>1 DEF SettleJob
  <2> QED BY <1>5, <2>1, <2>2, <2>3 DEF SettleJob, Waiting, At, OrderOf
<1> QED BY <1>2, <1>4, <1>5 DEF Opened

\* and never by time.
LEMMA TickOpens ==
    ASSUME RuntimeInv, AllPublishing, Tick
    PROVE  AllPublishing' /\ \A o \in Orders : Opened(o)
<1>0. /\ work' = work /\ status' = status /\ TtlsPass /\ MaxTtl \in Nat
      /\ \A m \in Msg : broker[m] \in Nat
  BY TierAssumption DEF Tick, handlers, RuntimeInv, TypeOK, BrokerTypeOK
<1>1. ASSUME NEW o \in Orders, NEW w \in Worker, Waiting(o, w)' PROVE Waiting(o, w)
  <2> DEFINE Older(m) == [m EXCEPT !.left = @ + 1]
  <2>1. PICK m \in Msg : broker'[m] > 0 /\ m.order = o /\ m.to = w
    BY <1>1 DEF Waiting
  <2>2. broker'[m] = (IF m.left < MaxTtl THEN broker[Older(m)] ELSE 0)
                       + (IF m.left = 0 THEN broker[m] ELSE 0)
    BY <1>0, Zenon DEF TtlsPass
  <2>3. m.left < MaxTtl => /\ Older(m) \in Msg
                           /\ Older(m).order = m.order /\ Older(m).to = m.to
    <3> SUFFICES ASSUME m.left < MaxTtl
                 PROVE  Older(m) \in Msg /\ Older(m).order = m.order /\ Older(m).to = m.to
      OBVIOUS
    <3>1. m.left + 1 \in 0..MaxTtl
      BY <1>0 DEF Msg
    <3> QED BY <3>1 DEF Msg
  <2> HIDE DEF Older
  <2>4. broker[m] > 0 \/ (m.left < MaxTtl /\ broker[Older(m)] > 0)
    BY <1>0, <2>1, <2>2, <2>3
  <2> QED BY <2>1, <2>3, <2>4 DEF Waiting
<1>2. "deploy" \in Worker /\ "settle" \in Worker
  BY DEF Worker
<1> QED BY <1>0, <1>1, <1>2 DEF AllPublishing, Opened, DeployJob, SettleJob, At, OrderOf, Holds

\* Settle jobs are of orders past CREATED.
LifeInv ==
    /\ AllPublishing
    /\ \A o \in Orders : SettleJob(o) => status[o] # "CREATED"

\* A handler writes the status of one order, and has a job of it.
LEMMA HandleWrites ==
    ASSUME RuntimeInv, LifeInv, NEW v \in Worker, NEW i \in Slots[v], Handle(v, i)
    PROVE  \/ UNCHANGED status
           \/ \E o \in Orders : Lifecycle!Deploy(o) \/ Lifecycle!Complete(o) \/ Lifecycle!Fail(o)
<1> DEFINE g == work[v][i]
<1>1. PICK h : HandlerMove(v, g, h)
  BY HandleMoves DEF LifeInv
<1>2. status \in [Orders -> OrderStatus]
  BY DEF RuntimeInv, TypeOK
<1>3. CASE g.pc \in {"work", "ack"}
  <2> DEFINE o == g.msg.order
  <2>1. o \in Orders
    BY <1>3 DEF RuntimeInv, WorkOK, HandlerOK, Msg
  <2>2. /\ v = "deploy" => DeployJob(o)
        /\ v = "settle" => SettleJob(o) /\ status[o] \notin {"NONE", "CREATED"}
    BY <1>2, <1>3, <2>1, HandlerJobs DEF LifeInv, Accepted, OrderStatus
  <2>3. /\ v = "deploy" => "deploy" \in Jobs(o)
        /\ v = "settle" => "settle" \in Jobs(o)
    BY <2>2 DEF Jobs, Worker
  <2> QED BY <1>1, <2>1, <2>2, <2>3
          DEF HandlerMove, SetStatus, Worker, Lifecycle!Deploy, Lifecycle!Complete,
              Lifecycle!Fail, Lifecycle!Write
<1>4. CASE g.pc \notin {"work", "ack"}
  BY <1>1, <1>4 DEF HandlerMove
<1> QED BY <1>3, <1>4

AllKept == \A o \in Orders : Lifecycle!Kept(o)

\* Where JobInv says who keeps the job of an order, there is one.
LEMMA JobInvKeeps == RuntimeInv /\ JobInv => AllKept
<1> SUFFICES ASSUME RuntimeInv, JobInv, NEW o \in Orders PROVE Lifecycle!Kept(o)
  BY DEF AllKept
<1>1. status[o] \in {"CREATED", "DEPLOYED", "COMPLETED", "FAILED"}
  BY DEF RuntimeInv, TypeOK, OrderStatus
<1>2. o \notin orphaned /\ status[o] = "CREATED" => "deploy" \in Jobs(o)
  BY DEF JobInv, Covered, Carries, DeployJob, Holds, OrderOf, Jobs, Worker
<1>3. o \notin orphaned /\ status[o] = "DEPLOYED" => "settle" \in Jobs(o)
  BY DEF JobInv, Covered, Carries, Passing, SettleJob, At, OrderOf, Jobs, Worker
<1> QED BY <1>1, <1>2, <1>3 DEF Lifecycle!Kept, Lifecycle!Asked

\* An orphan is an order whose settle job was about to be published.
LEMMA OrphansHad ==
    ASSUME RuntimeInv, AllPublishing, Next, NEW o \in orphaned', o \notin orphaned
    PROVE  DeployJob(o)
<1>1. PICK w \in Worker : Dies(w)
  <2>1. ASSUME NEW w \in Worker, NEW i \in Slots[w], Handle(w, i) PROVE orphaned' = orphaned
    BY <2>1, HandleTypes
  <2> QED BY <2>1 DEF Next, Disconnect, Reconnect, Restart, Housekeeping, RedisOutage, RedisBack,
                      Tick, Crash, Exit, handlers
<1>2. PICK i \in Slots["deploy"] : work["deploy"][i].pc = "publish" /\ o = work["deploy"][i].msg.order
  BY <1>1 DEF Dies, At, OrderOf
<1> QED BY <1>2, HandlerJobs DEF Accepted, Worker

\* Every step of the workers is a step of OrderLifecycle.
LEMMA LifecycleStep ==
    ASSUME RuntimeInv, LifeInv, AllKept', [Next]_vars
    PROVE  LifeInv' /\ [Lifecycle!Next]_Lifecycle!lifecycle
<1>1. AllPublishing
  BY DEF LifeInv
<1>2. ASSUME UNCHANGED <<broker, status, work>> PROVE AllPublishing' /\ \A o \in Orders : Opened(o)
  BY <1>1, <1>2 DEF AllPublishing, Opened, DeployJob, SettleJob, Waiting, At, OrderOf, Holds
<1>3. /\ AllPublishing' /\ \A o \in Orders : Opened(o)
      /\ \/ UNCHANGED status
         \/ \E o \in Orders : Lifecycle!Deploy(o) \/ Lifecycle!Complete(o) \/ Lifecycle!Fail(o)
  <2>1. ASSUME NEW w \in Worker, NEW i \in Slots[w], Handle(w, i)
        PROVE  /\ AllPublishing' /\ \A o \in Orders : Opened(o)
               /\ \/ UNCHANGED status
                  \/ \E o \in Orders :
                        Lifecycle!Deploy(o) \/ Lifecycle!Complete(o) \/ Lifecycle!Fail(o)
    BY <1>1, <2>1, HandleOpens, HandleWrites
  <2>2. ASSUME NEW w \in Worker, Disconnect(w) \/ Crash(w) \/ Exit(w)
        PROVE  AllPublishing' /\ (\A o \in Orders : Opened(o)) /\ UNCHANGED status
    BY <1>1, <2>2, LossOpens DEF Crash, Exit, Disconnect, Dies
  <2>3. ASSUME NEW w \in Worker, Reconnect(w) \/ Restart(w) \/ Housekeeping(w)
        PROVE  UNCHANGED <<broker, status, work>>
    BY <2>3 DEF Reconnect, Restart, Housekeeping, handlers
  <2>4. CASE RedisOutage \/ RedisBack \/ UNCHANGED vars
    BY <1>2, <2>4 DEF RedisOutage, RedisBack, handlers, vars
  <2>5. CASE Tick
    BY <1>1, <2>5, TickOpens DEF Tick, handlers
  <2> QED BY <1>2, <2>1, <2>2, <2>3, <2>4, <2>5 DEF Next
<1>4. status \in [Orders -> OrderStatus]
  BY DEF RuntimeInv, TypeOK
<1>5. \A o \in Orders : status'[o] = "CREATED" => status[o] = "CREATED"
  BY <1>3, <1>4 DEF Lifecycle!Deploy, Lifecycle!Complete, Lifecycle!Fail, Lifecycle!Write
<1>6. LifeInv'
  BY <1>3, <1>5 DEF LifeInv, Opened
<1>7. ASSUME NEW o \in Orders PROVE Lifecycle!Opens(o)
  <2> DEFINE jobs == [p \in Orders |-> Jobs(p)]
  <2>1. jobs'[o] = Jobs(o)' /\ jobs[o] = Jobs(o)
    OBVIOUS
  <2> QED BY <1>3, <2>1 DEF Opened, Lifecycle!Opens, Lifecycle!Asked, Jobs, Worker
<1>8. CASE Next
  <2>1. ASSUME NEW o \in Orders PROVE Lifecycle!LetGo(o)
    BY <1>1, <1>8, OrphansHad DEF Lifecycle!LetGo, Jobs, Worker
  <2>2. Lifecycle!Next
    BY <1>3, <1>7, <2>1 DEF AllKept, Lifecycle!Next
  <2> QED BY <1>6, <2>2
<1>9. CASE UNCHANGED vars
  <2>1. \A o \in Orders : Jobs(o)' = Jobs(o)
    BY <1>9 DEF vars, Jobs, DeployJob, SettleJob, Waiting, At, OrderOf, Holds
  <2> QED BY <1>6, <1>9, <2>1 DEF vars, Lifecycle!lifecycle
<1> QED BY <1>8, <1>9

\* At first there are deploy jobs only.
LEMMA LifecycleStart == Init => LifeInv /\ Lifecycle!Init
<1> SUFFICES ASSUME Init PROVE LifeInv /\ Lifecycle!Init
  OBVIOUS
<1>0. "deploy" \in Worker /\ "settle" \in Worker /\ "deploy" # "settle"
  BY DEF Worker
<1>1. \A w \in Worker : \A i \in Slots[w] : work[w][i].pc = "idle"
  BY DEF Init, Idle
<1>2. ASSUME NEW o \in Orders PROVE status[o] = "CREATED" /\ DeployJob(o) /\ ~SettleJob(o)
  <2>1. Job(o, "deploy") \in Msg /\ Job(o, "deploy").order = o /\ Job(o, "deploy").to = "deploy"
    BY <1>0, Messages DEF Job
  <2>2. status[o] = "CREATED" /\ broker[Job(o, "deploy")] > 0
    BY <2>1 DEF Init
  <2>3. \A m \in Msg : m.to = "settle" => broker[m] = 0
    BY DEF Init, Job
  <2>4. ~Waiting(o, "settle")
    BY <2>3 DEF Waiting
  <2>5. Waiting(o, "deploy")
    BY <2>1, <2>2 DEF Waiting
  <2> QED BY <1>0, <1>1, <2>2, <2>4, <2>5 DEF DeployJob, SettleJob, At
<1>3. AllPublishing
  BY <1>1 DEF AllPublishing, Publishing
<1>4. \A o \in Orders : Jobs(o) = {"deploy"}
  BY <1>2 DEF Jobs, Worker
<1>5. status \in [Orders -> {"NONE", "CREATED"}] /\ orphaned = {}
  BY DEF Init
<1>6. Lifecycle!Init
  BY <1>2, <1>4, <1>5 DEF Lifecycle!Init, Lifecycle!Asked, Lifecycle!Stage
<1> QED BY <1>2, <1>3, <1>6 DEF LifeInv

\* Channels that close under a handler, repeated deliveries, lost confirmations and
\* deaths included, the workers are one OrderLifecycle.
THEOREM RuntimeLifecycle == Spec => ImplementsLifecycle
<1>1. Init => RuntimeInv /\ MonitoringInv /\ JobInv /\ LifeInv /\ Lifecycle!Init
  BY TypesStart, MonitoringStarts, JobStart, LifecycleStart DEF Init
<1>2. RuntimeInv /\ MonitoringInv /\ JobInv /\ [Next]_vars => (RuntimeInv /\ MonitoringInv /\ JobInv)'
  BY TypesStep, JobStep
<1>3. RuntimeInv /\ LifeInv /\ AllKept' /\ [Next]_vars
        => LifeInv' /\ [Lifecycle!Next]_Lifecycle!lifecycle
  BY LifecycleStep
<1> QED BY <1>1, <1>2, <1>3, JobInvKeeps, PTL DEF Spec, ImplementsLifecycle, Lifecycle!Spec

\* An order that is COMPLETED or FAILED and has no job left is over for good.
THEOREM RuntimeRest == Spec => Lifecycle!RestIsFinal
<1> DEFINE Final == \A o \in Orders :
                        Lifecycle!AtRest(o) => Lifecycle!AtRest(o)' /\ UNCHANGED status[o]
<1>1. RuntimeInv /\ [Lifecycle!Next]_Lifecycle!lifecycle => [Final]_Lifecycle!lifecycle
  <2> SUFFICES ASSUME RuntimeInv, Lifecycle!Next, NEW o \in Orders, Lifecycle!AtRest(o)
               PROVE  Lifecycle!AtRest(o)' /\ UNCHANGED status[o]
    OBVIOUS
  <2>1. status \in [Orders -> OrderStatus]
    BY DEF RuntimeInv, TypeOK
  <2>2. UNCHANGED status[o]
    BY <2>1 DEF Lifecycle!Next, Lifecycle!AtRest, Lifecycle!Create, Lifecycle!Deploy,
                Lifecycle!Complete, Lifecycle!Fail, Lifecycle!Write
  <2>3. Jobs(o)' = {}
    BY <2>2 DEF Lifecycle!Next, Lifecycle!AtRest, Lifecycle!Opens, Lifecycle!Asked
  <2> QED BY <2>2, <2>3 DEF Lifecycle!AtRest
<1>2. Spec => [][Final]_Lifecycle!lifecycle
  BY <1>1, TypesHold, RuntimeLifecycle, PTL DEF ImplementsLifecycle, Lifecycle!Spec
<1> QED BY <1>2, PTL DEF Lifecycle!RestIsFinal
=============================================================================
