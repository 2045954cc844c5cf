------------------------- MODULE WorkerRuntimeProofs -------------------------
(* Proofs about Monitoring and WorkerRuntime.                              *)
EXTENDS WorkerRuntime, TLAPS

-----------------------------------------------------------------------------
(* Arithmetic                                                              *)

LEMMA MaxPair ==
    ASSUME NEW a \in Int, NEW b \in Int
    PROVE  Max({a, b}) \in {a, b} /\ Max({a, b}) >= a /\ Max({a, b}) >= b
<1>1. \E x \in {a, b} : \A y \in {a, b} : x >= y
  <2>1. CASE a >= b  BY <2>1
  <2>2. CASE b >= a  BY <2>2
  <2> QED BY <2>1, <2>2
<1> QED BY <1>1 DEF Max

LEMMA MinPair ==
    ASSUME NEW a \in Int, NEW b \in Int
    PROVE  Min({a, b}) \in {a, b} /\ Min({a, b}) <= a /\ Min({a, b}) <= b
<1>1. \E x \in {a, b} : \A y \in {a, b} : x <= y
  <2>1. CASE a <= b  BY <2>1
  <2>2. CASE b <= a  BY <2>2
  <2> QED BY <2>1, <2>2
<1> QED BY <1>1 DEF Min

LEMMA Product == ASSUME NEW a \in Nat, NEW b \in Nat PROVE a * b \in Nat
OBVIOUS

LEMMA MulMono ==
    ASSUME NEW a \in Nat, NEW b \in Nat, NEW k \in Nat, a <= b
    PROVE  a * k <= b * k
<1>1. PICK d \in Nat : b = a + d
  <2>1. b - a \in Nat /\ b = a + (b - a)
    OBVIOUS
  <2> QED BY <2>1
<1>2. (a + d) * k = a * k + d * k
  OBVIOUS
<1>3. a * k \in Nat /\ d * k \in Nat
  BY Product
<1> QED BY <1>1, <1>2, <1>3

LEMMA MulOrder ==
    ASSUME NEW a \in Nat, NEW b \in Nat, NEW k \in Nat, a * k < b * k
    PROVE  a < b
<1> SUFFICES ASSUME ~(a < b) PROVE FALSE
  OBVIOUS
<1>1. b * k <= a * k
  BY MulMono
<1>2. a * k \in Nat /\ b * k \in Nat
  BY Product
<1> QED BY <1>1, <1>2

LEMMA Whole ==
    ASSUME NEW a \in Nat, NEW k \in Nat \ {0}, a % k = 0
    PROVE  a \div k \in Nat /\ (a \div k) * k = a
OBVIOUS

LEMMA Quotient ==
    ASSUME NEW a \in Nat, NEW k \in Nat \ {0}
    PROVE  a \div k \in Nat /\ (a \div k) * k <= a
OBVIOUS

-----------------------------------------------------------------------------
(* Heartbeats                                                              *)

\* In ticks: the TTL covers the interval and the latest beat, and is no longer than
\* two intervals, or a second.
LEMMA TtlBounds ==
    /\ Interval \in Nat /\ Ttl \in Nat
    /\ Interval + MaxLate < Ttl
    /\ \A n \in Nat : n < Ttl => n * TickMs < Max({2 * IntervalMs, 1000})
<1> DEFINE H == HeartbeatTtl(IntervalMs)
           q == (2 * IntervalMs) \div 1000
           K == 1000 \div TickMs
           M == Max({2 * IntervalMs, 1000})
<1>1. TickMs \in Nat \ {0} /\ IntervalMs \in Nat \ {0} /\ MaxLate \in Nat
  BY MonitoringAssumption
<1>2. K \in Nat /\ K * TickMs = 1000
  BY <1>1, MonitoringAssumption, Whole
<1>3. Interval \in Nat /\ Interval * TickMs = IntervalMs
  BY <1>1, MonitoringAssumption, Whole DEF Interval
<1>4. q \in Nat /\ q * 1000 <= 2 * IntervalMs
  <2> DEFINE a == 2 * IntervalMs
  <2>1. a \in Nat
    BY <1>1
  <2> HIDE DEF a
  <2>2. a \div 1000 \in Nat /\ (a \div 1000) * 1000 <= a
    BY <2>1, Quotient
  <2> QED BY <2>2 DEF a
<1>5. H \in {1, q}
  <2>1. H = Max({1, q})
    BY DEF HeartbeatTtl
  <2> HIDE DEF H, q
  <2>2. Max({1, q}) \in {1, q}
    BY <1>4, MaxPair
  <2> QED BY <2>1, <2>2
<1>6. H \in Nat /\ H * 1000 <= M /\ M \in Nat
  <2> DEFINE a == 2 * IntervalMs
  <2>1. a \in Nat /\ M = Max({a, 1000})
    BY <1>1
  <2> HIDE DEF a, M
  <2>2. M \in {a, 1000} /\ M >= a /\ M >= 1000
    BY <2>1, MaxPair
  <2> HIDE DEF H, q
  <2> QED BY <1>1, <1>4, <1>5, <2>1, <2>2 DEF a
<1>7. MaxLate * TickMs < H * 1000 - IntervalMs
  BY MonitoringAssumption DEF HeartbeatTtl
<1> HIDE DEF H, q, K, M
<1>8. Ttl = H * K
  BY DEF Ttl, H, K
<1>9. Ttl \in Nat
  BY <1>2, <1>6, <1>8
<1>10. Ttl * TickMs = H * 1000
  <2>1. (H * K) * TickMs = H * (K * TickMs)
    BY <1>1, <1>2, <1>6
  <2> QED BY <1>2, <1>8, <2>1
<1>11. Interval + MaxLate < Ttl
  <2>1. (Interval + MaxLate) * TickMs = Interval * TickMs + MaxLate * TickMs
    BY <1>1, <1>3
  <2>2. MaxLate * TickMs \in Nat /\ H * 1000 \in Nat
    BY <1>1, <1>6, Product
  <2>3. (Interval + MaxLate) * TickMs < Ttl * TickMs
    BY <1>1, <1>3, <1>7, <1>10, <2>1, <2>2
  <2> QED BY <1>1, <1>3, <1>9, <2>3, MulOrder
<1>12. ASSUME NEW n \in Nat, n < Ttl PROVE n * TickMs < M
  <2>1. (n + 1) * TickMs <= Ttl * TickMs
    BY <1>1, <1>9, <1>12, MulMono
  <2>2. (n + 1) * TickMs = n * TickMs + TickMs
    BY <1>1
  <2>3. n * TickMs \in Nat /\ H * 1000 \in Nat
    BY <1>1, <1>6, Product
  <2> QED BY <1>1, <1>6, <1>10, <2>1, <2>2, <2>3
<1> QED BY <1>3, <1>9, <1>11, <1>12 DEF M

\* What the monitoring can do in a step of the workers.
MonitoringStep ==
    \/ \E s \in Services : Beat(s) \/ Flush(s) \/ ProcessDies(s) \/ ProcessStarts(s)
    \/ RedisGoes \/ RedisReturns \/ TimersPass

LEMMA MonitoringFrame == [Next]_vars => MonitoringStep \/ UNCHANGED monitoring
<1> SUFFICES ASSUME [Next]_vars PROVE MonitoringStep \/ UNCHANGED monitoring
  OBVIOUS
<1> USE RuntimeAssumption
<1>1. ASSUME NEW w \in Worker, NEW i \in Slots[w], Handle(w, i) PROVE UNCHANGED monitoring
  BY <1>1 DEF Handle, Deliver, Lookup, Fails, Publish, Confirm, Ack, AckThrows, Deploys, Settles
<1>2. ASSUME NEW w \in Worker, Disconnect(w) \/ Reconnect(w) PROVE UNCHANGED monitoring
  BY <1>2 DEF Disconnect, Reconnect
<1>3. ASSUME NEW w \in Worker, Crash(w) \/ Exit(w) PROVE MonitoringStep
  BY <1>3 DEF Crash, Exit, Dies, MonitoringStep
<1>4. ASSUME NEW w \in Worker, Restart(w) \/ Housekeeping(w) PROVE MonitoringStep
  BY <1>4 DEF Restart, Housekeeping, MonitoringStep
<1>5. CASE RedisOutage \/ RedisBack \/ Tick
  BY <1>5 DEF RedisOutage, RedisBack, Tick, MonitoringStep
<1>6. CASE UNCHANGED vars
  BY <1>6 DEF vars
<1> QED BY <1>1, <1>2, <1>3, <1>4, <1>5, <1>6 DEF Next

\* The inductive invariant of the heartbeats.  The key of a service that ran since
\* ticks ago lost at least as many of its ticks; the key of one that runs, with
\* nothing to be written, is ahead of the timer of its next beat.
HeartbeatInv ==
    \A s \in Services :
        /\ hb[s] > 0 => hb[s] + since[s] <= Ttl
        /\ up[s] => since[s] = 0
        /\ pending[s] => up[s]
        /\ up[s] /\ ~pending[s] => hb[s] >= Ttl - Interval + beat[s]

MonitoringInv == MonitoringTypeOK /\ HeartbeatInv

LEMMA MonitoringStarts == MonitoringInit => MonitoringInv
<1> SUFFICES ASSUME MonitoringInit PROVE MonitoringInv
  OBVIOUS
<1>1. Interval \in Nat /\ Ttl \in Nat /\ MaxLate \in Nat
  BY TtlBounds, MonitoringAssumption
<1> HIDE DEF Interval, Ttl
<1>2. redisUp \in BOOLEAN
  BY Zenon DEF MonitoringInit
<1>3. Interval \in -MaxLate..Interval /\ Ttl \in 0..Ttl /\ 0 \in 0..Ttl
  BY <1>1
<1>4. MonitoringTypeOK
  BY <1>2, <1>3 DEF MonitoringInit, MonitoringTypeOK
<1>5. HeartbeatInv
  BY <1>1 DEF MonitoringInit, HeartbeatInv
<1> QED BY <1>4, <1>5 DEF MonitoringInv

\* A beat, from wherever the timer stood.
LEMMA WriteKeeps ==
    ASSUME MonitoringInv, NEW s \in Services, Write(s),
           up' \in [Services -> BOOLEAN], up'[s], since' \in [Services -> 0..Ttl],
           since'[s] = 0, redisUp' = redisUp,
           \A t \in Services : t # s => up'[t] = up[t] /\ since'[t] = since[t]
    PROVE  MonitoringInv'
<1>1. Interval \in Nat /\ Ttl \in Nat /\ MaxLate \in Nat /\ Interval + MaxLate < Ttl
  BY TtlBounds, MonitoringAssumption
<1> HIDE DEF Interval, Ttl
<1>2. beat' = [beat EXCEPT ![s] = Interval]
  BY DEF Write
<1>3. MonitoringTypeOK'
  <2>1. Interval \in -MaxLate..Interval /\ Ttl \in 0..Ttl
    BY <1>1
  <2>2. hb' \in [Services -> 0..Ttl] /\ pending' \in [Services -> BOOLEAN]
    BY <2>1 DEF Write, MonitoringInv, MonitoringTypeOK
  <2>3. beat' \in [Services -> -MaxLate..Interval]
    BY <1>2, <2>1 DEF MonitoringInv, MonitoringTypeOK
  <2> QED BY <2>2, <2>3 DEF MonitoringInv, MonitoringTypeOK
<1>4. ASSUME NEW t \in Services
      PROVE  /\ hb'[t] > 0 => hb'[t] + since'[t] <= Ttl
             /\ up'[t] => since'[t] = 0
             /\ pending'[t] => up'[t]
             /\ up'[t] /\ ~pending'[t] => hb'[t] >= Ttl - Interval + beat'[t]
  <2>1. CASE t # s
    <3>1. hb'[t] = hb[t] /\ pending'[t] = pending[t] /\ beat'[t] = beat[t]
      BY <2>1, <1>2 DEF Write, MonitoringInv, MonitoringTypeOK
    <3> QED BY <2>1, <3>1 DEF MonitoringInv, HeartbeatInv
  <2>2. CASE t = s
    <3>1. hb'[s] \in 0..Ttl /\ beat'[s] = Interval
      BY <1>2, <1>3 DEF MonitoringInv, MonitoringTypeOK
    <3>2. ~pending'[s] => hb'[s] = Ttl
      BY DEF Write, MonitoringInv, MonitoringTypeOK
    <3> QED BY <2>2, <1>1, <3>1, <3>2
  <2> QED BY <2>1, <2>2
<1> QED BY <1>3, <1>4 DEF MonitoringInv, HeartbeatInv

\* One step of the heartbeats.
LEMMA MonitoringKeeps == MonitoringInv /\ [MonitoringStep]_monitoring => MonitoringInv'
<1> SUFFICES ASSUME MonitoringInv, [MonitoringStep]_monitoring PROVE MonitoringInv'
  OBVIOUS
<1>0. Interval \in Nat /\ Ttl \in Nat /\ MaxLate \in Nat /\ Interval + MaxLate < Ttl
  BY TtlBounds, MonitoringAssumption
<1> HIDE DEF Interval, Ttl
<1>1. ASSUME NEW s \in Services, Beat(s) PROVE MonitoringInv'
  <2>1. up[s] /\ since[s] = 0
    BY <1>1 DEF Beat, MonitoringInv, HeartbeatInv
  <2> QED BY <1>1, <2>1, WriteKeeps DEF Beat, MonitoringInv, MonitoringTypeOK
<1>2. ASSUME NEW s \in Services, ProcessStarts(s) PROVE MonitoringInv'
  <2>1. up' \in [Services -> BOOLEAN] /\ up'[s] /\ redisUp' = redisUp
    BY <1>2 DEF ProcessStarts, MonitoringInv, MonitoringTypeOK
  <2>2. since' \in [Services -> 0..Ttl] /\ since'[s] = 0
    BY <1>0, <1>2 DEF ProcessStarts, MonitoringInv, MonitoringTypeOK
  <2>3. \A t \in Services : t # s => up'[t] = up[t] /\ since'[t] = since[t]
    BY <1>2 DEF ProcessStarts, MonitoringInv, MonitoringTypeOK
  <2>4. Write(s)
    BY <1>2 DEF ProcessStarts
  <2> QED BY <2>1, <2>2, <2>3, <2>4, WriteKeeps
<1>3. ASSUME NEW s \in Services, ProcessDies(s) PROVE MonitoringInv'
  <2>1. MonitoringTypeOK'
    BY <1>3 DEF ProcessDies, MonitoringInv, MonitoringTypeOK
  <2>2. \A t \in Services :
           /\ up'[t] = (IF t = s THEN FALSE ELSE up[t])
           /\ pending'[t] = (IF t = s THEN FALSE ELSE pending[t])
    BY <1>3 DEF ProcessDies, MonitoringInv, MonitoringTypeOK
  <2>3. HeartbeatInv'
    BY <1>3, <2>2 DEF ProcessDies, MonitoringInv, HeartbeatInv
  <2> QED BY <2>1, <2>3 DEF MonitoringInv
<1>4. ASSUME NEW s \in Services, Flush(s) PROVE MonitoringInv'
  <2>1. MonitoringTypeOK'
    BY <1>0, <1>4 DEF Flush, MonitoringInv, MonitoringTypeOK
  <2>2. \A t \in Services :
           /\ hb'[t] = (IF t = s THEN Ttl ELSE hb[t])
           /\ pending'[t] = (IF t = s THEN FALSE ELSE pending[t])
    BY <1>4 DEF Flush, MonitoringInv, MonitoringTypeOK
  <2>3. up[s] /\ since[s] = 0 /\ beat[s] \in -MaxLate..Interval
    BY <1>4 DEF Flush, MonitoringInv, HeartbeatInv, MonitoringTypeOK
  <2>4. beat[s] <= Interval /\ beat[s] \in Int
    BY <1>0, <2>3
  <2>5. up' = up /\ beat' = beat /\ since' = since
    BY <1>4 DEF Flush
  <2>6. ASSUME NEW t \in Services
        PROVE  /\ hb'[t] > 0 => hb'[t] + since'[t] <= Ttl
               /\ up'[t] => since'[t] = 0
               /\ pending'[t] => up'[t]
               /\ up'[t] /\ ~pending'[t] => hb'[t] >= Ttl - Interval + beat'[t]
    <3>1. CASE t = s
      <4>1. hb'[t] = Ttl
        BY <2>2, <3>1
      <4>2. ~pending'[t]
        BY <2>2, <3>1, Zenon
      <4>3. since'[t] = 0 /\ beat'[t] = beat[s]
        BY <2>3, <2>5, <3>1
      <4> QED BY <1>0, <2>4, <4>1, <4>2, <4>3
    <3>2. CASE t # s
      <4>1. hb'[t] = hb[t] /\ pending'[t] = pending[t]
        BY <2>2, <3>2
      <4> QED BY <2>5, <4>1 DEF MonitoringInv, HeartbeatInv
    <3> QED BY <3>1, <3>2
  <2> QED BY <2>1, <2>6 DEF MonitoringInv, HeartbeatInv
<1>5. CASE RedisGoes \/ RedisReturns
  BY <1>5, Zenon DEF RedisGoes, RedisReturns, beats, MonitoringInv, MonitoringTypeOK, HeartbeatInv
<1>6. CASE TimersPass
  <2>1. \A t \in Services :
           /\ hb[t] \in 0..Ttl /\ since[t] \in 0..Ttl /\ beat[t] \in -MaxLate..Interval
           /\ up'[t] = up[t] /\ pending'[t] = pending[t]
           /\ beat'[t] = (IF up[t] THEN beat[t] - 1 ELSE beat[t])
           /\ up[t] => beat[t] > -MaxLate
           /\ hb'[t] = Max({0, hb[t] - 1})
           /\ since'[t] = (IF up[t] THEN 0 ELSE Min({Ttl, since[t] + 1}))
    BY <1>6 DEF TimersPass, MonitoringInv, MonitoringTypeOK
  <2>2. ASSUME NEW t \in Services
        PROVE  /\ hb'[t] \in 0..Ttl /\ since'[t] \in 0..Ttl /\ beat'[t] \in -MaxLate..Interval
               /\ hb'[t] > 0 => hb'[t] + since'[t] <= Ttl
               /\ up'[t] => since'[t] = 0
               /\ pending'[t] => up'[t]
               /\ up'[t] /\ ~pending'[t] => hb'[t] >= Ttl - Interval + beat'[t]
    <3>0. /\ hb[t] \in 0..Ttl /\ since[t] \in 0..Ttl /\ beat[t] \in -MaxLate..Interval
          /\ up'[t] = up[t] /\ pending'[t] = pending[t]
          /\ beat'[t] = (IF up[t] THEN beat[t] - 1 ELSE beat[t])
          /\ up[t] => beat[t] > -MaxLate
          /\ hb'[t] = Max({0, hb[t] - 1})
          /\ since'[t] = (IF up[t] THEN 0 ELSE Min({Ttl, since[t] + 1}))
      BY <2>1, Zenon
    <3>1. /\ hb'[t] \in {0, hb[t] - 1} /\ hb'[t] >= 0 /\ hb'[t] >= hb[t] - 1
          /\ Min({Ttl, since[t] + 1}) \in {Ttl, since[t] + 1}
          /\ Min({Ttl, since[t] + 1}) <= Ttl /\ Min({Ttl, since[t] + 1}) <= since[t] + 1
      <4> DEFINE a == hb[t] - 1
                 b == since[t] + 1
      <4>1. a \in Int /\ b \in Int /\ Ttl \in Int /\ hb'[t] = Max({0, a})
        BY <1>0, <3>0
      <4> HIDE DEF a, b
      <4>2. hb'[t] \in {0, a} /\ hb'[t] >= 0 /\ hb'[t] >= a
        BY <4>1, MaxPair
      <4>3. Min({Ttl, b}) \in {Ttl, b} /\ Min({Ttl, b}) <= Ttl /\ Min({Ttl, b}) <= b
        BY <4>1, MinPair
      <4> QED BY <4>2, <4>3 DEF a, b
    <3>2. since'[t] \in 0..Ttl /\ since'[t] <= since[t] + 1 /\ (up[t] => since'[t] = 0)
      BY <1>0, <3>0, <3>1
    <3>3. beat'[t] \in -MaxLate..Interval /\ (up[t] => beat'[t] = beat[t] - 1)
      BY <1>0, <3>0
    <3>4. /\ hb[t] > 0 => hb[t] + since[t] <= Ttl
          /\ pending[t] => up[t]
          /\ up[t] /\ ~pending[t] => hb[t] >= Ttl - Interval + beat[t]
      BY DEF MonitoringInv, HeartbeatInv
    <3>5. hb'[t] \in 0..Ttl /\ (hb'[t] > 0 => hb'[t] + since'[t] <= Ttl)
      BY <1>0, <3>0, <3>1, <3>2, <3>4
    <3> QED BY <1>0, <3>0, <3>1, <3>2, <3>3, <3>4, <3>5
  <2>3. /\ beat' = [s \in Services |-> beat'[s]] /\ hb' = [s \in Services |-> hb'[s]]
        /\ since' = [s \in Services |-> since'[s]]
        /\ redisUp' = redisUp /\ up' = up /\ pending' = pending
    BY <1>6 DEF TimersPass
  <2>4. MonitoringTypeOK'
    BY <2>2, <2>3 DEF MonitoringInv, MonitoringTypeOK
  <2> QED BY <2>2, <2>4 DEF MonitoringInv, HeartbeatInv
<1>7. CASE UNCHANGED monitoring
  BY <1>7 DEF monitoring, beats, MonitoringInv, MonitoringTypeOK, HeartbeatInv
<1> QED BY <1>1, <1>2, <1>3, <1>4, <1>5, <1>6, <1>7 DEF MonitoringStep

\* What the invariant gives.
LEMMA MonitoringGives == MonitoringInv => FreshMeansRecent /\ NoFalseAlarm
<1> SUFFICES ASSUME MonitoringInv PROVE FreshMeansRecent /\ NoFalseAlarm
  OBVIOUS
<1>1. /\ Interval \in Nat /\ Ttl \in Nat /\ MaxLate \in Nat /\ Interval + MaxLate < Ttl
      /\ \A n \in Nat : n < Ttl => n * TickMs < Max({2 * IntervalMs, 1000})
  BY TtlBounds, MonitoringAssumption
<1> HIDE DEF Interval, Ttl
<1>2. ASSUME NEW s \in Services, Fresh(s)
      PROVE  since[s] * TickMs < Max({2 * IntervalMs, 1000})
  <2>1. since[s] \in Nat /\ since[s] < Ttl
    BY <1>1, <1>2 DEF Fresh, MonitoringInv, MonitoringTypeOK, HeartbeatInv
  <2> QED BY <1>1, <2>1
<1>3. ASSUME NEW s \in Services, up[s], ~pending[s] PROVE Fresh(s)
  <2>1. hb[s] \in 0..Ttl /\ beat[s] \in -MaxLate..Interval
    BY DEF MonitoringInv, MonitoringTypeOK
  <2>2. hb[s] >= Ttl - Interval + beat[s]
    BY <1>3 DEF MonitoringInv, HeartbeatInv
  <2> QED BY <1>1, <2>1, <2>2 DEF Fresh
<1> QED BY <1>2, <1>3 DEF FreshMeansRecent, NoFalseAlarm

LEMMA MonitoringHolds == Spec => []MonitoringInv
<1>1. Init => MonitoringInv
  BY MonitoringStarts DEF Init
<1>2. MonitoringInv /\ [Next]_vars => MonitoringInv'
  BY MonitoringFrame, MonitoringKeeps
<1> QED BY <1>1, <1>2, PTL DEF Spec

\* A fresh heartbeat means that the process ran less than two intervals ago, or a
\* second, for every interval, length of a tick and delay of a timer.
THEOREM FreshIsRecent == Spec => []FreshMeansRecent
BY MonitoringHolds, MonitoringGives, PTL

\* A process that runs and has nothing to write to Redis is reported alive.
THEOREM AliveIsFresh == Spec => []NoFalseAlarm
BY MonitoringHolds, MonitoringGives, PTL

-----------------------------------------------------------------------------
(* Health                                                                  *)

\* The overall status: with two checks or more it is healthy with one of them
\* down, whichever it is, degraded with at least half of them up.
THEOREM HealthBrackets ==
    ASSUME NEW total \in Nat, total >= 2, NEW ok \in 0..total
    PROVE  /\ HealthStatus(ok, total) = "healthy" <=> total - ok <= 1
           /\ HealthStatus(ok, total) = "unhealthy" <=> total - ok >= 2 /\ 2 * ok < total
<1>1. ok >= HalfUp(total) <=> 2 * ok >= total
  BY DEF HalfUp
<1> QED BY <1>1 DEF HealthStatus
=============================================================================
