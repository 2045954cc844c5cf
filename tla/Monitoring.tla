------------------------------ MODULE Monitoring ------------------------------
(***************************************************************************)
(* Monitoring: the heartbeat that each service leaves in Redis with an     *)
(* expiry, and the overall status of GET /health.  Time advances in ticks  *)
(* of TickMs.  A Redis command waits while Redis is away, however long     *)
(* (maxRetriesPerRequest is null), and expiry goes on meanwhile.           *)
(***************************************************************************)
EXTENDS Integers, FiniteSetsExt

CONSTANTS
    Services,      \* services that beat
    IntervalMs,    \* HEARTBEAT_INTERVAL_MS
    TickMs,        \* a tick of the model
    MaxLate        \* ticks by which the event loop may delay a beat

\* The interval is a whole number of ticks, and so is a second; a beat is delayed
\* by less than what the expiry leaves beyond the interval.
ASSUME MonitoringAssumption ==
    /\ TickMs \in Nat \ {0} /\ IntervalMs \in Nat \ {0} /\ MaxLate \in Nat
    /\ 1000 % TickMs = 0 /\ IntervalMs % TickMs = 0
    /\ MaxLate * TickMs < Max({1, (2 * IntervalMs) \div 1000}) * 1000 - IntervalMs

VARIABLES
    redisUp,
    up,         \* up[s]: the process of the service runs
    beat,       \* beat[s]: ticks until its timer fires
    pending,    \* pending[s]: a SET that waits for Redis
    hb,         \* hb[s]: remaining TTL of hb:<service>, 0 when there is no key
    since       \* history: ticks since the process of s ran, up to Ttl

beats == <<beat, pending, hb>>
monitoring == <<redisUp, up, beats, since>>

Interval == IntervalMs \div TickMs

\* Mutant: twice the interval is forgotten.
HeartbeatTtlOnce(ms) == Max({1, ms \div 1000})

\* Mutant: the factor is applied twice.
HeartbeatTtlTwice(ms) == Max({1, (4 * ms) \div 1000})

\* The expiry in seconds.
HeartbeatTtl(ms) == Max({1, (2 * ms) \div 1000})

Ttl == HeartbeatTtl(IntervalMs) * (1000 \div TickMs)

MonitoringTypeOK ==
    /\ redisUp \in BOOLEAN
    /\ up \in [Services -> BOOLEAN]
    /\ beat \in [Services -> -MaxLate..Interval]
    /\ pending \in [Services -> BOOLEAN]
    /\ hb \in [Services -> 0..Ttl]
    /\ since \in [Services -> 0..Ttl]

MonitoringInit ==
    /\ redisUp = TRUE
    /\ up = [s \in Services |-> TRUE]
    /\ beat = [s \in Services |-> Interval]
    /\ pending = [s \in Services |-> FALSE]
    /\ hb = [s \in Services |-> Ttl]
    /\ since = [s \in Services |-> 0]

-----------------------------------------------------------------------------
(* Heartbeats                                                              *)

\* writeHeartbeat, and the timer set again.
Write(s) ==
    /\ beat' = [beat EXCEPT ![s] = Interval]
    /\ IF redisUp THEN hb' = [hb EXCEPT ![s] = Ttl] /\ UNCHANGED pending
       ELSE pending' = [pending EXCEPT ![s] = TRUE] /\ UNCHANGED hb

Beat(s) ==
    /\ up[s] /\ beat[s] <= 0
    /\ Write(s)
    /\ UNCHANGED <<redisUp, up, since>>

\* The queue of commands dies with the process; the key stays.
ProcessDies(s) ==
    /\ up[s]
    /\ up' = [up EXCEPT ![s] = FALSE]
    /\ pending' = [pending EXCEPT ![s] = FALSE]
    /\ UNCHANGED <<redisUp, beat, hb, since>>

\* startHeartbeat beats at once, before the service consumes anything.
ProcessStarts(s) ==
    /\ ~up[s]
    /\ up' = [up EXCEPT ![s] = TRUE]
    /\ since' = [since EXCEPT ![s] = 0]
    /\ Write(s)
    /\ UNCHANGED redisUp

RedisGoes == redisUp /\ redisUp' = FALSE /\ UNCHANGED <<up, beats, since>>
RedisReturns == ~redisUp /\ redisUp' = TRUE /\ UNCHANGED <<up, beats, since>>

\* The commands that waited are sent.
Flush(s) ==
    /\ redisUp /\ pending[s]
    /\ hb' = [hb EXCEPT ![s] = Ttl]
    /\ pending' = [pending EXCEPT ![s] = FALSE]
    /\ UNCHANGED <<redisUp, up, beat, since>>

TimersPass ==
    /\ \A s \in Services : up[s] => beat[s] > -MaxLate
    /\ beat' = [s \in Services |-> IF up[s] THEN beat[s] - 1 ELSE beat[s]]
    /\ hb' = [s \in Services |-> Max({0, hb[s] - 1})]
    /\ since' = [s \in Services |-> IF up[s] THEN 0 ELSE Min({Ttl, since[s] + 1})]
    /\ UNCHANGED <<redisUp, up, pending>>

\* isHeartbeatFresh
Fresh(s) == hb[s] > 0

-----------------------------------------------------------------------------
(* Health                                                                  *)

\* Half of n, rounded up.
HalfUp(n) == (n + 1) \div 2

\* The overall status, of ok connectivity checks out of total that pass: the
\* database, Redis, RabbitMQ and each chain.  Heartbeats do not count.
HealthStatus(ok, total) ==
    IF ok >= total - 1 THEN "healthy"
    ELSE IF ok >= HalfUp(total) THEN "degraded" ELSE "unhealthy"

-----------------------------------------------------------------------------
(* Properties                                                              *)

\* A service that is reported alive ran less than two intervals ago (or a second,
\* when that is longer), through restarts and outages of Redis.
FreshMeansRecent ==
    \A s \in Services : Fresh(s) => since[s] * TickMs < Max({2 * IntervalMs, 1000})

\* A service that runs is reported alive, late timers, a TTL in whole seconds and
\* an outage that is over notwithstanding: a beat always comes before the key of
\* the last one expires, or waits to be written.
NoFalseAlarm ==
    \A s \in Services : up[s] /\ ~pending[s] => Fresh(s)
=============================================================================
