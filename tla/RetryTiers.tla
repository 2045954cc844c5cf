------------------------------ MODULE RetryTiers ------------------------------
(***************************************************************************)
(* The queues of RabbitMQ and the publishers: two work queues, the TTL     *)
(* queues of the retry tiers, which dead-letter into them, and the         *)
(* residual queues, which all dead-letter into deploy.q.  A message in a   *)
(* TTL queue is one with time left.                                        *)
(***************************************************************************)
EXTENDS Integers, Sequences, FiniteSetsExt

CONSTANTS
    Orders,
    RetryTtl,       \* RetryTtl[i]: TTL of the i-th retry tier, of both workers
    ResidualTtl,    \* ResidualTtl[i]: TTL of the i-th residual queue
    MaxTtl,         \* a bound on these
    MaxAttempts     \* maxAttempts of both workers

ASSUME TierAssumption ==
    /\ MaxTtl \in Nat
    /\ RetryTtl \in Seq(1..MaxTtl) \ {<<>>}
    /\ ResidualTtl \in Seq(1..MaxTtl) \ {<<>>}
    /\ MaxAttempts \in Nat \ {0}

Worker == {"deploy", "settle"}

\* to: the routing key; attempt is absent, 0, in a first or a residual message.
Msg == [order : Orders, to : Worker, attempt : 0..MaxAttempts, left : 0..MaxTtl]

VARIABLE broker     \* broker[m]: how many messages m wait at the broker

BrokerTypeOK == broker \in [Msg -> Nat]
BrokerInit == broker = [m \in Msg |-> 0]

\* enqueueDeploy, enqueueSettle
Job(o, w) == [order |-> o, to |-> w, attempt |-> 0, left |-> 0]

\* Mutant: the index is not cut to the last tier.
RetryIndexUncut(attempt) == attempt

\* The tier of an attempt, counted from 0 as in the code: the first attempt is 1,
\* so tier 0 is never taken.
RetryIndex(attempt) == Min({attempt, Len(RetryTtl) - 1})

\* "No retry queue found": the publication throws.
HasTier(attempt) == RetryIndex(attempt) + 1 \in DOMAIN RetryTtl

\* enqueueDeployRetry, enqueueSettleRetry
Retry(o, w, attempt) ==
    [order |-> o, to |-> w, attempt |-> attempt, left |-> RetryTtl[RetryIndex(attempt) + 1]]

ResidualIndex(tier) == Max({0, Min({tier, Len(ResidualTtl) - 1})})

\* enqueueResidualDelay
Residual(o, tier) ==
    [order |-> o, to |-> "deploy", attempt |-> 0, left |-> ResidualTtl[ResidualIndex(tier) + 1]]

Put(m) == broker' = [broker EXCEPT ![m] = @ + 1]
Take(m) == broker[m] > 0 /\ m.left = 0 /\ broker' = [broker EXCEPT ![m] = @ - 1]

\* What waits gets closer to its work queue; what is there stays.
TtlsPass ==
    broker' = [m \in Msg |->
        (IF m.left < MaxTtl THEN broker[[m EXCEPT !.left = @ + 1]] ELSE 0)
          + (IF m.left = 0 THEN broker[m] ELSE 0)]

Waiting(o, w) == \E m \in Msg : broker[m] > 0 /\ m.order = o /\ m.to = w
=============================================================================
