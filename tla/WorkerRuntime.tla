----------------------------- MODULE WorkerRuntime -----------------------------
(***************************************************************************)
(* The worker processes over the broker: deliveries, retries over time,    *)
(* publications that wait for their confirmation, and what a lost          *)
(* connection or a dead process does to all of them and to the heartbeats. *)
(*                                                                         *)
(* What a handler does to an order is reduced to the status it leaves      *)
(* (OrderPipeline has the rest).  Here channels close: the broker delivers *)
(* again what was not acknowledged, while the handler of the first         *)
(* delivery goes on, and acknowledging on its closed channel throws.       *)
(***************************************************************************)
EXTENDS RetryTiers, Monitoring, Functions

CONSTANTS
    Slots,       \* Slots[w]: handlers of w that may be under way, closed channels included
    Prefetch,    \* deliveries on a channel that may be unacknowledged
    NoMsg,
    MaxAge,      \* bound on the age of an order that is told apart
    Limit        \* how many outages and deaths are explored

ASSUME RuntimeAssumption ==
    /\ Services = Worker
    /\ \A w \in Worker : IsFiniteSet(Slots[w])
    /\ Prefetch \in Nat \ {0}
    /\ NoMsg \notin Msg
    /\ MaxAge \in Nat /\ Limit \in Nat

OrderStatus == {"CREATED", "DEPLOYED", "COMPLETED", "FAILED"}
HandlerPc == {"idle", "lookup", "work", "publish", "confirm", "ack", "lastAck"}

VARIABLES
    status,      \* the orders table
    age,         \* age[o]: ticks since o was created, up to MaxAge
    link,        \* link[w]: the connection of process w is up
    work,        \* work[w][i]: a handler
    orphaned,    \* history: orders whose work item was let go with its process
    disturbed    \* outages and deaths so far

handlers == <<status, link, work, orphaned>>
vars == <<broker, monitoring, status, age, link, work, orphaned, disturbed>>

\* next: the publication that is due or not confirmed; then: where it leads;
\* open: the channel of the delivery is open.
Handler == [pc : HandlerPc, msg : Msg \cup {NoMsg}, next : Msg \cup {NoMsg},
            then : {"ack", "lastAck"}, open : BOOLEAN]
Idle == [pc |-> "idle", msg |-> NoMsg, next |-> NoMsg, then |-> "ack", open |-> FALSE]

TypeOK ==
    /\ BrokerTypeOK
    /\ MonitoringTypeOK
    /\ status \in [Orders -> OrderStatus]
    /\ age \in [Orders -> 0..MaxAge]
    /\ link \in [Worker -> BOOLEAN]
    /\ DOMAIN work = Worker /\ \A w \in Worker : work[w] \in [Slots[w] -> Handler]
    /\ orphaned \in SUBSET Orders
    /\ disturbed \in 0..Limit

\* The watcher has created the orders and published their deploy jobs.
Init ==
    /\ broker = [m \in Msg |-> IF \E o \in Orders : m = Job(o, "deploy") THEN 1 ELSE 0]
    /\ MonitoringInit
    /\ status = [o \in Orders |-> "CREATED"]
    /\ age = [o \in Orders |-> 0]
    /\ link = [w \in Worker |-> TRUE]
    /\ work = [w \in Worker |-> [i \in Slots[w] |-> Idle]]
    /\ orphaned = {}
    /\ disturbed = 0

At(w, i, pc) == work[w][i].pc = pc
OrderOf(w, i) == work[w][i].msg.order
Set(w, i, h) == work' = [work EXCEPT ![w][i] = h]
SetStatus(o, st) == status' = [status EXCEPT ![o] = st]

\* The status on which a worker works.
Expected == [deploy |-> "CREATED", settle |-> "DEPLOYED"]

-----------------------------------------------------------------------------
(* Handlers                                                                *)

Busy(w) == {i \in Slots[w] : work[w][i].pc # "idle" /\ work[w][i].open}

\* A delivery: closed channels do not count against the prefetch.
Deliver(w, i) ==
    /\ up[w] /\ link[w]
    /\ At(w, i, "idle") /\ Cardinality(Busy(w)) < Prefetch
    /\ \E m \in Msg :
        /\ m.to = w
        /\ Take(m)
        /\ Set(w, i, [Idle EXCEPT !.pc = "lookup", !.msg = m, !.open = TRUE])
    /\ UNCHANGED <<monitoring, status, age, link, orphaned, disturbed>>

\* Mutant: the status is not looked at.
LookupAny(w, i) ==
    /\ At(w, i, "lookup")
    /\ Set(w, i, [work[w][i] EXCEPT !.pc = "work"])
    /\ UNCHANGED <<broker, monitoring, status, age, link, orphaned, disturbed>>

\* An order in another status is skipped: the deploy worker acknowledges inside
\* the outer try only, which throws a second time; so does the settle worker,
\* whose outer catch schedules a retry first.
Lookup(w, i) ==
    /\ At(w, i, "lookup")
    /\ Set(w, i, [work[w][i] EXCEPT !.pc =
            IF status[OrderOf(w, i)] = Expected[w] THEN "work"
            ELSE IF w = "deploy" THEN "lastAck" ELSE "ack"])
    /\ UNCHANGED <<broker, monitoring, status, age, link, orphaned, disturbed>>

\* The publication m is due and leads to pc; without one, pc is next.
ThenPublish(w, i, m, pc) ==
    Set(w, i, [work[w][i] EXCEPT !.pc = IF m = NoMsg THEN pc ELSE "publish",
                                 !.next = m, !.then = pc])

\* The account was there (outer try) or has been created (inner try).
Deploys(i) ==
    /\ At("deploy", i, "work")
    /\ SetStatus(OrderOf("deploy", i), "DEPLOYED")
    /\ \E pc \in {"ack", "lastAck"} :
        ThenPublish("deploy", i, Job(OrderOf("deploy", i), "settle"), pc)
    /\ UNCHANGED <<broker, monitoring, age, link, orphaned, disturbed>>

\* Settled, or nothing to settle.
Settles(i) ==
    /\ At("settle", i, "work")
    /\ SetStatus(OrderOf("settle", i), "COMPLETED")
    /\ ThenPublish("settle", i, NoMsg, "ack")
    /\ UNCHANGED <<broker, monitoring, age, link, orphaned, disturbed>>

\* Mutant: the last attempt is not made.
ScheduleEarly(w, i, pc) ==
    LET o == OrderOf(w, i)
        attempt == work[w][i].msg.attempt + 1
    IN IF attempt < MaxAttempts
       THEN /\ ThenPublish(w, i, IF HasTier(attempt) THEN Retry(o, w, attempt) ELSE NoMsg, pc)
            /\ UNCHANGED status
       ELSE /\ SetStatus(o, "FAILED")
            /\ ThenPublish(w, i, IF w = "settle" THEN Residual(o, 0) ELSE NoMsg, pc)

\* Mutant: one attempt more than the maximum is scheduled.
ScheduleLate(w, i, pc) ==
    LET o == OrderOf(w, i)
        attempt == work[w][i].msg.attempt + 1
    IN IF work[w][i].msg.attempt <= MaxAttempts
       THEN /\ ThenPublish(w, i, IF HasTier(attempt) THEN Retry(o, w, attempt) ELSE NoMsg, pc)
            /\ UNCHANGED status
       ELSE /\ SetStatus(o, "FAILED")
            /\ ThenPublish(w, i, IF w = "settle" THEN Residual(o, 0) ELSE NoMsg, pc)

\* The next attempt is due in its tier; after the last, the order is FAILED, and
\* the settle worker adds a residual.  Without a tier the publication throws, and
\* the message is acknowledged.
Schedule(w, i, pc) ==
    LET o == OrderOf(w, i)
        attempt == work[w][i].msg.attempt + 1
    IN IF attempt <= MaxAttempts
       THEN /\ ThenPublish(w, i, IF HasTier(attempt) THEN Retry(o, w, attempt) ELSE NoMsg, pc)
            /\ UNCHANGED status
       ELSE /\ SetStatus(o, "FAILED")
            /\ ThenPublish(w, i, IF w = "settle" THEN Residual(o, 0) ELSE NoMsg, pc)

\* The attempt fails: inside a catch whose ack is caught once more, or not.
Fails(w, i) ==
    /\ At(w, i, "work")
    /\ \E pc \in {"ack", "lastAck"} : Schedule(w, i, pc)
    /\ UNCHANGED <<broker, monitoring, age, link, orphaned, disturbed>>

\* Mutant: the publication is not awaited.
PublishUnawaited(w, i) ==
    /\ At(w, i, "publish")
    /\ IF link[w] THEN Put(work[w][i].next) ELSE UNCHANGED broker
    /\ Set(w, i, [work[w][i] EXCEPT !.pc = work[w][i].then])
    /\ UNCHANGED <<monitoring, status, age, link, orphaned, disturbed>>

\* The message reaches the broker; while the connection is down it waits.
Publish(w, i) ==
    /\ At(w, i, "publish")
    /\ link[w]
    /\ Put(work[w][i].next)
    /\ Set(w, i, [work[w][i] EXCEPT !.pc = "confirm"])
    /\ UNCHANGED <<monitoring, status, age, link, orphaned, disturbed>>

Confirm(w, i) ==
    /\ At(w, i, "confirm")
    /\ Set(w, i, [work[w][i] EXCEPT !.pc = work[w][i].then, !.next = NoMsg])
    /\ UNCHANGED <<broker, monitoring, status, age, link, orphaned, disturbed>>

Ack(w, i) ==
    /\ At(w, i, "ack") \/ At(w, i, "lastAck")
    /\ work[w][i].open
    /\ Set(w, i, Idle)
    /\ UNCHANGED <<broker, monitoring, status, age, link, orphaned, disturbed>>

\* Mutant: the retry is scheduled in a finally.
AckSchedules(w, i) ==
    /\ At(w, i, "ack")
    /\ Schedule(w, i, "lastAck")
    /\ UNCHANGED <<broker, monitoring, age, link, orphaned, disturbed>>

\* The channel is closed, ack throws, and a catch takes that for a failure of the
\* work: it schedules a retry, or sets the order to FAILED, whatever was achieved.
AckThrows(w, i) ==
    /\ At(w, i, "ack")
    /\ ~work[w][i].open
    /\ Schedule(w, i, "lastAck")
    /\ UNCHANGED <<broker, monitoring, age, link, orphaned, disturbed>>

-----------------------------------------------------------------------------
(* Connections and processes                                               *)

\* Deliveries that are not acknowledged go back to where they came from.
Requeued(w) ==
    [m \in Msg |-> broker[m] + Cardinality({i \in Busy(w) : work[w][i].msg = m})]

Disturb == disturbed < Limit /\ disturbed' = disturbed + 1

\* The channels close; a publication that is not confirmed will be sent again.
Disconnect(w) ==
    /\ Disturb
    /\ link[w]
    /\ link' = [link EXCEPT ![w] = FALSE]
    /\ broker' = Requeued(w)
    /\ work' = [work EXCEPT ![w] = [i \in Slots[w] |->
            LET h == work[w][i] IN
            [h EXCEPT !.open = FALSE, !.pc = IF h.pc = "confirm" THEN "publish" ELSE h.pc]]]
    /\ UNCHANGED <<monitoring, status, age, orphaned>>

Reconnect(w) ==
    /\ up[w] /\ ~link[w]
    /\ link' = [link EXCEPT ![w] = TRUE]
    /\ UNCHANGED <<broker, monitoring, status, age, work, orphaned, disturbed>>

\* The handlers end where they are.
Dies(w) ==
    /\ ProcessDies(w)
    /\ link' = [link EXCEPT ![w] = FALSE]
    /\ broker' = Requeued(w)
    /\ work' = [work EXCEPT ![w] = [i \in Slots[w] |-> Idle]]
    /\ orphaned' = orphaned \cup
            {OrderOf(w, i) : i \in {j \in Slots[w] : At(w, j, "publish") /\ w = "deploy"
                                        /\ work[w][j].next = Job(OrderOf(w, j), "settle")}}
    /\ UNCHANGED <<status, age>>

Crash(w) == Disturb /\ Dies(w)

\* The last ack throws as well: an unhandled rejection, which ends the process.
Exit(w) ==
    /\ \E i \in Slots[w] : At(w, i, "lastAck") /\ ~work[w][i].open
    /\ Dies(w)
    /\ UNCHANGED disturbed

\* The supervisor starts it again; it connects later.
Restart(w) ==
    /\ ProcessStarts(w)
    /\ UNCHANGED <<broker, handlers, age, disturbed>>

-----------------------------------------------------------------------------
RedisOutage == Disturb /\ RedisGoes /\ UNCHANGED <<broker, handlers, age>>

Housekeeping(w) ==
    /\ Beat(w) \/ Flush(w)
    /\ UNCHANGED <<broker, handlers, age, disturbed>>

RedisBack == RedisReturns /\ UNCHANGED <<broker, handlers, age, disturbed>>

\* Only a transaction, an outage and a delivery that waits for a handler take
\* time: lookups, publications and acknowledgements do not, against a tick.
Prompt(w, i) ==
    \/ work[w][i].pc \in {"lookup", "confirm", "ack", "lastAck"}
    \/ At(w, i, "publish") /\ link[w]

Tick ==
    /\ \A w \in Worker : \A i \in Slots[w] : ~Prompt(w, i)
    /\ TtlsPass
    /\ TimersPass
    /\ age' = [o \in Orders |-> Min({MaxAge, age[o] + 1})]
    /\ UNCHANGED <<handlers, disturbed>>

Handle(w, i) ==
    \/ Deliver(w, i) \/ Lookup(w, i) \/ Fails(w, i)
    \/ Publish(w, i) \/ Confirm(w, i) \/ Ack(w, i) \/ AckThrows(w, i)
    \/ w = "deploy" /\ Deploys(i)
    \/ w = "settle" /\ Settles(i)

Next ==
    \/ \E w \in Worker : \E i \in Slots[w] : Handle(w, i)
    \/ \E w \in Worker :
          Disconnect(w) \/ Reconnect(w) \/ Crash(w) \/ Exit(w) \/ Restart(w) \/ Housekeeping(w)
    \/ RedisOutage \/ RedisBack
    \/ Tick

\* Handlers go on, the connection manager reconnects, the supervisor restarts,
\* time passes.  Redis need not come back, nothing is assumed of outages.
Fairness ==
    /\ \A w \in Worker : \A i \in Slots[w] : WF_vars(Handle(w, i))
    /\ \A w \in Worker :
          WF_vars(Reconnect(w)) /\ WF_vars(Exit(w)) /\ WF_vars(Restart(w)) /\ WF_vars(Housekeeping(w))
    /\ WF_vars(Tick)

Spec == Init /\ [][Next]_vars /\ Fairness

-----------------------------------------------------------------------------
(* Properties                                                              *)

\* A handler has not passed its job on yet.
Holds(w, i, o) ==
    /\ work[w][i].pc \notin {"idle", "ack", "lastAck"}
    /\ OrderOf(w, i) = o

\* Through outages and deaths an order that is not finished keeps a job at the
\* worker its status asks for, waiting or in a handler that has yet to pass it
\* on; unless the deploy process died between the status and the confirmation.
JobKept ==
    \A o \in Orders \ orphaned :
        /\ status[o] = "CREATED" =>
              Waiting(o, "deploy") \/ \E i \in Slots["deploy"] : Holds("deploy", i, o)
        /\ status[o] = "DEPLOYED" =>
              \/ Waiting(o, "settle") \/ \E i \in Slots["settle"] : Holds("settle", i, o)
              \/ \E i \in Slots["deploy"] :
                    At("deploy", i, "publish") /\ work["deploy"][i].next = Job(o, "settle")

\* The jobs that may still write the status of an order: a deploy job that its
\* lookup will accept, or a handler past it, up to an ack that may throw; a settle
\* job with its handler, or with the handler whose publication is not confirmed.
DeployJob(o) ==
    \/ /\ status[o] = "CREATED"
       /\ Waiting(o, "deploy") \/ \E i \in Slots["deploy"] : Holds("deploy", i, o)
    \/ \E i \in Slots["deploy"] :
          work["deploy"][i].pc \in {"work", "publish", "confirm", "ack"} /\ OrderOf("deploy", i) = o

SettleJob(o) ==
    \/ Waiting(o, "settle")
    \/ \E i \in Slots["settle"] : ~At("settle", i, "idle") /\ OrderOf("settle", i) = o
    \/ \E i \in Slots["deploy"] :
          work["deploy"][i].pc \in {"publish", "confirm"} /\ work["deploy"][i].next = Job(o, "settle")

Jobs(o) == {stage \in Worker : IF stage = "deploy" THEN DeployJob(o) ELSE SettleJob(o)}

Lifecycle == INSTANCE OrderLifecycle WITH
    jobs <- [o \in Orders |-> Jobs(o)], stranded <- orphaned

\* The workers implement OrderLifecycle although channels close under their
\* handlers and messages are delivered twice: an order at rest is over.
ImplementsLifecycle == Lifecycle!Spec

\* Documented[k]: the sum of the first k delays of the documented schedule.
Documented[k \in 0..Len(RetryTtl)] == IF k = 0 THEN 0 ELSE Documented[k - 1] + RetryTtl[k]

\* The documented schedule ("1s -> 5s -> 30s -> 2m -> 10m") is a lower bound: an
\* order that is FAILED was given at least the sum of its delays, although the
\* code never takes the first tier and takes the last one twice.
Patience == Documented[Len(RetryTtl)]
PatientFailure == \A o \in Orders : status[o] = "FAILED" => age[o] >= Min({Patience, MaxAge})

\* COMPLETED is left only after an outage or a death.
CompletedStays ==
    [][\A o \in Orders :
          status[o] = "COMPLETED" /\ disturbed = 0 => status'[o] = "COMPLETED"]_vars

\* Retries come to an end, over TTLs, reconnections and restarts.
JobsEnd ==
    \A o \in Orders : <>(status[o] \in {"COMPLETED", "FAILED"} \/ o \in orphaned)
=============================================================================
