---------------------------- MODULE OrderLifecycle ----------------------------
(***************************************************************************)
(* What the workers promise about the rows of the orders table, however    *)
(* their handlers interleave, fail and restart: the abstract specification *)
(* that OrderPipeline and WorkerRuntime implement.                         *)
(*                                                                         *)
(* A job of an order at a stage is whatever may still make a worker write  *)
(* the status: a message that its lookup will accept, or a handler past    *)
(* its lookup.  Where messages and handlers are is left out.               *)
(***************************************************************************)
CONSTANT Orders

VARIABLES
    status,   \* the orders table, "NONE" while there is no row
    jobs,     \* jobs[o]: the stages at which o has a job
    stranded  \* orders whose job was let go by an exception or a crash

lifecycle == <<status, jobs, stranded>>

Stage == {"deploy", "settle"}

\* The stage that an order in some status waits for.
Asked == [NONE |-> {}, CREATED |-> {"deploy"}, DEPLOYED |-> {"settle"},
          COMPLETED |-> {}, FAILED |-> {}]

\* An order has the job its status asks for, unless it was let go.
Kept(o) == o \in stranded \/ Asked[status[o]] \subseteq jobs[o]

Init ==
    /\ status \in [Orders -> {"NONE", "CREATED"}]
    /\ jobs \in [Orders -> SUBSET Stage]
    /\ \A o \in Orders : jobs[o] = Asked[status[o]]
    /\ stranded = {}

-----------------------------------------------------------------------------
(* Steps: at most one status changes                                       *)

Write(o, st) == status' = [status EXCEPT ![o] = st]

\* ensureOrder
Create(o) == status[o] = "NONE" /\ Write(o, "CREATED")

\* A deploy handler writes over whatever the status has become meanwhile.
Deploy(o) == "deploy" \in jobs[o] /\ Write(o, "DEPLOYED")

\* So does a settle handler: the order is past CREATED.
Complete(o) ==
    /\ "settle" \in jobs[o]
    /\ status[o] \notin {"NONE", "CREATED"}
    /\ Write(o, "COMPLETED")

\* The last attempt of a job has failed.
Fail(o) == jobs[o] # {} /\ Write(o, "FAILED")

\* Jobs may end at any time, but are opened only at the stage that the status
\* asks for; an order is let go only with a job it had.
Opens(o) == jobs'[o] \ jobs[o] \subseteq Asked[status'[o]]
LetGo(o) == o \in stranded' \ stranded => jobs[o] # {}

Next ==
    /\ \/ UNCHANGED status
       \/ \E o \in Orders : Create(o) \/ Deploy(o) \/ Complete(o) \/ Fail(o)
    /\ \A o \in Orders : Kept(o)' /\ Opens(o) /\ LetGo(o)

Spec == Init /\ [][Next]_lifecycle

-----------------------------------------------------------------------------
(* What follows                                                            *)

\* An order at rest is over: its status is final and no job is left of it.
AtRest(o) == status[o] \in {"COMPLETED", "FAILED"} /\ jobs[o] = {}

\* The writes of the status are unconditional, and yet the status of an order at
\* rest never changes again.
RestIsFinal == [][\A o \in Orders : AtRest(o) => AtRest(o)' /\ UNCHANGED status[o]]_lifecycle
=============================================================================
