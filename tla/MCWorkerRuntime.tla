--------------------------- MODULE MCWorkerRuntime ---------------------------
(* An instance of WorkerRuntime for TLC: two tiers, one deploy handler, a  *)
(* second settle handler for what goes on after its channel is closed.     *)
EXTENDS WorkerRuntime

MCRetryTtl == <<1, 2>>
MCResidualTtl == <<1, 2>>
MCSlots == [deploy |-> {1}, settle |-> {1, 2}]
=============================================================================
