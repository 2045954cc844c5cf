--------------------------- MODULE MCOrderPipeline ---------------------------
(* Instances of OrderPipeline for TLC: budgets and symmetry.               *)
EXTENDS OrderPipeline, TLC

\* The budgets of a run, one number per kind of event.
CONSTANTS Deposits, Outside, Faults, Crashes, Registrations, Expiries, Retargets

MCLimit == ("deposit" :> Deposits) @@ ("outside" :> Outside) @@ ("fault" :> Faults)
             @@ ("crash" :> Crashes) @@ ("register" :> Registrations)
             @@ ("expire" :> Expiries) @@ ("retarget" :> Retargets)

\* Handlers of one worker are interchangeable (safety runs only).
Slots == Permutations(DeploySlots) \cup Permutations(SettleSlots)
=============================================================================
