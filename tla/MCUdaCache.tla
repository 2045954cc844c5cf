----------------------------- MODULE MCUdaCache -----------------------------
(* Instances of UdaCache for TLC.  Source chains, and registrations, are   *)
(* interchangeable (safety runs only).                                     *)
EXTENDS UdaCache, TLC

Interchangeable == Permutations(Chains) \cup Permutations(Requests)
=============================================================================
