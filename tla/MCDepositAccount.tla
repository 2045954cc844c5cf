-------------------------- MODULE MCDepositAccount --------------------------
(* Instances of DepositAccount for TLC.  Endpoints are interchangeable.    *)
EXTENDS DepositAccount, TLC

Endpoints == Permutations(Eids)
=============================================================================
