---------------------------- MODULE MCApiService ----------------------------
(* An instance of ApiService for TLC: a registry in which both chains are  *)
(* sources, with a route each way, one of which lacks USDC at the source;  *)
(* and one with a single route.                                            *)
EXTENDS ApiService, TLC

Entry(k, id, roles, contracts) ==
    [key |-> k, id |-> id, roles |-> roles, contracts |-> contracts, min |-> 0, max |-> 0]
Route(s, d, on) == [source |-> s, destination |-> d, enabled |-> on]

Both == {"source", "destination"}

MCRegistries ==
    { [chains |-> << Entry("edu", 1, Both, {"proxyFactory", "usdc"}),
                     Entry("gnosis", 2, Both, {"usdc"}) >>,
       routes |-> << Route("edu", "gnosis", TRUE), Route("gnosis", "edu", TRUE) >>],
      [chains |-> << Entry("edu", 1, Both, {"proxyFactory"}),
                     Entry("gnosis", 2, Both, {"proxyFactory", "usdc"}) >>,
       routes |-> << Route("edu", "gnosis", TRUE), Route("gnosis", "edu", FALSE) >>] }

MCKeys == {"edu", "gnosis"}
MCLimits == [min |-> 1, max |-> 10]
Same == Permutations(Slots) \cup Permutations(Keys \ {SeedKey})
=============================================================================
