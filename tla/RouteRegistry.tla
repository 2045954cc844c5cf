---------------------------- MODULE RouteRegistry ----------------------------
(***************************************************************************)
(* The chains registry (chains.json), read once and never changed, and the *)
(* questions the services ask it.  validateRoute scans the chains from the *)
(* front; the other lookups go through maps that were filled from the      *)
(* front, where a later chain replaces an earlier one.                     *)
(***************************************************************************)
EXTENDS Integers, Sequences, FiniteSetsExt

CONSTANTS
    ChainKeys,       \* keys of chains, such as "gnosis"
    ChainIds,        \* chain ids
    DefaultLimits    \* [min, max] where a chain has no policy of its own

ASSUME RegistryAssumption ==
    /\ ChainIds \subseteq Nat
    /\ DefaultLimits \in [min : Nat, max : Nat]

ContractName == {"proxyFactory", "usdc", "stargateUsdc"}
Role == {"source", "destination"}

\* min and max are 0 when the policy is absent, or falsy.
ChainEntry == [key : ChainKeys, id : ChainIds, roles : SUBSET Role \ {{}},
               contracts : SUBSET ContractName, min : Nat, max : Nat]
RouteEntry == [source : ChainKeys, destination : ChainKeys, enabled : BOOLEAN]

\* ChainsRegistrySchema: nothing there requires ids or keys to be distinct.
Registry == [chains : Seq(ChainEntry) \ {<<>>}, routes : Seq(RouteEntry)]

-----------------------------------------------------------------------------
(* Lookups                                                                 *)

Places(R, id) == {i \in DOMAIN R.chains : R.chains[i].id = id}
KeyPlaces(R, k) == {i \in DOMAIN R.chains : R.chains[i].key = k}

\* Array.find, where there is one.
FindChain(R, id) == R.chains[Min(Places(R, id))]

\* The maps of index(): the last entry wins.
ChainById(R, id) == R.chains[Max(Places(R, id))]
ChainByKey(R, k) == R.chains[Max(KeyPlaces(R, k))]

HasContract(R, id, name) ==
    /\ Places(R, id) # {}
    /\ name \in ChainById(R, id).contracts

\* What the watcher needs before it reads a balance.
WatcherConfigured(R, s, d) == HasContract(R, s, "usdc") /\ HasContract(R, d, "usdc")

-----------------------------------------------------------------------------
(* validateRoute                                                           *)

RouteEnabled(R, sk, dk) ==
    \E i \in DOMAIN R.routes :
        R.routes[i] = [source |-> sk, destination |-> dk, enabled |-> TRUE]

SourceChecks(R, src, dst) ==
    << <<"source" \in src.roles, "CHAIN_NOT_SOURCE">>,
       <<"destination" \in dst.roles, "CHAIN_NOT_DESTINATION">>,
       <<RouteEnabled(R, src.key, dst.key), "ROUTE_NOT_CONFIGURED">> >>

\* Mutant: the contracts are asked for at the other end of the route.
ContractChecksAtDestination(src, dst) ==
    << <<"proxyFactory" \in dst.contracts, "MISSING_PROXY_FACTORY">>,
       <<"usdc" \in dst.contracts, "MISSING_USDC_CONTRACT">> >>

\* The contracts of the source only: the destination's USDC, which the watcher
\* needs as well, is not among them.
ContractChecks(src, dst) ==
    << <<"proxyFactory" \in src.contracts, "MISSING_PROXY_FACTORY">>,
       <<"usdc" \in src.contracts, "MISSING_USDC_CONTRACT">> >>

\* The first check that fails, in the order of the code.
RouteError(R, s, d) ==
    IF Places(R, s) = {} THEN "INVALID_SOURCE_CHAIN"
    ELSE IF Places(R, d) = {} THEN "INVALID_DESTINATION_CHAIN"
    ELSE LET src == FindChain(R, s)
             dst == FindChain(R, d)
             checks == SourceChecks(R, src, dst) \o ContractChecks(src, dst)
             failed == {i \in DOMAIN checks : ~checks[i][1]}
         IN IF failed = {} THEN "OK" ELSE checks[Min(failed)][2]

RouteAccepted(R, s, d) == RouteError(R, s, d) = "OK"

-----------------------------------------------------------------------------
(* Amounts                                                                 *)

\* getBridgeLimits: the policy of the chain, each half with its default.
BridgeLimits(R, id) ==
    IF Places(R, id) = {} THEN DefaultLimits
    ELSE LET c == FindChain(R, id) IN
         [min |-> IF c.min = 0 THEN DefaultLimits.min ELSE c.min,
          max |-> IF c.max = 0 THEN DefaultLimits.max ELSE c.max]

\* validateBridgeAmount: within the most restrictive limits of the two ends.
\* Nothing calls it; the watcher compares with the minimum of the source.
AmountAccepted(R, a, s, d) ==
    LET src == BridgeLimits(R, s)
        dst == BridgeLimits(R, d)
    IN /\ a >= Max({src.min, dst.min})
       /\ a <= Min({src.max, dst.max})
=============================================================================
