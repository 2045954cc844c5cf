--------------------------- MODULE DepositAccount ---------------------------
(***************************************************************************)
(* The contracts of one source chain around one universal deposit account: *)
(* the factory that creates it, the account itself, the manager's routing  *)
(* tables that settle() reads, and the Stargate paths it bridges over.     *)
(* Amounts are integers: LD are the units of the token, SD the shared      *)
(* decimals of Stargate.  A call that reverts changes nothing and is no    *)
(* step.                                                                   *)
(***************************************************************************)
EXTENDS Integers

CONSTANTS
    DepositAmounts,  \* LD amounts a user may transfer
    MaxBalance,      \* bound on the token balance
    MaxNonce,        \* bound on the nonce
    Rate,            \* _getStargateConversionRate: 10 ** (decimals - 6)
    SdMod,           \* 2 ** 64, the width of an SD amount
    Eids,            \* LayerZero endpoints
    NoEid,           \* endpoint 0: nothing configured
    MaxCredit,       \* bound on the credit of a path, in SD
    Fees,            \* native fees Stargate may quote
    Values,          \* native amounts a caller of settle() may attach
    MaxNative,       \* bound on the native balance
    Slippages        \* maxSlippage arguments, in basis points

ASSUME AccountAssumption ==
    /\ DepositAmounts \subseteq Nat \ {0}
    /\ MaxBalance \in Nat /\ MaxNonce \in Nat /\ MaxCredit \in Nat /\ MaxNative \in Nat
    /\ Rate \in Nat \ {0}
    /\ SdMod \in Nat \ {0}
    /\ NoEid \notin Eids
    /\ Fees \subseteq Nat /\ Values \subseteq Nat /\ Slippages \subseteq Nat

VARIABLES
    balance,    \* balanceOf(account), LD
    nonce,      \* UniversalDepositAccount.nonce
    deployed,   \* the proxy exists and is initialized
    native,     \* address(account).balance
    supported,  \* isSrcTokenSupported(srcToken)
    routeEid,   \* dstEid of stargateTokenRouteMap[srcToken][dstChainId]
    mapEid,     \* chainIdToEidMap[dstChainId]
    credit      \* credit[e]: StargateBase.paths(e), SD

chain == <<balance, nonce, deployed>>
routing == <<supported, routeEid, mapEid>>
vars == <<chain, native, routing, credit>>

TypeOK ==
    /\ balance \in Nat
    /\ nonce \in 0..MaxNonce
    /\ deployed \in BOOLEAN
    /\ native \in Nat
    /\ supported \in BOOLEAN
    /\ routeEid \in Eids \cup {NoEid}
    /\ mapEid \in Eids \cup {NoEid}
    /\ credit \in [Eids -> 0..MaxCredit]

Init ==
    /\ balance = 0 /\ nonce = 0 /\ deployed = FALSE
    /\ native = 0
    /\ supported = FALSE /\ routeEid = NoEid /\ mapEid = NoEid
    /\ credit = [e \in Eids |-> 0]

-----------------------------------------------------------------------------
(* Amounts                                                                 *)

ld2sd(amountLD) == (amountLD \div Rate) % SdMod

sd2ld(amountSD) == amountSD * Rate

\* Mutant: the balance in SD is bridged whatever credit the path has.
BridgeUncapped(b, c) == sd2ld(ld2sd(b))

\* Mutant: the amount is not scaled back to LD.
BridgeUnscaled(b, c) == IF ld2sd(b) > c THEN c ELSE ld2sd(b)

\* What settle() bridges of a balance b over a path with credit c.
BridgeAmount(b, c) == sd2ld(IF ld2sd(b) > c THEN c ELSE ld2sd(b))

\* quoteStargateFee's minReceivedAmount.  The subtraction reverts above 10000.
MinReceived(received, maxSlippage) == (received * (10000 - maxSlippage)) \div 10000

-----------------------------------------------------------------------------
(* The account                                                             *)

\* Mutant: the native balance is not compared with the fee.
CanSettleUnpaid(value, maxSlippage, fee, received) ==
    LET amount == BridgeAmount(balance, credit[routeEid]) IN
    /\ deployed /\ routeEid # NoEid /\ mapEid # NoEid /\ nonce < MaxNonce
    /\ amount > 0
    /\ maxSlippage <= 10000 /\ received <= amount
    /\ ~(received < MinReceived(received, maxSlippage))
    /\ native + value - fee <= MaxNative
    /\ amount <= sd2ld(credit[mapEid])

\* No check of settle(), of its fee quote or of Stargate reverts.  The credit is
\* read for the endpoint of the route, and the tokens are sent to the endpoint of
\* the chain map, where Stargate reverts if the path has less credit.
CanSettle(value, maxSlippage, fee, received) ==
    LET amount == BridgeAmount(balance, credit[routeEid]) IN
    /\ deployed /\ routeEid # NoEid /\ mapEid # NoEid /\ nonce < MaxNonce
    /\ amount > 0
    /\ maxSlippage <= 10000 /\ received <= amount
    /\ ~(received < MinReceived(received, maxSlippage))
    /\ native + value >= fee /\ native + value - fee <= MaxNative
    /\ amount <= sd2ld(credit[mapEid])

\* settle(): anyone, with value attached; the fee is paid from the account's
\* whole native balance.
SettleToken(value, maxSlippage, fee, received) ==
    LET amount == BridgeAmount(balance, credit[routeEid]) IN
    /\ CanSettle(value, maxSlippage, fee, received)
    /\ balance' = balance - amount
    /\ native' = native + value - fee
    /\ credit' = [credit EXCEPT ![mapEid] = @ - amount \div Rate]
    /\ nonce' = nonce + 1
    /\ UNCHANGED <<deployed, routing>>

SettleAny ==
    \E value \in Values, maxSlippage \in Slippages, fee \in Fees, received \in 0..balance :
        SettleToken(value, maxSlippage, fee, received)

\* Mutant: the owner may withdraw any token.
WithdrawAny(amount) ==
    /\ deployed
    /\ amount \in 1..balance
    /\ balance' = balance - amount
    /\ UNCHANGED <<nonce, deployed, native, routing, credit>>

\* withdrawToken() of the source token, by the owner.
WithdrawToken(amount) ==
    /\ deployed
    /\ ~supported
    /\ amount \in 1..balance
    /\ balance' = balance - amount
    /\ UNCHANGED <<nonce, deployed, native, routing, credit>>

\* A user's transfer: also before the account exists.
Transfer(a) ==
    /\ balance + a <= MaxBalance
    /\ balance' = balance + a
    /\ UNCHANGED <<nonce, deployed, native, routing, credit>>

-----------------------------------------------------------------------------
(* Factory, manager, Stargate                                              *)

\* CREATE2 under a salt of owner, recipient and destination: once.
CreateUniversalAccount ==
    /\ ~deployed
    /\ deployed' = TRUE
    /\ UNCHANGED <<balance, nonce, native, routing, credit>>

\* setStargateRoute() for this destination, or for another one: the token is
\* supported from then on, whichever destination it was for.
SetStargateRoute ==
    /\ supported' = TRUE
    /\ routeEid' \in Eids \cup {routeEid}
    /\ UNCHANGED <<chain, native, mapEid, credit>>

SetChainIdEid ==
    /\ mapEid' \in Eids
    /\ UNCHANGED <<chain, native, supported, routeEid, credit>>

\* Stargate's planner moves credit, and other users take it.
CreditMoves ==
    /\ \E e \in Eids, c \in 0..MaxCredit : credit' = [credit EXCEPT ![e] = c]
    /\ UNCHANGED <<chain, native, routing>>

Next ==
    \/ SettleAny
    \/ \E amount \in 1..balance : WithdrawToken(amount)
    \/ \E a \in DepositAmounts : Transfer(a)
    \/ CreateUniversalAccount
    \/ SetStargateRoute \/ SetChainIdEid
    \/ CreditMoves

Spec == Init /\ [][Next]_vars

-----------------------------------------------------------------------------
(* Properties                                                              *)

UDA == INSTANCE UDAChain

UDAStep ==
    \/ \E a \in DepositAmounts : UDA!Deposit(a)
    \/ UDA!CreateAccount
    \/ \E amount \in 1..balance : UDA!Settle(amount)

\* Once the manager supports the token, the account does what the backend's
\* model of a chain assumes: the balance goes down only by a settle() that counts
\* in the nonce and bridges at least one unit and at most the balance, whatever
\* the routing tables, the credit and the width of the amounts.
ImplementsChain ==
    /\ UDA!ChainInit
    /\ [][supported => UDAStep \/ UNCHANGED chain]_vars

\* With enough credit a settle() leaves dust only: less than one shared unit.
SettlesAll ==
    [][(/\ nonce' # nonce
        /\ balance < SdMod * Rate
        /\ balance \div Rate <= credit[routeEid]) => balance' < Rate]_vars

\* Credit that does not cover the balance never blocks the account: where route
\* and chain map agree on the endpoint, at least one unit and some credit are
\* enough for every settle() whose fee is paid to go through, whatever slippage
\* the caller allows and whatever amount is quoted to arrive.
Settleable ==
    (/\ deployed /\ nonce < MaxNonce
     /\ routeEid # NoEid /\ routeEid = mapEid
     /\ Rate <= balance /\ balance < SdMod * Rate
     /\ credit[routeEid] > 0)
    => \A value \in Values, maxSlippage \in Slippages, fee \in Fees, received \in 0..balance :
          (/\ maxSlippage <= 10000
           /\ received <= BridgeAmount(balance, credit[routeEid])
           /\ native + value \in fee..(fee + MaxNative))
          => CanSettle(value, maxSlippage, fee, received)

=============================================================================
