------------------------------ MODULE UDAChain ------------------------------
(***************************************************************************)
(* What the off-chain services can observe of one universal deposit        *)
(* account (UDA) on one source chain: its USDC balance, its settle() nonce *)
(* and whether its proxy has been created.  Amounts are in the smallest    *)
(* unit of the model.  Anyone may call each of the three operations.       *)
(***************************************************************************)
EXTENDS Integers

CONSTANTS
    DepositAmounts,  \* amounts a user may transfer to the account
    MaxNonce         \* bound on the nonce: no settle() beyond it is explored

ASSUME ChainAssumption ==
    /\ DepositAmounts \subseteq Nat \ {0}
    /\ MaxNonce \in Nat

VARIABLES
    balance,   \* IERC20(srcToken).balanceOf(account)
    nonce,     \* UniversalDepositAccount.nonce
    deployed   \* the proxy has bytecode

chain == <<balance, nonce, deployed>>

ChainTypeOK ==
    /\ balance \in Nat
    /\ nonce \in 0..MaxNonce
    /\ deployed \in BOOLEAN

ChainInit ==
    /\ balance = 0
    /\ nonce = 0
    /\ deployed = FALSE

-----------------------------------------------------------------------------
\* A plain ERC-20 transfer: the address is known before the proxy exists.
Deposit(a) ==
    /\ balance' = balance + a
    /\ UNCHANGED <<nonce, deployed>>

\* CREATE2 under a salt fixed by the account's parameters: a second creation
\* reverts.
CreateAccount ==
    /\ ~deployed
    /\ deployed' = TRUE
    /\ UNCHANGED <<balance, nonce>>

\* settle() bridges what the Stargate path has credit for, rounded down to the
\* shared decimals: at least one unit (quoteStargateFee rejects zero) and
\* possibly less than the balance.
Settle(amount) ==
    /\ deployed
    /\ nonce < MaxNonce
    /\ amount \in 1..balance
    /\ balance' = balance - amount
    /\ nonce' = nonce + 1
    /\ UNCHANGED deployed
=============================================================================
