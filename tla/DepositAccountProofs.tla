------------------------ MODULE DepositAccountProofs ------------------------
(* Theorems about DepositAccount, for every conversion rate, width, set of *)
(* endpoints and bound.                                                    *)
EXTENDS DepositAccount, TLAPS

\* The amounts of settle(): what is bridged is a whole number of shared units,
\* at most the credit it was computed with, and never more than the balance,
\* also when the balance does not fit the width of an SD amount.
LEMMA BridgeBound ==
    ASSUME NEW b \in Nat, NEW c \in Nat
    PROVE  \E sd \in 0..c :
              /\ BridgeAmount(b, c) = sd * Rate
              /\ sd * Rate <= b
<1> DEFINE full == ld2sd(b)
           sd == IF full > c THEN c ELSE full
<1>1. /\ b \div Rate \in Nat
      /\ (b \div Rate) * Rate <= b
  BY AccountAssumption
<1>2. full \in Nat /\ full <= b \div Rate
  <2> DEFINE q == b \div Rate
  <2>1. q % SdMod \in 0..q
    <3> HIDE DEF q
    <3>1. q \in Nat
      BY <1>1 DEF q
    <3> QED BY <3>1, AccountAssumption
  <2> QED BY <2>1 DEF ld2sd
<1>3. sd \in 0..c /\ sd <= b \div Rate
  BY <1>1, <1>2
<1>4. sd * Rate <= (b \div Rate) * Rate
  <2> DEFINE q == b \div Rate
  <2> HIDE DEF sd, q
  <2>1. sd \in Nat /\ q \in Nat /\ sd <= q
    BY <1>1, <1>3 DEF q
  <2>2. sd * Rate <= q * Rate
    BY <2>1, AccountAssumption
  <2> QED BY <2>2 DEF q
<1>5. BridgeAmount(b, c) = sd * Rate
  BY DEF BridgeAmount, sd2ld
<1> HIDE DEF sd, full
<1>6. sd * Rate <= b
  <2> DEFINE q == b \div Rate
  <2> HIDE DEF q
  <2>1. sd \in Nat /\ q \in Nat /\ q * Rate \in Nat /\ sd * Rate \in Nat
    BY <1>1, <1>3, AccountAssumption DEF q
  <2>2. sd * Rate <= q * Rate /\ q * Rate <= b
    BY <1>1, <1>4 DEF q
  <2> QED BY <2>1, <2>2
<1> QED BY <1>3, <1>5, <1>6

\* Units come back whole: the credit a settle() takes is the number it bridged.
LEMMA WholeUnits ==
    ASSUME NEW k \in Nat
    PROVE  /\ (k * Rate) \div Rate = k
           /\ \A c \in Nat : k * Rate <= sd2ld(c) => k <= c
BY AccountAssumption DEF sd2ld

-----------------------------------------------------------------------------
\* The minimum that quoteStargateFee compares the quoted amount with is a fraction
\* of that very amount.
LEMMA MinReceivedBound ==
    ASSUME NEW received \in Nat, NEW maxSlippage \in Nat, maxSlippage <= 10000
    PROVE  MinReceived(received, maxSlippage) \in 0..received
<1> DEFINE x == received * (10000 - maxSlippage)
<1>1. x \in Nat /\ x <= received * 10000
  <2> DEFINE share == 10000 - maxSlippage
  <2>1. share \in Nat /\ share <= 10000
    OBVIOUS
  <2> HIDE DEF share
  <2>2. received * share \in Nat /\ received * share <= received * 10000
    BY <2>1
  <2> QED BY <2>2 DEF share
<1> HIDE DEF x
<1>2. x \div 10000 \in 0..received
  BY <1>1
<1> QED BY <1>2 DEF MinReceived, x

\* The slippage test of quoteStargateFee can never fail.
THEOREM SlippageTestVacuous ==
    ASSUME NEW received \in Nat, NEW maxSlippage \in Nat, maxSlippage <= 10000
    PROVE  ~(received < MinReceived(received, maxSlippage))
BY MinReceivedBound

-----------------------------------------------------------------------------
\* What one settle() does, in terms the backend can observe.
LEMMA SettleEffect ==
    ASSUME TypeOK, NEW value \in Values, NEW maxSlippage \in Slippages, NEW fee \in Fees,
           NEW received \in 0..balance,
           SettleToken(value, maxSlippage, fee, received)
    PROVE  /\ TypeOK'
           /\ \E amount \in 1..balance : UDA!Settle(amount)
<1> DEFINE amount == BridgeAmount(balance, credit[routeEid])
<1>1. balance \in Nat /\ nonce \in 0..MaxNonce /\ native \in Nat
  BY DEF TypeOK
<1>2. routeEid \in Eids /\ mapEid \in Eids
  BY DEF TypeOK, SettleToken, CanSettle
<1>3. /\ credit \in [Eids -> 0..MaxCredit]
      /\ credit[routeEid] \in Nat /\ credit[mapEid] \in 0..MaxCredit
  BY <1>2, AccountAssumption DEF TypeOK
<1>4. PICK sd \in 0..credit[routeEid] : amount = sd * Rate /\ sd * Rate <= balance
  BY <1>1, <1>3, BridgeBound
<1>5. /\ deployed /\ nonce < MaxNonce /\ amount > 0
      /\ native + value >= fee /\ amount <= sd2ld(credit[mapEid])
      /\ balance' = balance - amount /\ native' = native + value - fee
      /\ credit' = [credit EXCEPT ![mapEid] = @ - amount \div Rate]
      /\ nonce' = nonce + 1
      /\ UNCHANGED <<deployed, routing>>
  BY DEF SettleToken, CanSettle
<1> HIDE DEF amount
<1>6. sd \in Nat /\ amount \in Nat /\ amount <= balance
  <2>1. sd \in Nat
    BY <1>3, <1>4
  <2>2. sd * Rate \in Nat
    BY <2>1, AccountAssumption
  <2> QED BY <1>4, <2>1, <2>2
<1>7. amount \div Rate = sd /\ sd <= credit[mapEid]
  BY <1>3, <1>4, <1>5, <1>6, WholeUnits
<1>8. amount \in 1..balance
  BY <1>1, <1>5, <1>6
<1>9. UDA!Settle(amount)
  BY <1>5, <1>8 DEF UDA!Settle
<1>10. TypeOK'
  <2>1. balance' \in Nat
    BY <1>1, <1>5, <1>8
  <2>2. nonce' \in 0..MaxNonce
    BY <1>1, <1>5, AccountAssumption
  <2>3. native' \in Nat
    <3>1. value \in Nat /\ fee \in Nat
      BY AccountAssumption
    <3> QED BY <1>1, <1>5, <3>1
  <2>4. credit' \in [Eids -> 0..MaxCredit]
    <3>1. credit[mapEid] - sd \in 0..MaxCredit
      BY <1>3, <1>6, <1>7, AccountAssumption
    <3>2. credit' = [credit EXCEPT ![mapEid] = credit[mapEid] - sd]
      BY <1>2, <1>3, <1>5, <1>7
    <3> QED BY <1>2, <1>3, <3>1, <3>2
  <2> QED BY <1>5, <2>1, <2>2, <2>3, <2>4 DEF TypeOK, routing
<1> QED BY <1>8, <1>9, <1>10

\* Every variable keeps its type: no step drives the balance, the native balance
\* or the credit of a path below zero.
LEMMA TypeStep == TypeOK /\ [Next]_vars => TypeOK'
<1> SUFFICES ASSUME TypeOK, [Next]_vars PROVE TypeOK'
  OBVIOUS
<1>1. CASE SettleAny
  BY <1>1, SettleEffect DEF SettleAny
<1>2. ASSUME NEW amount \in 1..balance, WithdrawToken(amount) PROVE TypeOK'
  BY <1>2 DEF TypeOK, WithdrawToken, routing
<1>3. ASSUME NEW a \in DepositAmounts, Transfer(a) PROVE TypeOK'
  <2>1. a \in Nat
    BY AccountAssumption
  <2> QED BY <1>3, <2>1 DEF TypeOK, Transfer, routing
<1>4. CASE CreateUniversalAccount
  BY <1>4 DEF TypeOK, CreateUniversalAccount, routing
<1>5. CASE SetStargateRoute
  BY <1>5 DEF TypeOK, SetStargateRoute, chain
<1>6. CASE SetChainIdEid
  BY <1>6 DEF TypeOK, SetChainIdEid, chain
<1>7. CASE CreditMoves
  BY <1>7 DEF TypeOK, CreditMoves, chain, routing
<1>8. CASE UNCHANGED vars
  BY <1>8 DEF TypeOK, vars, chain, routing
<1> QED BY <1>1, <1>2, <1>3, <1>4, <1>5, <1>6, <1>7, <1>8 DEF Next

\* Type correctness of the account.
THEOREM AccountTypeCorrect == Spec => []TypeOK
<1>1. Init => TypeOK
  <2> SUFFICES ASSUME Init PROVE TypeOK
    OBVIOUS
  <2>1. deployed \in BOOLEAN /\ supported \in BOOLEAN
    BY Zenon DEF Init
  <2> QED BY <2>1, AccountAssumption DEF Init, TypeOK
<1> QED BY <1>1, TypeStep, PTL DEF Spec

-----------------------------------------------------------------------------
\* The detailed account implements the chain the backend observes, from the
\* moment the manager supports its token.
THEOREM AccountImplementsChain == Spec => ImplementsChain
<1> DEFINE Mapped == supported => UDAStep \/ UNCHANGED chain
<1>1. Init => UDA!ChainInit
  BY DEF Init, UDA!ChainInit
<1>2. TypeOK /\ [Next]_vars => [Mapped]_vars
  <2> SUFFICES ASSUME TypeOK, Next, supported PROVE UDAStep \/ UNCHANGED chain
    OBVIOUS
  <2>1. CASE SettleAny
    BY <2>1, SettleEffect DEF SettleAny, UDAStep
  <2>2. ASSUME NEW amount \in 1..balance, WithdrawToken(amount) PROVE FALSE
    BY <2>2 DEF WithdrawToken
  <2>3. ASSUME NEW a \in DepositAmounts, Transfer(a) PROVE UDA!Deposit(a)
    BY <2>3 DEF Transfer, UDA!Deposit
  <2>4. CASE CreateUniversalAccount
    BY <2>4 DEF CreateUniversalAccount, UDAStep, UDA!CreateAccount
  <2>5. CASE SetStargateRoute \/ SetChainIdEid \/ CreditMoves
    BY <2>5 DEF SetStargateRoute, SetChainIdEid, CreditMoves
  <2> QED BY <2>1, <2>2, <2>3, <2>4, <2>5 DEF Next, UDAStep
<1>3. Spec => [][Mapped]_vars
  <2> HIDE DEF Mapped
  <2> QED BY <1>2, AccountTypeCorrect, PTL DEF Spec
<1> QED BY <1>1, <1>3, PTL DEF Spec, ImplementsChain

-----------------------------------------------------------------------------
\* A balance within the width of an SD amount, over a path with credit for it: all
\* but a part of a shared unit is bridged.
LEMMA WholeBalance ==
    ASSUME NEW b \in Nat, NEW c \in Nat, b < SdMod * Rate, b \div Rate <= c
    PROVE  b - BridgeAmount(b, c) < Rate
<1> DEFINE q == b \div Rate
<1>1. q \in Nat /\ q * Rate <= b /\ b < q * Rate + Rate
  BY AccountAssumption
<1>2. BridgeAmount(b, c) = (IF q % SdMod > c THEN c ELSE q % SdMod) * Rate
  BY DEF BridgeAmount, ld2sd, sd2ld
<1>3. q <= c
  OBVIOUS
<1> HIDE DEF q
<1>4. q < SdMod
  <2>1. ASSUME SdMod <= q PROVE SdMod * Rate <= q * Rate
    BY <1>1, <2>1, AccountAssumption
  <2>2. SdMod * Rate \in Nat /\ q * Rate \in Nat
    BY <1>1, AccountAssumption
  <2> QED BY <1>1, <2>1, <2>2, AccountAssumption
<1>5. q % SdMod = q
  BY <1>1, <1>4, AccountAssumption
<1>6. BridgeAmount(b, c) = q * Rate
  BY <1>1, <1>2, <1>3, <1>5
<1>7. q * Rate \in Nat /\ Rate \in Nat
  BY <1>1, AccountAssumption
<1> QED BY <1>1, <1>6, <1>7

\* A settle() with enough credit leaves dust only, for every rate and width.
THEOREM SettlementLeavesDust == Spec => SettlesAll
<1> DEFINE Dust == (/\ nonce' # nonce
                    /\ balance < SdMod * Rate
                    /\ balance \div Rate <= credit[routeEid]) => balance' < Rate
<1>1. TypeOK /\ [Next]_vars => [Dust]_vars
  <2> SUFFICES ASSUME TypeOK, Next, nonce' # nonce, balance < SdMod * Rate,
                      balance \div Rate <= credit[routeEid]
               PROVE  balance' < Rate
    OBVIOUS
  <2>1. SettleAny
    BY DEF Next, WithdrawToken, Transfer, CreateUniversalAccount, SetStargateRoute,
           SetChainIdEid, CreditMoves, chain
  <2>2. /\ balance' = balance - BridgeAmount(balance, credit[routeEid])
        /\ routeEid \in Eids
    BY <2>1 DEF SettleAny, SettleToken, CanSettle, TypeOK
  <2>3. balance \in Nat /\ credit[routeEid] \in Nat
    BY <2>2, AccountAssumption DEF TypeOK
  <2> QED BY <2>2, <2>3, WholeBalance
<1>2. Spec => [][Dust]_vars
  <2> HIDE DEF Dust
  <2> QED BY <1>1, AccountTypeCorrect, PTL DEF Spec
<1> QED BY <1>2, PTL DEF SettlesAll

-----------------------------------------------------------------------------
\* A balance of at least one shared unit within the width, over a path with
\* credit: something is bridged.
LEMMA BridgePositive ==
    ASSUME NEW b \in Nat, NEW c \in Nat, Rate <= b, b < SdMod * Rate, c > 0
    PROVE  BridgeAmount(b, c) > 0
<1> DEFINE q == b \div Rate
           sd == IF q > c THEN c ELSE q
<1>1. q \in Nat /\ q * Rate <= b /\ b < q * Rate + Rate
  BY AccountAssumption
<1>2. q < SdMod /\ q > 0
  <2> HIDE DEF q
  <2>1. ASSUME SdMod <= q PROVE SdMod * Rate <= q * Rate
    BY <1>1, <2>1, AccountAssumption
  <2>2. SdMod * Rate \in Nat /\ q * Rate \in Nat
    BY <1>1, AccountAssumption
  <2>3. q < SdMod
    BY <1>1, <2>1, <2>2, AccountAssumption
  <2>4. ASSUME q = 0 PROVE q * Rate = 0
    BY <2>4, AccountAssumption
  <2> QED BY <1>1, <2>2, <2>3, <2>4, AccountAssumption
<1>3. BridgeAmount(b, c) = sd * Rate
  <2>1. BridgeAmount(b, c) = (IF q % SdMod > c THEN c ELSE q % SdMod) * Rate
    BY DEF BridgeAmount, ld2sd, sd2ld
  <2> HIDE DEF q
  <2>2. q % SdMod = q
    BY <1>1, <1>2, AccountAssumption
  <2> QED BY <2>1, <2>2
<1>4. sd \in Nat \ {0}
  BY <1>1, <1>2
<1> HIDE DEF sd
<1>5. sd * Rate > 0
  BY <1>4, AccountAssumption
<1> QED BY <1>3, <1>5

\* What is bridged is covered by the credit it was computed with.
LEMMA BridgeCovered ==
    ASSUME NEW b \in Nat, NEW c \in Nat
    PROVE  BridgeAmount(b, c) \in Nat /\ BridgeAmount(b, c) <= sd2ld(c)
<1>1. PICK sd \in 0..c : BridgeAmount(b, c) = sd * Rate /\ sd * Rate <= b
  BY BridgeBound
<1>2. sd \in Nat /\ sd * Rate \in Nat /\ sd * Rate <= c * Rate
  BY <1>1, AccountAssumption
<1> QED BY <1>1, <1>2 DEF sd2ld

\* Partial credit, the width of an amount, the slippage test and the two routing
\* tables never stop a paid settle() where the tables agree.
THEOREM CreditNeverBlocks == Spec => []Settleable
<1>1. TypeOK => Settleable
  <2> SUFFICES ASSUME TypeOK, deployed, nonce < MaxNonce,
                      routeEid # NoEid, routeEid = mapEid,
                      Rate <= balance, balance < SdMod * Rate, credit[routeEid] > 0
               PROVE  \A value \in Values, maxSlippage \in Slippages, fee \in Fees,
                          received \in 0..balance :
                          (/\ maxSlippage <= 10000
                           /\ received <= BridgeAmount(balance, credit[routeEid])
                           /\ native + value \in fee..(fee + MaxNative))
                          => CanSettle(value, maxSlippage, fee, received)
    BY DEF Settleable
  <2> DEFINE amount == BridgeAmount(balance, credit[routeEid])
  <2>1. balance \in Nat /\ native \in Nat /\ credit[routeEid] \in Nat
    BY AccountAssumption DEF TypeOK
  <2>2. amount > 0
    BY <2>1, BridgePositive
  <2>3. amount \in Nat /\ amount <= sd2ld(credit[mapEid])
    BY <2>1, BridgeCovered
  <2> HIDE DEF amount
  <2> SUFFICES ASSUME NEW value \in Values, NEW maxSlippage \in Slippages, NEW fee \in Fees,
                      NEW received \in 0..balance, maxSlippage <= 10000, received <= amount,
                      native + value \in fee..(fee + MaxNative)
               PROVE  CanSettle(value, maxSlippage, fee, received)
    BY DEF amount
  <2>4. value \in Nat /\ fee \in Nat /\ MaxNative \in Nat /\ maxSlippage \in Nat
        /\ received \in Nat
    BY <2>1, AccountAssumption
  <2>5. ~(received < MinReceived(received, maxSlippage))
    BY <2>4, SlippageTestVacuous, SMT
  <2>6. native + value >= fee /\ native + value - fee <= MaxNative
    BY <2>1, <2>4
  <2> QED BY <2>2, <2>3, <2>5, <2>6 DEF CanSettle, amount
<1> QED BY <1>1, AccountTypeCorrect, PTL
=============================================================================
