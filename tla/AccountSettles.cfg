SPECIFICATION Spec
CONSTANTS
    DepositAmounts = {1, 3, 4}
    MaxBalance = 11
    MaxNonce = 3
    Rate = 2
    SdMod = 4
    Eids = {e1, e2}
    NoEid = NoEid
    MaxCredit = 3
    Fees = {0, 1}
    Values = {0, 2}
    MaxNative = 2
    Slippages = {50, 10001}
CHECK_DEADLOCK FALSE
SYMMETRY Endpoints
INVARIANTS
    TypeOK
    Settleable
PROPERTIES
    ImplementsChain
    SettlesAll
