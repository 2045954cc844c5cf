SPECIFICATION FairSpec
CONSTANTS
    DepositAmounts = {1}
    MaxNonce = 1
    Requests = {r1}
    MinBridge = 1
    MaxAttempts = 1
    DeploySlots = {d1}
    SettleSlots = {s1}
    RecoveryLimit = 2
    Deposits = 1
    Outside = 0
    Faults = 0
    Crashes = 0
    Registrations = 1
    Expiries = 0
    Retargets = 0
    Limit <- MCLimit
CHECK_DEADLOCK FALSE
PROPERTY FailedReprocessed
