SPECIFICATION Spec
CONSTANTS
    Orders = {o1}
    RetryTtl <- MCRetryTtl
    ResidualTtl <- MCResidualTtl
    MaxTtl = 2
    MaxAttempts = 2
    Services = {"deploy", "settle"}
    IntervalMs = 1000
    TickMs = 1000
    MaxLate = 0
    Slots <- MCSlots
    Prefetch = 1
    NoMsg = NoMsg
    MaxAge = 3
    Limit = 1
CHECK_DEADLOCK FALSE
INVARIANTS
    TypeOK
    JobKept
    PatientFailure
    FreshMeansRecent
    NoFalseAlarm
PROPERTIES
    JobsEnd
    
    ImplementsLifecycle
