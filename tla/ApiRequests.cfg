SPECIFICATION Spec
CONSTANTS
    ChainKeys <- MCKeys
    ChainIds = {1, 2}
    DefaultLimits <- MCLimits
    Registries <- MCRegistries
    Clients = {c1}
    Master = Master
    NoClient = NoClient
    Keys = {k0, k1, k2}
    SeedKey = k0
    MasterKey = MasterKey
    NoKey = NoKey
    Owners = {o1}
    Amounts = {0, 2}
    Slots = {s1, s2}
    MaxRequests = 1
    Window = 2
    DayLength = 2
    MaxCount = 2
    MaxNonce = 0
    MaxDay = 1
CHECK_DEADLOCK FALSE
SYMMETRY Same
INVARIANTS
    TypeOK
    OwnOrdersOnly
    
    RoutableRegistrations
PROPERTY AttributionStable
