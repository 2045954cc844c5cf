----------------------------- MODULE ApiService -----------------------------
(***************************************************************************)
(* The HTTP API: authentication by key, registration of addresses behind   *)
(* the route check and the daily limit of an owner, order queries filtered *)
(* by client, and the administration of clients.  What happens between a   *)
(* registration and an order that can be queried, the watcher's pass and   *)
(* the TTL of the registration, is kept as far as the client is carried    *)
(* along.  Every await of a request ends a step.                           *)
(*                                                                         *)
(* An address is a function of owner and destination (the recipient is     *)
(* left out), the same on every source chain.                              *)
(***************************************************************************)
EXTENDS RouteRegistry

CONSTANTS
    Registries,    \* configurations to consider
    Clients,       \* ids of clients that may be created
    Master,        \* the id "0000-0000-0000-0000"
    SeedKey,       \* the key of the row that the migration inserts for this id
    NoClient,
    Keys,          \* SeedKey and the values generateApiKey may return
    MasterKey,     \* DEVELOPER_MASTER_KEY
    NoKey,         \* no such header, no such row
    Owners,
    Amounts,       \* balances a pass of the watcher may find
    Slots,         \* requests that may be in progress at once
    MaxRequests,   \* RATE_LIMIT_MAX_REQUESTS
    Window,        \* RATE_LIMIT_WINDOW_MS, in hours of the model
    DayLength,     \* hours of a day
    MaxCount,      \* bound on the registrations counted under one key
    MaxNonce,      \* bound on nonces
    MaxDay         \* bound on days: time stops when this one begins

\* DEVELOPER_MASTER_KEY is 32 characters or more, generated keys are random:
\* no key of a row is the master key.  The window is a day or longer, as the
\* default is.  Chain ids of one registry are distinct, as in config/chains.json.
ASSUME ApiAssumption ==
    /\ Master \notin Clients /\ NoClient \notin Clients \cup {Master}
    /\ SeedKey \in Keys
    /\ MasterKey \notin Keys /\ NoKey \notin Keys \cup {MasterKey}
    /\ DayLength \in Nat \ {0} /\ Window \in Nat /\ Window >= DayLength
    /\ MaxRequests \in Nat /\ MaxCount \in Nat /\ MaxNonce \in Nat /\ MaxDay \in Nat
    /\ Amounts \subseteq Nat
    /\ Registries \subseteq Registry
    /\ \A R \in Registries : \A i, j \in DOMAIN R.chains :
          R.chains[i].id = R.chains[j].id => i = j

Uda == Owners \X ChainIds
Account == Clients \cup {Master}
Order == [uda : Uda, source : ChainIds, nonce : 0..MaxNonce, client : Account]

RequestPc == {"idle", "auth", "handle", "count", "store", "reply"}

VARIABLES
    registry,     \* getRegistry()
    clients,      \* clients[c]: the clients table, key NoKey where there is no row
    issued,       \* history: the client each key was generated for
    hash,         \* hash[u]: source chain and client of the registration of u
    registrants,  \* history: the clients that have registered u
    watch,        \* watch[u]: a pass of the watcher and what it has read of hash[u]
    orders,       \* the orders table
    count,        \* count[o, d]: value and remaining TTL of the owner's daily counter
    accepted,     \* history: requests of an owner counted today and not refused
    hour, day,
    req           \* req[s]: a request in progress

vars == <<registry, clients, issued, hash, registrants, watch, orders, count,
          accepted, hour, day, req>>
people == <<clients, issued>>
watching == <<hash, registrants, watch, orders>>
limits == <<count, accepted, hour, day>>

Unregistered == [source |-> 0, client |-> NoClient]
NoPass == [pc |-> "idle", reg |-> Unregistered]
NoRequest == [pc |-> "idle", key |-> NoKey, who |-> NoClient, uda |-> <<>>,
              source |-> 0, day |-> 0, rows |-> {}]

Registration == [source : ChainIds, client : Account]
Request == [pc : RequestPc, key : Keys \cup {MasterKey, NoKey}, who : Account \cup {NoClient},
            uda : Uda \cup {<<>>}, source : ChainIds \cup {0}, day : 0..MaxDay,
            rows : SUBSET Order]

TypeOK ==
    /\ registry \in Registries
    /\ clients \in [Account -> [key : Keys \cup {NoKey}, active : BOOLEAN]]
    /\ issued \in [Keys -> Account \cup {NoClient}]
    /\ hash \in [Uda -> Registration \cup {Unregistered}]
    /\ registrants \in [Uda -> SUBSET Account]
    /\ watch \in [Uda -> [pc : {"idle", "create"}, reg : Registration \cup {Unregistered}]]
    /\ orders \subseteq Order
    /\ count \in [Owners \X (0..MaxDay) -> [n : Nat, ttl : Nat]]
    /\ accepted \in [Owners -> Nat]
    /\ hour \in 0..DayLength - 1 /\ day \in 0..MaxDay
    /\ req \in [Slots -> Request]

Init ==
    /\ registry \in Registries
    /\ clients = [c \in Account |-> [key |-> IF c = Master THEN SeedKey ELSE NoKey,
                                     active |-> c = Master]]
    /\ issued = [k \in Keys |-> IF k = SeedKey THEN Master ELSE NoClient]
    /\ hash = [u \in Uda |-> Unregistered]
    /\ registrants = [u \in Uda |-> {}]
    /\ watch = [u \in Uda |-> NoPass]
    /\ orders = {}
    /\ count = [k \in Owners \X (0..MaxDay) |-> [n |-> 0, ttl |-> 0]]
    /\ accepted = [o \in Owners |-> 0]
    /\ hour = 0 /\ day = 0
    /\ req = [s \in Slots |-> NoRequest]

-----------------------------------------------------------------------------
(* A request and its key                                                   *)

Becomes(s, r) == req' = [req EXCEPT ![s] = r]

\* Whatever the answer is, the request is over.
Answer(s) == Becomes(s, NoRequest)

\* The master key is recognised at once and needs no row; a request without a
\* key is refused at once and leaves no trace.
Arrive(s) ==
    /\ req[s].pc = "idle"
    /\ \/ Becomes(s, [NoRequest EXCEPT !.pc = "handle", !.key = MasterKey, !.who = Master])
       \/ \E k \in Keys : Becomes(s, [NoRequest EXCEPT !.pc = "auth", !.key = k])
    /\ UNCHANGED <<registry, people, watching, limits>>

\* A key belongs to the client whose row holds it now, if that client is active.
Authenticate(s) ==
    /\ req[s].pc = "auth"
    /\ \E c \in Account :
        /\ clients[c] = [key |-> req[s].key, active |-> TRUE]
        /\ Becomes(s, [req[s] EXCEPT !.pc = "handle", !.who = c])
    /\ UNCHANGED <<registry, people, watching, limits>>

\* No client has the key, or an inactive one: 401.  The lookup throws: 500.
AuthRefuse(s) ==
    /\ req[s].pc = "auth"
    /\ Answer(s)
    /\ UNCHANGED <<registry, people, watching, limits>>

\* A body that is refused, an administrator's request without the master key, a
\* row that is not found, a query that throws; and GET /me, GET /address and
\* POST /orders/generate-id, which change nothing.
AnswerOnly(s) ==
    /\ req[s].pc = "handle"
    /\ Answer(s)
    /\ UNCHANGED <<registry, people, watching, limits>>

-----------------------------------------------------------------------------
(* POST /register-address                                                  *)

\* The route is checked and the key of the day computed before the first await.
RegisterCheck(s) ==
    /\ req[s].pc = "handle"
    /\ \E o \in Owners, src, dst \in ChainIds :
        IF RouteAccepted(registry, src, dst)
        THEN Becomes(s, [req[s] EXCEPT !.pc = "count", !.uda = <<o, dst>>,
                                       !.source = src, !.day = day])
        ELSE Answer(s)
    /\ UNCHANGED <<registry, people, watching, limits>>

\* INCR creates the counter; PEXPIRE NX gives it a TTL once.
Incremented(c) == [n |-> c.n + 1, ttl |-> IF c.ttl = 0 THEN Window ELSE c.ttl]

DayKey(s) == <<req[s].uda[1], req[s].day>>

\* Mutant: the count before the increment is compared.
RegisterCountLate(s) ==
    /\ req[s].pc = "count"
    /\ count[DayKey(s)].n < MaxCount
    /\ count' = [count EXCEPT ![DayKey(s)] = Incremented(@)]
    /\ LET ok == count[DayKey(s)].n <= MaxRequests IN
       /\ accepted' = IF ok /\ req[s].day = day
                      THEN [accepted EXCEPT ![req[s].uda[1]] = @ + 1] ELSE accepted
       /\ IF ok THEN Becomes(s, [req[s] EXCEPT !.pc = "store"]) ELSE Answer(s)
    /\ UNCHANGED <<registry, people, watching, hour, day>>

\* The request counts, refused or not, and under the day it began.
RegisterCount(s) ==
    /\ req[s].pc = "count"
    /\ count[DayKey(s)].n < MaxCount
    /\ count' = [count EXCEPT ![DayKey(s)] = Incremented(@)]
    /\ LET ok == count'[DayKey(s)].n <= MaxRequests IN
       /\ accepted' = IF ok /\ req[s].day = day
                      THEN [accepted EXCEPT ![req[s].uda[1]] = @ + 1] ELSE accepted
       /\ IF ok THEN Becomes(s, [req[s] EXCEPT !.pc = "store"]) ELSE Answer(s)
    /\ UNCHANGED <<registry, people, watching, hour, day>>

\* Mutant: the registration is stored without the client.
RegisterStoreAnonymous(s) ==
    /\ req[s].pc = "store"
    /\ HasContract(registry, req[s].source, "proxyFactory")
    /\ hash' = [hash EXCEPT ![req[s].uda] = [source |-> req[s].source, client |-> NoClient]]
    /\ registrants' = [registrants EXCEPT ![req[s].uda] = @ \cup {req[s].who}]
    /\ Answer(s)
    /\ UNCHANGED <<registry, people, watch, orders, limits>>

\* getUniversalAccount of the factory the source chain resolves to, which reads
\* nothing that changes here, then registerOrRefreshUDA, as far as chain and
\* client are concerned.
RegisterStore(s) ==
    /\ req[s].pc = "store"
    /\ HasContract(registry, req[s].source, "proxyFactory")
    /\ hash' = [hash EXCEPT ![req[s].uda] = [source |-> req[s].source, client |-> req[s].who]]
    /\ registrants' = [registrants EXCEPT ![req[s].uda] = @ \cup {req[s].who}]
    /\ Answer(s)
    /\ UNCHANGED <<registry, people, watch, orders, limits>>

\* Redis or the chain fails: 500, and what is done stays done.
RegisterFail(s) ==
    /\ req[s].pc \in {"count", "store"}
    /\ Answer(s)
    /\ UNCHANGED <<registry, people, watching, limits>>

Register(s) ==
    RegisterCheck(s) \/ RegisterCount(s) \/ RegisterStore(s) \/ RegisterFail(s)

-----------------------------------------------------------------------------
(* Order queries                                                           *)

\* Mutant: an order of a registered address is visible to all who registered it.
VisibleByAddress(s) ==
    {o \in orders : req[s].key = MasterKey \/ req[s].who \in registrants[o.uda]}

\* The filter by client, which the master key does not get, but the key of the
\* row with the same id does.
Visible(s) == {o \in orders : req[s].key = MasterKey \/ o.client = req[s].who}

\* GET /orders/:id, and GET /orders with address, chain and nonce: the id is a
\* function of these.
GetOrder(s) ==
    /\ req[s].pc = "handle"
    /\ \E o \in Visible(s) : Becomes(s, [req[s] EXCEPT !.pc = "reply", !.rows = {o}])
    /\ UNCHANGED <<registry, people, watching, limits>>

\* GET /orders, of one address or of all: the newest of the visible orders, up to
\* the limit.  Which ones these are is left open.
ListOrders(s) ==
    /\ req[s].pc = "handle"
    /\ \E rows \in SUBSET Visible(s) :
        Becomes(s, [req[s] EXCEPT !.pc = "reply", !.rows = rows])
    /\ UNCHANGED <<registry, people, watching, limits>>

Reply(s) ==
    /\ req[s].pc = "reply"
    /\ Answer(s)
    /\ UNCHANGED <<registry, people, watching, limits>>

Query(s) == GetOrder(s) \/ ListOrders(s) \/ Reply(s)

-----------------------------------------------------------------------------
(* Administration of clients                                               *)

\* isMaster goes with the key, not with the id.
AsMaster(s) == req[s].pc = "handle" /\ req[s].key = MasterKey

Exists(c) == clients[c].key # NoKey

\* generateApiKey: 32 random bytes, never twice the same.
Generated(k) == issued[k] = NoClient

GiveKey(c, k, active) ==
    /\ clients' = [clients EXCEPT ![c] = [key |-> k, active |-> active]]
    /\ issued' = [issued EXCEPT ![k] = c]

CreateClient(s) ==
    /\ AsMaster(s)
    /\ \E c \in Account, k \in Keys : ~Exists(c) /\ Generated(k) /\ GiveKey(c, k, TRUE)
    /\ Answer(s)
    /\ UNCHANGED <<registry, watching, limits>>

\* A change of the name only, and one of the activity.
UpdateClient(s) ==
    /\ AsMaster(s)
    /\ \E c \in Account, active \in BOOLEAN :
        /\ Exists(c)
        /\ clients' = [clients EXCEPT ![c].active = active]
    /\ Answer(s)
    /\ UNCHANGED <<registry, issued, watching, limits>>

RegenerateKey(s) ==
    /\ AsMaster(s)
    /\ \E c \in Account, k \in Keys :
        Exists(c) /\ Generated(k) /\ GiveKey(c, k, clients[c].active)
    /\ Answer(s)
    /\ UNCHANGED <<registry, watching, limits>>

Administer(s) == CreateClient(s) \/ UpdateClient(s) \/ RegenerateKey(s)

-----------------------------------------------------------------------------
(* The watcher, the TTL of a registration, and time                        *)

\* getUDA, then a balance that reaches the minimum of the source chain.
WatchRead(u) ==
    /\ watch[u].pc = "idle"
    /\ hash[u] # Unregistered
    /\ WatcherConfigured(registry, hash[u].source, u[2])
    /\ \E a \in Amounts : a >= BridgeLimits(registry, hash[u].source).min
    /\ watch' = [watch EXCEPT ![u] = [pc |-> "create", reg |-> hash[u]]]
    /\ UNCHANGED <<registry, people, hash, registrants, orders, limits, req>>

OrdersAt(u, src, n) == {o \in orders : o.uda = u /\ o.source = src /\ o.nonce = n}

NewOrder(u, n) ==
    [uda |-> u, source |-> watch[u].reg.source, nonce |-> n,
     client |-> watch[u].reg.client]

\* Mutant: the order that is there gets the client of this pass.
WatchCreateUpsert(u) ==
    /\ watch[u].pc = "create"
    /\ \E n \in 0..MaxNonce :
        LET old == OrdersAt(u, watch[u].reg.source, n) IN
        orders' = IF old = {} THEN orders \cup {NewOrder(u, n)}
                  ELSE (orders \ old) \cup {[o EXCEPT !.client = watch[u].reg.client] : o \in old}
    /\ watch' = [watch EXCEPT ![u] = NoPass]
    /\ UNCHANGED <<registry, people, hash, registrants, limits, req>>

\* ensureOrder at the nonce the chain has by now: a row that is there stays.
WatchCreate(u) ==
    /\ watch[u].pc = "create"
    /\ \E n \in 0..MaxNonce :
        orders' = IF OrdersAt(u, watch[u].reg.source, n) = {}
                  THEN orders \cup {NewOrder(u, n)} ELSE orders
    /\ watch' = [watch EXCEPT ![u] = NoPass]
    /\ UNCHANGED <<registry, people, hash, registrants, limits, req>>

WatchEnd(u) ==
    /\ watch[u].pc = "create"
    /\ watch' = [watch EXCEPT ![u] = NoPass]
    /\ UNCHANGED <<registry, people, hash, registrants, orders, limits, req>>

Expire(u) ==
    /\ hash[u] # Unregistered
    /\ hash' = [hash EXCEPT ![u] = Unregistered]
    /\ UNCHANGED <<registry, people, registrants, watch, orders, limits, req>>

Aged(c) == IF c.ttl > 1 THEN [c EXCEPT !.ttl = @ - 1] ELSE [n |-> 0, ttl |-> 0]

Tick ==
    /\ day < MaxDay
    /\ IF hour + 1 < DayLength
       THEN hour' = hour + 1 /\ UNCHANGED <<day, accepted>>
       ELSE /\ hour' = 0 /\ day' = day + 1
            /\ accepted' = [o \in Owners |-> 0]
    /\ count' = [k \in DOMAIN count |-> Aged(count[k])]
    /\ UNCHANGED <<registry, people, watching, req>>

Next ==
    \/ \E s \in Slots :
          \/ Arrive(s) \/ Authenticate(s) \/ AuthRefuse(s) \/ AnswerOnly(s)
          \/ Register(s) \/ Query(s) \/ Administer(s)
    \/ \E u \in Uda : WatchRead(u) \/ WatchCreate(u) \/ WatchEnd(u) \/ Expire(u)
    \/ Tick

Spec == Init /\ [][Next]_vars

-----------------------------------------------------------------------------
(* Properties                                                              *)

\* Whatever happens to keys, clients and registrations while a request is under
\* way and between a deposit and its order: the orders sent in reply to a
\* client's key are orders of the client the key was generated for, of addresses
\* that this client has registered itself.
OwnOrdersOnly ==
    \A s \in Slots :
        req[s].pc = "reply" /\ req[s].key # MasterKey =>
            \A o \in req[s].rows :
                /\ o.client = issued[req[s].key]
                /\ issued[req[s].key] \in registrants[o.uda]

\* An order keeps the client it was created for: another client that registers
\* the address, and a pass that meets the order again, do not take it over.
AttributionStable == [][orders \subseteq orders']_vars

\* Of the registrations for one owner that begin and are counted on one day, no
\* more than the maximum get past the limit: the counter lives as long as its day.
DailyLimit == \A o \in Owners : accepted[o] <= MaxRequests

\* A registered address can be served: the source chain that the maps give back
\* is a source with the factory and the USDC that the route check saw by scanning.
RoutableRegistrations ==
    \A u \in Uda :
        hash[u] # Unregistered =>
            /\ "source" \in ChainById(registry, hash[u].source).roles
            /\ HasContract(registry, hash[u].source, "proxyFactory")
            /\ HasContract(registry, hash[u].source, "usdc")
=============================================================================
