--------------------------- MODULE ApiServiceProofs ---------------------------
(* Proofs about RouteRegistry and ApiService.                              *)
EXTENDS ApiService, TLAPS

-----------------------------------------------------------------------------
(* An accepted route resolves                                              *)

\* Min of a nonempty set of naturals up to 5 is one of its members.
LEMMA MinOfFew ==
    ASSUME NEW S, S \subseteq 1..5, S # {}
    PROVE  Min(S) \in S
<1>1. \E x \in S : \A y \in S : x <= y
  <2>1. CASE 1 \in S  BY <2>1
  <2>2. CASE 1 \notin S /\ 2 \in S  BY <2>2
  <2>3. CASE 1 \notin S /\ 2 \notin S /\ 3 \in S  BY <2>3
  <2>4. CASE 1 \notin S /\ 2 \notin S /\ 3 \notin S /\ 4 \in S  BY <2>4
  <2>5. CASE 1 \notin S /\ 2 \notin S /\ 3 \notin S /\ 4 \notin S
    <3>1. \A y \in S : y = 5
      <4>1. \A y \in 1..5 : y \in {1, 2, 3, 4, 5}
        OBVIOUS
      <4> QED BY <4>1, <2>5
    <3>2. PICK x \in S : TRUE
      OBVIOUS
    <3> QED BY <3>1, <3>2
  <2> QED BY <2>1, <2>2, <2>3, <2>4, <2>5
<1> QED BY <1>1 DEF Min

LEMMA OnlyMember ==
    ASSUME NEW i \in Int
    PROVE  Min({i}) = i /\ Max({i}) = i
BY DEF Min, Max

\* With distinct ids the scan and the map give the same chain.
LEMMA SameLookup ==
    ASSUME NEW R \in Registry, NEW id \in ChainIds, Places(R, id) # {},
           \A i, j \in DOMAIN R.chains : R.chains[i].id = R.chains[j].id => i = j
    PROVE  FindChain(R, id) = ChainById(R, id)
<1>1. PICK i \in DOMAIN R.chains : R.chains[i].id = id
  BY DEF Places
<1>2. Places(R, id) = {i}
  BY <1>1 DEF Places
<1>3. i \in Int
  BY <1>1 DEF Registry
<1> QED BY <1>2, <1>3, OnlyMember DEF FindChain, ChainById

Routable(R, s) ==
    /\ "source" \in ChainById(R, s).roles
    /\ HasContract(R, s, "proxyFactory")
    /\ HasContract(R, s, "usdc")

\* A route that validateRoute accepts has, at the source that the maps give back,
\* the factory that registration calls and the USDC that the watcher reads.
THEOREM AcceptedRouteResolves ==
    ASSUME NEW R \in Registry, NEW s \in ChainIds, NEW d \in ChainIds,
           \A i, j \in DOMAIN R.chains : R.chains[i].id = R.chains[j].id => i = j,
           RouteAccepted(R, s, d)
    PROVE  Routable(R, s)
<1> DEFINE src == FindChain(R, s)
           dst == FindChain(R, d)
           checks == SourceChecks(R, src, dst) \o ContractChecks(src, dst)
           failed == {i \in DOMAIN checks : ~checks[i][1]}
<1>1. Places(R, s) # {} /\ Places(R, d) # {}
  BY DEF RouteAccepted, RouteError
<1>2. DOMAIN checks = 1..5
  BY DEF SourceChecks, ContractChecks
<1>3. checks[1][1] = ("source" \in src.roles) /\ checks[1][2] # "OK"
  BY DEF SourceChecks, ContractChecks
<1>4. checks[2][2] # "OK" /\ checks[3][2] # "OK"
  BY DEF SourceChecks, ContractChecks
<1>5. checks[4][1] = ("proxyFactory" \in src.contracts) /\ checks[4][2] # "OK"
  BY DEF SourceChecks, ContractChecks
<1>6. checks[5][1] = ("usdc" \in src.contracts) /\ checks[5][2] # "OK"
  BY DEF SourceChecks, ContractChecks
<1>7. failed = {}
  <2>1. ASSUME failed # {} PROVE FALSE
    <3> HIDE DEF checks
    <3>1. Min(failed) \in failed
      BY <1>2, <2>1, MinOfFew
    <3>2. checks[Min(failed)][2] # "OK"
      <4>1. \A i \in 1..5 : i \in {1, 2, 3, 4, 5}
        OBVIOUS
      <4>2. Min(failed) \in 1..5
        BY <3>1, <1>2
      <4> QED BY <4>1, <4>2, <1>3, <1>4, <1>5, <1>6
    <3>3. RouteError(R, s, d) = checks[Min(failed)][2]
      BY <1>1, <2>1 DEF RouteError, checks
    <3> QED BY <3>2, <3>3 DEF RouteAccepted
  <2> QED BY <2>1
<1>8. "source" \in src.roles /\ "proxyFactory" \in src.contracts /\ "usdc" \in src.contracts
  <2> HIDE DEF checks
  <2>1. \A i \in 1..5 : checks[i][1]
    BY <1>2, <1>7
  <2>2. checks[1][1] /\ checks[4][1] /\ checks[5][1]
    BY <2>1
  <2> QED BY <2>2, <1>3, <1>5, <1>6
<1>9. src = ChainById(R, s)
  BY <1>1, SameLookup
<1> QED BY <1>1, <1>8, <1>9 DEF Routable, HasContract

-----------------------------------------------------------------------------
(* The inductive invariant                                                 *)

\* A request that has passed authentication acts for the client its key was
\* generated for, whatever the clients table holds by now.
ActsFor(s) ==
    IF req[s].key = MasterKey THEN req[s].who = Master
    ELSE req[s].key \in Keys /\ req[s].who \in Account /\ issued[req[s].key] = req[s].who

KeysOnce == \A c \in Account : clients[c].key # NoKey => issued[clients[c].key] = c

\* Only a generated key is looked up.
AuthKeys == \A s \in Slots : req[s].pc = "auth" => req[s].key \in Keys

Identified == \A s \in Slots : req[s].pc \in {"handle", "count", "store", "reply"} => ActsFor(s)

\* The client of an order comes from a registration by that client, through the
\* hash and the pass that read it.
Attributed ==
    /\ \A u \in Uda : hash[u] # Unregistered => hash[u].client \in registrants[u]
    /\ \A u \in Uda : watch[u].pc = "create" => watch[u].reg.client \in registrants[u]
    /\ \A o \in orders : o.client \in registrants[o.uda]

RowsOwned ==
    \A s \in Slots : req[s].pc = "reply" /\ req[s].key # MasterKey =>
        \A o \in req[s].rows : o.client = req[s].who /\ o.client \in registrants[o.uda]

\* The counter of today covers what was accepted today, and outlives the day.
Counted ==
    /\ \A k \in Owners \X (0..MaxDay) : count[k].n = 0 => count[k].ttl = 0
    /\ \A o \in Owners, d \in 0..MaxDay : d > day => count[<<o, d>>].n = 0
    /\ \A o \in Owners :
          /\ accepted[o] <= count[<<o, day>>].n
          /\ count[<<o, day>>].n > 0 => count[<<o, day>>].ttl >= DayLength - hour
    /\ \A s \in Slots : req[s].day <= day

Checked ==
    /\ \A s \in Slots : req[s].pc \in {"count", "store"} =>
          RouteAccepted(registry, req[s].source, req[s].uda[2])
    /\ \A u \in Uda : hash[u] # Unregistered => RouteAccepted(registry, hash[u].source, u[2])

\* A request past its checks has an address and a source chain, a pass has a
\* registration.
Parsed ==
    /\ \A s \in Slots : req[s].pc \in {"count", "store"} =>
          req[s].uda \in Uda /\ req[s].source \in ChainIds
    /\ \A u \in Uda : watch[u].pc = "create" => watch[u].reg \in Registration

IInv == TypeOK /\ Parsed /\ KeysOnce /\ AuthKeys /\ Identified /\ Attributed /\ RowsOwned
        /\ Counted /\ Checked /\ DailyLimit

LEMMA NoRequestTyped == NoRequest \in Request
BY ApiAssumption DEF NoRequest, Request, RequestPc

LEMMA RequestTyped ==
    ASSUME TypeOK, NEW s \in Slots, NEW r \in Request, Becomes(s, r)
    PROVE  /\ req' \in [Slots -> Request]
           /\ req'[s] = r
           /\ \A t \in Slots : t # s => req'[t] = req[t]
BY DEF Becomes, TypeOK

\* Types, and what handlers hold past their checks.
LEMMA TypeStep ==
    ASSUME IInv, [Next]_vars
    PROVE  TypeOK' /\ Parsed'
<1>0. TypeOK /\ Parsed /\ Identified
  BY DEF IInv
<1>b. \A s \in Slots : req[s] \in Request
  BY <1>0 DEF TypeOK
<1>a. ASSUME NEW s \in Slots, NEW r \in Request, Becomes(s, r),
             UNCHANGED <<registry, people, watching, limits>>,
             r.pc \in {"count", "store"} => r.uda \in Uda /\ r.source \in ChainIds
      PROVE  TypeOK' /\ Parsed'
  BY <1>0, <1>a, RequestTyped DEF TypeOK, Parsed, people, watching, limits
<1>1. ASSUME NEW s \in Slots, Arrive(s) PROVE TypeOK' /\ Parsed'
  <2>1. [NoRequest EXCEPT !.pc = "handle", !.key = MasterKey, !.who = Master] \in Request
    BY NoRequestTyped DEF Request, RequestPc, Account
  <2>2. \A k \in Keys : [NoRequest EXCEPT !.pc = "auth", !.key = k] \in Request
    BY NoRequestTyped DEF Request, RequestPc
  <2> QED BY <1>1, <1>a, <2>1, <2>2 DEF Arrive, NoRequest
<1>2. ASSUME NEW s \in Slots, Authenticate(s) PROVE TypeOK' /\ Parsed'
  <2>1. PICK c \in Account : Becomes(s, [req[s] EXCEPT !.pc = "handle", !.who = c])
    BY <1>2 DEF Authenticate
  <2>2. [req[s] EXCEPT !.pc = "handle", !.who = c] \in Request
    BY <1>b DEF Request, RequestPc, Account
  <2> QED BY <1>0, <1>2, <1>a, <2>1, <2>2 DEF Authenticate, TypeOK, Request
<1>3. ASSUME NEW s \in Slots, AuthRefuse(s) \/ AnswerOnly(s) \/ RegisterFail(s) \/ Reply(s)
      PROVE TypeOK' /\ Parsed'
  BY <1>3, <1>a, NoRequestTyped
     DEF AuthRefuse, AnswerOnly, RegisterFail, Reply, Answer, NoRequest
<1>4. ASSUME NEW s \in Slots, RegisterCheck(s) PROVE TypeOK' /\ Parsed'
  <2>1. PICK o \in Owners, src \in ChainIds, dst \in ChainIds :
          \/ Answer(s)
          \/ Becomes(s, [req[s] EXCEPT !.pc = "count", !.uda = <<o, dst>>,
                                       !.source = src, !.day = day])
    BY <1>4 DEF RegisterCheck
  <2>2. [req[s] EXCEPT !.pc = "count", !.uda = <<o, dst>>, !.source = src, !.day = day] \in Request
    <3>1. req[s] \in Request /\ <<o, dst>> \in Uda /\ day \in 0..MaxDay
      BY <1>0, <1>b DEF TypeOK, Uda
    <3> QED BY <3>1 DEF Request, RequestPc
  <2>3. CASE Answer(s)
    BY <2>3, <1>4, <1>a, NoRequestTyped DEF RegisterCheck, Answer, NoRequest
  <2>4. CASE Becomes(s, [req[s] EXCEPT !.pc = "count", !.uda = <<o, dst>>,
                                       !.source = src, !.day = day])
    BY <2>2, <2>4, <1>0, <1>4, <1>a DEF RegisterCheck, TypeOK, Request, Uda
  <2> QED BY <2>1, <2>3, <2>4
<1>5. ASSUME NEW s \in Slots, RegisterCount(s) PROVE TypeOK' /\ Parsed'
  <2>1. PICK r \in {NoRequest, [req[s] EXCEPT !.pc = "store"]} : Becomes(s, r)
    BY <1>5 DEF RegisterCount, Answer
  <2>2. r \in Request /\ (r.pc = "store" => r.uda = req[s].uda /\ r.source = req[s].source)
                      /\ r.pc # "count"
    <3>1. [req[s] EXCEPT !.pc = "store"] \in Request
      BY <1>b DEF Request, RequestPc
    <3>2. CASE r = NoRequest  BY <3>2, NoRequestTyped DEF NoRequest
    <3>3. CASE r = [req[s] EXCEPT !.pc = "store"]  BY <3>1, <3>3, <1>b DEF Request
    <3> QED BY <2>1, <3>2, <3>3
  <2>3. req[s].pc = "count" /\ req[s].uda \in Uda /\ req[s].day \in 0..MaxDay
    BY <1>0, <1>5 DEF RegisterCount, Parsed, TypeOK, Request
  <2>4. count' \in [Owners \X (0..MaxDay) -> [n : Nat, ttl : Nat]] /\ accepted' \in [Owners -> Nat]
    BY <1>0, <1>5, <2>3, ApiAssumption DEF RegisterCount, TypeOK, DayKey, Incremented, Uda
  <2>5. req' \in [Slots -> Request] /\ Parsed'
    BY <1>0, <1>5, <2>1, <2>2, <2>3, RequestTyped DEF RegisterCount, Parsed, watching
  <2> QED BY <1>0, <1>5, <2>4, <2>5 DEF RegisterCount, TypeOK, people, watching
<1>6. ASSUME NEW s \in Slots, RegisterStore(s) PROVE TypeOK' /\ Parsed'
  <2>1. req[s].uda \in Uda /\ [source |-> req[s].source, client |-> req[s].who] \in Registration
        /\ req[s].who \in Account
    BY <1>0, <1>6 DEF RegisterStore, Parsed, Identified, ActsFor, Registration, Account
  <2>2. req' \in [Slots -> Request] /\ Parsed'
    BY <1>0, <1>6, RequestTyped, NoRequestTyped DEF RegisterStore, Answer, NoRequest, Parsed
  <2>3. hash' \in [Uda -> Registration \cup {Unregistered}] /\ registrants' \in [Uda -> SUBSET Account]
    BY <1>0, <1>6, <2>1 DEF RegisterStore, TypeOK
  <2> QED BY <1>0, <1>6, <2>2, <2>3 DEF RegisterStore, TypeOK, people, limits
<1>7. ASSUME NEW s \in Slots, GetOrder(s) \/ ListOrders(s) PROVE TypeOK' /\ Parsed'
  <2>1. PICK rows \in SUBSET Visible(s) : Becomes(s, [req[s] EXCEPT !.pc = "reply", !.rows = rows])
    BY <1>7 DEF GetOrder, ListOrders
  <2>2. [req[s] EXCEPT !.pc = "reply", !.rows = rows] \in Request
    <3>1. req[s] \in Request /\ rows \in SUBSET Order
      BY <1>0, <1>b DEF TypeOK, Visible
    <3> QED BY <3>1 DEF Request, RequestPc
  <2> QED BY <1>0, <1>7, <1>a, <2>1, <2>2 DEF GetOrder, ListOrders, TypeOK, Request
<1>8. ASSUME NEW s \in Slots, Administer(s) PROVE TypeOK' /\ Parsed'
  <2>1. Answer(s) /\ UNCHANGED <<registry, watching, limits>>
    BY <1>8 DEF Administer, CreateClient, UpdateClient, RegenerateKey
  <2>2. req' \in [Slots -> Request] /\ Parsed'
    BY <1>0, <2>1, RequestTyped, NoRequestTyped DEF Answer, NoRequest, Parsed, watching
  <2>3. clients' \in [Account -> [key : Keys \cup {NoKey}, active : BOOLEAN]]
        /\ issued' \in [Keys -> Account \cup {NoClient}]
    <3>1. CASE UpdateClient(s)
      BY <1>0, <3>1 DEF UpdateClient, TypeOK
    <3>2. ASSUME NEW c \in Account, NEW k \in Keys, NEW a \in BOOLEAN, GiveKey(c, k, a)
          PROVE  clients' \in [Account -> [key : Keys \cup {NoKey}, active : BOOLEAN]]
                 /\ issued' \in [Keys -> Account \cup {NoClient}]
      BY <1>0, <3>2 DEF GiveKey, TypeOK
    <3>3. \A c \in Account : clients[c].active \in BOOLEAN
      BY <1>0 DEF TypeOK
    <3> QED BY <1>8, <3>1, <3>2, <3>3 DEF Administer, CreateClient, RegenerateKey
  <2> QED BY <1>0, <2>1, <2>2, <2>3 DEF TypeOK, watching, limits
<1>9. ASSUME NEW u \in Uda, WatchRead(u) PROVE TypeOK' /\ Parsed'
  BY <1>0, <1>9 DEF WatchRead, TypeOK, Parsed, people, limits
<1>10. ASSUME NEW u \in Uda, WatchCreate(u) PROVE TypeOK' /\ Parsed'
  <2>1. \A n \in 0..MaxNonce : NewOrder(u, n) \in Order
    BY <1>0, <1>10 DEF WatchCreate, Parsed, NewOrder, Order, Registration
  <2>2. orders' \subseteq Order
    BY <1>0, <1>10, <2>1 DEF WatchCreate, TypeOK
  <2>3. watch' \in [Uda -> [pc : {"idle", "create"}, reg : Registration \cup {Unregistered}]]
        /\ Parsed'
    BY <1>0, <1>10 DEF WatchCreate, TypeOK, Parsed, NoPass
  <2> QED BY <1>0, <1>10, <2>2, <2>3 DEF WatchCreate, TypeOK, people, limits
<1>11. ASSUME NEW u \in Uda, WatchEnd(u) \/ Expire(u) PROVE TypeOK' /\ Parsed'
  <2>1. CASE WatchEnd(u)
    <3>1. watch' \in [Uda -> [pc : {"idle", "create"}, reg : Registration \cup {Unregistered}]]
          /\ Parsed'
      BY <1>0, <2>1 DEF WatchEnd, TypeOK, Parsed, NoPass
    <3> QED BY <1>0, <2>1, <3>1 DEF WatchEnd, TypeOK, people, limits
  <2>2. CASE Expire(u)
    BY <1>0, <2>2 DEF Expire, TypeOK, Parsed, people, limits
  <2> QED BY <1>11, <2>1, <2>2
<1>12. CASE Tick
  <2>1. count' \in [Owners \X (0..MaxDay) -> [n : Nat, ttl : Nat]]
    BY <1>0, <1>12 DEF Tick, TypeOK, Aged
  <2>2. hour' \in 0..DayLength - 1 /\ day' \in 0..MaxDay /\ accepted' \in [Owners -> Nat]
    BY <1>0, <1>12, ApiAssumption DEF Tick, TypeOK
  <2> QED BY <1>0, <1>12, <2>1, <2>2 DEF Tick, TypeOK, Parsed, people, watching
<1>13. CASE UNCHANGED vars
  BY <1>0, <1>13 DEF vars, TypeOK, Parsed
<1> QED
  BY <1>1, <1>2, <1>3, <1>4, <1>5, <1>6, <1>7, <1>8, <1>9, <1>10, <1>11, <1>12, <1>13
  DEF Next, Register, Query

\* What a step does to the requests: they stay, or one of them ends, arrives, is
\* authenticated, is checked, counted, or reads its rows.
LEMMA RequestSteps ==
    ASSUME IInv, [Next]_vars, NEW s \in Slots
    PROVE  \/ req'[s] = req[s]
           \/ req'[s] = NoRequest
           \/ /\ req'[s].pc \in {"auth", "handle"} /\ req'[s].day = 0
              /\ req'[s].pc = "auth" => req'[s].key \in Keys
              /\ req'[s].pc = "handle" => req'[s].key = MasterKey /\ req'[s].who = Master
           \/ /\ req'[s].pc = "handle" /\ req'[s].key = req[s].key /\ req'[s].day = req[s].day
              /\ req'[s].who \in Account /\ req[s].pc = "auth"
              /\ clients[req'[s].who].key = req[s].key /\ UNCHANGED issued
           \/ /\ req[s].pc = "handle" /\ req'[s].pc = "count"
              /\ req'[s].key = req[s].key /\ req'[s].who = req[s].who /\ req'[s].day = day
              /\ RouteAccepted(registry, req'[s].source, req'[s].uda[2])
              /\ UNCHANGED <<issued, limits>>
           \/ /\ req[s].pc = "count" /\ req'[s] = [req[s] EXCEPT !.pc = "store"]
              /\ UNCHANGED issued
           \/ /\ req[s].pc = "handle" /\ req'[s].pc = "reply"
              /\ req'[s].key = req[s].key /\ req'[s].who = req[s].who /\ req'[s].day = req[s].day
              /\ req'[s].rows \subseteq Visible(s) /\ UNCHANGED <<issued, watching>>
<1>0. TypeOK /\ \A t \in Slots : req[t] \in Request
  BY DEF IInv, TypeOK
<1>1. ASSUME NEW t \in Slots, NEW r, Becomes(t, r)
      PROVE  req'[s] = IF s = t THEN r ELSE req[s]
  BY <1>0, <1>1 DEF TypeOK, Becomes
<1>2. CASE UNCHANGED req
  BY <1>2
<1>3. ASSUME NEW t \in Slots,
             \/ AuthRefuse(t) \/ AnswerOnly(t) \/ RegisterFail(t) \/ Reply(t)
             \/ RegisterStore(t) \/ Administer(t)
      PROVE  req'[s] = req[s] \/ req'[s] = NoRequest
  BY <1>1, <1>3 DEF AuthRefuse, AnswerOnly, RegisterFail, Reply, RegisterStore, Answer,
                    Administer, CreateClient, UpdateClient, RegenerateKey
<1>4. ASSUME NEW t \in Slots, Arrive(t)
      PROVE  \/ req'[s] = req[s]
             \/ /\ req'[s].pc \in {"auth", "handle"} /\ req'[s].day = 0
                /\ req'[s].pc = "auth" => req'[s].key \in Keys
                /\ req'[s].pc = "handle" => req'[s].key = MasterKey /\ req'[s].who = Master
  <2>1. PICK r : /\ Becomes(t, r) /\ r.pc \in {"auth", "handle"} /\ r.day = 0
                 /\ r.pc = "auth" => r.key \in Keys
                 /\ r.pc = "handle" => r.key = MasterKey /\ r.who = Master
    <3>1. CASE Becomes(t, [NoRequest EXCEPT !.pc = "handle", !.key = MasterKey, !.who = Master])
      <4> DEFINE r == [NoRequest EXCEPT !.pc = "handle", !.key = MasterKey, !.who = Master]
      <4>1. r.pc = "handle" /\ r.day = 0 /\ r.key = MasterKey /\ r.who = Master
        BY DEF NoRequest
      <4> HIDE DEF r
      <4> QED BY <3>1, <4>1 DEF r
    <3>2. ASSUME NEW k \in Keys, Becomes(t, [NoRequest EXCEPT !.pc = "auth", !.key = k])
          PROVE  \E r : /\ Becomes(t, r) /\ r.pc = "auth" /\ r.day = 0 /\ r.key \in Keys
      <4> DEFINE r == [NoRequest EXCEPT !.pc = "auth", !.key = k]
      <4>1. r.pc = "auth" /\ r.day = 0 /\ r.key = k
        BY DEF NoRequest
      <4>2. Becomes(t, r)
        BY <3>2
      <4> HIDE DEF r
      <4> QED BY <4>1, <4>2
    <3> QED BY <1>4, <3>1, <3>2 DEF Arrive
  <2> QED BY <1>1, <2>1
<1>5. ASSUME NEW t \in Slots, Authenticate(t)
      PROVE  \/ req'[s] = req[s]
             \/ /\ req'[s].pc = "handle" /\ req'[s].key = req[s].key /\ req'[s].day = req[s].day
                /\ req'[s].who \in Account /\ req[s].pc = "auth"
                /\ clients[req'[s].who].key = req[s].key /\ UNCHANGED issued
  <2>1. PICK c \in Account : /\ clients[c] = [key |-> req[t].key, active |-> TRUE]
                             /\ Becomes(t, [req[t] EXCEPT !.pc = "handle", !.who = c])
    BY <1>5 DEF Authenticate
  <2> DEFINE r == [req[t] EXCEPT !.pc = "handle", !.who = c]
  <2>2. r.pc = "handle" /\ r.key = req[t].key /\ r.day = req[t].day /\ r.who = c
    BY <1>0 DEF Request
  <2>3. clients[c].key = req[t].key /\ req[t].pc = "auth" /\ UNCHANGED issued
    BY <1>5, <2>1 DEF Authenticate, people
  <2>4. req'[s] = IF s = t THEN r ELSE req[s]
    BY <1>1, <2>1
  <2> HIDE DEF r
  <2> QED BY <2>2, <2>3, <2>4
<1>6. ASSUME NEW t \in Slots, RegisterCheck(t)
      PROVE  \/ req'[s] = req[s]
             \/ req'[s] = NoRequest
             \/ /\ req[s].pc = "handle" /\ req'[s].pc = "count"
                /\ req'[s].key = req[s].key /\ req'[s].who = req[s].who /\ req'[s].day = day
                /\ RouteAccepted(registry, req'[s].source, req'[s].uda[2])
                /\ UNCHANGED <<issued, limits>>
  <2>1. PICK o \in Owners, src \in ChainIds, dst \in ChainIds :
          \/ Answer(t)
          \/ /\ RouteAccepted(registry, src, dst)
             /\ Becomes(t, [req[t] EXCEPT !.pc = "count", !.uda = <<o, dst>>,
                                          !.source = src, !.day = day])
    BY <1>6 DEF RegisterCheck
  <2> DEFINE r == [req[t] EXCEPT !.pc = "count", !.uda = <<o, dst>>,
                                 !.source = src, !.day = day]
  <2>2. /\ r.pc = "count" /\ r.key = req[t].key /\ r.who = req[t].who /\ r.day = day
        /\ r.source = src /\ r.uda[2] = dst
    BY <1>0 DEF Request
  <2>3. req[t].pc = "handle" /\ UNCHANGED <<issued, limits>>
    BY <1>6 DEF RegisterCheck, people
  <2>4. CASE Answer(t)
    BY <1>1, <2>4 DEF Answer
  <2>5. CASE RouteAccepted(registry, src, dst) /\ Becomes(t, r)
    <3>1. req'[s] = IF s = t THEN r ELSE req[s]
      BY <1>1, <2>5
    <3> HIDE DEF r
    <3> QED BY <2>2, <2>3, <2>5, <3>1
  <2> QED BY <2>1, <2>4, <2>5
<1>7. ASSUME NEW t \in Slots, RegisterCount(t)
      PROVE  \/ req'[s] = req[s]
             \/ req'[s] = NoRequest
             \/ /\ req[s].pc = "count" /\ req'[s] = [req[s] EXCEPT !.pc = "store"]
                /\ UNCHANGED issued
  BY <1>1, <1>7 DEF RegisterCount, Answer, people
<1>8. ASSUME NEW t \in Slots, GetOrder(t) \/ ListOrders(t)
      PROVE  \/ req'[s] = req[s]
             \/ /\ req[s].pc = "handle" /\ req'[s].pc = "reply"
                /\ req'[s].key = req[s].key /\ req'[s].who = req[s].who /\ req'[s].day = req[s].day
                /\ req'[s].rows \subseteq Visible(s) /\ UNCHANGED <<issued, watching>>
  <2>1. PICK rows \in SUBSET Visible(t) : Becomes(t, [req[t] EXCEPT !.pc = "reply", !.rows = rows])
    BY <1>8 DEF GetOrder, ListOrders
  <2> DEFINE r == [req[t] EXCEPT !.pc = "reply", !.rows = rows]
  <2>2. /\ r.pc = "reply" /\ r.key = req[t].key /\ r.who = req[t].who /\ r.day = req[t].day
        /\ r.rows = rows
    BY <1>0 DEF Request
  <2>3. req[t].pc = "handle" /\ UNCHANGED <<issued, watching>>
    BY <1>8 DEF GetOrder, ListOrders, people
  <2>4. req'[s] = IF s = t THEN r ELSE req[s]
    BY <1>1, <2>1
  <2> HIDE DEF r
  <2> QED BY <2>2, <2>3, <2>4
<1>9. CASE \/ \E u \in Uda : WatchRead(u) \/ WatchCreate(u) \/ WatchEnd(u) \/ Expire(u)
           \/ Tick \/ UNCHANGED vars
  BY <1>2, <1>9 DEF WatchRead, WatchCreate, WatchEnd, Expire, Tick, vars
<1> QED
  BY <1>3, <1>4, <1>5, <1>6, <1>7, <1>8, <1>9 DEF Next, Register, Query

-----------------------------------------------------------------------------
(* Keys and clients                                                        *)

\* A key is generated once: what it was generated for never changes.
LEMMA KeysStay ==
    ASSUME IInv, [Next]_vars
    PROVE  KeysOnce' /\ \A k \in Keys : issued[k] # NoClient => issued'[k] = issued[k]
<1>0. TypeOK /\ KeysOnce
  BY DEF IInv
<1>1. ASSUME NEW c \in Account, NEW k \in Keys, NEW a \in BOOLEAN, Generated(k), GiveKey(c, k, a)
      PROVE  KeysOnce' /\ \A j \in Keys : issued[j] # NoClient => issued'[j] = issued[j]
  <2>1. \A j \in Keys : issued[j] # NoClient => issued'[j] = issued[j]
    BY <1>0, <1>1 DEF TypeOK, Generated, GiveKey
  <2>2. clients'[c].key = k /\ issued'[k] = c
    BY <1>0, <1>1 DEF TypeOK, GiveKey
  <2>3. \A d \in Account : d # c => clients'[d] = clients[d]
    BY <1>0, <1>1 DEF TypeOK, GiveKey
  <2>4. \A d \in Account : clients[d].key \in Keys \cup {NoKey}
    BY <1>0 DEF TypeOK
  <2>5. \A d \in Account : clients[d].key # NoKey => issued'[clients[d].key] = d
    BY <1>0, <2>1, <2>4, ApiAssumption DEF KeysOnce, Account
  <2> QED BY <2>1, <2>2, <2>3, <2>5 DEF KeysOnce
<1>2. ASSUME NEW s \in Slots, UpdateClient(s)
      PROVE  KeysOnce' /\ \A j \in Keys : issued[j] # NoClient => issued'[j] = issued[j]
  BY <1>0, <1>2 DEF UpdateClient, TypeOK, KeysOnce
<1>3. ASSUME NEW s \in Slots, CreateClient(s) \/ RegenerateKey(s)
      PROVE  KeysOnce' /\ \A j \in Keys : issued[j] # NoClient => issued'[j] = issued[j]
  <2>1. \A c \in Account : clients[c].active \in BOOLEAN
    BY <1>0 DEF TypeOK
  <2>2. CASE CreateClient(s)
    BY <1>1, <2>2 DEF CreateClient
  <2>3. CASE RegenerateKey(s)
    BY <1>1, <2>1, <2>3 DEF RegenerateKey
  <2> QED BY <1>3, <2>2, <2>3
<1>4. CASE UNCHANGED people
  BY <1>0, <1>4 DEF people, KeysOnce
<1> QED
  BY <1>2, <1>3, <1>4
  DEF Next, Register, Query, Administer, Arrive, Authenticate, AuthRefuse, AnswerOnly,
      RegisterCheck, RegisterCount, RegisterStore, RegisterFail, GetOrder, ListOrders, Reply,
      WatchRead, WatchCreate, WatchEnd, Expire, Tick, vars, people

LEMMA IdentifiedStep ==
    ASSUME IInv, [Next]_vars
    PROVE  Identified'
<1> SUFFICES ASSUME NEW s \in Slots, req'[s].pc \in {"handle", "count", "store", "reply"}
             PROVE  ActsFor(s)'
  BY DEF Identified
<1>0. TypeOK /\ KeysOnce /\ Identified /\ req[s] \in Request
  BY DEF IInv, TypeOK
<1>1. \A k \in Keys : issued[k] # NoClient => issued'[k] = issued[k]
  BY KeysStay
<1>2. CASE req[s].pc \in {"handle", "count", "store", "reply"}
           /\ req'[s].key = req[s].key /\ req'[s].who = req[s].who
  <2>1. ActsFor(s)
    BY <1>0, <1>2 DEF Identified
  <2> QED BY <1>1, <1>2, <2>1, ApiAssumption DEF ActsFor, Account
<1>3. CASE req'[s].key = MasterKey /\ req'[s].who = Master
  BY <1>3 DEF ActsFor
<1>4. CASE req'[s].key = req[s].key /\ req'[s].who \in Account /\ req[s].pc = "auth"
           /\ clients[req'[s].who].key = req[s].key /\ UNCHANGED issued
  <2>1. req[s].key \in Keys
    BY <1>0, <1>4 DEF IInv, AuthKeys
  <2> QED BY <1>0, <1>4, <2>1, ApiAssumption DEF ActsFor, KeysOnce
<1> QED
  <2>1. req'[s] # NoRequest
    BY DEF NoRequest
  <2>2. ASSUME req[s].pc = "count", req'[s] = [req[s] EXCEPT !.pc = "store"]
        PROVE  req'[s].key = req[s].key /\ req'[s].who = req[s].who
    BY <1>0, <2>2 DEF Request
  <2> QED BY <1>2, <1>3, <1>4, <2>1, <2>2, RequestSteps

LEMMA AuthKeysStep ==
    ASSUME IInv, [Next]_vars
    PROVE  AuthKeys'
<1> SUFFICES ASSUME NEW s \in Slots, req'[s].pc = "auth" PROVE req'[s].key \in Keys
  BY DEF AuthKeys
<1>1. req'[s] # NoRequest
  BY DEF NoRequest
<1>2. ASSUME req'[s] = [req[s] EXCEPT !.pc = "store"] PROVE FALSE
  BY <1>2 DEF IInv, TypeOK, Request
<1> QED BY <1>1, <1>2, RequestSteps DEF IInv, AuthKeys

-----------------------------------------------------------------------------
(* The client of an order                                                  *)

\* Registrants are only added.
LEMMA RegistrantsStay ==
    ASSUME IInv, [Next]_vars
    PROVE  \A u \in Uda : registrants[u] \subseteq registrants'[u]
<1>1. ASSUME NEW s \in Slots, RegisterStore(s)
      PROVE  \A u \in Uda : registrants[u] \subseteq registrants'[u]
  BY <1>1 DEF RegisterStore, IInv, TypeOK
<1>2. CASE UNCHANGED registrants
  BY <1>2
<1> QED
  BY <1>1, <1>2
  DEF Next, Register, Query, Administer, Arrive, Authenticate, AuthRefuse, AnswerOnly,
      RegisterCheck, RegisterCount, RegisterFail, GetOrder, ListOrders, Reply,
      CreateClient, UpdateClient, RegenerateKey,
      WatchRead, WatchCreate, WatchEnd, Expire, Tick, vars, watching

LEMMA AttributedStep ==
    ASSUME IInv, [Next]_vars
    PROVE  Attributed'
<1>0. TypeOK /\ Parsed /\ Attributed
  BY DEF IInv
<1>a. \A u \in Uda : registrants[u] \subseteq registrants'[u]
  BY RegistrantsStay
<1>b. \A o \in orders : o.uda \in Uda
  BY <1>0 DEF TypeOK, Order
<1>1. CASE UNCHANGED watching
  BY <1>0, <1>1 DEF watching, Attributed
<1>2. ASSUME NEW s \in Slots, RegisterStore(s) PROVE Attributed'
  <2>1. req[s].uda \in Uda
    BY <1>0, <1>2 DEF RegisterStore, Parsed
  <2>2. \A u \in Uda : hash'[u] # Unregistered => hash'[u].client \in registrants'[u]
    BY <1>0, <1>2, <1>a, <2>1 DEF RegisterStore, TypeOK, Attributed
  <2>3. UNCHANGED <<watch, orders>>
    BY <1>2 DEF RegisterStore
  <2> QED BY <1>0, <1>a, <1>b, <2>2, <2>3 DEF Attributed
<1>3. ASSUME NEW u \in Uda, WatchRead(u) PROVE Attributed'
  BY <1>0, <1>3 DEF WatchRead, TypeOK, Attributed
<1>4. ASSUME NEW u \in Uda, WatchCreate(u) PROVE Attributed'
  <2>1. \A n \in 0..MaxNonce : NewOrder(u, n).client \in registrants[NewOrder(u, n).uda]
    BY <1>0, <1>4 DEF WatchCreate, Attributed, NewOrder
  <2>2. \A o \in orders' : o.client \in registrants'[o.uda]
    BY <1>0, <1>4, <2>1 DEF WatchCreate, Attributed
  <2>3. \A v \in Uda : watch'[v].pc = "create" => watch'[v] = watch[v]
    BY <1>0, <1>4 DEF WatchCreate, NoPass, TypeOK
  <2> QED BY <1>0, <1>4, <2>2, <2>3 DEF WatchCreate, Attributed
<1>5. ASSUME NEW u \in Uda, WatchEnd(u) PROVE Attributed'
  BY <1>0, <1>5 DEF WatchEnd, NoPass, TypeOK, Attributed
<1>6. ASSUME NEW u \in Uda, Expire(u) PROVE Attributed'
  BY <1>0, <1>6 DEF Expire, TypeOK, Attributed
<1> QED
  BY <1>1, <1>2, <1>3, <1>4, <1>5, <1>6
  DEF Next, Register, Query, Administer, Arrive, Authenticate, AuthRefuse, AnswerOnly,
      RegisterCheck, RegisterCount, RegisterFail, GetOrder, ListOrders, Reply,
      CreateClient, UpdateClient, RegenerateKey, Tick, vars, watching

LEMMA RowsOwnedStep ==
    ASSUME IInv, [Next]_vars
    PROVE  RowsOwned'
<1> SUFFICES ASSUME NEW s \in Slots, req'[s].pc = "reply", req'[s].key # MasterKey,
                    NEW o \in req'[s].rows
             PROVE  o.client = req'[s].who /\ o.client \in registrants'[o.uda]
  BY DEF RowsOwned
<1>0. TypeOK /\ Identified /\ Attributed /\ RowsOwned /\ req[s] \in Request
  BY DEF IInv, TypeOK
<1>a. \A u \in Uda : registrants[u] \subseteq registrants'[u]
  BY RegistrantsStay
<1>1. req'[s] # NoRequest
  BY DEF NoRequest
<1>2. req'[s] # [req[s] EXCEPT !.pc = "store"]
  BY <1>0 DEF Request
<1>3. CASE req'[s] = req[s]
  <2>1. o \in Order /\ o.client = req[s].who /\ o.client \in registrants[o.uda]
    BY <1>0, <1>3 DEF RowsOwned, Request
  <2> QED BY <1>3, <1>a, <2>1 DEF Order
<1>4. CASE /\ req[s].pc = "handle"
           /\ req'[s].key = req[s].key /\ req'[s].who = req[s].who
           /\ req'[s].rows \subseteq Visible(s)
  <2>1. req[s].who \in Account
    BY <1>0, <1>4 DEF Identified, ActsFor
  <2>2. o \in orders /\ o.client = req[s].who
    BY <1>4, <2>1, ApiAssumption DEF Visible
  <2>3. o.client \in registrants[o.uda] /\ o.uda \in Uda
    BY <1>0, <2>2 DEF Attributed, TypeOK, Order
  <2> QED BY <1>4, <1>a, <2>2, <2>3
<1> QED BY <1>1, <1>2, <1>3, <1>4, RequestSteps

-----------------------------------------------------------------------------
(* The daily limit                                                         *)

LEMMA RegisterCountStep ==
    ASSUME IInv, NEW s \in Slots, RegisterCount(s)
    PROVE  (\A k \in Owners \X (0..MaxDay) : count'[k].n = 0 => count'[k].ttl = 0)
           /\ (\A o \in Owners, d \in 0..MaxDay : d > day => count'[<<o, d>>].n = 0)
           /\ (\A o \in Owners :
                 /\ accepted'[o] <= count'[<<o, day>>].n
                 /\ accepted'[o] <= MaxRequests
                 /\ count'[<<o, day>>].n > 0 => count'[<<o, day>>].ttl >= DayLength - hour)
<1>0. TypeOK /\ Parsed /\ Counted /\ DailyLimit /\ ApiAssumption
  BY ApiAssumption DEF IInv
<1> DEFINE q == req[s].uda[1]
           e == req[s].day
           K == Owners \X (0..MaxDay)
           new == Incremented(count[<<q, e>>])
<1>1. q \in Owners /\ e \in 0..MaxDay /\ e <= day
  BY <1>0 DEF RegisterCount, Parsed, TypeOK, Request, Uda, Counted
<1>2. count' = [count EXCEPT ![<<q, e>>] = new]
  BY DEF RegisterCount, DayKey
<1>3. /\ count \in [K -> [n : Nat, ttl : Nat]] /\ accepted \in [Owners -> Nat]
      /\ day \in 0..MaxDay /\ hour \in 0..DayLength - 1
  BY <1>0 DEF TypeOK
<1>4. <<q, e>> \in K /\ count'[<<q, e>>] = new
  BY <1>1, <1>2, <1>3
<1>5. \A k \in K : k # <<q, e>> => count'[k] = count[k]
  BY <1>2, <1>3
<1>6. count[<<q, e>>].n \in Nat /\ count[<<q, e>>].ttl \in Nat
  BY <1>3, <1>4
<1>7. /\ new.n = count[<<q, e>>].n + 1
      /\ new.ttl = IF count[<<q, e>>].ttl = 0 THEN Window ELSE count[<<q, e>>].ttl
  BY DEF Incremented
<1>8. new.n > 0 /\ new.n \in Nat
  BY <1>6, <1>7
<1>9. \/ accepted' = accepted
      \/ accepted' = [accepted EXCEPT ![q] = @ + 1] /\ e = day /\ new.n <= MaxRequests
  BY <1>4 DEF RegisterCount, DayKey
<1> HIDE DEF q, e, new
<1>10. \A k \in K : count'[k].n = 0 => count'[k].ttl = 0
  BY <1>0, <1>4, <1>5, <1>8 DEF Counted
<1>11. \A o \in Owners, d \in 0..MaxDay : d > day => count'[<<o, d>>].n = 0
  <2> SUFFICES ASSUME NEW o \in Owners, NEW d \in 0..MaxDay, d > day
               PROVE  count'[<<o, d>>].n = 0
    OBVIOUS
  <2>1. <<o, d>> # <<q, e>>
    BY <1>1, <1>3
  <2>2. <<o, d>> \in K
    OBVIOUS
  <2> QED BY <1>0, <1>5, <2>1, <2>2 DEF Counted
<1>12. ASSUME NEW o \in Owners
       PROVE  /\ accepted'[o] <= count'[<<o, day>>].n
              /\ accepted'[o] <= MaxRequests
              /\ count'[<<o, day>>].n > 0 => count'[<<o, day>>].ttl >= DayLength - hour
  <2>1. /\ accepted[o] <= count[<<o, day>>].n /\ accepted[o] <= MaxRequests
        /\ count[<<o, day>>].n > 0 => count[<<o, day>>].ttl >= DayLength - hour
        /\ count[<<o, day>>].n = 0 => count[<<o, day>>].ttl = 0
    BY <1>0, <1>3 DEF Counted, DailyLimit
  <2>2. <<o, day>> \in K /\ count[<<o, day>>].n \in Nat /\ count[<<o, day>>].ttl \in Nat
        /\ accepted[o] \in Nat
    BY <1>3
  <2>3. CASE <<o, day>> = <<q, e>>
    <3>1. accepted'[o] = accepted[o] \/ (accepted'[o] = accepted[o] + 1 /\ new.n <= MaxRequests)
      BY <1>3, <1>9, <2>3
    <3>2. count'[<<o, day>>] = new /\ new.n = count[<<o, day>>].n + 1
      BY <1>4, <1>7, <2>3
    <3>3. new.ttl >= DayLength - hour
      BY <1>0, <1>3, <1>6, <1>7, <2>1, <2>2, <2>3 DEF ApiAssumption
    <3>4. MaxRequests \in Nat
      BY <1>0 DEF ApiAssumption
    <3> QED BY <2>1, <2>2, <3>1, <3>2, <3>3, <3>4
  <2>4. CASE <<o, day>> # <<q, e>>
    <3>1. count'[<<o, day>>] = count[<<o, day>>]
      BY <1>5, <2>2, <2>4
    <3>2. accepted'[o] = accepted[o]
      BY <1>3, <1>9, <2>4
    <3> QED BY <2>1, <3>1, <3>2
  <2> QED BY <2>3, <2>4
<1> QED BY <1>10, <1>11, <1>12

LEMMA TickStep ==
    ASSUME IInv, Tick
    PROVE  Counted' /\ DailyLimit'
<1>0. TypeOK /\ Counted /\ DailyLimit
  BY DEF IInv
<1> DEFINE K == Owners \X (0..MaxDay)
<1>1. /\ count \in [K -> [n : Nat, ttl : Nat]] /\ accepted \in [Owners -> Nat]
      /\ day \in 0..MaxDay /\ hour \in 0..DayLength - 1 /\ DayLength \in Nat \ {0}
      /\ MaxDay \in Nat /\ MaxRequests \in Nat
  BY <1>0, ApiAssumption DEF TypeOK
<1>2. \A k \in K : count'[k] = Aged(count[k]) /\ count[k].n \in Nat /\ count[k].ttl \in Nat
  BY <1>1 DEF Tick
<1>3. \A k \in K : count[k].n = 0 => count[k].ttl = 0
  BY <1>0 DEF Counted
<1>4. \A k \in K :
        /\ count[k].ttl > 1 => count'[k].n = count[k].n /\ count'[k].ttl = count[k].ttl - 1
        /\ count[k].ttl <= 1 => count'[k].n = 0 /\ count'[k].ttl = 0
  <2> SUFFICES ASSUME NEW k \in K
               PROVE  /\ count[k].ttl > 1 =>
                            count'[k].n = count[k].n /\ count'[k].ttl = count[k].ttl - 1
                      /\ count[k].ttl <= 1 => count'[k].n = 0 /\ count'[k].ttl = 0
    OBVIOUS
  <2>1. count[k] \in [n : Nat, ttl : Nat] /\ count'[k] = Aged(count[k])
    BY <1>1, <1>2
  <2>2. CASE count[k].ttl > 1
    <3>1. count'[k] = [count[k] EXCEPT !.ttl = count[k].ttl - 1]
      BY <2>1, <2>2 DEF Aged
    <3>2. count'[k].n = count[k].n /\ count'[k].ttl = count[k].ttl - 1
      BY <2>1, <3>1
    <3> QED BY <2>1, <2>2, <3>2
  <2>3. CASE ~(count[k].ttl > 1)
    BY <2>1, <2>3 DEF Aged
  <2> QED BY <2>1, <2>2, <2>3
<1>5. \A k \in K : count'[k].n = 0 => count'[k].ttl = 0
  BY <1>2, <1>3, <1>4
<1>6. day' >= day /\ (day' = day \/ (day' = day + 1 /\ hour' = 0))
  BY <1>1 DEF Tick
<1>7. \A o \in Owners, d \in 0..MaxDay : d > day => count'[<<o, d>>].n = 0
  <2> SUFFICES ASSUME NEW o \in Owners, NEW d \in 0..MaxDay, d > day
               PROVE  count'[<<o, d>>].n = 0
    OBVIOUS
  <2>1. <<o, d>> \in K /\ count[<<o, d>>].n = 0
    BY <1>0 DEF Counted
  <2> QED BY <1>2, <1>3, <1>4, <2>1
<1>8. ASSUME NEW o \in Owners
      PROVE  /\ accepted'[o] <= count'[<<o, day'>>].n
             /\ accepted'[o] <= MaxRequests
             /\ count'[<<o, day'>>].n > 0 => count'[<<o, day'>>].ttl >= DayLength - hour'
  <2>1. /\ accepted[o] <= count[<<o, day>>].n /\ accepted[o] <= MaxRequests
        /\ count[<<o, day>>].n > 0 => count[<<o, day>>].ttl >= DayLength - hour
    BY <1>0 DEF Counted, DailyLimit
  <2>2. <<o, day>> \in K /\ accepted[o] \in Nat
    BY <1>1
  <2>3. CASE hour + 1 < DayLength
    <3>1. hour' = hour + 1 /\ day' = day /\ accepted' = accepted
      BY <2>3 DEF Tick
    <3>2. CASE count[<<o, day>>].n > 0
      <4>1. count[<<o, day>>].ttl > 1
        BY <1>1, <1>2, <2>1, <2>2, <2>3, <3>2
      <4> QED BY <1>1, <1>2, <1>4, <2>1, <2>2, <3>1, <4>1
    <3>3. CASE ~(count[<<o, day>>].n > 0)
      <4>1. count[<<o, day>>].n = 0 /\ count[<<o, day>>].ttl = 0
        BY <1>2, <1>3, <2>2, <3>3
      <4>2. count'[<<o, day>>].n = 0
        BY <1>4, <2>2, <4>1
      <4> QED BY <2>1, <2>2, <3>1, <4>1, <4>2
    <3> QED BY <3>2, <3>3
  <2>4. CASE ~(hour + 1 < DayLength)
    <3>1. hour' = 0 /\ day' = day + 1 /\ accepted'[o] = 0 /\ day < MaxDay
      BY <2>4 DEF Tick
    <3>2. day + 1 \in 0..MaxDay /\ day + 1 > day
      BY <1>1, <3>1
    <3>3. count'[<<o, day'>>].n = 0
      BY <1>7, <3>1, <3>2
    <3> QED BY <1>1, <3>1, <3>3
  <2> QED BY <2>3, <2>4
<1>9. \A s \in Slots : req'[s].day <= day'
  <2>1. \A s \in Slots : req[s].day \in Int /\ req[s].day <= day /\ req' = req
    BY <1>0 DEF Tick, TypeOK, Request, Counted
  <2>2. day' \in Int
    BY <1>1, <1>6
  <2> QED BY <1>1, <1>6, <2>1, <2>2
<1>10. \A o \in Owners, d \in 0..MaxDay : d > day' => count'[<<o, d>>].n = 0
  BY <1>1, <1>6, <1>7
<1> QED BY <1>5, <1>8, <1>9, <1>10 DEF Counted, DailyLimit

LEMMA CountedStep ==
    ASSUME IInv, [Next]_vars
    PROVE  Counted' /\ DailyLimit'
<1>0. TypeOK /\ Counted /\ DailyLimit /\ day \in Nat
  BY ApiAssumption DEF IInv, TypeOK
<1>1. CASE Tick
  BY <1>1, TickStep
<1>2. ASSUME UNCHANGED <<hour, day>> PROVE \A s \in Slots : req'[s].day <= day'
  <2> SUFFICES ASSUME NEW s \in Slots PROVE req'[s].day <= day
    BY <1>2
  <2>1. req[s] \in Request /\ req[s].day <= day
    BY <1>0 DEF TypeOK, Counted
  <2>2. NoRequest.day = 0 /\ [req[s] EXCEPT !.pc = "store"].day = req[s].day
    BY <2>1 DEF NoRequest, Request
  <2>3. req'[s].day \in {0, day, req[s].day}
    BY <2>2, RequestSteps, Zenon
  <2> QED BY <1>0, <2>1, <2>3
<1>3. ASSUME NEW s \in Slots, RegisterCount(s) PROVE Counted' /\ DailyLimit'
  <2>1. UNCHANGED <<hour, day>>
    BY <1>3 DEF RegisterCount
  <2> QED BY <1>2, <1>3, <2>1, RegisterCountStep DEF Counted, DailyLimit
<1>4. CASE UNCHANGED limits
  BY <1>0, <1>2, <1>4 DEF limits, Counted, DailyLimit
<1> QED
  BY <1>1, <1>3, <1>4
  DEF Next, Register, Query, Administer, Arrive, Authenticate, AuthRefuse, AnswerOnly,
      RegisterCheck, RegisterStore, RegisterFail, GetOrder, ListOrders, Reply,
      CreateClient, UpdateClient, RegenerateKey,
      WatchRead, WatchCreate, WatchEnd, Expire, vars, limits

-----------------------------------------------------------------------------
(* The route of a registration                                             *)

LEMMA CheckedStep ==
    ASSUME IInv, [Next]_vars
    PROVE  Checked'
<1>0. TypeOK /\ Parsed /\ Checked
  BY DEF IInv
<1>1. UNCHANGED registry
  BY DEF Next, Register, Query, Administer, Arrive, Authenticate, AuthRefuse, AnswerOnly,
         RegisterCheck, RegisterCount, RegisterStore, RegisterFail, GetOrder, ListOrders, Reply,
         CreateClient, UpdateClient, RegenerateKey,
         WatchRead, WatchCreate, WatchEnd, Expire, Tick, vars
<1>2. ASSUME NEW s \in Slots, req'[s].pc \in {"count", "store"}
      PROVE  RouteAccepted(registry, req'[s].source, req'[s].uda[2])
  <2>1. req[s] \in Request
    BY <1>0 DEF TypeOK
  <2>2. req'[s] # NoRequest
    BY <1>2 DEF NoRequest
  <2>3. CASE req'[s] = req[s]
    BY <1>0, <1>2, <2>3 DEF Checked
  <2>4. CASE req[s].pc = "count" /\ req'[s] = [req[s] EXCEPT !.pc = "store"]
    <3>1. req'[s].source = req[s].source /\ req'[s].uda = req[s].uda
      BY <2>1, <2>4 DEF Request
    <3> QED BY <1>0, <2>4, <3>1 DEF Checked
  <2> QED BY <1>2, <2>2, <2>3, <2>4, RequestSteps
<1>3. ASSUME NEW u \in Uda, hash'[u] # Unregistered
      PROVE  RouteAccepted(registry, hash'[u].source, u[2])
  <2>1. CASE hash'[u] = hash[u]
    BY <1>0, <1>3, <2>1 DEF Checked
  <2>2. ASSUME NEW s \in Slots, RegisterStore(s), hash'[u] # hash[u]
        PROVE  RouteAccepted(registry, hash'[u].source, u[2])
    <3>1. req[s].uda = u /\ hash'[u].source = req[s].source /\ req[s].pc = "store"
      BY <1>0, <2>2 DEF RegisterStore, TypeOK
    <3> QED BY <1>0, <3>1 DEF Checked
  <2>3. ASSUME NEW v \in Uda, Expire(v) PROVE hash'[u] = hash[u]
    BY <1>0, <1>3, <2>3 DEF Expire, TypeOK
  <2> QED
    BY <2>1, <2>2, <2>3
    DEF Next, Register, Query, Administer, Arrive, Authenticate, AuthRefuse, AnswerOnly,
        RegisterCheck, RegisterCount, RegisterFail, GetOrder, ListOrders, Reply,
        CreateClient, UpdateClient, RegenerateKey,
        WatchRead, WatchCreate, WatchEnd, Tick, vars, watching
<1> QED BY <1>1, <1>2, <1>3 DEF Checked

-----------------------------------------------------------------------------
(* Theorems                                                                *)

LEMMA InitIInv == Init => IInv
<1> SUFFICES ASSUME Init PROVE IInv
  OBVIOUS
<1>1. TypeOK
  <2>1. /\ clients \in [Account -> [key : Keys \cup {NoKey}, active : BOOLEAN]]
        /\ issued \in [Keys -> Account \cup {NoClient}]
    BY ApiAssumption DEF Init, Account
  <2>2. count \in [Owners \X (0..MaxDay) -> [n : Nat, ttl : Nat]] /\ accepted \in [Owners -> Nat]
        /\ hour \in 0..DayLength - 1 /\ day \in 0..MaxDay
    BY ApiAssumption DEF Init
  <2> QED BY <2>1, <2>2, NoRequestTyped DEF Init, TypeOK, NoPass, Unregistered
<1>2. KeysOnce
  BY ApiAssumption DEF Init, KeysOnce, Account
<1>3. Parsed /\ AuthKeys /\ Identified /\ Attributed /\ RowsOwned /\ Checked
  BY DEF Init, Parsed, AuthKeys, Identified, Attributed, RowsOwned, Checked, NoRequest, NoPass
<1>4. Counted /\ DailyLimit
  <2>1. \A k \in Owners \X (0..MaxDay) : count[k].n = 0 /\ count[k].ttl = 0
    BY DEF Init
  <2>2. \A o \in Owners : accepted[o] = 0
    BY DEF Init
  <2>3. day = 0 /\ 0 \in 0..MaxDay /\ MaxRequests \in Nat /\ \A s \in Slots : req[s].day = 0
    BY ApiAssumption DEF Init, NoRequest
  <2> QED BY <2>1, <2>2, <2>3 DEF Counted, DailyLimit
<1> QED BY <1>1, <1>2, <1>3, <1>4 DEF IInv

LEMMA IInvStep == IInv /\ [Next]_vars => IInv'
<1> SUFFICES ASSUME IInv, [Next]_vars PROVE IInv'
  OBVIOUS
<1> QED
  BY TypeStep, KeysStay, AuthKeysStep, IdentifiedStep, AttributedStep, RowsOwnedStep,
     CountedStep, CheckedStep
  DEF IInv

LEMMA Inductive == Spec => []IInv
BY InitIInv, IInvStep, PTL DEF Spec

\* The types, in every reachable state.
THEOREM ApiTypeCorrect == Spec => []TypeOK
<1>1. IInv => TypeOK
  BY DEF IInv
<1> QED BY Inductive, <1>1, PTL

\* A client's key gets orders of its own client only, for any number of clients,
\* keys, addresses and concurrent requests.
THEOREM OwnOrders == Spec => []OwnOrdersOnly
<1>1. IInv => OwnOrdersOnly
  <2> SUFFICES ASSUME IInv, NEW s \in Slots, req[s].pc = "reply", req[s].key # MasterKey,
                      NEW o \in req[s].rows
               PROVE  /\ o.client = issued[req[s].key]
                      /\ issued[req[s].key] \in registrants[o.uda]
    BY DEF OwnOrdersOnly
  <2>1. issued[req[s].key] = req[s].who
    BY DEF IInv, Identified, ActsFor
  <2>2. o.client = req[s].who /\ o.client \in registrants[o.uda]
    BY DEF IInv, RowsOwned
  <2> QED BY <2>1, <2>2
<1> QED BY Inductive, <1>1, PTL

\* The limit of a day holds for every maximum and every window of a day or longer.
THEOREM DailyLimitHolds == Spec => []DailyLimit
<1>1. IInv => DailyLimit
  BY DEF IInv
<1> QED BY Inductive, <1>1, PTL

\* A registration resolves through the maps to a source with its contracts, in
\* every registry whose chain ids are distinct.
THEOREM RegistrationsRoutable == Spec => []RoutableRegistrations
<1>1. IInv => RoutableRegistrations
  <2> SUFFICES ASSUME IInv, NEW u \in Uda, hash[u] # Unregistered
               PROVE  Routable(registry, hash[u].source)
    BY DEF RoutableRegistrations, Routable
  <2>1. RouteAccepted(registry, hash[u].source, u[2])
    BY DEF IInv, Checked
  <2>2. hash[u].source \in ChainIds /\ u[2] \in ChainIds
    BY DEF IInv, TypeOK, Registration, Uda
  <2>3. registry \in Registry
        /\ \A i, j \in DOMAIN registry.chains :
              registry.chains[i].id = registry.chains[j].id => i = j
    BY ApiAssumption DEF IInv, TypeOK
  <2> QED BY <2>1, <2>2, <2>3, AcceptedRouteResolves
<1> QED BY Inductive, <1>1, PTL

\* An order keeps the client it was created for: only the watcher writes the
\* orders, and it leaves a row that is there alone.
THEOREM AttributionsStable == Spec => AttributionStable
<1>1. [Next]_vars => [orders \subseteq orders']_vars
  <2> SUFFICES ASSUME Next PROVE orders \subseteq orders'
    OBVIOUS
  <2>1. ASSUME NEW u \in Uda, WatchRead(u) \/ WatchCreate(u) \/ WatchEnd(u) \/ Expire(u)
        PROVE  orders \subseteq orders'
    BY <2>1 DEF WatchRead, WatchCreate, WatchEnd, Expire
  <2>2. ASSUME NEW s \in Slots,
               \/ Arrive(s) \/ Authenticate(s) \/ AuthRefuse(s) \/ AnswerOnly(s)
               \/ Register(s) \/ Query(s) \/ Administer(s)
        PROVE  UNCHANGED orders
    <3>1. CASE Arrive(s) \/ Authenticate(s) \/ AuthRefuse(s) \/ AnswerOnly(s)
      BY <3>1 DEF Arrive, Authenticate, AuthRefuse, AnswerOnly, watching
    <3>2. CASE Register(s)
      BY <3>2 DEF Register, RegisterCheck, RegisterCount, RegisterStore, RegisterFail, watching
    <3>3. CASE Query(s)
      BY <3>3 DEF Query, GetOrder, ListOrders, Reply, watching
    <3>4. CASE Administer(s)
      BY <3>4 DEF Administer, CreateClient, UpdateClient, RegenerateKey, watching
    <3> QED BY <2>2, <3>1, <3>2, <3>3, <3>4
  <2>3. CASE Tick
    BY <2>3 DEF Tick, watching
  <2> QED BY <2>1, <2>2, <2>3 DEF Next
<1> QED BY <1>1, PTL DEF Spec, AttributionStable
=============================================================================
