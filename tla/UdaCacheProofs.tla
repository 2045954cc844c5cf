---------------------------- MODULE UdaCacheProofs ----------------------------
(***************************************************************************)
(* Theorems about UdaCache, for any number of source chains, requests,     *)
(* nonces, expiries and failing calls: its types, that no registration     *)
(* outlives its TTL, and that one source chain sees a UDARecord.           *)
(***************************************************************************)
EXTENDS UdaCache, TLAPS

\* A pass that has read a registration, and a registration that has read the hash,
\* are about one of the source chains.
Placed ==
    /\ watcher.pc \notin {"idle", "get", "prune"} => watcher.chain \in Chains
    /\ \A r \in Requests : req[r].pc = "read" => req[r].chain \in Chains

IInv == TypeOK /\ Placed /\ RegistrationExpires

Hash == [reg : Chains \cup {NoChain}, last : Recordable, ttl : BOOLEAN, exists : BOOLEAN]
Pass == [pc : WatcherPc, chain : Chains \cup {NoChain}, seen : Recordable, at : 0..MaxNonce]
Registering == [pc : {"new", "read", "done"}, chain : Chains \cup {NoChain}, last : Recordable]

LEMMA Bounds == /\ 0 \in 0..MaxNonce /\ -1 \in Recordable
                /\ \A n \in 0..MaxNonce : n \in Recordable /\ n - 1 \in Recordable
BY CacheAssumption DEF Recordable

LEMMA Resting == Idle \in Pass /\ NoHash \in Hash /\ [Idle EXCEPT !.pc = "prune"] \in Pass
BY Bounds DEF Idle, NoHash, Pass, Hash, WatcherPc

-----------------------------------------------------------------------------
(* The invariant                                                           *)

LEMMA Start == Init => IInv
<1> SUFFICES ASSUME Init PROVE IInv
  OBVIOUS
<1>1. TypeOK
  <2>1. [pc |-> "new", chain |-> NoChain, last |-> -1] \in Registering
    BY Bounds DEF Registering
  <2>2. hash \in Hash /\ watcher \in Pass /\ req \in [Requests -> Registering]
    BY <2>1, Resting DEF Init
  <2>3. nonce \in [Chains -> 0..MaxNonce] /\ funded \in [Chains -> BOOLEAN]
    BY Bounds DEF Init
  <2>4. expiries \in 0..MaxExpiries /\ faults \in 0..MaxFaults
    BY CacheAssumption DEF Init
  <2>5. indexed \in BOOLEAN /\ ordered \subseteq Chains \X (0..MaxNonce)
    BY DEF Init
  <2> QED BY <2>2, <2>3, <2>4, <2>5 DEF TypeOK, Registering, Pass, Hash
<1>2. Placed /\ RegistrationExpires
  BY DEF Init, Placed, RegistrationExpires, Idle, NoHash
<1> QED BY <1>1, <1>2 DEF IInv

LEMMA RegisterStep ==
    ASSUME IInv, NEW r \in Requests, RegisterRead(r) \/ RegisterWrite(r) \/ RegisterFail(r)
    PROVE  IInv'
<1>0. TypeOK /\ Placed /\ RegistrationExpires /\ hash \in Hash /\ req[r] \in Registering
      /\ req \in [Requests -> Registering]
  BY DEF IInv, TypeOK, Hash, Registering
<1>1. CASE RegisterRead(r)
  <2>1. PICK c \in Chains : req' = [req EXCEPT ![r] = [pc |-> "read", chain |-> c, last |-> hash.last]]
    BY <1>1 DEF RegisterRead
  <2>2. [pc |-> "read", chain |-> c, last |-> hash.last] \in Registering
    BY <1>0 DEF Hash, Registering
  <2>3. req' \in [Requests -> Registering] /\ \A q \in Requests : req'[q].pc = "read" => req'[q].chain \in Chains
    BY <1>0, <2>1, <2>2 DEF Placed
  <2> QED BY <1>0, <1>1, <2>3
          DEF RegisterRead, IInv, TypeOK, Placed, RegistrationExpires, Registering, account
<1>2. CASE RegisterWrite(r)
  <2>1. hash' \in Hash /\ hash'.ttl
    BY <1>0, <1>2 DEF RegisterWrite, Hash, Registering
  <2>2. req' \in [Requests -> Registering] /\ \A q \in Requests : req'[q].pc = "read" => req'[q].chain \in Chains
    BY <1>0, <1>2 DEF RegisterWrite, Registering, Placed
  <2> QED BY <1>0, <1>2, <2>1, <2>2
          DEF RegisterWrite, IInv, TypeOK, Placed, RegistrationExpires, Registering, Hash, account
<1>3. CASE RegisterFail(r)
  <2>1. req' \in [Requests -> Registering] /\ \A q \in Requests : req'[q].pc = "read" => req'[q].chain \in Chains
    BY <1>0, <1>3 DEF RegisterFail, Registering, Placed
  <2>2. faults' \in 0..MaxFaults
    BY <1>0, <1>3, CacheAssumption DEF RegisterFail, Fault, TypeOK
  <2> QED BY <1>0, <1>3, <2>1, <2>2
          DEF RegisterFail, IInv, TypeOK, Placed, RegistrationExpires, Registering, account
<1> QED BY <1>1, <1>2, <1>3

\* What the watcher writes to the hash keeps the registration and its TTL.
LEMMA WatcherWrites ==
    ASSUME IInv, WatcherStep \/ Abort
    PROVE  /\ hash' \in Hash /\ hash'.reg = hash.reg /\ hash'.ttl = hash.ttl
           /\ indexed' \in BOOLEAN
<1>0. hash \in Hash /\ watcher \in Pass /\ indexed \in BOOLEAN
  BY DEF IInv, TypeOK, Hash, Pass
<1>1. \A n \in Recordable : [hash EXCEPT !.last = n, !.exists = TRUE] \in Hash
  BY <1>0 DEF Hash
<1>2. watcher.at \in Recordable /\ watcher.at - 1 \in Recordable
  BY <1>0, Bounds DEF Pass
<1>3. CASE TouchBalance
  BY <1>0, <1>3 DEF TouchBalance, Hash
<1>4. CASE Repair
  BY <1>0, <1>1, <1>2, <1>4 DEF Repair, Hash
<1>5. CASE RecordNonce
  BY <1>0, <1>1, <1>2, <1>5 DEF RecordNonce, Hash
<1>6. CASE PruneIndex
  BY <1>0, <1>6 DEF PruneIndex
<1>7. CASE UNCHANGED <<hash, indexed>>
  BY <1>0, <1>7
<1> QED BY <1>3, <1>4, <1>5, <1>6, <1>7
        DEF WatcherStep, Scan, GetUDA, ReadBalance, ReadNonce, Skip, EnsureOrder, Abort

LEMMA WatcherPasses ==
    ASSUME IInv, WatcherStep \/ Abort
    PROVE  /\ watcher' \in Pass
           /\ watcher'.pc \notin {"idle", "get", "prune"} => watcher'.chain \in Chains
<1>0. hash \in Hash /\ watcher \in Pass /\ Placed /\ nonce \in [Chains -> 0..MaxNonce]
  BY DEF IInv, TypeOK, Hash, Pass
<1>1. ASSUME NEW pc \in WatcherPc, Goto(pc),
             pc \notin {"idle", "get", "prune"} => watcher.chain \in Chains
      PROVE  /\ watcher' \in Pass
             /\ watcher'.pc \notin {"idle", "get", "prune"} => watcher'.chain \in Chains
  BY <1>0, <1>1 DEF Goto, Pass
<1>2. CASE watcher' = Idle
  BY <1>2, Resting DEF Idle
<1>3. CASE GetUDA
  <2>1. CASE hash.reg = NoChain
    BY <1>3, <2>1, Resting DEF GetUDA, Idle
  <2>2. CASE hash.reg # NoChain
    BY <1>0, <1>3, <2>2, Bounds DEF GetUDA, Hash, Pass, WatcherPc
  <2> QED BY <2>1, <2>2
<1>4. CASE ReadNonce
  <2>1. watcher.chain \in Chains /\ nonce[watcher.chain] \in 0..MaxNonce
    BY <1>0, <1>4 DEF ReadNonce, Placed
  <2> QED BY <1>0, <1>4, <2>1 DEF ReadNonce, Pass, WatcherPc
<1>5. CASE Scan \/ ReadBalance \/ TouchBalance \/ Repair \/ EnsureOrder
  BY <1>0, <1>1, <1>2, <1>5
     DEF Scan, ReadBalance, TouchBalance, Repair, EnsureOrder, Placed, WatcherPc
<1> QED BY <1>2, <1>3, <1>4, <1>5
        DEF WatcherStep, PruneIndex, Skip, RecordNonce, Abort

LEMMA WatcherKeeps ==
    ASSUME IInv, WatcherStep \/ Abort
    PROVE  IInv'
<1>0. TypeOK /\ Placed /\ RegistrationExpires
  BY DEF IInv
<1>1. UNCHANGED <<req, account, expiries>>
  BY DEF WatcherStep, Scan, GetUDA, PruneIndex, ReadBalance, TouchBalance, ReadNonce, Skip,
         Repair, EnsureOrder, RecordNonce, Abort
<1>2. ordered' \subseteq Chains \X (0..MaxNonce)
  <2>1. CASE EnsureOrder
    BY <1>0, <2>1 DEF EnsureOrder, TypeOK, Placed
  <2> QED BY <1>0, <2>1 DEF TypeOK, WatcherStep, Scan, GetUDA, PruneIndex, ReadBalance,
               TouchBalance, ReadNonce, Skip, Repair, RecordNonce, Abort
<1>3. faults' \in 0..MaxFaults
  BY <1>0, CacheAssumption
     DEF TypeOK, WatcherStep, Scan, GetUDA, PruneIndex, ReadBalance, TouchBalance, ReadNonce,
         Skip, Repair, EnsureOrder, RecordNonce, Abort, Fault
<1>4. TypeOK'
  BY <1>0, <1>1, <1>2, <1>3, WatcherWrites, WatcherPasses DEF TypeOK, Hash, Pass, account
<1>5. Placed' /\ RegistrationExpires'
  BY <1>0, <1>1, WatcherWrites, WatcherPasses DEF Placed, RegistrationExpires
<1> QED BY <1>4, <1>5 DEF IInv

LEMMA EnvironmentKeeps ==
    ASSUME IInv, Expire \/ (\E c \in Chains : Fund(c) \/ Settled(c)) \/ UNCHANGED vars
    PROVE  IInv'
<1>0. TypeOK /\ Placed /\ RegistrationExpires
  BY DEF IInv
<1>1. CASE Expire
  <2>1. expiries' \in 0..MaxExpiries /\ hash' \in Hash
    BY <1>0, <1>1, Resting, CacheAssumption DEF Expire, TypeOK
  <2> QED BY <1>0, <1>1, <2>1
          DEF Expire, IInv, TypeOK, Placed, RegistrationExpires, Hash, NoHash, account
<1>2. ASSUME NEW c \in Chains, Fund(c) PROVE IInv'
  BY <1>0, <1>2 DEF Fund, IInv, TypeOK, Placed, RegistrationExpires
<1>3. ASSUME NEW c \in Chains, Settled(c) PROVE IInv'
  <2>1. nonce' \in [Chains -> 0..MaxNonce] /\ funded' \in [Chains -> BOOLEAN]
    BY <1>0, <1>3, CacheAssumption DEF Settled, TypeOK
  <2> QED BY <1>0, <1>3, <2>1 DEF Settled, IInv, TypeOK, Placed, RegistrationExpires
<1>4. CASE UNCHANGED vars
  BY <1>0, <1>4 DEF vars, account, IInv, TypeOK, Placed, RegistrationExpires
<1> QED BY <1>1, <1>2, <1>3, <1>4

LEMMA Inductive == Spec => []IInv
<1>1. IInv /\ [Next]_vars => IInv'
  BY RegisterStep, WatcherKeeps, EnvironmentKeeps DEF Next
<1> QED BY Start, <1>1, PTL DEF Spec

\* The types, in every reachable state.
THEOREM CacheTypeCorrect == Spec => []TypeOK
<1>1. IInv => TypeOK
  BY DEF IInv
<1> QED BY Inductive, <1>1, PTL

\* A registration always has a TTL, whenever the hash expires under a pass of the
\* watcher and however many registrations cross.
THEOREM RegistrationsExpire == Spec => []RegistrationExpires
<1>1. IInv => RegistrationExpires
  BY DEF IInv
<1> QED BY Inductive, <1>1, PTL

-----------------------------------------------------------------------------
(* The record of one source chain                                          *)

\* The nonces that registrations for c have read and not yet written.
Reading(c) ==
    [r \in Requests |-> IF req[r].pc = "read" /\ req[r].chain = c THEN req[r].last ELSE -2]

LEMMA RecordStarts == ASSUME Init, NEW c \in Chains PROVE Record(c)!RecordInit
BY CacheAssumption DEF Init, NoHash, Record!RecordInit, Record!NotReading

\* A write that registers nothing for c, and no registration moves.
LEMMA ForeignWrite ==
    ASSUME NEW c \in Chains, hash'.last \in Nat \cup {-1}, Reading(c)' = Reading(c),
           hash'.reg = c => hash.reg = c
    PROVE  Record(c)!RecordNext
<1>1. (hash'.reg = c) \in {hash.reg = c, FALSE}
  OBVIOUS
<1> QED BY <1>1 DEF Record!RecordNext, Reading

LEMMA RecordRests ==
    ASSUME NEW c \in Chains, UNCHANGED <<hash, req>>
    PROVE  UNCHANGED Record(c)!redis
BY DEF Record!redis

\* What a registration does, seen from chain c: its own steps, or a foreign write.
LEMMA RegisterSeen ==
    ASSUME IInv, NEW c \in Chains, NEW r \in Requests,
           RegisterRead(r) \/ RegisterWrite(r) \/ RegisterFail(r)
    PROVE  Record(c)!RecordNext \/ UNCHANGED Record(c)!redis
<1>0. /\ req \in [Requests -> Registering] /\ hash.last \in Recordable
      /\ Recordable \subseteq Nat \cup {-1} /\ req[r] \in Registering
  BY CacheAssumption DEF IInv, TypeOK, Registering, Recordable
<1>1. CASE RegisterRead(r)
  <2>1. PICK d \in Chains : req' = [req EXCEPT ![r] = [pc |-> "read", chain |-> d, last |-> hash.last]]
    BY <1>1 DEF RegisterRead
  <2>2. CASE d = c
    <3>1. Reading(c)' = [Reading(c) EXCEPT ![r] = hash.last] /\ Reading(c)[r] = -2
      BY <1>0, <1>1, <2>1, <2>2 DEF RegisterRead, Reading
    <3>2. Record(c)!ReadRecord(r)
      BY <1>1, <3>1 DEF RegisterRead, Reading, Record!ReadRecord, Record!NotReading
    <3> QED BY <3>2 DEF Record!RecordNext
  <2>3. CASE d # c
    <3>1. Reading(c)' = Reading(c)
      BY <1>0, <1>1, <2>1, <2>3 DEF RegisterRead, Reading
    <3> QED BY <1>0, <1>1, <3>1, ForeignWrite DEF RegisterRead
  <2> QED BY <2>2, <2>3
<1>2. CASE RegisterWrite(r)
  <2>1. CASE req[r].chain = c
    <3>0. Reading(c)[r] = req[r].last /\ req[r].last # -2
      BY <1>0, <1>2, <2>1 DEF RegisterWrite, Reading, Registering
    <3>1. Reading(c)' = [Reading(c) EXCEPT ![r] = -2]
      BY <1>0, <1>2, <2>1 DEF RegisterWrite, Reading, Registering
    <3>2. hash'.reg = c /\ hash'.last = req[r].last
      BY <1>2, <2>1 DEF RegisterWrite
    <3>3. Record(c)!WriteRegistration(r)
      BY <3>0, <3>1, <3>2 DEF Reading, Record!WriteRegistration, Record!NotReading
    <3> QED BY <3>3 DEF Record!RecordNext
  <2>2. CASE req[r].chain # c
    <3>1. Reading(c)' = Reading(c)
      BY <1>0, <1>2, <2>2 DEF RegisterWrite, Reading, Registering
    <3>2. hash'.reg # c /\ hash'.last \in Recordable
      BY <1>0, <1>2, <2>2 DEF RegisterWrite, Registering
    <3> QED BY <1>0, <3>1, <3>2, ForeignWrite
  <2> QED BY <2>1, <2>2
<1>3. CASE RegisterFail(r)
  <2>1. CASE req[r].chain = c
    <3>0. Reading(c)[r] = req[r].last /\ req[r].last # -2
      BY <1>0, <1>3, <2>1 DEF RegisterFail, Reading, Registering
    <3>1. Reading(c)' = [Reading(c) EXCEPT ![r] = -2]
      BY <1>0, <1>3, <2>1 DEF RegisterFail, Reading, Registering
    <3>2. Record(c)!AbandonRead(r)
      BY <1>3, <3>0, <3>1 DEF RegisterFail, Reading, Record!AbandonRead, Record!NotReading
    <3> QED BY <3>2 DEF Record!RecordNext
  <2>2. CASE req[r].chain # c
    <3>1. Reading(c)' = Reading(c)
      BY <1>0, <1>3, <2>2 DEF RegisterFail, Reading, Registering
    <3> QED BY <1>0, <1>3, <3>1, ForeignWrite DEF RegisterFail
  <2> QED BY <2>1, <2>2
<1> QED BY <1>1, <1>2, <1>3

LEMMA OthersSeen ==
    ASSUME IInv, NEW c \in Chains,
           \/ Expire \/ WatcherStep \/ Abort
           \/ \E d \in Chains : Fund(d) \/ Settled(d)
           \/ UNCHANGED vars
    PROVE  Record(c)!RecordNext \/ UNCHANGED Record(c)!redis
<1>1. CASE Expire
  <2>1. Reading(c)' = Reading(c) /\ hash'.last = -1 /\ hash'.reg # c
    BY <1>1, CacheAssumption DEF Expire, Reading, NoHash
  <2> QED BY <2>1, ForeignWrite
<1>2. CASE WatcherStep \/ Abort
  <2>1. hash'.reg = hash.reg /\ hash'.last \in Recordable
    BY <1>2, WatcherWrites DEF Hash
  <2>2. UNCHANGED req
    BY <1>2 DEF WatcherStep, Scan, GetUDA, PruneIndex, ReadBalance, TouchBalance, ReadNonce,
         Skip, Repair, EnsureOrder, RecordNonce, Abort
  <2>3. Reading(c)' = Reading(c) /\ hash'.last \in Nat \cup {-1}
    BY <2>1, <2>2, CacheAssumption DEF Reading, Recordable
  <2> QED BY <2>1, <2>3, ForeignWrite
<1>3. CASE (\E d \in Chains : Fund(d) \/ Settled(d)) \/ UNCHANGED vars
  BY <1>3, RecordRests DEF Fund, Settled, vars
<1> QED BY <1>1, <1>2, <1>3

\* From each source chain the registrations, expiries and writes of the watcher are
\* the steps of UDARecord, whichever other chains share the hash: what OrderPipeline
\* assumes of the record is what the code provides.
THEOREM CacheImplementsRecord == Spec => ImplementsRecord
<1>1. Init => \A c \in Chains : Record(c)!RecordInit
  BY RecordStarts
<1>2. IInv /\ [Next]_vars => [\A c \in Chains : Record(c)!RecordNext \/ UNCHANGED Record(c)!redis]_vars
  BY RegisterSeen, OthersSeen DEF Next
<1> QED BY Inductive, <1>1, <1>2, PTL DEF Spec, ImplementsRecord
=============================================================================
