------------------------------ MODULE UdaCache ------------------------------
(***************************************************************************)
(* The Redis side of one UDA: the hash uda:<address>, the index of watched *)
(* addresses, the registrations that write both, for several source chains *)
(* at once, and the watcher's passes over them.  The hash is keyed by the  *)
(* address alone.  Orders are reduced to the pairs (source chain, nonce)   *)
(* that have one; settlement is the environment's.                         *)
(***************************************************************************)
EXTENDS Integers

CONSTANTS
    Chains,       \* source chains the address is registered for
    NoChain,      \* the required fields of the hash are missing
    Requests,     \* calls of POST /register-address
    MaxNonce,     \* bound on the nonce of each chain
    MaxExpiries,  \* bound on the expiries of the hash
    MaxFaults     \* bound on failing calls

ASSUME CacheAssumption ==
    /\ NoChain \notin Chains
    /\ MaxNonce \in Nat /\ MaxExpiries \in Nat /\ MaxFaults \in Nat

Recordable == -1..MaxNonce
WatcherPc == {"idle", "get", "prune", "balance", "touch", "touchLow", "nonce",
              "guard", "ensure", "record"}

VARIABLES
    hash,      \* the hash: registration, nonce (-1 when absent), TTL
    indexed,   \* the address is in uda:index
    req,       \* req[r]: a registration, its chain and the nonce it has read
    watcher,   \* processAddress at this address: the record it works with
    nonce,     \* nonce[c]: the account's nonce on chain c
    funded,    \* funded[c]: the balance reaches the minimum on chain c
    ordered,   \* <<c, n>>: the orders table has a row
    expiries, faults

vars == <<hash, indexed, req, watcher, nonce, funded, ordered, expiries, faults>>
account == <<nonce, funded>>

TypeOK ==
    /\ hash \in [reg : Chains \cup {NoChain}, last : Recordable, ttl : BOOLEAN, exists : BOOLEAN]
    /\ indexed \in BOOLEAN
    /\ req \in [Requests -> [pc : {"new", "read", "done"}, chain : Chains \cup {NoChain},
                             last : Recordable]]
    /\ watcher \in [pc : WatcherPc, chain : Chains \cup {NoChain}, seen : Recordable,
                    at : 0..MaxNonce]
    /\ nonce \in [Chains -> 0..MaxNonce]
    /\ funded \in [Chains -> BOOLEAN]
    /\ ordered \subseteq Chains \X (0..MaxNonce)
    /\ expiries \in 0..MaxExpiries /\ faults \in 0..MaxFaults

NoHash == [reg |-> NoChain, last |-> -1, ttl |-> FALSE, exists |-> FALSE]
Idle == [pc |-> "idle", chain |-> NoChain, seen |-> -1, at |-> 0]

Init ==
    /\ hash = NoHash
    /\ indexed = FALSE
    /\ req = [r \in Requests |-> [pc |-> "new", chain |-> NoChain, last |-> -1]]
    /\ watcher = Idle
    /\ nonce = [c \in Chains |-> 0]
    /\ funded = [c \in Chains |-> FALSE]
    /\ ordered = {}
    /\ expiries = 0 /\ faults = 0

Fault ==
    /\ faults < MaxFaults
    /\ faults' = faults + 1

-----------------------------------------------------------------------------
(* registerOrRefreshUDA                                                    *)

\* The fields to preserve are read ...
RegisterRead(r) ==
    /\ req[r].pc = "new"
    /\ \E c \in Chains :
        req' = [req EXCEPT ![r] = [pc |-> "read", chain |-> c, last |-> hash.last]]
    /\ UNCHANGED <<hash, indexed, watcher, account, ordered, expiries, faults>>

\* Mutant: the nonce starts again with every registration.
RegisterWriteFresh(r) ==
    /\ req[r].pc = "read"
    /\ hash' = [reg |-> req[r].chain, last |-> -1, ttl |-> TRUE, exists |-> TRUE]
    /\ indexed' = TRUE
    /\ req' = [req EXCEPT ![r].pc = "done"]
    /\ UNCHANGED <<watcher, account, ordered, expiries, faults>>

\* ... and written in one MULTI with the TTL and the index.
RegisterWrite(r) ==
    /\ req[r].pc = "read"
    /\ hash' = [reg |-> req[r].chain, last |-> req[r].last, ttl |-> TRUE, exists |-> TRUE]
    /\ indexed' = TRUE
    /\ req' = [req EXCEPT ![r].pc = "done"]
    /\ UNCHANGED <<watcher, account, ordered, expiries, faults>>

RegisterFail(r) ==
    /\ req[r].pc = "read"
    /\ Fault
    /\ req' = [req EXCEPT ![r].pc = "done"]
    /\ UNCHANGED <<hash, indexed, watcher, account, ordered, expiries>>

Expire ==
    /\ hash.ttl
    /\ expiries < MaxExpiries
    /\ expiries' = expiries + 1
    /\ hash' = NoHash
    /\ UNCHANGED <<indexed, req, watcher, account, ordered, faults>>

-----------------------------------------------------------------------------
(* The watcher: the scan of the index and processAddress                   *)

Goto(pc) == watcher' = [watcher EXCEPT !.pc = pc]

Scan ==
    /\ watcher.pc = "idle"
    /\ indexed
    /\ Goto("get")
    /\ UNCHANGED <<hash, indexed, req, account, ordered, expiries, faults>>

\* Mutant: only an empty hash counts as expired.
GetUDAUnlessEmpty ==
    /\ watcher.pc = "get"
    /\ watcher' = IF ~hash.exists THEN [Idle EXCEPT !.pc = "prune"]
                  ELSE IF hash.reg = NoChain THEN Idle
                  ELSE [pc |-> "balance", chain |-> hash.reg, seen |-> hash.last, at |-> 0]
    /\ UNCHANGED <<hash, indexed, req, account, ordered, expiries, faults>>

\* A hash without the required fields counts as expired.
GetUDA ==
    /\ watcher.pc = "get"
    /\ watcher' = IF hash.reg = NoChain THEN [Idle EXCEPT !.pc = "prune"]
                  ELSE [pc |-> "balance", chain |-> hash.reg, seen |-> hash.last, at |-> 0]
    /\ UNCHANGED <<hash, indexed, req, account, ordered, expiries, faults>>

PruneIndex ==
    /\ watcher.pc = "prune"
    /\ indexed' = FALSE
    /\ watcher' = Idle
    /\ UNCHANGED <<hash, req, account, ordered, expiries, faults>>

ReadBalance ==
    /\ watcher.pc = "balance"
    /\ Goto(IF funded[watcher.chain] THEN "touch" ELSE "touchLow")
    /\ UNCHANGED <<hash, indexed, req, account, ordered, expiries, faults>>

\* lastDetectedBalance is written before the threshold is tested: on an expired
\* hash this leaves one without registration and without TTL.
TouchBalance ==
    /\ \/ watcher.pc = "touch" /\ Goto("nonce")
       \/ watcher.pc = "touchLow" /\ watcher' = Idle
    /\ hash' = [hash EXCEPT !.exists = TRUE]
    /\ UNCHANGED <<indexed, req, account, ordered, expiries, faults>>

ReadNonce ==
    /\ watcher.pc = "nonce"
    /\ watcher' = [watcher EXCEPT !.at = nonce[watcher.chain],
                                  !.pc = IF watcher.seen = nonce[watcher.chain]
                                         THEN "guard" ELSE "ensure"]
    /\ UNCHANGED <<hash, indexed, req, account, ordered, expiries, faults>>

\* Mutant: the lookup of the order leaves out the source chain.
SkipAnyChain ==
    /\ watcher.pc = "guard"
    /\ \E c \in Chains : <<c, watcher.at>> \in ordered
    /\ watcher' = Idle
    /\ UNCHANGED <<hash, indexed, req, account, ordered, expiries, faults>>

Skip ==
    /\ watcher.pc = "guard"
    /\ <<watcher.chain, watcher.at>> \in ordered
    /\ watcher' = Idle
    /\ UNCHANGED <<hash, indexed, req, account, ordered, expiries, faults>>

\* Mutant: the repaired record is one nonce too low.
RepairTooFar ==
    /\ watcher.pc = "guard"
    /\ <<watcher.chain, watcher.at>> \notin ordered
    /\ hash' = [hash EXCEPT !.last = watcher.at - 2, !.exists = TRUE]
    /\ Goto("ensure")
    /\ UNCHANGED <<indexed, req, account, ordered, expiries, faults>>

Repair ==
    /\ watcher.pc = "guard"
    /\ <<watcher.chain, watcher.at>> \notin ordered
    /\ hash' = [hash EXCEPT !.last = watcher.at - 1, !.exists = TRUE]
    /\ Goto("ensure")
    /\ UNCHANGED <<indexed, req, account, ordered, expiries, faults>>

\* ensureOrder, and the publication after it, which touches nothing here.
EnsureOrder ==
    /\ watcher.pc = "ensure"
    /\ ordered' = ordered \cup {<<watcher.chain, watcher.at>>}
    /\ Goto("record")
    /\ UNCHANGED <<hash, indexed, req, account, expiries, faults>>

\* Mutant: the whole record is written back, not only the nonce.
RecordWhole ==
    /\ watcher.pc = "record"
    /\ hash' = [hash EXCEPT !.reg = watcher.chain, !.last = watcher.at, !.exists = TRUE]
    /\ watcher' = Idle
    /\ UNCHANGED <<indexed, req, account, ordered, expiries, faults>>

RecordNonce ==
    /\ watcher.pc = "record"
    /\ hash' = [hash EXCEPT !.last = watcher.at, !.exists = TRUE]
    /\ watcher' = Idle
    /\ UNCHANGED <<indexed, req, account, ordered, expiries, faults>>

\* An await throws: logged, and the pass is over.
Abort ==
    /\ watcher.pc # "idle"
    /\ Fault
    /\ watcher' = Idle
    /\ UNCHANGED <<hash, indexed, req, account, ordered, expiries>>

WatcherStep ==
    \/ Scan \/ GetUDA \/ PruneIndex \/ ReadBalance \/ TouchBalance \/ ReadNonce
    \/ Skip \/ Repair \/ EnsureOrder \/ RecordNonce

-----------------------------------------------------------------------------
(* The chains                                                              *)

Fund(c) ==
    /\ ~funded[c]
    /\ funded' = [funded EXCEPT ![c] = TRUE]
    /\ UNCHANGED <<hash, indexed, req, watcher, nonce, ordered, expiries, faults>>

\* settle() bridges the balance or, short of credit, a part of it.
Settled(c) ==
    /\ funded[c] /\ nonce[c] < MaxNonce
    /\ nonce' = [nonce EXCEPT ![c] = @ + 1]
    /\ \E rest \in BOOLEAN : funded' = [funded EXCEPT ![c] = rest]
    /\ UNCHANGED <<hash, indexed, req, watcher, ordered, expiries, faults>>

Next ==
    \/ \E r \in Requests : RegisterRead(r) \/ RegisterWrite(r) \/ RegisterFail(r)
    \/ Expire
    \/ WatcherStep \/ Abort
    \/ \E c \in Chains : Fund(c) \/ Settled(c)

Spec == Init /\ [][Next]_vars

\* The watcher's timer fires again after every pass, and its awaits end.
FairSpec == Spec /\ WF_vars(WatcherStep)

-----------------------------------------------------------------------------
(* Properties                                                              *)

\* An address is watched for the TTL of its last registration: whatever the
\* watcher writes to the hash while it expires, it never brings a registration
\* back that has no TTL and would be watched for ever.
RegistrationExpires == hash.reg # NoChain => hash.ttl

\* The index is cleaned: an address that is not registered any more leaves it,
\* also when a late write has left a hash without a registration behind.
IndexPruned ==
    (indexed /\ hash.reg = NoChain) ~> (~indexed \/ hash.reg # NoChain)

\* The nonce recorded for one chain never hides a deposit on another: while the
\* address stays watched for c, a sufficient balance at a nonce that has no
\* order on c gets one.
DepositOrdered ==
    \A c \in Chains, n \in 0..MaxNonce :
        (indexed /\ hash.reg = c /\ funded[c] /\ nonce[c] = n /\ <<c, n>> \notin ordered)
            ~> (\/ <<c, n>> \in ordered
                \/ ~indexed \/ hash.reg # c \/ ~funded[c] \/ nonce[c] # n)

\* What the order pipeline assumes of the record of one source chain.
Record(c) == INSTANCE UDARecord WITH
    cached <- hash.reg = c,
    lastProc <- hash.last,
    reading <- [r \in Requests |->
                  IF req[r].pc = "read" /\ req[r].chain = c THEN req[r].last ELSE -2]

\* Seen from each source chain, registrations, expiries and the watcher's writes
\* are the steps of UDARecord: a registration writes only a nonce it has read.
ImplementsRecord ==
    /\ \A c \in Chains : Record(c)!RecordInit
    /\ [][\A c \in Chains : Record(c)!RecordNext \/ UNCHANGED Record(c)!redis]_vars

-----------------------------------------------------------------------------
\* TechnicalDetails.md: after the registration the address is cached for the
\* balance watcher until the TTL runs out.
RegisteredIsWatched == hash.reg # NoChain => indexed
=============================================================================
