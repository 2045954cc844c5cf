----------------------------- MODULE UDARecord -----------------------------
(***************************************************************************)
(* What the watcher of one source chain can tell of a UDA's Redis hash:    *)
(* whether it holds a registration for that chain, and the nonce recorded  *)
(* as processed.  The hash is keyed by the address alone, so a registration*)
(* for another source chain, and the watcher's passes for it, write the    *)
(* same fields.                                                            *)
(***************************************************************************)
EXTENDS Integers

CONSTANT Requests  \* registrations for this chain that may be under way at once

VARIABLES
    cached,    \* the hash holds a registration for this source chain
    lastProc,  \* lastProcessedNonce, -1 when the field is absent
    reading    \* reading[r]: the nonce registration r has read and not yet written

redis == <<cached, lastProc, reading>>

NotReading == -2

RecordTypeOK ==
    /\ cached \in BOOLEAN
    /\ lastProc \in Nat \cup {-1}
    /\ reading \in [Requests -> Nat \cup {-1, NotReading}]

RecordInit ==
    /\ cached = FALSE
    /\ lastProc = -1
    /\ reading = [r \in Requests |-> NotReading]

-----------------------------------------------------------------------------
\* registerOrRefreshUDA reads the fields it is going to preserve ...
ReadRecord(r) ==
    /\ reading[r] = NotReading
    /\ reading' = [reading EXCEPT ![r] = lastProc]
    /\ UNCHANGED <<cached, lastProc>>

\* ... and writes them back in one transaction, whatever happened since.
WriteRegistration(r) ==
    /\ reading[r] # NotReading
    /\ cached' = TRUE
    /\ lastProc' = reading[r]
    /\ reading' = [reading EXCEPT ![r] = NotReading]

\* The request fails between the two.
AbandonRead(r) ==
    /\ reading[r] # NotReading
    /\ reading' = [reading EXCEPT ![r] = NotReading]
    /\ UNCHANGED <<cached, lastProc>>

\* The TTL of the hash runs out.
ExpireRecord ==
    /\ cached
    /\ cached' = FALSE
    /\ lastProc' = -1
    /\ UNCHANGED reading

\* The watcher's updateUDAState, whether or not the hash is still there.
RecordNonce(k) ==
    /\ lastProc' = k
    /\ UNCHANGED <<cached, reading>>

\* A registration for another source chain replaces this one, or a pass for it
\* that began before records its own nonce.
ForeignRecord(k) ==
    /\ cached' \in {cached, FALSE}
    /\ lastProc' = k
    /\ UNCHANGED reading

RecordNext ==
    \/ \E r \in Requests : ReadRecord(r) \/ WriteRegistration(r) \/ AbandonRead(r)
    \/ ExpireRecord
    \/ \* ForeignRecord and RecordNonce, with any nonce
       /\ cached' \in {cached, FALSE}
       /\ lastProc' \in Nat \cup {-1}
       /\ UNCHANGED reading

RecordSpec == RecordInit /\ [][RecordNext]_redis
=============================================================================
