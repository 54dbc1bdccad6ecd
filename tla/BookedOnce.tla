----------------------------- MODULE BookedOnce -----------------------------
(***************************************************************************)
(* What firefly-copilot promises about the ledger, with nothing of how it  *)
(* is kept: a transaction, known by its fingerprint, is entered in Firefly *)
(* once.  The promise can only be as good as the memory it rests on, so it *)
(* is stated with that memory: a fingerprint is booked again only when the *)
(* record of the earlier booking was lost before it reached the database,  *)
(* and never once the database has recorded an outcome for it.             *)
(***************************************************************************)
EXTENDS Naturals

CONSTANT Fingerprints

VARIABLES
    ledger,     \* how many Firefly transactions carry the fingerprint
    forgotten,  \* how many of them left no trace in the database
    recorded    \* fingerprints whose outcome the database holds

vars == <<ledger, forgotten, recorded>>

Init ==
    /\ ledger = [f \in Fingerprints |-> 0]
    /\ forgotten = [f \in Fingerprints |-> 0]
    /\ recorded = {}

\* A booking, allowed only when every earlier one was forgotten.
Book(f) ==
    /\ f \notin recorded
    /\ ledger[f] = forgotten[f]
    /\ ledger' = [ledger EXCEPT ![f] = @ + 1]
    /\ UNCHANGED <<forgotten, recorded>>

\* The booking is made, its record is rolled back.
Forget(f) ==
    /\ f \notin recorded
    /\ ledger[f] = forgotten[f] + 1
    /\ forgotten' = [forgotten EXCEPT ![f] = @ + 1]
    /\ UNCHANGED <<ledger, recorded>>

\* The outcome becomes durable, and with it the fingerprint is closed.
Record(f) ==
    /\ f \notin recorded
    /\ recorded' = recorded \union {f}
    /\ UNCHANGED <<ledger, forgotten>>

Next == \E f \in Fingerprints : Book(f) \/ Forget(f) \/ Record(f)

Spec == Init /\ [][Next]_vars
=============================================================================
