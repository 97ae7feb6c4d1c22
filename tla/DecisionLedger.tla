--------------------------- MODULE DecisionLedger ---------------------------
(***************************************************************************)
(* What the transaction processor promises the rest of the system, however *)
(* many workers run, fail and repeat each other's work: an append-only     *)
(* ledger with at most one decision per transaction, every decision taken  *)
(* on behalf of an event of that transaction, and at most one announcement *)
(* per event, of a transaction that has been decided.  Nothing is promised *)
(* about progress, or about the outcome an announcement carries.           *)
(***************************************************************************)

CONSTANTS Events, Transactions, TxOf, Decisions, Undecided

VARIABLES
    claims,         \* claims[e]: "absent", "claimed" or "completed"
    ledger,         \* ledger[t]: the decision on t
    announced       \* events whose decision has been handed to the outbox

vars == <<claims, ledger, announced>>

Init ==
    /\ claims = [e \in Events |-> "absent"]
    /\ ledger = [t \in Transactions |-> Undecided]
    /\ announced = {}

\* An event is taken once and for all.
Claim(e) ==
    /\ claims[e] = "absent"
    /\ claims' = [claims EXCEPT ![e] = "claimed"]
    /\ UNCHANGED <<ledger, announced>>

\* The first evaluation to be saved is the decision.
Decide(e, d) ==
    /\ claims[e] = "claimed"
    /\ ledger[TxOf[e]] = Undecided
    /\ ledger' = [ledger EXCEPT ![TxOf[e]] = d]
    /\ UNCHANGED <<claims, announced>>

Announce(e) ==
    /\ claims[e] = "claimed"
    /\ ledger[TxOf[e]] # Undecided
    /\ e \notin announced
    /\ announced' = announced \union {e}
    /\ UNCHANGED <<claims, ledger>>

Complete(e) ==
    /\ claims[e] = "claimed"
    /\ ledger[TxOf[e]] # Undecided
    /\ claims' = [claims EXCEPT ![e] = "completed"]
    /\ UNCHANGED <<ledger, announced>>

Next ==
    \E e \in Events :
        \/ Claim(e) \/ Announce(e) \/ Complete(e)
        \/ \E d \in Decisions : Decide(e, d)

Spec == Init /\ [][Next]_vars
=============================================================================
