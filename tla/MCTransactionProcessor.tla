----------------------- MODULE MCTransactionProcessor -----------------------
(***************************************************************************)
(* Small instances of TransactionProcessor for TLC.  Partition p1 carries  *)
(* an event, a resubmission of the same transaction under a new EventId,   *)
(* and a second delivery of the first event; p2 a payload that does not    *)
(* parse and one that does not validate.                                   *)
(***************************************************************************)
EXTENDS TransactionProcessor, TLC

CONSTANTS p1, p2, e1, e2, bad, worse, t1, t2

RetryLog == (p1 :> <<e1, e2, e1>>) @@ (p2 :> <<bad, worse>>)
RetryTxOf == (e1 :> t1) @@ (e2 :> t1) @@ (bad :> t2) @@ (worse :> t2)
WorkerSymmetry == Permutations(Workers)
=============================================================================
