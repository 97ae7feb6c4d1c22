------------------------ MODULE MCDecisionConsumers ------------------------
(***************************************************************************)
(* A small instance of DecisionConsumers for TLC: a blocked transaction t1 *)
(* announced by two decision events d1 and d2 (two deliveries of it raced  *)
(* in the processor), the first of them published twice by the outbox, and *)
(* an approved transaction t2 of an account whose profile was seeded.      *)
(***************************************************************************)
EXTENDS DecisionConsumers, TLC

CONSTANTS d1, d2, d3, t1, t2, a1, a2

DecisionLog == <<d1, d2, d1, d3>>
DecisionTxOf == (d1 :> t1) @@ (d2 :> t1) @@ (d3 :> t2)
DecisionAccountOf == (t1 :> a1) @@ (t2 :> a2)
=============================================================================
