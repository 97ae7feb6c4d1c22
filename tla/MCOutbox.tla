------------------------------ MODULE MCOutbox ------------------------------
(***************************************************************************)
(* Small instances of Outbox for TLC.                                      *)
(***************************************************************************)
EXTENDS Outbox, TLC

CONSTANTS p1, p2

MCProducers == {p1, p2}
MCRowsPer == (p1 :> 2) @@ (p2 :> 1)
=============================================================================
