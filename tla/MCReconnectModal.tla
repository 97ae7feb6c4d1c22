-------------------------- MODULE MCReconnectModal --------------------------
(***************************************************************************)
(* A small instance of ReconnectModal for TLC: two handlers in flight.     *)
(***************************************************************************)
EXTENDS ReconnectModal

CONSTANTS c1, c2

MCCalls == {c1, c2}
=============================================================================
