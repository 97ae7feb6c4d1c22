--------------------------- MODULE MCCaseWorkflow ---------------------------
(***************************************************************************)
(* Small instances of CaseWorkflow for TLC.                                *)
(***************************************************************************)
EXTENDS CaseWorkflow

CONSTANTS r1, r2, g1

MCRequests == {r1, r2}
MCOneRequest == {r1}
MCPages == {g1}
=============================================================================
