-------------------------- MODULE MCRiskEvaluation --------------------------
(***************************************************************************)
(* A small instance of RiskEvaluation for TLC.  One unit of time is a      *)
(* minute but for Retention, which is short so that the times of the       *)
(* events can pass it.                                                     *)
(***************************************************************************)
EXTENDS RiskEvaluation, TLC

CONSTANTS w1, w2, a1, a2, t0, t1, t2, v0, v1, v2

MCVersions == {v0, v1, v2}
MCAdmins == {a1, a2}
MCWorkers == {w1, w2}

\* Two transactions within five minutes, the first one recorded already, and one so
\* far ahead that it trims the first but not the second; the first is resubmitted
\* with that time too.
MCEarlier == {[tx |-> t0, at |-> 10]}
MCEvents == MCEarlier \union
    {[tx |-> t1, at |-> 14], [tx |-> t2, at |-> 25], [tx |-> t0, at |-> 25]}

Parameters(enabled, score) == [enabled |-> enabled, score |-> score]

\* The rules of the seeder, of which three may trigger here, and a ruleset that
\* turns one off, raises one and leaves one out.  Seeded, a velocity hit alone is 30,
\* the first score that is Medium; changed, a strong value hit is 65, which the model
\* takes to 80, the first that is Critical.
Seeded == [c \in {"HIGH_VELOCITY", "HIGH_VALUE", "IMPOSSIBLE_TRAVEL"} |->
               CASE c = "HIGH_VELOCITY"     -> Parameters(TRUE, 30)
                 [] c = "HIGH_VALUE"        -> Parameters(TRUE, 20)
                 [] c = "IMPOSSIBLE_TRAVEL" -> Parameters(TRUE, 40)]
Changed == [c \in {"HIGH_VELOCITY", "HIGH_VALUE"} |->
               CASE c = "HIGH_VELOCITY" -> Parameters(FALSE, 30)
                 [] c = "HIGH_VALUE"    -> Parameters(TRUE, 43)]
MCBooks == {Seeded, Changed}

\* Two new versions, and one whose name is taken.
Proposal(v, book) == [version |-> v, book |-> book]
MCProposals == {Proposal(v1, Changed), Proposal(v2, Seeded), Proposal(v0, Changed)}

Hit(c, strong) == [code |-> c, strong |-> strong]
MCFindings == {{}, {Hit("HIGH_VALUE", TRUE), Hit("IMPOSSIBLE_TRAVEL", FALSE)}}

\* No model, and one that is sure of a fraud.
MCModels == {[confidence |-> 0, score |-> 0], [confidence |-> 90, score |-> 100]}

Interchangeable == Permutations(MCWorkers) \union Permutations(MCAdmins)
=============================================================================
