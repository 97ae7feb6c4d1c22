----------------------------- MODULE RiskScoring -----------------------------
(***************************************************************************)
(* The arithmetic of the risk engine: what a triggered rule scores, how    *)
(* the scores and the anomaly model are combined (DeterministicRiskEngine) *)
(* and what is decided on the result (ThresholdDecisionPolicy).            *)
(***************************************************************************)
EXTENDS Integers, FiniteSetsExt

Smaller(a, b) == IF a <= b THEN a ELSE b
Larger(a, b) == IF a >= b THEN a ELSE b

-----------------------------------------------------------------------------
(* Rules.  What makes a rule trigger is data, but for the velocity rule;   *)
(* strong says that it found the stronger of its two conditions.           *)

VelocityTriggered(tx1, tx5, limit1, limit5) == tx5 >= limit5 \/ tx1 >= limit1
VelocityStrong(tx1, tx5, limit1, limit5) == tx5 >= 2 * limit5 \/ tx1 >= 2 * limit1

VelocityScore(score, strong) == IF strong THEN Smaller(score + 10, 50) ELSE score

\* decimal.Round of score * 1.5, halves away from zero; below zero it is no matter.
HighValueScore(score, strong) == IF strong THEN (3 * score + 1) \div 2 ELSE score

\* Strong: the category is unusual for the customer.  Division by 2 cuts towards
\* zero, which Max(5, _) makes the same as rounding down.
MerchantScore(score, strong) == IF strong THEN score ELSE Larger(5, score \div 2)

\* Hit: no rule takes points away.
HitScore(code, score, strong) ==
    Larger(0, CASE code = "HIGH_VELOCITY" -> VelocityScore(score, strong)
                [] code = "HIGH_VALUE"    -> HighValueScore(score, strong)
                [] code = "MERCHANT_RISK" -> MerchantScore(score, strong)
                [] OTHER                  -> score)

\* ParametersFor: a rule the ruleset does not list is on, and scores nothing.
ParametersFor(book, code) ==
    IF code \in DOMAIN book THEN book[code] ELSE [enabled |-> TRUE, score |-> 0]

\* The results the engine keeps: the enabled rules among those that trigger.
Results(book, hits) == {h \in hits : ParametersFor(book, h.code).enabled}

Raw(book, hits) ==
    MapThenSumSet(LAMBDA h : HitScore(h.code, ParametersFor(book, h.code).score, h.strong), hits)

-----------------------------------------------------------------------------
(* Combination and policy.                                                 *)

\* Math.Round(score * 0.15), halves to even.
ModelPoints(score) ==
    LET whole == (15 * score) \div 100
        rest == (15 * score) % 100
    IN  IF rest > 50 \/ (rest = 50 /\ whole % 2 = 1) THEN whole + 1 ELSE whole

Trusted(model) == model.confidence >= 60 /\ model.score > 0

\* A faulty variant, for checking that the properties notice it: the points of the
\* model without the factor and the cap.
CombineInFull(raw, model) == IF Trusted(model) THEN raw + model.score ELSE raw

\* Confidence is in hundredths.
Combine(raw, model) ==
    IF Trusted(model) THEN raw + Smaller(15, ModelPoints(model.score)) ELSE raw

MaxScore == 100
Cap(raw) == IF raw < 0 THEN 0 ELSE IF raw > MaxScore THEN MaxScore ELSE raw

LevelFor(score) ==
    CASE score <= 29                -> "Low"
      [] score >= 30 /\ score <= 59 -> "Medium"
      [] score >= 60 /\ score <= 79 -> "High"
      [] score >= 80                -> "Critical"

Escalating == {"IMPOSSIBLE_TRAVEL", "REPEATED_DECLINE", "HIGH_VELOCITY"}

Decide(level, codes) ==
    CASE level = "Low"      -> "Approve"
      [] level = "Medium"   -> IF codes \cap Escalating # {} THEN "Review" ELSE "Approve"
      [] level = "High"     -> "Review"
      [] level = "Critical" -> "Block"

\* The decision the engine makes on a score before the cap.
DecisionOn(score, codes) == Decide(LevelFor(Cap(score)), codes)

Severity(decision) ==
    CASE decision = "Approve" -> 0 [] decision = "Review" -> 1 [] decision = "Block" -> 2
=============================================================================
