------------------------- MODULE RiskScoring_proofs -------------------------
(***************************************************************************)
(* Facts about the arithmetic of the risk engine, for every integer.       *)
(***************************************************************************)
EXTENDS RiskScoring, FiniteSetTheorems, TLAPS

\* What a rule adds is never negative, whatever score its ruleset gives it.
THEOREM HitsOnlyAdd ==
    ASSUME NEW code, NEW score \in Int, NEW strong \in BOOLEAN
    PROVE  HitScore(code, score, strong) \in Nat
<1>1. VelocityScore(score, strong) \in Int
  BY DEF VelocityScore, Smaller
<1>2. HighValueScore(score, strong) \in Int
  BY DEF HighValueScore
<1>3. MerchantScore(score, strong) \in Int
  BY DEF MerchantScore, Larger
<1>4. \A s \in Int : Larger(0, s) \in Nat
  BY DEF Larger
<1> QED
  BY <1>1, <1>2, <1>3, <1>4, Zenon DEF HitScore

\* A burst of transactions scores no less than a mild one: the rule tests it with
\* Math.Min(Score + 10, 50), which is right for scores up to 50.
THEOREM VelocityScoreMonotone ==
    ASSUME NEW score \in Int, score <= 50
    PROVE  VelocityScore(score, FALSE) <= VelocityScore(score, TRUE)
BY DEF VelocityScore, Smaller

\* Above 50 the same expression takes points away: a burst scores less.
THEOREM VelocityScoreDrops ==
    ASSUME NEW score \in Int, score > 50
    PROVE  VelocityScore(score, TRUE) < VelocityScore(score, FALSE)
BY DEF VelocityScore, Smaller

-----------------------------------------------------------------------------
\* Scores end up between 0 and 100.
LEMMA CapRange ==
    ASSUME NEW raw \in Int
    PROVE  Cap(raw) \in 0 .. 100
BY DEF Cap, MaxScore

\* More points never lower the capped score, and raise it by no more than they are.
LEMMA CapMonotone ==
    ASSUME NEW raw \in Int, NEW more \in Nat
    PROVE  Cap(raw) <= Cap(raw + more) /\ Cap(raw + more) <= Cap(raw) + more
BY DEF Cap, MaxScore

\* The model adds between 0 and 15 points.
LEMMA ModelAdds ==
    ASSUME NEW raw \in Int, NEW model, model.score \in Int, model.confidence \in Int
    PROVE  \E more \in 0 .. 15 : Combine(raw, model) = raw + more
<1>1. CASE ~Trusted(model)
  BY <1>1 DEF Combine
<1>2. CASE Trusted(model)
  <2> DEFINE points == ModelPoints(model.score)
  <2>1. model.score > 0
    BY <1>2 DEF Trusted
  <2>2. points \in Nat
    BY <2>1 DEF ModelPoints
  <2> HIDE DEF points
  <2>3. Smaller(15, points) \in 0 .. 15
    BY <2>2 DEF Smaller
  <2> QED
    BY <1>2, <2>3 DEF Combine, points
<1> QED
  BY <1>1, <1>2

-----------------------------------------------------------------------------
\* Levels partition the scores: LevelFor is total, and it does not fall.
LEMMA Levels ==
    ASSUME NEW score \in Int
    PROVE  /\ score <= 29 => LevelFor(score) = "Low"
           /\ score >= 30 /\ score <= 59 => LevelFor(score) = "Medium"
           /\ score >= 60 /\ score <= 79 => LevelFor(score) = "High"
           /\ score >= 80 => LevelFor(score) = "Critical"
BY DEF LevelFor

\* What the policy decides at each level.
LEMMA Decisions ==
    ASSUME NEW codes
    PROVE  /\ Decide("Low", codes) = "Approve"
           /\ Decide("Medium", codes) \in {"Approve", "Review"}
           /\ Decide("High", codes) = "Review"
           /\ Decide("Critical", codes) = "Block"
BY DEF Decide

\* Approve, Review and Block in order of severity.
LEMMA Severities ==
    Severity("Approve") = 0 /\ Severity("Review") = 1 /\ Severity("Block") = 2
BY DEF Severity

\* More points never make the decision on the same rules milder.
THEOREM DecisionMonotone ==
    ASSUME NEW raw \in Int, NEW more \in Nat, NEW codes
    PROVE  Severity(DecisionOn(raw, codes)) <= Severity(DecisionOn(raw + more, codes))
<1> DEFINE low == Cap(raw)
           high == Cap(raw + more)
<1>1. low \in Int /\ high \in Int /\ low <= high
  <2>1. raw + more \in Int
    OBVIOUS
  <2>2. low \in Int /\ high \in Int
    BY <2>1, CapRange
  <2> QED
    BY <2>2, CapMonotone
<1> HIDE DEF low, high
<1>2. Severity(Decide(LevelFor(low), codes)) <= Severity(Decide(LevelFor(high), codes))
  <2>1. CASE low <= 29
    <3>1. Severity(Decide(LevelFor(low), codes)) = 0
      BY <1>1, <2>1, Levels, Decisions, Severities
    <3>2. Severity(Decide(LevelFor(high), codes)) \in Nat
      <4>1. high <= 29 \/ (high >= 30 /\ high <= 59) \/ (high >= 60 /\ high <= 79) \/ high >= 80
        BY <1>1
      <4> QED
        BY <1>1, <4>1, Levels, Decisions, Severities
    <3> QED
      BY <3>1, <3>2
  <2>2. CASE low >= 30 /\ low <= 59
    <3>1. (high >= 30 /\ high <= 59) \/ (high >= 60 /\ high <= 79) \/ high >= 80
      BY <1>1, <2>2
    <3> QED
      BY <1>1, <2>2, <3>1, Levels, Decisions, Severities
  <2>3. CASE low >= 60 /\ low <= 79
    <3>1. (high >= 60 /\ high <= 79) \/ high >= 80
      BY <1>1, <2>3
    <3> QED
      BY <1>1, <2>3, <3>1, Levels, Decisions, Severities
  <2>4. CASE low >= 80
    BY <1>1, <2>4, Levels, Decisions, Severities
  <2> QED
    BY <1>1, <2>1, <2>2, <2>3, <2>4
<1> QED
  BY <1>2 DEF DecisionOn, low, high

\* What the rules approve, the model can at most send to review: for every raw
\* score, every answer of a model and every set of rules, the model makes no
\* decision milder, adds at most 15 points and turns no approval into a block.
THEOREM ModelAssists ==
    ASSUME NEW raw \in Int, NEW codes,
           NEW model, model.score \in Int, model.confidence \in Int
    PROVE  LET plain == DecisionOn(raw, codes)
               final == DecisionOn(Combine(raw, model), codes)
           IN  /\ Severity(plain) <= Severity(final)
               /\ Cap(Combine(raw, model)) <= Cap(raw) + 15
               /\ plain = "Approve" => final # "Block"
<1>1. PICK more \in 0 .. 15 : Combine(raw, model) = raw + more
  BY ModelAdds
<1> DEFINE low == Cap(raw)
           high == Cap(raw + more)
<1>2. low \in Int /\ high \in Int /\ high <= low + 15
  <2>1. raw + more \in Int /\ more \in Nat /\ more <= 15
    OBVIOUS
  <2>2. low \in Int /\ high \in Int
    BY <2>1, CapRange
  <2>3. high <= low + more
    BY <2>1, CapMonotone
  <2> QED
    BY <2>1, <2>2, <2>3
<1>3. Severity(DecisionOn(raw, codes)) <= Severity(DecisionOn(raw + more, codes))
  <2>1. more \in Nat
    OBVIOUS
  <2> QED
    BY <2>1, DecisionMonotone
<1> HIDE DEF low, high
<1>4. ASSUME Decide(LevelFor(low), codes) = "Approve"
      PROVE  Decide(LevelFor(high), codes) # "Block"
  <2>1. low <= 59
    <3>1. low >= 60 => (low >= 60 /\ low <= 79) \/ low >= 80
      BY <1>2
    <3> QED
      BY <1>2, <1>4, <3>1, Levels, Decisions
  <2>2. high <= 29 \/ (high >= 30 /\ high <= 59) \/ (high >= 60 /\ high <= 79)
    BY <1>2, <2>1
  <2> QED
    BY <1>2, <2>2, Levels, Decisions
<1> QED
  BY <1>1, <1>2, <1>3, <1>4 DEF DecisionOn, low, high

-----------------------------------------------------------------------------
(* Sums over finite sets.  The induction is over the sizes of the sets: a  *)
(* set of sizes at which something fails would have a least member.        *)

\* A set of natural numbers that is not empty has a least member.
LEMMA LeastMember ==
    ASSUME NEW T, T \subseteq Nat, T # {}
    PROVE  \E n \in T : \A m \in T : n <= m
<1>1. PICK n \in T : \A m \in T : <<m, n>> \notin OpToRel(<, Nat)
  BY NatLessThanWellFounded, WFMin
<1>2. ASSUME NEW m \in T
      PROVE  n <= m
  <2>1. m \in Nat /\ n \in Nat
    OBVIOUS
  <2>2. ~(m < n)
    BY <1>1, <2>1, Zenon DEF OpToRel
  <2> QED
    BY <2>1, <2>2
<1> QED
  BY <1>2

\* g adds up what the members of a set are worth, taking one after another out.
AddsUp(g, S, f, pick) ==
    g = [s \in SUBSET S |-> IF s = {} THEN 0 ELSE f[pick[s]] + g[s \ {pick[s]}]]

\* Taking one member after another out of a finite set and adding up what they are
\* worth is well defined: some function does it.
LEMMA SumExists ==
    ASSUME NEW S, IsFiniteSet(S), NEW f \in [S -> Nat], NEW pick,
           \A s \in SUBSET S : s # {} => pick[s] \in s
    PROVE  \E g : AddsUp(g, S, f, pick)
<1> DEFINE Small(n) == {s \in SUBSET S : Cardinality(s) <= n}
           Next(g, s) == IF s = {} THEN 0 ELSE f[pick[s]] + g[s \ {pick[s]}]
           Sums(g, n) == \A s \in Small(n) : g[s] \in Nat /\ g[s] = Next(g, s)
           T == {n \in Nat : ~ \E g : Sums(g, n)}
<1>1. ASSUME NEW s \in SUBSET S
      PROVE  /\ Cardinality(s) \in Nat /\ (Cardinality(s) = 0 <=> s = {})
             /\ s # {} => /\ s \ {pick[s]} \in SUBSET S /\ pick[s] \in S
                          /\ Cardinality(s \ {pick[s]}) = Cardinality(s) - 1
  <2>1. IsFiniteSet(s)
    BY FS_Subset
  <2>2. s # {} => Cardinality(s \ {pick[s]}) = Cardinality(s) - 1
    BY <2>1, FS_RemoveElement
  <2> QED
    BY <2>1, <2>2, FS_CardinalityType, FS_EmptySet
<1>2. ASSUME NEW n \in Nat, NEW g, Sums(g, n)
      PROVE  \E h : Sums(h, n + 1)
  <2> DEFINE h == [s \in SUBSET S |-> Next(g, s)]
  <2>1. ASSUME NEW s \in Small(n + 1)
        PROVE  h[s] \in Nat /\ (s # {} => s \ {pick[s]} \in Small(n) /\ f[pick[s]] \in Nat)
    <3>1. CASE s = {}
      BY <3>1
    <3>2. CASE s # {}
      <4>1. s \ {pick[s]} \in Small(n) /\ f[pick[s]] \in Nat
        BY <1>1, <3>2
      <4>2. g[s \ {pick[s]}] \in Nat
        BY <1>2, <4>1
      <4>3. h[s] = f[pick[s]] + g[s \ {pick[s]}]
        BY <3>2
      <4> QED
        BY <4>1, <4>2, <4>3
    <3> QED
      BY <3>1, <3>2
  <2>2. ASSUME NEW s \in Small(n)
        PROVE  h[s] = g[s]
    BY <1>2
  <2> HIDE DEF h
  <2>3. ASSUME NEW s \in Small(n + 1)
        PROVE  Next(g, s) = Next(h, s)
    BY <2>1, <2>2
  <2>4. \A s \in Small(n + 1) : h[s] = Next(g, s)
    BY DEF h
  <2>5. Sums(h, n + 1)
    <3> HIDE DEF Small, Next
    <3> QED
      BY <2>1, <2>3, <2>4
  <2> QED
    BY <2>5
<1>3. \E g : Sums(g, 0)
  <2>1. ASSUME NEW s \in Small(0)
        PROVE  s = {}
    <3>1. \A c \in Nat : c <= 0 => c = 0
      OBVIOUS
    <3>2. s \in SUBSET S /\ Cardinality(s) = 0
      BY <1>1, <3>1
    <3> QED
      BY <1>1, <3>2, Zenon
  <2>2. Sums([s \in SUBSET S |-> 0], 0)
    BY <2>1
  <2> QED
    BY <2>2
<1>4. T = {}
  <2> SUFFICES ASSUME T # {} PROVE FALSE
    OBVIOUS
  <2>1. PICK n \in T : \A m \in T : n <= m
    BY LeastMember
  <2>2. n \in Nat /\ n # 0
    BY <1>3
  <2> HIDE DEF Sums
  <2>3. n - 1 \in Nat /\ (n - 1) + 1 = n /\ ~(n <= n - 1)
    BY <2>2
  <2>4. \E g : Sums(g, n - 1)
    <3>1. n - 1 \notin T
      <4> HIDE DEF T
      <4> QED
        BY <2>1, <2>3
    <3> QED
      BY <2>3, <3>1
  <2>5. \E h : Sums(h, (n - 1) + 1)
    BY <1>2, <2>3, <2>4
  <2> QED
    BY <2>3, <2>5
<1>5. Cardinality(S) \in Nat /\ \A s \in SUBSET S : s \in Small(Cardinality(S))
  BY <1>1, FS_Subset, FS_CardinalityType
<1> HIDE DEF Sums
<1>6. PICK g : Sums(g, Cardinality(S))
  BY <1>4, <1>5
<1> USE DEF Sums
<1> DEFINE h == [s \in SUBSET S |-> g[s]]
<1>7. \A s \in SUBSET S : h[s] = Next(g, s) /\ Next(g, s) = Next(h, s)
  BY <1>1, <1>5, <1>6
<1>8. h = [s \in SUBSET S |-> Next(h, s)]
  BY <1>7, Zenon
<1> QED
  BY <1>8, Zenon DEF AddsUp

\* And whatever function does it, the sum is a natural number.
LEMMA SumType ==
    ASSUME NEW S, IsFiniteSet(S), NEW f \in [S -> Nat], NEW pick,
           \A s \in SUBSET S : s # {} => pick[s] \in s,
           NEW g, AddsUp(g, S, f, pick)
    PROVE  \A s \in SUBSET S : g[s] \in Nat
<1> DEFINE T == {n \in Nat : \E s \in SUBSET S : Cardinality(s) = n /\ g[s] \notin Nat}
<1>1. \A s \in SUBSET S : IsFiniteSet(s) /\ Cardinality(s) \in Nat
  BY FS_Subset, FS_CardinalityType
<1>2. \A s \in SUBSET S : g[s] = IF s = {} THEN 0 ELSE f[pick[s]] + g[s \ {pick[s]}]
  BY DEF AddsUp
<1>3. T = {}
  <2> SUFFICES ASSUME T # {} PROVE FALSE
    OBVIOUS
  <2>1. PICK n \in T : \A m \in T : n <= m
    BY LeastMember
  <2>2. PICK s \in SUBSET S : Cardinality(s) = n /\ g[s] \notin Nat
    BY <2>1
  <2>3. s # {} /\ pick[s] \in s
    BY <1>2, <2>2
  <2> DEFINE rest == s \ {pick[s]}
  <2>4. rest \in SUBSET S /\ Cardinality(rest) = n - 1 /\ Cardinality(rest) \in Nat
    BY <1>1, <2>2, <2>3, FS_RemoveElement
  <2>5. Cardinality(rest) \notin T
    <3>1. n \in Nat /\ ~(n <= n - 1)
      OBVIOUS
    <3> HIDE DEF T, rest
    <3> QED
      BY <2>1, <2>4, <3>1
  <2>6. g[rest] \in Nat
    BY <2>4, <2>5
  <2>7. g[s] = f[pick[s]] + g[rest] /\ f[pick[s]] \in Nat
    BY <1>2, <2>3
  <2> QED
    BY <2>2, <2>6, <2>7
<1> QED
  BY <1>1, <1>3

\* g of a set is what any of its members is worth and g of the others.
Splitting(g, S, f) ==
    \A s \in SUBSET S : g[s] \in Nat /\ \A x \in s : g[s] = f[x] + g[s \ {x}]

\* In whatever order the members are taken out, the sum is the same.
LEMMA SumSplit ==
    ASSUME NEW S, IsFiniteSet(S), NEW f \in [S -> Nat], NEW pick,
           \A s \in SUBSET S : s # {} => pick[s] \in s,
           NEW g, AddsUp(g, S, f, pick)
    PROVE  Splitting(g, S, f)
<1> DEFINE Splits(s) == \A x \in s : g[s] = f[x] + g[s \ {x}]
           T == {n \in Nat : \E s \in SUBSET S : Cardinality(s) = n /\ ~Splits(s)}
<1>1. ASSUME NEW s \in SUBSET S
      PROVE  /\ IsFiniteSet(s) /\ Cardinality(s) \in Nat /\ g[s] \in Nat
             /\ \A x \in s : Cardinality(s \ {x}) = Cardinality(s) - 1
  <2>1. IsFiniteSet(s)
    BY FS_Subset
  <2>2. g[s] \in Nat
    BY SumType, Zenon
  <2> QED
    BY <2>1, <2>2, FS_CardinalityType, FS_RemoveElement
<1>2. \A s \in SUBSET S : s # {} => g[s] = f[pick[s]] + g[s \ {pick[s]}]
  BY DEF AddsUp
<1>3. T = {}
  <2> SUFFICES ASSUME T # {} PROVE FALSE
    OBVIOUS
  <2>1. PICK n \in T : \A m \in T : n <= m
    BY LeastMember
  <2>2. PICK s \in SUBSET S : Cardinality(s) = n /\ ~Splits(s)
    BY <2>1
  <2>3. ASSUME NEW r \in SUBSET S, Cardinality(r) = n - 1
        PROVE  Splits(r)
    <3>1. n - 1 \in Nat /\ ~(n <= n - 1)
      BY <1>1, <2>3
    <3>2. n - 1 \notin T
      <4> HIDE DEF T
      <4> QED
        BY <2>1, <3>1
    <3> HIDE DEF Splits
    <3> QED
      BY <2>3, <3>1, <3>2
  <2>4. PICK x \in s : g[s] # f[x] + g[s \ {x}]
    BY <2>2
  <2> PICK p : p = pick[s]
    OBVIOUS
  <2>5. p \in s /\ p # x /\ g[s] = f[p] + g[s \ {p}]
    BY <1>2, <2>4
  <2> DEFINE both == (s \ {p}) \ {x}
  <2>6. (s \ {x}) \ {p} = both /\ both \in SUBSET S
    OBVIOUS
  <2>7. g[s \ {p}] = f[x] + g[both]
    BY <1>1, <2>2, <2>3, <2>5
  <2>8. g[s \ {x}] = f[p] + g[both]
    <3>1. Splits(s \ {x}) /\ p \in s \ {x}
      BY <1>1, <2>2, <2>3, <2>5
    <3> QED
      BY <2>6, <3>1
  <2>9. f[x] \in Nat /\ f[p] \in Nat /\ g[both] \in Nat
    BY <1>1, <2>5, <2>6
  <2> HIDE DEF both
  <2> QED
    BY <2>4, <2>5, <2>7, <2>8, <2>9
<1> HIDE DEF Splits
<1>4. \A s \in SUBSET S : Splits(s)
  BY <1>1, <1>3
<1> QED
  BY <1>1, <1>4 DEF Splits, Splitting

\* More members never make the sum smaller.
LEMMA SumMonotone ==
    ASSUME NEW S, IsFiniteSet(S), NEW f \in [S -> Nat], NEW pick,
           \A s \in SUBSET S : s # {} => pick[s] \in s,
           NEW g, AddsUp(g, S, f, pick), NEW part \in SUBSET S
    PROVE  g[part] <= g[S]
<1> DEFINE Below(t) == part \subseteq t => g[part] <= g[t]
           T == {n \in Nat : \E t \in SUBSET S : Cardinality(t) = n /\ ~Below(t)}
<1>1. \A s \in SUBSET S : g[s] \in Nat /\ \A x \in s : g[s] = f[x] + g[s \ {x}]
  <2>1. Splitting(g, S, f)
    BY SumSplit
  <2> QED
    BY <2>1 DEF Splitting
<1>2. ASSUME NEW t \in SUBSET S
      PROVE  Cardinality(t) \in Nat /\ \A x \in t : Cardinality(t \ {x}) = Cardinality(t) - 1
  BY FS_Subset, FS_CardinalityType, FS_RemoveElement
<1>3. T = {}
  <2> SUFFICES ASSUME T # {} PROVE FALSE
    OBVIOUS
  <2>1. PICK n \in T : \A m \in T : n <= m
    BY LeastMember
  <2>2. PICK t \in SUBSET S : Cardinality(t) = n /\ part \subseteq t /\ ~(g[part] <= g[t])
    BY <2>1
  <2>3. PICK x \in t : x \notin part
    <3>1. t # part
      BY <1>1, <2>2
    <3> QED
      BY <2>2, <3>1
  <2> DEFINE rest == t \ {x}
  <2>4. rest \in SUBSET S /\ part \subseteq rest /\ Cardinality(rest) = n - 1 /\ n - 1 \in Nat
    BY <1>2, <2>2, <2>3
  <2>5. g[part] <= g[rest]
    <3>1. ~(n <= n - 1)
      BY <2>4
    <3>2. n - 1 \notin T
      <4> HIDE DEF T
      <4> QED
        BY <2>1, <3>1
    <3> HIDE DEF rest
    <3> QED
      BY <2>4, <3>2
  <2>6. /\ g[t] = f[x] + g[rest] /\ f[x] \in Nat
        /\ g[rest] \in Nat /\ g[part] \in Nat
    BY <1>1, <2>4
  <2> HIDE DEF rest
  <2> QED
    BY <2>2, <2>5, <2>6
<1> HIDE DEF Below
<1>4. \A t \in SUBSET S : Below(t)
  BY <1>2, <1>3
<1> QED
  BY <1>4 DEF Below

\* A sum over part of a set is what the sum over the set passes through.
LEMMA SumAgrees ==
    ASSUME NEW S, IsFiniteSet(S), NEW f, NEW pick,
           \A s \in SUBSET S : s # {} => pick[s] \in s,
           NEW g, AddsUp(g, S, f, pick),
           NEW R \in SUBSET S, NEW e, NEW take, NEW h, AddsUp(h, R, e, take),
           \A x \in R : e[x] = f[x],
           \A s \in SUBSET R : s # {} => take[s] = pick[s]
    PROVE  h[R] = g[R]
<1> DEFINE T == {n \in Nat : \E s \in SUBSET R : Cardinality(s) = n /\ h[s] # g[s]}
<1>1. ASSUME NEW s \in SUBSET R
      PROVE  /\ Cardinality(s) \in Nat
             /\ \A x \in s : Cardinality(s \ {x}) = Cardinality(s) - 1
             /\ s = {} => h[s] = 0 /\ g[s] = 0
             /\ s # {} => /\ pick[s] \in s
                          /\ h[s] = e[pick[s]] + h[s \ {pick[s]}]
                          /\ g[s] = f[pick[s]] + g[s \ {pick[s]}]
  <2>1. Cardinality(s) \in Nat /\ \A x \in s : Cardinality(s \ {x}) = Cardinality(s) - 1
    BY FS_Subset, FS_CardinalityType, FS_RemoveElement
  <2> QED
    BY <2>1 DEF AddsUp
<1>2. T = {}
  <2> SUFFICES ASSUME T # {} PROVE FALSE
    OBVIOUS
  <2>1. PICK n \in T : \A m \in T : n <= m
    BY LeastMember
  <2>2. PICK s \in SUBSET R : Cardinality(s) = n /\ h[s] # g[s]
    BY <2>1
  <2>3. s # {}
    BY <1>1, <2>2
  <2> PICK p : p = pick[s]
    OBVIOUS
  <2> DEFINE rest == s \ {p}
  <2>4. /\ p \in s /\ p \in R /\ h[s] = e[p] + h[rest] /\ g[s] = f[p] + g[rest]
        /\ rest \in SUBSET R /\ Cardinality(rest) = n - 1 /\ Cardinality(rest) \in Nat
    <3>1. p \in s /\ h[s] = e[p] + h[rest] /\ g[s] = f[p] + g[rest]
      BY <1>1, <2>3
    <3>2. rest \in SUBSET R
      OBVIOUS
    <3> QED
      BY <1>1, <2>2, <3>1, <3>2
  <2>5. h[rest] = g[rest]
    <3>1. ~(n <= n - 1) /\ n - 1 \in Nat
      BY <2>4
    <3>2. n - 1 \notin T
      <4> HIDE DEF T
      <4> QED
        BY <2>1, <3>1
    <3> HIDE DEF rest
    <3> QED
      BY <2>4, <3>1, <3>2
  <2> HIDE DEF rest
  <2> QED
    BY <2>2, <2>4, <2>5
<1> QED
  BY <1>1, <1>2

-----------------------------------------------------------------------------
(* The score of a set of hits: what its rules add, summed.                 *)

\* What each hit adds, and the hit a sum takes out first.
PointsOf(book, hits) ==
    [h \in hits |-> HitScore(h.code, ParametersFor(book, h.code).score, h.strong)]
FirstOf(S) == [s \in SUBSET S |-> CHOOSE x \in s : TRUE]

\* A sum takes out members.
LEMMA FirstIsMember ==
    ASSUME NEW S
    PROVE  \A s \in SUBSET S : s # {} => FirstOf(S)[s] \in s
BY DEF FirstOf

\* Hits whose strong condition is known, under rules with integer scores: those of
\* every ruleset the tables can hold.
Scored(book, hits) ==
    /\ IsFiniteSet(hits)
    /\ \A h \in hits : h.strong \in BOOLEAN /\ ParametersFor(book, h.code).score \in Int

LEMMA PointsType ==
    ASSUME NEW book, NEW hits, Scored(book, hits)
    PROVE  PointsOf(book, hits) \in [hits -> Nat]
<1>1. \A h \in hits : HitScore(h.code, ParametersFor(book, h.code).score, h.strong) \in Nat
  BY HitsOnlyAdd DEF Scored
<1> QED
  BY <1>1 DEF PointsOf

\* The engine's score is such a sum of what its hits add.
LEMMA RawIsSum ==
    ASSUME NEW book, NEW hits, IsFiniteSet(hits),
           PointsOf(book, hits) \in [hits -> Nat]
    PROVE  \E g : AddsUp(g, hits, PointsOf(book, hits), FirstOf(hits)) /\ Raw(book, hits) = g[hits]
<1> DEFINE Points(h) == HitScore(h.code, ParametersFor(book, h.code).score, h.strong)
           f == [h \in hits |-> Points(h)]
           pick == [s \in SUBSET hits |-> CHOOSE x \in s : TRUE]
           Rest(g, s) == IF s = {} THEN 0
                         ELSE LET x == CHOOSE x \in s : TRUE IN Points(x) + g[s \ {x}]
           Sum(g, s) == IF s = {} THEN 0 ELSE f[pick[s]] + g[s \ {pick[s]}]
           Adds(g) == g = [s \in SUBSET hits |-> Rest(g, s)]
<1>1. f = PointsOf(book, hits) /\ pick = FirstOf(hits)
  BY DEF PointsOf, FirstOf
<1>2. \A s \in SUBSET hits : s # {} => pick[s] \in s
  OBVIOUS
<1>3. ASSUME NEW g, NEW s \in SUBSET hits
      PROVE  Rest(g, s) = Sum(g, s)
  <2> HIDE DEF Points
  <2>1. CASE s = {}
    BY <2>1
  <2>2. CASE s # {}
    <3> DEFINE x == CHOOSE y \in s : TRUE
    <3>1. pick[s] = x
      OBVIOUS
    <3>2. x \in hits
      BY <1>2, <2>2, <3>1
    <3>3. Rest(g, s) = Points(x) + g[s \ {x}]
      BY <2>2
    <3> HIDE DEF x, pick
    <3>4. f[x] = Points(x)
      BY <3>2
    <3>5. Sum(g, s) = f[pick[s]] + g[s \ {pick[s]}]
      BY <2>2
    <3> QED
      BY <3>1, <3>3, <3>4, <3>5, Zenon
  <2> QED
    BY <2>1, <2>2
<1>4. ASSUME NEW g
      PROVE  Adds(g) <=> AddsUp(g, hits, f, pick)
  <2>1. AddsUp(g, hits, f, pick) <=> g = [s \in SUBSET hits |-> Sum(g, s)]
    BY Zenon DEF AddsUp
  <2> HIDE DEF Rest, Sum
  <2> QED
    BY <1>3, <2>1
<1>5. Raw(book, hits) = (CHOOSE g : Adds(g))[hits]
  BY Zenon DEF Raw, MapThenSumSet, MapThenFoldSet
<1> HIDE DEF f, pick, Adds
<1>6. \E g : Adds(g)
  <2>1. f \in [hits -> Nat]
    BY <1>1
  <2>2. \E g : AddsUp(g, hits, f, pick)
    BY <1>2, <2>1, SumExists
  <2> QED
    BY <1>4, <2>2, Zenon
<1> QED
  BY <1>1, <1>4, <1>5, <1>6, Zenon

\* The engine's sum is a natural number for every finite set of hits, whatever the
\* scores of its ruleset.
THEOREM RawNeverNegative ==
    ASSUME NEW book, NEW hits, Scored(book, hits)
    PROVE  Raw(book, hits) \in Nat
<1>1. IsFiniteSet(hits) /\ PointsOf(book, hits) \in [hits -> Nat]
  BY PointsType DEF Scored
<1>2. PICK g : AddsUp(g, hits, PointsOf(book, hits), FirstOf(hits)) /\ Raw(book, hits) = g[hits]
  BY <1>1, RawIsSum
<1>3. \A s \in SUBSET hits : g[s] \in Nat
  BY <1>1, <1>2, FirstIsMember, SumType, Zenon
<1> QED
  BY <1>2, <1>3

\* The score of part of the hits is what the sum over all of them passes through.
LEMMA RawOfPart ==
    ASSUME NEW book, NEW hits, Scored(book, hits), NEW part \in SUBSET hits,
           NEW g, AddsUp(g, hits, PointsOf(book, hits), FirstOf(hits))
    PROVE  Scored(book, part) /\ Raw(book, part) = g[part]
<1>1. Scored(book, part)
  BY FS_Subset DEF Scored
<1>2. PICK h : AddsUp(h, part, PointsOf(book, part), FirstOf(part)) /\ Raw(book, part) = h[part]
  BY <1>1, PointsType, RawIsSum DEF Scored
<1>3. \A x \in part : PointsOf(book, part)[x] = PointsOf(book, hits)[x]
  BY DEF PointsOf
<1>4. \A s \in SUBSET part : s # {} => FirstOf(part)[s] = FirstOf(hits)[s]
  BY DEF FirstOf
<1>5. h[part] = g[part]
  <2> PICK f, e, pick, take : /\ f = PointsOf(book, hits) /\ e = PointsOf(book, part)
                              /\ pick = FirstOf(hits) /\ take = FirstOf(part)
    OBVIOUS
  <2>1. IsFiniteSet(hits) /\ AddsUp(g, hits, f, pick) /\ AddsUp(h, part, e, take)
    BY <1>2 DEF Scored
  <2>2. \A s \in SUBSET hits : s # {} => pick[s] \in s
    BY FirstIsMember
  <2>3. /\ \A x \in part : e[x] = f[x]
        /\ \A s \in SUBSET part : s # {} => take[s] = pick[s]
    BY <1>3, <1>4
  <2> QED
    BY <2>1, <2>2, <2>3, SumAgrees
<1> QED
  BY <1>1, <1>2, <1>5

\* A hit adds exactly its own points, in whatever order the engine goes through the
\* rules: the loop over the registered rules and this sum are the same.
THEOREM RawAdds ==
    ASSUME NEW book, NEW hits, Scored(book, hits), NEW h \in hits
    PROVE  Raw(book, hits) = HitScore(h.code, ParametersFor(book, h.code).score, h.strong)
                             + Raw(book, hits \ {h})
<1>1. IsFiniteSet(hits) /\ PointsOf(book, hits) \in [hits -> Nat]
  BY PointsType DEF Scored
<1>2. PICK g : AddsUp(g, hits, PointsOf(book, hits), FirstOf(hits)) /\ Raw(book, hits) = g[hits]
  BY <1>1, RawIsSum
<1>3. g[hits] = PointsOf(book, hits)[h] + g[hits \ {h}]
  <2>1. Splitting(g, hits, PointsOf(book, hits))
    BY <1>1, <1>2, FirstIsMember, SumSplit
  <2> QED
    BY <2>1 DEF Splitting
<1>4. Raw(book, hits \ {h}) = g[hits \ {h}]
  BY <1>2, RawOfPart
<1>5. PointsOf(book, hits)[h] = HitScore(h.code, ParametersFor(book, h.code).score, h.strong)
  BY DEF PointsOf
<1> QED
  BY <1>2, <1>3, <1>4, <1>5

\* More hits never lower the score.
THEOREM RawMonotone ==
    ASSUME NEW book, NEW hits, Scored(book, hits), NEW part \in SUBSET hits
    PROVE  Raw(book, part) <= Raw(book, hits)
<1>1. IsFiniteSet(hits) /\ PointsOf(book, hits) \in [hits -> Nat]
  BY PointsType DEF Scored
<1>2. PICK g : AddsUp(g, hits, PointsOf(book, hits), FirstOf(hits)) /\ Raw(book, hits) = g[hits]
  BY <1>1, RawIsSum
<1>3. g[part] <= g[hits]
  BY <1>1, <1>2, FirstIsMember, SumMonotone
<1> QED
  BY <1>2, <1>3, RawOfPart

\* A score before the cap has one of the four levels, and one of three decisions.
LEMMA LevelAndDecision ==
    ASSUME NEW score \in Int, NEW codes
    PROVE  /\ LevelFor(Cap(score)) \in {"Low", "Medium", "High", "Critical"}
           /\ DecisionOn(score, codes) \in {"Approve", "Review", "Block"}
<1>1. LevelFor(Cap(score)) \in {"Low", "Medium", "High", "Critical"}
  <2> PICK c \in 0 .. 100 : c = Cap(score)
    BY CapRange
  <2>1. c <= 29 \/ (c >= 30 /\ c <= 59) \/ (c >= 60 /\ c <= 79) \/ c >= 80
    OBVIOUS
  <2> QED
    BY <2>1, Levels
<1> QED
  BY <1>1, Decisions DEF DecisionOn

\* More codes on the same score never make a decision milder.
LEMMA CodesMonotone ==
    ASSUME NEW score \in Int, NEW codes, NEW more, codes \subseteq more
    PROVE  Severity(DecisionOn(score, codes)) <= Severity(DecisionOn(score, more))
<1> PICK level : level = LevelFor(Cap(score))
  OBVIOUS
<1>1. level \in {"Low", "Medium", "High", "Critical"}
  BY LevelAndDecision
<1>2. CASE level = "Medium"
  <2>1. CASE codes \cap Escalating # {}
    <3>1. more \cap Escalating # {}
      BY <2>1
    <3>2. Decide("Medium", codes) = "Review" /\ Decide("Medium", more) = "Review"
      BY <2>1, <3>1 DEF Decide
    <3> QED
      BY <1>2, <3>2, Severities DEF DecisionOn
  <2>2. CASE codes \cap Escalating = {}
    <3>1. Decide("Medium", codes) = "Approve"
      BY <2>2 DEF Decide
    <3> QED
      BY <1>2, <3>1, Decisions, Severities DEF DecisionOn
  <2> QED
    BY <2>1, <2>2
<1>3. CASE level # "Medium"
  <2>1. Decide(level, codes) = Decide(level, more) /\ Decide(level, codes) \in {"Approve", "Review", "Block"}
    BY <1>1, <1>3, Decisions
  <2> QED
    BY <2>1, Severities DEF DecisionOn
<1> QED
  BY <1>2, <1>3

\* A rule that triggers in addition never makes the decision milder, with the same
\* answer of the model: for every ruleset and every set of hits.
THEOREM MoreHitsNeverMilder ==
    ASSUME NEW book, NEW hits, Scored(book, hits), NEW part \in SUBSET hits,
           NEW model, model.score \in Int, model.confidence \in Int
    PROVE  Severity(DecisionOn(Combine(Raw(book, part), model), {h.code : h \in part}))
           <= Severity(DecisionOn(Combine(Raw(book, hits), model), {h.code : h \in hits}))
<1> PICK few : few = {h.code : h \in part}
  OBVIOUS
<1> PICK all : all = {h.code : h \in hits}
  OBVIOUS
<1>1. few \subseteq all
  OBVIOUS
<1>2. Scored(book, part)
  BY FS_Subset DEF Scored
<1>3. Raw(book, part) \in Nat /\ Raw(book, hits) \in Nat /\ Raw(book, part) <= Raw(book, hits)
  BY <1>2, RawNeverNegative, RawMonotone
<1> DEFINE low == Combine(Raw(book, part), model)
           high == Combine(Raw(book, hits), model)
           extra == Raw(book, hits) - Raw(book, part)
<1>4. extra \in Nat /\ Raw(book, hits) = Raw(book, part) + extra
  BY <1>3
<1>5. low \in Int
  <2>1. \E more \in 0 .. 15 : low = Raw(book, part) + more
    BY <1>3, ModelAdds
  <2> HIDE DEF low
  <2> QED
    BY <1>3, <2>1
<1>6. high = low + extra
  <2>1. CASE ~Trusted(model)
    BY <1>4, <2>1 DEF Combine
  <2>2. CASE Trusted(model)
    <3> DEFINE points == Smaller(15, ModelPoints(model.score))
    <3>1. points \in Int
      BY <2>2 DEF Trusted, ModelPoints, Smaller
    <3>2. high = Raw(book, hits) + points /\ low = Raw(book, part) + points
      BY <2>2 DEF Combine
    <3> HIDE DEF points, low, high
    <3> QED
      BY <1>3, <3>1, <3>2
  <2> QED
    BY <2>1, <2>2
<1> HIDE DEF low, high, extra
<1>7. Severity(DecisionOn(low, few)) <= Severity(DecisionOn(low, all))
  BY <1>1, <1>5, CodesMonotone
<1>8. Severity(DecisionOn(low, all)) <= Severity(DecisionOn(high, all))
  BY <1>4, <1>5, <1>6, DecisionMonotone
<1>9. /\ Severity(DecisionOn(low, few)) \in Int
      /\ Severity(DecisionOn(low, all)) \in Int
      /\ Severity(DecisionOn(high, all)) \in Int
  <2>1. high \in Int
    BY <1>4, <1>5, <1>6
  <2>2. \A d \in {"Approve", "Review", "Block"} : Severity(d) \in Int
    BY Severities
  <2> QED
    BY <1>5, <2>1, <2>2, LevelAndDecision
<1> QED
  BY <1>7, <1>8, <1>9 DEF low, high
=============================================================================
