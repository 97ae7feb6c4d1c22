--------------------------- MODULE RiskEvaluation ---------------------------
(***************************************************************************)
(* An evaluation, from the read of the active ruleset to the saved         *)
(* decision, call by call: the reads of ProcessAsync that TransactionPro-  *)
(* cessor takes as one, composed with the requests that activate rulesets  *)
(* and with the velocity windows the workers of an account share.          *)
(*                                                                         *)
(* The rule configuration provider is scoped, and a message has a scope of *)
(* its own: the 15 seconds of its cache never span two messages, so every  *)
(* evaluation makes both queries.                                          *)
(***************************************************************************)
EXTENDS RiskScoring, Rulesets, VelocityStore

CONSTANTS
    Workers,
    Events,         \* events of the account: records [tx, at]
    Limit1, Limit5, \* oneMinuteCount and fiveMinuteCount
    Findings,       \* sets of hits the other rules may come up with
    Models,         \* answers of the anomaly model
    MaxStarts       \* bound: evaluations begun

ASSUME EvaluationAssumption ==
    /\ IsFiniteSet(Events)
    /\ \A e \in Events : e = [tx |-> e.tx, at |-> e.at] /\ e.at \in Nat
    /\ Earlier \subseteq Events
    /\ Limit1 \in Nat /\ Limit5 \in Nat
    /\ \A f \in Findings : IsFiniteSet(f)
    /\ \A f \in Findings : \A h \in f : h.code # "HIGH_VELOCITY" /\ h.strong \in BOOLEAN
    /\ \A b \in Books : \A c \in DOMAIN b : b[c].enabled \in BOOLEAN /\ b[c].score \in Int
    /\ \A m \in Models : m.confidence \in Int /\ m.score \in Int
    /\ MaxStarts \in Nat

VARIABLES
    eval,           \* eval[w]: the evaluation worker w is making
    decided,        \* risk_decisions: one record for a transaction
    starts

vars == <<rulesetVars, velocityVars, eval, decided, starts>>
evaluation == <<eval, decided, starts>>

Steps == {"idle", "rules", "record", "count1", "count5", "score"}
NoEval == [step |-> "idle"]

TypeOK ==
    /\ RulesetsTypeOK
    /\ entries \subseteq Events /\ recorded \subseteq Events
    /\ \A w \in Workers :
           /\ eval[w].step \in Steps
           /\ eval[w] # NoEval =>
                  /\ eval[w].event \in Events
                  /\ eval[w].version \in Versions
                  /\ eval[w].book \in Books \union {NoBook}
                  /\ eval[w].tx1 \in 0 .. Cardinality(Events)
                  /\ eval[w].tx5 \in 0 .. Cardinality(Events)
    /\ \A d \in decided : d.score \in 0 .. MaxScore /\ d.decision \in {"Approve", "Review", "Block"}
    /\ \A d, o \in decided : d.tx = o.tx => d = o
    /\ starts \in 0 .. MaxStarts

Init ==
    /\ RulesetsInit
    /\ VelocityInit
    /\ eval = [w \in Workers |-> NoEval]
    /\ decided = {}
    /\ starts = 0

Doing(w, step) == eval[w].step = step
Decided(tx) == \E d \in decided : d.tx = tx

-----------------------------------------------------------------------------
(* Faulty variants, for checking that the properties notice them.  None is *)
(* part of the specification.                                              *)

\* The rules are those of the version that is active when they are queried.
QueryActiveRules(w) ==
    /\ Doing(w, "rules")
    /\ \E v \in Newest : eval' = [eval EXCEPT ![w].book = rules[v], ![w].step = "record"]
    /\ UNCHANGED <<rulesetVars, velocityVars, decided, starts>>

\* The decision is upserted: its unique index is gone.
KeepDecisionAgain(d) == decided' = decided \union {d}

-----------------------------------------------------------------------------
(* The provider: GetActiveAsync.                                           *)

\* ExistsForTransactionAsync finds nothing, and the newest active version is read.
QueryVersion(w, e) ==
    /\ Doing(w, "idle")
    /\ starts < MaxStarts
    /\ starts' = starts + 1
    /\ ~Decided(e.tx)
    /\ \E v \in Newest :
           eval' = [eval EXCEPT ![w] = [step |-> "rules", event |-> e, version |-> v,
                                        book |-> NoBook, tx1 |-> 0, tx5 |-> 0]]
    /\ UNCHANGED <<rulesetVars, velocityVars, decided>>

\* Its rules, by a query of its own.
QueryRules(w) ==
    /\ Doing(w, "rules")
    /\ eval' = [eval EXCEPT ![w].book = rules[eval[w].version], ![w].step = "record"]
    /\ UNCHANGED <<rulesetVars, velocityVars, decided, starts>>

-----------------------------------------------------------------------------
(* The velocity store: RecordAndSnapshotAsync.                             *)

RecordVelocity(w) ==
    /\ Doing(w, "record")
    /\ Record(eval[w].event)
    /\ eval' = [eval EXCEPT ![w].step = "count1"]
    /\ UNCHANGED <<rulesetVars, decided, starts>>

CountOneMinute(w) ==
    /\ Doing(w, "count1")
    /\ eval' = [eval EXCEPT ![w].tx1 = Count(eval[w].event.at, OneMinute), ![w].step = "count5"]
    /\ UNCHANGED <<rulesetVars, velocityVars, decided, starts>>

CountFiveMinutes(w) ==
    /\ Doing(w, "count5")
    /\ eval' = [eval EXCEPT ![w].tx5 = Count(eval[w].event.at, FiveMinutes), ![w].step = "score"]
    /\ UNCHANGED <<rulesetVars, velocityVars, decided, starts>>

-----------------------------------------------------------------------------
(* The engine: EvaluateAsync, and SaveAsync.                               *)

VelocityHits(tx1, tx5) ==
    IF VelocityTriggered(tx1, tx5, Limit1, Limit5)
    THEN {[code |-> "HIGH_VELOCITY", strong |-> VelocityStrong(tx1, tx5, Limit1, Limit5)]}
    ELSE {}

Codes(hits) == {h.code : h \in hits}

Evaluation(e, version, book, hits, model) ==
    LET raw == Raw(book, hits)
        score == Cap(Combine(raw, model))
    IN  [tx |-> e.tx, version |-> version, hits |-> hits, raw |-> raw, model |-> model,
         score |-> score, decision |-> Decide(LevelFor(score), Codes(hits))]

\* The unique index keeps the first decision of a transaction.
KeepDecision(d) == decided' = IF Decided(d.tx) THEN decided ELSE decided \union {d}

Evaluate(w, found, model) ==
    /\ Doing(w, "score")
    /\ LET hits == Results(eval[w].book, VelocityHits(eval[w].tx1, eval[w].tx5) \union found)
       IN  KeepDecision(Evaluation(eval[w].event, eval[w].version, eval[w].book, hits, model))
    /\ eval' = [eval EXCEPT ![w] = NoEval]
    /\ UNCHANGED <<rulesetVars, velocityVars, starts>>

\* A call throws or the process ends.
Abandon(w) ==
    /\ ~Doing(w, "idle")
    /\ eval' = [eval EXCEPT ![w] = NoEval]
    /\ UNCHANGED <<rulesetVars, velocityVars, decided, starts>>

-----------------------------------------------------------------------------
Evaluating(w) ==
    \/ \E e \in Events : QueryVersion(w, e)
    \/ QueryRules(w)
    \/ RecordVelocity(w) \/ CountOneMinute(w) \/ CountFiveMinutes(w)
    \/ \E found \in Findings, model \in Models : Evaluate(w, found, model)
    \/ Abandon(w)

\* Nothing under way and nothing left to begin.
Done ==
    /\ \A w \in Workers : Doing(w, "idle")
    /\ \A a \in Admins : At(a, "idle")
    /\ starts = MaxStarts \/ \A e \in Events : Decided(e.tx)
    /\ posts = MaxPosts
    /\ UNCHANGED vars

Next ==
    \/ RulesetsNext /\ UNCHANGED <<velocityVars, evaluation>>
    \/ \E w \in Workers : Evaluating(w)
    \/ KeyGone /\ UNCHANGED <<rulesetVars, evaluation>>
    \/ Done

Spec == Init /\ [][Next]_vars

-----------------------------------------------------------------------------
(* Properties.                                                             *)

\* README.md: a decision "is persisted with the exact ruleset version used".  The
\* rules stored under the version a decision names give its score and its rules,
\* however many versions were activated while it was evaluated or since.
ScoredWithRecordedRules ==
    \A d \in decided :
        /\ rules[d.version] # NoBook
        /\ Results(rules[d.version], d.hits) = d.hits
        /\ Raw(rules[d.version], d.hits) = d.raw

\* The model assists: what it adds never makes a decision milder, is at most 15
\* points, and alone does not block what the rules approve.
ModelOnlyAssists ==
    \A d \in decided :
        LET plain == DecisionOn(d.raw, Codes(d.hits))
        IN  /\ Severity(plain) <= Severity(d.decision)
            /\ d.score <= Cap(d.raw) + 15
            /\ plain = "Approve" => d.decision # "Block"
=============================================================================
