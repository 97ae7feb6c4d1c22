----------------------- MODULE RiskEvaluation_proofs -----------------------
(***************************************************************************)
(* Proofs about RiskEvaluation and the two components it composes, for any *)
(* number of requests, workers, rulesets and events.                       *)
(***************************************************************************)
EXTENDS RiskEvaluation, RiskScoring_proofs

\* The tables while requests cross: versions with rows keep them, and a request
\* that is about to save is dated after every version it will deactivate.
RulesetsInv ==
    /\ RulesetsTypeOK
    /\ active # {}
    /\ \A v \in active : rules[v] # NoBook
    /\ \A a \in Admins : \A u \in admin[a].seen : rules[u] # NoBook
    /\ \A a \in Admins : At(a, "save") =>
           /\ admin[a].at <= clock
           /\ \A u \in admin[a].seen : createdAt[u] <= admin[a].at

\* What a step never takes back, and where it leads.
Progress ==
    /\ active' # {}
    /\ \A u \in active : \E v \in active' : createdAt[u] <= createdAt'[v]

RowsStay == \A v \in Versions : rules[v] # NoBook => rules'[v] = rules[v]

USE DEF tables

\* The transaction that saves a new ruleset keeps the invariant, takes no rows away
\* and leaves a version in force no older than any before.
LEMMA InsertKeeps ==
    ASSUME RulesetsInv, NEW a \in Admins, Save(a)
    PROVE  RulesetsInv' /\ Progress /\ RowsStay
<1> DEFINE p == admin[a]
<1>1. p \in Post /\ p.version \in Versions /\ p.book \in Books /\ p.seen \subseteq Versions /\ p.at \in Nat
  BY DEF RulesetsInv, RulesetsTypeOK, Post
<1>2. p.at \in 0 .. clock
  BY <1>1 DEF RulesetsInv, RulesetsTypeOK, Save
<1>3. NoPost \in Post /\ p.book # NoBook
  BY <1>1, RulesetsAssumption DEF RulesetsAssumption, NoPost, Post
<1>4. /\ active' = (active \ p.seen) \union {p.version}
      /\ createdAt' = [createdAt EXCEPT ![p.version] = p.at]
      /\ rules' = [rules EXCEPT ![p.version] = p.book]
      /\ rules[p.version] = NoBook
      /\ admin' = [admin EXCEPT ![a] = NoPost]
      /\ UNCHANGED <<clock, posts>>
  BY DEF Save, Insert, Over
<1>5. RowsStay
  BY <1>1, <1>4 DEF RowsStay, RulesetsInv, RulesetsTypeOK
<1>6. RulesetsTypeOK'
  BY <1>1, <1>2, <1>3, <1>4 DEF RulesetsInv, RulesetsTypeOK
<1>7. \A v \in Versions : rules[v] # NoBook => createdAt'[v] = createdAt[v] /\ rules'[v] # NoBook
  BY <1>1, <1>4, <1>5 DEF RulesetsInv, RulesetsTypeOK, RowsStay
<1>8. rules'[p.version] # NoBook /\ createdAt'[p.version] = p.at
  BY <1>1, <1>3, <1>4 DEF RulesetsInv, RulesetsTypeOK
<1>9. active' # {} /\ \A v \in active' : rules'[v] # NoBook
  BY <1>1, <1>4, <1>7, <1>8 DEF RulesetsInv, RulesetsTypeOK
<1>10. ASSUME NEW b \in Admins
       PROVE  /\ \A u \in admin'[b].seen : rules'[u] # NoBook
              /\ At(b, "save")' => /\ admin'[b].at <= clock'
                                   /\ \A u \in admin'[b].seen : createdAt'[u] <= admin'[b].at
  <2>1. CASE b = a
    BY <1>4, <2>1 DEF At, NoPost, RulesetsInv, RulesetsTypeOK
  <2>2. CASE b # a
    <3>1. admin'[b] = admin[b] /\ admin[b].seen \subseteq Versions
      BY <1>4, <2>2 DEF RulesetsInv, RulesetsTypeOK, Post
    <3> QED
      BY <1>4, <1>7, <3>1 DEF RulesetsInv, At
  <2> QED
    BY <2>1, <2>2
<1>11. Progress
  <2> SUFFICES ASSUME NEW u \in active
               PROVE  \E v \in active' : createdAt[u] <= createdAt'[v]
    BY <1>9 DEF Progress
  <2>1. u \in Versions /\ createdAt[u] \in Nat /\ rules[u] # NoBook
    BY DEF RulesetsInv, RulesetsTypeOK
  <2>2. CASE u \in p.seen
    <3>1. createdAt[u] <= p.at
      BY <2>2 DEF RulesetsInv, Save
    <3> QED
      BY <1>4, <1>8, <3>1
  <2>3. CASE u \notin p.seen
    <3>1. u \in active' /\ createdAt'[u] = createdAt[u]
      BY <1>4, <1>7, <2>1, <2>3
    <3> QED
      BY <2>1, <3>1
  <2> QED
    BY <2>2, <2>3
<1> QED
  BY <1>5, <1>6, <1>9, <1>10, <1>11 DEF RulesetsInv

\* The other steps of a request write nothing to the tables.
LEMMA RequestKeeps ==
    ASSUME RulesetsInv, NEW a \in Admins,
           (\E p \in Proposals : ReadActive(a, p)) \/ Stamp(a) \/ SaveFails(a)
    PROVE  RulesetsInv' /\ Progress /\ RowsStay
<1>1. UNCHANGED tables
  BY DEF ReadActive, Stamp, SaveFails
<1>2. Progress /\ RowsStay
  <2>1. \A u \in active : createdAt[u] <= createdAt[u]
    BY DEF RulesetsInv, RulesetsTypeOK
  <2> QED
    BY <1>1, <2>1 DEF Progress, RowsStay, RulesetsInv
<1>3. NoPost \in Post
  BY RulesetsAssumption DEF RulesetsAssumption, NoPost, Post
<1>4. CASE \E p \in Proposals : ReadActive(a, p)
  <2> PICK p \in Proposals : ReadActive(a, p)
    BY <1>4
  <2> DEFINE new == [step |-> "stamp", version |-> p.version, book |-> p.book,
                     seen |-> active, at |-> 0]
  <2>1. new \in Post
    BY RulesetsAssumption DEF RulesetsAssumption, Post, RulesetsInv, RulesetsTypeOK
  <2>2. admin' = [admin EXCEPT ![a] = new] /\ clock' = clock /\ posts' \in 0 .. MaxPosts
    BY RulesetsAssumption DEF RulesetsAssumption, ReadActive, RulesetsInv, RulesetsTypeOK
  <2> HIDE DEF new
  <2>3. RulesetsTypeOK'
    BY <1>1, <2>1, <2>2 DEF RulesetsInv, RulesetsTypeOK
  <2>4. new.step # "save" /\ new.seen = active
    BY DEF new
  <2> QED
    BY <1>1, <1>2, <2>2, <2>3, <2>4 DEF RulesetsInv, RulesetsTypeOK, At
<1>5. CASE Stamp(a)
  <2> DEFINE new == [admin[a] EXCEPT !.step = "save", !.at = clock']
  <2>1. clock' \in Nat /\ clock <= clock' /\ posts' = posts
    BY <1>5 DEF Stamp, RulesetsInv, RulesetsTypeOK
  <2>2. new \in Post /\ new.seen = admin[a].seen /\ new.at = clock'
    BY <2>1 DEF RulesetsInv, RulesetsTypeOK, Post
  <2>3. admin' = [admin EXCEPT ![a] = new]
    BY <1>5 DEF Stamp
  <2> HIDE DEF new
  <2>4. createdAt' \in [Versions -> 0 .. clock']
    BY <1>1, <2>1 DEF RulesetsInv, RulesetsTypeOK
  <2>5. RulesetsTypeOK'
    BY <1>1, <2>1, <2>2, <2>3, <2>4 DEF RulesetsInv, RulesetsTypeOK
  <2>6. \A v \in Versions : createdAt'[v] <= clock'
    BY <2>1, <2>4
  <2>7. \A b \in Admins : admin[b].seen \subseteq Versions /\ admin[b].at \in Nat
    BY DEF RulesetsInv, RulesetsTypeOK, Post
  <2>8. ASSUME NEW b \in Admins
        PROVE  /\ \A u \in admin'[b].seen : rules'[u] # NoBook
               /\ At(b, "save")' => /\ admin'[b].at <= clock'
                                    /\ \A u \in admin'[b].seen : createdAt'[u] <= admin'[b].at
    <3>1. CASE b = a
      <4>1. admin'[b] = new
        BY <2>3, <3>1 DEF RulesetsInv, RulesetsTypeOK
      <4> QED
        BY <1>1, <2>1, <2>2, <2>6, <2>7, <3>1, <4>1 DEF RulesetsInv
    <3>2. CASE b # a
      <4>1. admin'[b] = admin[b]
        BY <2>3, <3>2 DEF RulesetsInv, RulesetsTypeOK
      <4>2. clock \in Nat
        BY DEF RulesetsInv, RulesetsTypeOK
      <4> QED
        BY <1>1, <2>1, <2>7, <4>1, <4>2 DEF RulesetsInv, At
    <3> QED
      BY <3>1, <3>2
  <2> QED
    BY <1>1, <1>2, <2>5, <2>8 DEF RulesetsInv
<1>6. CASE SaveFails(a)
  <2>1. admin' = [admin EXCEPT ![a] = NoPost] /\ UNCHANGED <<clock, posts>>
    BY <1>6 DEF SaveFails, Over
  <2>2. RulesetsTypeOK'
    BY <1>1, <1>3, <2>1 DEF RulesetsInv, RulesetsTypeOK
  <2>3. NoPost.step # "save" /\ NoPost.seen = {}
    BY DEF NoPost
  <2> QED
    BY <1>1, <1>2, <2>1, <2>2, <2>3 DEF RulesetsInv, RulesetsTypeOK, At
<1> QED
  BY <1>4, <1>5, <1>6

\* Steps of other components leave the rulesets as they are.
LEMMA RulesetsStutter ==
    ASSUME RulesetsInv, UNCHANGED rulesetVars
    PROVE  RulesetsInv' /\ Progress /\ RowsStay
<1>1. RulesetsInv'
  BY DEF RulesetsInv, RulesetsTypeOK, rulesetVars, At
<1>2. \A u \in active : createdAt[u] <= createdAt[u]
  BY DEF RulesetsInv, RulesetsTypeOK
<1> QED
  BY <1>1, <1>2 DEF Progress, RowsStay, RulesetsInv, rulesetVars

\* Every step keeps the invariant of the rulesets.
LEMMA RulesetsStep ==
    ASSUME RulesetsInv, [Next]_vars
    PROVE  RulesetsInv' /\ Progress /\ RowsStay
<1>1. CASE RulesetsNext
  BY <1>1, InsertKeeps, RequestKeeps DEF RulesetsNext
<1>2. CASE UNCHANGED rulesetVars
  BY <1>2, RulesetsStutter
<1>3. RulesetsNext \/ UNCHANGED rulesetVars
  BY DEF Next, vars, Evaluating, QueryVersion, QueryRules, RecordVelocity, CountOneMinute,
         CountFiveMinutes, Evaluate, Abandon, Done
<1> QED
  BY <1>1, <1>2, <1>3

\* The seeder's version is active at the start.
LEMMA RulesetsStart == Init => RulesetsInv
<1>1. NoPost \in Post /\ NoPost.step # "save" /\ NoPost.seen = {}
  BY RulesetsAssumption DEF RulesetsAssumption, NoPost, Post
<1> QED
  BY <1>1, RulesetsAssumption
     DEF RulesetsAssumption, Init, RulesetsInit, RulesetsInv, RulesetsTypeOK, At

\* However requests cross, the tables stay consistent: an active version has its
\* rules, and a request knows when the versions it deactivates were made.
THEOREM RulesetsInvariant == Spec => []RulesetsInv
<1>1. RulesetsInv /\ [Next]_vars => RulesetsInv'
  BY RulesetsStep
<1> QED
  BY <1>1, RulesetsStart, PTL DEF Spec

\* However activations cross, there is always a version in force, and it is never
\* replaced by an older one.
THEOREM ServedSafety == Spec => ServedNeverGoesBack
<1>1. RulesetsInv /\ [Next]_vars => [Progress]_rulesetVars
  BY RulesetsStep
<1> QED
  BY <1>1, RulesetsInvariant, PTL DEF Spec, ServedNeverGoesBack, Progress

-----------------------------------------------------------------------------
(* What the invariants below say of the evaluations.                       *)

\* A busy worker has read a version whose rows are there, and once it has them
\* they are the ones of that version.
EvalInv ==
    \A w \in Workers : ~Doing(w, "idle") =>
        /\ eval[w].event \in Events
        /\ eval[w].version \in Versions
        /\ rules[eval[w].version] # NoBook
        /\ ~Doing(w, "rules") => eval[w].book = rules[eval[w].version]

EvalShape ==
    eval \in [Workers -> {NoEval} \union
                 [step : Steps, event : Events, version : Versions,
                  book : Books \union {NoBook}, tx1 : Nat, tx5 : Nat]]

ReadInv == RulesetsInv /\ EvalShape /\ EvalInv

-----------------------------------------------------------------------------
(* The windows.                                                            *)

\* What a trim has taken is at least Retention older than the latest record.
VelocityInv ==
    /\ horizon \in Int
    /\ IsFiniteSet(entries) /\ entries \subseteq recorded
    /\ \A x \in recorded :
           /\ x.at \in Nat /\ x.at <= horizon
           /\ x.at > horizon - Retention => x \in entries

\* RecordAndSnapshotAsync: what its trim takes is Retention older than the latest
\* record.
LEMMA RecordKeeps ==
    ASSUME VelocityInv, NEW e, e.at \in Nat, Record(e)
    PROVE  VelocityInv'
<1> DEFINE new == [tx |-> e.tx, at |-> e.at]
<1>1. Retention \in Nat /\ 0 < Retention
  BY VelocityAssumption DEF VelocityAssumption
<1>2. /\ horizon' \in Int /\ horizon <= horizon' /\ e.at <= horizon'
  BY DEF Record, VelocityInv
<1>3. /\ recorded' = {x \in recorded : x.tx # e.tx} \union {new}
      /\ entries' = {x \in {y \in entries : y.tx # e.tx} \union {new} : x.at > e.at - Retention}
  BY DEF Record, Add, Trim
<1>4. new.at = e.at
  OBVIOUS
<1> HIDE DEF new
<1>5. entries' \subseteq recorded' /\ IsFiniteSet(entries')
  <2>1. IsFiniteSet(entries \union {new})
    BY FS_AddElement DEF VelocityInv
  <2>2. entries' \subseteq entries \union {new} /\ entries' \subseteq recorded'
    BY <1>3 DEF VelocityInv
  <2> QED
    BY <2>1, <2>2, FS_Subset
<1>6. ASSUME NEW x \in recorded'
      PROVE  /\ x.at \in Nat /\ x.at <= horizon'
             /\ x.at > horizon' - Retention => x \in entries'
  <2>1. CASE x = new
    <3>1. x.at = e.at /\ e.at > e.at - Retention
      BY <1>1, <1>4, <2>1
    <3>2. x \in entries'
      BY <1>3, <2>1, <3>1
    <3> QED
      BY <1>2, <3>1, <3>2
  <2>2. CASE x # new
    <3>1. x \in recorded /\ x.tx # e.tx
      BY <1>3, <2>2
    <3>2. x.at \in Nat /\ x.at <= horizon' /\ horizon \in Int
      BY <1>2, <3>1 DEF VelocityInv
    <3>3. ASSUME x.at > horizon' - Retention
          PROVE  x \in entries'
      <4>1. x.at > horizon - Retention /\ x.at > e.at - Retention
        BY <1>1, <1>2, <3>2, <3>3
      <4> QED
        BY <1>3, <3>1, <4>1 DEF VelocityInv
    <3> QED
      BY <3>2, <3>3
  <2> QED
    BY <2>1, <2>2
<1> QED
  BY <1>2, <1>5, <1>6 DEF VelocityInv

\* The windows are empty at the start.
LEMMA VelocityStart == Init => VelocityInv
<1> SUFFICES ASSUME VelocityInit PROVE VelocityInv
  BY DEF Init
<1>1. CASE entries = {} /\ recorded = {} /\ horizon = -1
  BY <1>1, FS_EmptySet DEF VelocityInv
<1>2. ASSUME NEW e \in Earlier, entries = {e}, recorded = {e}, horizon = e.at
      PROVE  VelocityInv
  <2>1. e.at \in Nat /\ IsFiniteSet(entries)
    BY <1>2, FS_Singleton, VelocityAssumption DEF VelocityAssumption
  <2> QED
    BY <1>2, <2>1 DEF VelocityInv
<1> QED
  BY <1>1, <1>2 DEF VelocityInit

\* Every step keeps the invariant of the windows.
LEMMA VelocityStep ==
    ASSUME VelocityInv, EvalShape, EvalInv, [Next]_vars
    PROVE  VelocityInv'
<1>1. CASE \E w \in Workers : RecordVelocity(w)
  <2> PICK w \in Workers : RecordVelocity(w)
    BY <1>1
  <2>1. Record(eval[w].event) /\ eval[w].event.at \in Nat
    BY EvaluationAssumption DEF EvaluationAssumption, RecordVelocity, Doing, EvalInv
  <2> QED
    BY <2>1, RecordKeeps
<1>2. CASE KeyGone
  BY <1>2, FS_EmptySet DEF KeyGone, VelocityInv
<1>3. CASE UNCHANGED velocityVars
  BY <1>3 DEF velocityVars, VelocityInv
<1>4. UNCHANGED velocityVars \/ KeyGone \/ \E w \in Workers : RecordVelocity(w)
  BY DEF Next, vars, Evaluating, QueryVersion, QueryRules, CountOneMinute, CountFiveMinutes,
         Evaluate, Abandon, Done
<1> QED
  BY <1>1, <1>2, <1>3, <1>4

-----------------------------------------------------------------------------
(* The evaluations.                                                        *)

BusyEval == [step : Steps, event : Events, version : Versions,
             book : Books \union {NoBook}, tx1 : Nat, tx5 : Nat]

\* A step of a worker leaves its evaluation over or well formed and true to the
\* version it has read.
LEMMA WorkerKeeps ==
    ASSUME ReadInv, NEW w \in Workers, NEW new \in {NoEval} \union BusyEval,
           eval' = [eval EXCEPT ![w] = new], RowsStay,
           new.step # "idle" => /\ new.event \in Events /\ new.version \in Versions
                                /\ rules[new.version] # NoBook
                                /\ new.step # "rules" => new.book = rules[new.version]
    PROVE  EvalShape' /\ EvalInv'
<1>1. EvalShape'
  BY DEF ReadInv, EvalShape, BusyEval
<1>2. ASSUME NEW v \in Workers, eval'[v].step # "idle"
      PROVE  /\ eval'[v].event \in Events /\ eval'[v].version \in Versions
             /\ rules'[eval'[v].version] # NoBook
             /\ eval'[v].step # "rules" => eval'[v].book = rules'[eval'[v].version]
  <2>1. CASE v = w
    <3>1. eval'[v] = new
      BY <2>1 DEF ReadInv, EvalShape
    <3> QED
      BY <1>2, <3>1 DEF RowsStay
  <2>2. CASE v # w
    <3>1. eval'[v] = eval[v]
      BY <2>2 DEF ReadInv, EvalShape
    <3> QED
      BY <1>2, <3>1 DEF RowsStay, ReadInv, EvalInv, Doing
  <2> QED
    BY <2>1, <2>2
<1> QED
  BY <1>1, <1>2 DEF EvalInv, Doing

\* An evaluation no step touches stays true to its version: rows stay.
LEMMA EvalStays ==
    ASSUME ReadInv, RowsStay, UNCHANGED eval
    PROVE  EvalShape' /\ EvalInv'
<1>1. EvalShape'
  BY DEF ReadInv, EvalShape
<1> QED
  BY <1>1 DEF ReadInv, EvalInv, RowsStay, Doing

\* What is known of an evaluation under way.
LEMMA BusyShape ==
    ASSUME ReadInv, NEW w \in Workers, eval[w].step # "idle"
    PROVE  /\ eval[w] \in BusyEval
           /\ rules[eval[w].version] # NoBook /\ rules[eval[w].version] \in Books
           /\ eval[w].step # "rules" => eval[w].book = rules[eval[w].version]
<1>1. eval[w] \in BusyEval
  BY DEF ReadInv, EvalShape, BusyEval, NoEval
<1> QED
  BY <1>1 DEF ReadInv, EvalInv, Doing, RulesetsInv, RulesetsTypeOK

\* Every step keeps every evaluation well formed and true to its version.
LEMMA EvalStep ==
    ASSUME ReadInv, VelocityInv, [Next]_vars
    PROVE  EvalShape' /\ EvalInv'
<1>1. RowsStay
  BY RulesetsStep DEF ReadInv
<1>2. CASE \E w \in Workers, e \in Events : QueryVersion(w, e)
  <2> PICK w \in Workers, e \in Events : QueryVersion(w, e)
    BY <1>2
  <2> PICK v \in Newest :
        eval' = [eval EXCEPT ![w] = [step |-> "rules", event |-> e, version |-> v,
                                     book |-> NoBook, tx1 |-> 0, tx5 |-> 0]]
    BY DEF QueryVersion
  <2> DEFINE new == [step |-> "rules", event |-> e, version |-> v,
                     book |-> NoBook, tx1 |-> 0, tx5 |-> 0]
  <2>1. v \in Versions /\ rules[v] # NoBook
    BY DEF Newest, ReadInv, RulesetsInv, RulesetsTypeOK
  <2>2. new \in BusyEval
    BY <2>1 DEF BusyEval, Steps
  <2> QED
    BY <1>1, <2>1, <2>2, WorkerKeeps
<1>3. CASE \E w \in Workers : QueryRules(w)
  <2> PICK w \in Workers : QueryRules(w)
    BY <1>3
  <2> DEFINE new == [eval[w] EXCEPT !.book = rules[eval[w].version], !.step = "record"]
  <2>1. eval[w].step = "rules" /\ eval' = [eval EXCEPT ![w] = new]
    BY DEF QueryRules, Doing
  <2>2. /\ new \in BusyEval /\ new.version = eval[w].version
        /\ new.book = rules[eval[w].version] /\ new.event \in Events
    BY <2>1, BusyShape DEF BusyEval, Steps
  <2>3. new.version \in Versions
    BY <2>2 DEF BusyEval
  <2> HIDE DEF new
  <2> QED
    BY <1>1, <2>1, <2>2, <2>3, BusyShape, WorkerKeeps
<1>4. CASE \E w \in Workers : RecordVelocity(w) \/ CountOneMinute(w) \/ CountFiveMinutes(w)
  <2> PICK w \in Workers : RecordVelocity(w) \/ CountOneMinute(w) \/ CountFiveMinutes(w)
    BY <1>4
  <2>1. eval[w].step \notin {"idle", "rules"}
    BY DEF RecordVelocity, CountOneMinute, CountFiveMinutes, Doing
  <2>2. eval[w] \in BusyEval /\ rules[eval[w].version] # NoBook
        /\ eval[w].book = rules[eval[w].version]
    BY <2>1, BusyShape
  <2>3. ASSUME NEW window \in Int
        PROVE  Count(eval[w].event.at, window) \in Nat
    BY FS_Subset, FS_CardinalityType DEF Count, Within, VelocityInv
  <2>4. OneMinute \in Int /\ FiveMinutes \in Int
    BY VelocityAssumption DEF VelocityAssumption
  <2>5. PICK new \in BusyEval :
           /\ eval' = [eval EXCEPT ![w] = new]
           /\ new.version = eval[w].version /\ new.book = eval[w].book
           /\ new.event = eval[w].event /\ new.step \in Steps \ {"idle", "rules"}
    <3>1. CASE RecordVelocity(w)
      <4>1. [eval[w] EXCEPT !.step = "count1"] \in BusyEval
        BY <2>2 DEF BusyEval, Steps
      <4> QED
        BY <2>2, <3>1, <4>1 DEF RecordVelocity, BusyEval, Steps
    <3>2. CASE CountOneMinute(w)
      <4> DEFINE next == [eval[w] EXCEPT !.tx1 = Count(eval[w].event.at, OneMinute), !.step = "count5"]
      <4>1. eval' = [eval EXCEPT ![w] = next]
        BY <3>2 DEF CountOneMinute, ReadInv, EvalShape
      <4>2. /\ next \in BusyEval /\ next.version = eval[w].version /\ next.book = eval[w].book
            /\ next.event = eval[w].event /\ next.step = "count5"
        BY <2>2, <2>3, <2>4 DEF BusyEval, Steps
      <4> HIDE DEF next
      <4> QED
        BY <4>1, <4>2 DEF Steps
    <3>3. CASE CountFiveMinutes(w)
      <4> DEFINE next == [eval[w] EXCEPT !.tx5 = Count(eval[w].event.at, FiveMinutes), !.step = "score"]
      <4>1. eval' = [eval EXCEPT ![w] = next]
        BY <3>3 DEF CountFiveMinutes, ReadInv, EvalShape
      <4>2. /\ next \in BusyEval /\ next.version = eval[w].version /\ next.book = eval[w].book
            /\ next.event = eval[w].event /\ next.step = "score"
        BY <2>2, <2>3, <2>4 DEF BusyEval, Steps
      <4> HIDE DEF next
      <4> QED
        BY <4>1, <4>2 DEF Steps
    <3> QED
      BY <3>1, <3>2, <3>3
  <2>6. new.event \in Events /\ new.version \in Versions
    BY <2>5 DEF BusyEval
  <2> QED
    BY <1>1, <2>2, <2>5, <2>6, WorkerKeeps
<1>5. CASE \E w \in Workers : Abandon(w) \/ \E found \in Findings, model \in Models : Evaluate(w, found, model)
  <2> PICK w \in Workers : eval' = [eval EXCEPT ![w] = NoEval]
    BY <1>5 DEF Abandon, Evaluate
  <2>1. NoEval.step = "idle"
    BY DEF NoEval
  <2> QED
    BY <1>1, <2>1, WorkerKeeps
<1>6. CASE UNCHANGED eval
  BY <1>1, <1>6, EvalStays
<1> QED
  BY <1>2, <1>3, <1>4, <1>5, <1>6 DEF Next, vars, evaluation, Evaluating, KeyGone, Done

\* No evaluation is under way at the start.
LEMMA EvalStart == Init => EvalShape /\ EvalInv
BY DEF Init, EvalShape, EvalInv, Doing, NoEval

\* Every evaluation has the rules of the version it has read, even if that version
\* is deactivated between its two queries, and the windows miss only what was trimmed.
THEOREM EvaluationInvariant == Spec => [](ReadInv /\ VelocityInv)
<1>1. Init => ReadInv /\ VelocityInv
  BY RulesetsStart, EvalStart, VelocityStart DEF ReadInv
<1>2. (ReadInv /\ VelocityInv) /\ [Next]_vars => (ReadInv /\ VelocityInv)'
  BY RulesetsStep, EvalStep, VelocityStep DEF ReadInv
<1> QED
  BY <1>1, <1>2, PTL DEF Spec

\* A window that begins after what the latest transaction trims misses nothing, in
\* whatever order the transactions come and whatever time they carry.
THEOREM WindowSafety == Spec => []WindowsComplete
<1>1. VelocityInv => WindowsComplete
  <2> SUFFICES ASSUME VelocityInv, NEW e \in recorded, NEW window \in {OneMinute, FiveMinutes},
                      e.at - window > horizon - Retention
               PROVE  Within(entries, e.at, window) = Within(recorded, e.at, window)
    BY DEF WindowsComplete
  <2>1. window \in Int /\ Retention \in Int /\ horizon \in Int /\ e.at \in Nat
    BY VelocityAssumption DEF VelocityAssumption, VelocityInv
  <2>2. ASSUME NEW x \in recorded, x.at >= e.at - window
        PROVE  x \in entries
    <3>1. x.at \in Nat /\ x.at > horizon - Retention
      BY <2>1, <2>2 DEF VelocityInv
    <3> QED
      BY <3>1 DEF VelocityInv
  <2> QED
    BY <2>2 DEF Within, VelocityInv
<1> QED
  BY <1>1, EvaluationInvariant, PTL

-----------------------------------------------------------------------------
(* The decisions.                                                          *)

\* A decision names a version, and what that version says gives its score.
DecidedInv ==
    \A d \in decided :
        /\ d.version \in Versions /\ rules[d.version] # NoBook
        /\ Results(rules[d.version], d.hits) = d.hits
        /\ Raw(rules[d.version], d.hits) = d.raw

\* What a stored decision says of its version stays true: rows stay.
LEMMA DecidedStep ==
    ASSUME ReadInv, DecidedInv, [Next]_vars
    PROVE  DecidedInv'
<1>1. RowsStay
  BY RulesetsStep DEF ReadInv
<1>2. ASSUME NEW d \in decided
      PROVE  /\ d.version \in Versions /\ rules'[d.version] # NoBook
             /\ Results(rules'[d.version], d.hits) = d.hits
             /\ Raw(rules'[d.version], d.hits) = d.raw
  BY <1>1, <1>2 DEF DecidedInv, RowsStay
<1>3. CASE decided' = decided
  BY <1>2, <1>3 DEF DecidedInv
<1>4. CASE \E w \in Workers, found \in Findings, model \in Models : Evaluate(w, found, model)
  <2> PICK w \in Workers, found \in Findings, model \in Models : Evaluate(w, found, model)
    BY <1>4
  <2> DEFINE book == eval[w].book
             all == VelocityHits(eval[w].tx1, eval[w].tx5) \union found
             hits == Results(book, all)
             new == Evaluation(eval[w].event, eval[w].version, book, hits, model)
  <2>1. eval[w].step = "score" /\ decided' \subseteq decided \union {new} /\ rules' = rules
    BY DEF Evaluate, Doing, KeepDecision, rulesetVars, tables
  <2>2. /\ eval[w].version \in Versions /\ rules[eval[w].version] # NoBook
        /\ book = rules[eval[w].version]
    BY <2>1, BusyShape DEF BusyEval
  <2>3. new.version = eval[w].version /\ new.hits = hits /\ new.raw = Raw(book, hits)
    BY DEF Evaluation
  <2>4. Results(book, hits) = hits
    BY DEF Results
  <2> HIDE DEF new, hits, book
  <2> QED
    BY <1>2, <2>1, <2>2, <2>3, <2>4 DEF DecidedInv
<1> QED
  BY <1>3, <1>4 DEF Next, vars, evaluation, Evaluating, QueryVersion, QueryRules, RecordVelocity,
     CountOneMinute, CountFiveMinutes, Abandon, KeyGone, Done

\* Every stored decision was scored with the rules of the version it names, whatever
\* was activated while it was made and since.
THEOREM RulesetSafety == Spec => []ScoredWithRecordedRules
<1>1. Init => DecidedInv
  BY DEF Init, DecidedInv
<1>2. ReadInv /\ DecidedInv /\ [Next]_vars => DecidedInv'
  BY DecidedStep
<1>3. DecidedInv => ScoredWithRecordedRules
  BY DEF DecidedInv, ScoredWithRecordedRules
<1> QED
  BY <1>1, <1>2, <1>3, EvaluationInvariant, PTL DEF Spec

-----------------------------------------------------------------------------
(* The score and the decision of a stored evaluation.                      *)

\* A stored decision is the one the engine takes on its own raw score and on the
\* answer of the model it was given, and the raw score is never negative.
ScoreInv ==
    \A d \in decided :
        /\ d.raw \in Nat /\ d.model \in Models
        /\ d.score = Cap(Combine(d.raw, d.model))
        /\ d.decision = Decide(LevelFor(d.score), Codes(d.hits))

\* The hits a worker scores are finitely many, and each of them adds points.
LEMMA HitsAdd ==
    ASSUME NEW book \in Books, NEW found \in Findings, NEW tx1 \in Nat, NEW tx5 \in Nat
    PROVE  Raw(book, Results(book, VelocityHits(tx1, tx5) \union found)) \in Nat
<1> DEFINE all == VelocityHits(tx1, tx5) \union found
           hits == Results(book, all)
<1>1. IsFiniteSet(VelocityHits(tx1, tx5)) /\ \A h \in VelocityHits(tx1, tx5) : h.strong \in BOOLEAN
  <2> DEFINE strong == VelocityStrong(tx1, tx5, Limit1, Limit5)
             burst == [code |-> "HIGH_VELOCITY", strong |-> strong]
  <2>1. strong \in BOOLEAN
    BY DEF VelocityStrong
  <2>2. VelocityHits(tx1, tx5) = {} \/ VelocityHits(tx1, tx5) = {burst}
    BY Zenon DEF VelocityHits
  <2> HIDE DEF strong
  <2>3. burst.strong \in BOOLEAN
    BY <2>1
  <2> HIDE DEF burst
  <2>4. IsFiniteSet({}) /\ IsFiniteSet({burst})
    BY FS_EmptySet, FS_Singleton
  <2>5. \A h \in VelocityHits(tx1, tx5) : h = burst
    BY <2>2
  <2> QED
    BY <2>2, <2>3, <2>4, <2>5, Zenon
<1>2. IsFiniteSet(found) /\ \A h \in found : h.strong \in BOOLEAN
  BY EvaluationAssumption DEF EvaluationAssumption
<1>3. IsFiniteSet(hits)
  <2>1. IsFiniteSet(all)
    BY <1>1, <1>2, FS_Union
  <2>2. hits \subseteq all
    BY DEF Results
  <2> QED
    BY <2>1, <2>2, FS_Subset
<1>4. ASSUME NEW h \in hits
      PROVE  h.strong \in BOOLEAN /\ ParametersFor(book, h.code).score \in Int
  <2>1. h.strong \in BOOLEAN
    BY <1>1, <1>2 DEF Results
  <2>2. ParametersFor(book, h.code).score \in Int
    BY EvaluationAssumption DEF EvaluationAssumption, ParametersFor
  <2> QED
    BY <2>1, <2>2
<1> HIDE DEF hits
<1>5. Raw(book, hits) \in Nat
  BY <1>3, <1>4, RawNeverNegative DEF Scored
<1> QED
  BY <1>5 DEF hits

\* Only Evaluate stores a decision, and what it stores is its evaluation.
LEMMA DecidedOnlyBy ==
    ASSUME [Next]_vars
    PROVE  \/ decided' = decided
           \/ \E w \in Workers, found \in Findings, model \in Models : Evaluate(w, found, model)
BY DEF Next, vars, evaluation, Evaluating, QueryVersion, QueryRules, RecordVelocity,
       CountOneMinute, CountFiveMinutes, Abandon, KeyGone, Done

\* Every stored decision is the engine's own.
LEMMA ScoreStep ==
    ASSUME ReadInv, ScoreInv, [Next]_vars
    PROVE  ScoreInv'
<1>1. CASE decided' = decided
  BY <1>1 DEF ScoreInv
<1>2. CASE \E w \in Workers, found \in Findings, model \in Models : Evaluate(w, found, model)
  <2> PICK w \in Workers, found \in Findings, model \in Models : Evaluate(w, found, model)
    BY <1>2
  <2> DEFINE book == eval[w].book
             hits == Results(book, VelocityHits(eval[w].tx1, eval[w].tx5) \union found)
             new == Evaluation(eval[w].event, eval[w].version, book, hits, model)
  <2>1. eval[w].step = "score" /\ decided' \subseteq decided \union {new}
    BY DEF Evaluate, Doing, KeepDecision
  <2>2. book \in Books /\ eval[w].tx1 \in Nat /\ eval[w].tx5 \in Nat
    BY <2>1, BusyShape DEF BusyEval
  <2>3. Raw(book, hits) \in Nat
    BY <2>2, HitsAdd
  <2>4. /\ new.raw = Raw(book, hits) /\ new.model = model /\ new.hits = hits
        /\ new.score = Cap(Combine(new.raw, new.model))
        /\ new.decision = Decide(LevelFor(new.score), Codes(new.hits))
    BY DEF Evaluation
  <2> HIDE DEF new, hits, book
  <2> QED
    BY <2>1, <2>3, <2>4 DEF ScoreInv
<1> QED
  BY <1>1, <1>2, DecidedOnlyBy

\* What is stored with a decision is what the engine computed for it, whichever
\* ruleset was read and whatever the other rules and the model came up with.
THEOREM ScoreInvariant == Spec => []ScoreInv
<1>1. Init => ScoreInv
  BY DEF Init, ScoreInv
<1>2. ReadInv /\ ScoreInv /\ [Next]_vars => ScoreInv'
  BY ScoreStep
<1> QED
  BY <1>1, <1>2, EvaluationInvariant, PTL DEF Spec

\* Of every stored decision: what the model added never made it milder, was at most
\* 15 points, and alone did not block what the rules approve.
THEOREM AssistSafety == Spec => []ModelOnlyAssists
<1>1. ScoreInv => ModelOnlyAssists
  <2> SUFFICES ASSUME ScoreInv, NEW d \in decided
               PROVE  LET plain == DecisionOn(d.raw, Codes(d.hits))
                      IN  /\ Severity(plain) <= Severity(d.decision)
                          /\ d.score <= Cap(d.raw) + 15
                          /\ plain = "Approve" => d.decision # "Block"
    BY DEF ModelOnlyAssists
  <2>1. d.raw \in Int /\ d.model.score \in Int /\ d.model.confidence \in Int
    BY EvaluationAssumption DEF ScoreInv, EvaluationAssumption
  <2>2. d.score = Cap(Combine(d.raw, d.model))
        /\ d.decision = DecisionOn(Combine(d.raw, d.model), Codes(d.hits))
    BY DEF ScoreInv, DecisionOn
  <2> QED
    BY <2>1, <2>2, ModelAssists
<1> QED
  BY <1>1, ScoreInvariant, PTL

-----------------------------------------------------------------------------
(* Types, and one decision for a transaction.                              *)

\* Two workers that both found no decision end up with one, and the windows hold
\* only the account's own transactions, which bounds what is counted in them.
AccountInv ==
    /\ entries \subseteq Events /\ recorded \subseteq Events
    /\ \A w \in Workers : eval[w] # NoEval =>
           eval[w].tx1 <= Cardinality(Events) /\ eval[w].tx5 <= Cardinality(Events)
    /\ starts \in 0 .. MaxStarts
    /\ \A d, o \in decided : d.tx = o.tx => d = o

\* No step stores a second decision for a transaction or foreign records.
LEMMA AccountStep ==
    ASSUME ReadInv, VelocityInv, AccountInv, [Next]_vars
    PROVE  AccountInv'
<1>1. entries' \subseteq Events /\ recorded' \subseteq Events
  <2>1. CASE \E w \in Workers : RecordVelocity(w)
    <3> PICK w \in Workers : RecordVelocity(w)
      BY <2>1
    <3>1. eval[w].step = "record" /\ Record(eval[w].event)
      BY DEF RecordVelocity, Doing
    <3>2. eval[w].event \in Events
      BY <3>1, BusyShape DEF BusyEval
    <3>3. [tx |-> eval[w].event.tx, at |-> eval[w].event.at] \in Events
      BY <3>2, EvaluationAssumption DEF EvaluationAssumption
    <3> QED
      BY <3>1, <3>3 DEF Record, Trim, Add, AccountInv
  <2>2. CASE KeyGone
    BY <2>2 DEF KeyGone
  <2>3. CASE UNCHANGED velocityVars
    BY <2>3 DEF velocityVars, AccountInv
  <2> QED
    BY <2>1, <2>2, <2>3
       DEF Next, vars, Evaluating, QueryVersion, QueryRules, CountOneMinute, CountFiveMinutes,
           Evaluate, Abandon, Done
<1>2. Cardinality(Events) \in Nat
      /\ \A at, window : Count(at, window) <= Cardinality(Events)
  <2>1. IsFiniteSet(Events)
    BY EvaluationAssumption DEF EvaluationAssumption
  <2>2. \A at, window : Within(entries, at, window) \subseteq Events
    BY DEF AccountInv, Within
  <2> QED
    BY <2>1, <2>2, FS_Subset, FS_CardinalityType DEF Count
<1>3. ASSUME NEW v \in Workers, eval'[v] # NoEval
      PROVE  eval'[v].tx1 <= Cardinality(Events) /\ eval'[v].tx5 <= Cardinality(Events)
  <2>1. CASE eval'[v] = eval[v]
    BY <1>3, <2>1 DEF AccountInv
  <2>2. CASE eval'[v] # eval[v]
    <3>1. PICK w \in Workers : Evaluating(w)
      BY <2>2 DEF Next, vars, evaluation, KeyGone, Done
    <3>2. w = v /\ eval[w] \in {NoEval} \union BusyEval
      BY <2>2, <3>1 DEF ReadInv, EvalShape, BusyEval, Evaluating, QueryVersion, QueryRules,
         RecordVelocity, CountOneMinute, CountFiveMinutes, Evaluate, Abandon
    <3>3. CASE \E e \in Events : QueryVersion(w, e)
      <4>1. eval'[v].tx1 = 0 /\ eval'[v].tx5 = 0
        BY <3>2, <3>3 DEF QueryVersion, ReadInv, EvalShape
      <4> QED
        BY <1>2, <4>1
    <3>4. CASE QueryRules(w) \/ RecordVelocity(w) \/ CountOneMinute(w) \/ CountFiveMinutes(w)
      <4>1. eval[w].step # "idle"
        BY <3>4 DEF QueryRules, RecordVelocity, CountOneMinute, CountFiveMinutes, Doing
      <4>2. eval[w] \in BusyEval /\ eval[w] # NoEval
        BY <4>1, BusyShape DEF NoEval
      <4>3. /\ eval'[w].tx1 \in {eval[w].tx1, Count(eval[w].event.at, OneMinute)}
            /\ eval'[w].tx5 \in {eval[w].tx5, Count(eval[w].event.at, FiveMinutes)}
        BY <3>4, <4>2 DEF QueryRules, RecordVelocity, CountOneMinute, CountFiveMinutes,
           ReadInv, EvalShape, BusyEval
      <4> QED
        BY <1>2, <3>2, <4>2, <4>3 DEF AccountInv
    <3>5. CASE Abandon(w) \/ \E found \in Findings, model \in Models : Evaluate(w, found, model)
      BY <1>3, <3>2, <3>5 DEF Abandon, Evaluate, ReadInv, EvalShape
    <3> QED
      BY <3>1, <3>3, <3>4, <3>5 DEF Evaluating
  <2> QED
    BY <2>1, <2>2
<1>4. starts' \in 0 .. MaxStarts
  <2>1. starts' = starts \/ (starts < MaxStarts /\ starts' = starts + 1)
    BY DEF Next, vars, evaluation, Evaluating, QueryVersion, QueryRules, RecordVelocity,
       CountOneMinute, CountFiveMinutes, Evaluate, Abandon, KeyGone, Done
  <2> QED
    BY <2>1, EvaluationAssumption DEF EvaluationAssumption, AccountInv
<1>5. \A d, o \in decided' : d.tx = o.tx => d = o
  <2>1. CASE decided' = decided
    BY <2>1 DEF AccountInv
  <2>2. CASE \E w \in Workers, found \in Findings, model \in Models : Evaluate(w, found, model)
    <3>1. PICK new : KeepDecision(new)
      BY <2>2, Zenon DEF Evaluate
    <3> QED
      BY <3>1 DEF KeepDecision, Decided, AccountInv
  <2> QED
    BY <2>1, <2>2, DecidedOnlyBy
<1> QED
  BY <1>1, <1>3, <1>4, <1>5 DEF AccountInv

\* Whatever two workers read, a transaction has one decision, and the windows they
\* share hold nothing but transactions of the account.
THEOREM AccountInvariant == Spec => [](ReadInv /\ VelocityInv /\ AccountInv)
<1>1. Init => AccountInv
  BY EvaluationAssumption DEF EvaluationAssumption, Init, VelocityInit, AccountInv
<1>2. ReadInv /\ VelocityInv /\ AccountInv /\ [Next]_vars => AccountInv'
  BY AccountStep
<1> QED
  BY <1>1, <1>2, EvaluationInvariant, PTL DEF Spec

\* Every variable keeps its type; scores stay between 0 and 100, and a decision is
\* one of the three of the policy.
THEOREM EvaluationTypes == Spec => []TypeOK
<1>1. ReadInv /\ AccountInv /\ ScoreInv => TypeOK
  <2> SUFFICES ASSUME ReadInv, AccountInv, ScoreInv
               PROVE  TypeOK
    OBVIOUS
  <2>1. ASSUME NEW w \in Workers
        PROVE  /\ eval[w].step \in Steps
               /\ eval[w] # NoEval =>
                      /\ eval[w].event \in Events
                      /\ eval[w].version \in Versions
                      /\ eval[w].book \in Books \union {NoBook}
                      /\ eval[w].tx1 \in 0 .. Cardinality(Events)
                      /\ eval[w].tx5 \in 0 .. Cardinality(Events)
    <3>1. CASE eval[w] = NoEval
      BY <3>1 DEF NoEval, Steps
    <3>2. CASE eval[w] # NoEval
      <4>1. eval[w] \in BusyEval
        BY <3>2 DEF ReadInv, EvalShape, BusyEval
      <4>2. Cardinality(Events) \in Nat
        BY FS_CardinalityType, EvaluationAssumption DEF EvaluationAssumption
      <4> QED
        BY <3>2, <4>1, <4>2 DEF BusyEval, AccountInv
    <3> QED
      BY <3>1, <3>2
  <2>2. ASSUME NEW d \in decided
        PROVE  d.score \in 0 .. MaxScore /\ d.decision \in {"Approve", "Review", "Block"}
    <3>1. d.raw \in Int /\ d.model.score \in Int /\ d.model.confidence \in Int
      BY EvaluationAssumption DEF ScoreInv, EvaluationAssumption
    <3>2. Combine(d.raw, d.model) \in Int
      <4>1. PICK more \in 0 .. 15 : Combine(d.raw, d.model) = d.raw + more
        BY <3>1, ModelAdds
      <4> QED
        BY <3>1, <4>1
    <3>3. d.score \in 0 .. 100
      BY <3>2, CapRange DEF ScoreInv
    <3>4. \/ d.score <= 29 \/ (d.score >= 30 /\ d.score <= 59)
          \/ (d.score >= 60 /\ d.score <= 79) \/ d.score >= 80
      BY <3>3
    <3>5. LevelFor(d.score) \in {"Low", "Medium", "High", "Critical"}
      BY <3>3, <3>4, Levels
    <3>6. d.decision = Decide(LevelFor(d.score), Codes(d.hits))
      BY DEF ScoreInv
    <3> QED
      BY <3>3, <3>5, <3>6, Decisions DEF MaxScore
  <2> QED
    BY <2>1, <2>2 DEF TypeOK, ReadInv, RulesetsInv, AccountInv
<1> QED
  BY <1>1, AccountInvariant, ScoreInvariant, PTL
=============================================================================
