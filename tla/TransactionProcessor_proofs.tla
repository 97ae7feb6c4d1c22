-------------------- MODULE TransactionProcessor_proofs --------------------
(***************************************************************************)
(* Proofs about TransactionProcessor, for every set of workers, every log  *)
(* and every bound.  The inductive invariant is built in layers; each      *)
(* layer is proved with the ones below it as known invariants.             *)
(***************************************************************************)
EXTENDS TransactionProcessor, TLAPS

-----------------------------------------------------------------------------
(* Layer 1: types, and a busy worker has a message of the log.             *)

HasMessage == \A w \in Workers : Busy(w) => msg[w] \in Messages

TypeInv == TypeOK /\ HasMessage

\* A message names a partition and an offset of its log.
LEMMA MessageFacts ==
    ASSUME NEW m \in Messages
    PROVE  /\ m.part \in Partitions
           /\ m.offset \in Nat
           /\ m.offset \in 1 .. Len(Log[m.part])
           /\ EventAt(m) \in Events
           /\ TxOf[EventAt(m)] \in Transactions
<1>1. PICK p \in Partitions : m \in [part : {p}, offset : 1 .. Len(Log[p])]
  BY DEF Messages
<1>2. m.part = p /\ m.offset \in 1 .. Len(Log[p])
  BY <1>1
<1>3. Log[p] \in Seq(Events)
  BY LogAssumption
<1>4. Log[p][m.offset] \in Events
  BY <1>2, <1>3
<1> QED
  BY <1>2, <1>3, <1>4, LogAssumption DEF EventAt

\* An offset within a partition's log is a message.
LEMMA MessageAt ==
    ASSUME NEW p \in Partitions, NEW n \in 1 .. Len(Log[p])
    PROVE  [part |-> p, offset |-> n] \in Messages
  BY DEF Messages

\* Giving up or repeating an attempt keeps the types of pc and attempt, and
\* leaves a message in flight.
LEMMA ThrowType ==
    ASSUME TypeOK, NEW w \in Workers, Busy(w), Throw(w)
    PROVE  /\ pc' \in [Workers -> Steps]
           /\ attempt' \in [Workers -> 0 .. MaxAttempts]
           /\ pc'[w] \in {"attempt", "deadLetter"}
           /\ \A v \in Workers \ {w} : pc'[v] = pc[v]
<1>1. CASE attempt[w] < MaxAttempts
  <2>1. attempt[w] + 1 \in 0 .. MaxAttempts
    BY <1>1, BoundAssumption DEF TypeOK
  <2>2. attempt' \in [Workers -> 0 .. MaxAttempts]
    BY <1>1, <2>1 DEF TypeOK, Throw
  <2> QED
    BY <1>1, <2>2 DEF TypeOK, Throw, Goto, Steps
<1>2. CASE ~ (attempt[w] < MaxAttempts)
  BY <1>2 DEF TypeOK, Throw, Goto, Steps
<1> QED
  BY <1>1, <1>2

\* The same for a call that returns or whose acknowledgement is lost.
LEMMA OutcomeType ==
    ASSUME TypeInv, NEW w \in Workers, Busy(w), NEW step \in Steps,
           Proceed(w, step) \/ AckLost(w), UNCHANGED msg
    PROVE  /\ pc' \in [Workers -> Steps]
           /\ attempt' \in [Workers -> 0 .. MaxAttempts]
           /\ faults' \in 0 .. MaxFaults
           /\ HasMessage'
<1>1. CASE Proceed(w, step)
  BY <1>1 DEF Proceed, Goto, TypeInv, TypeOK, HasMessage, Busy
<1>2. CASE AckLost(w)
  <2>1. faults' \in 0 .. MaxFaults
    BY <1>2, BoundAssumption DEF AckLost, Fault, TypeInv, TypeOK
  <2> QED
    BY <1>2, <2>1, ThrowType DEF AckLost, TypeInv, HasMessage, Busy
<1> QED
  BY <1>1, <1>2

\* The type layer holds before the first message is read.
LEMMA TypeInit == Init => TypeInv
  BY BoundAssumption DEF Init, TypeInv, TypeOK, HasMessage, Busy, Steps

\* Every action of the processor, and stuttering, keeps the type layer.
LEMMA TypeNext == TypeInv /\ [Next]_vars => TypeInv'
<1> SUFFICES ASSUME TypeInv, [Next]_vars
             PROVE  TypeInv'
  OBVIOUS
<1> USE DEF TypeInv, broker, stores, locals
<1>1. ASSUME NEW p \in Partitions, NEW w \in Workers, Assign(p, w)
      PROVE  TypeInv'
  BY <1>1 DEF Assign, TypeOK, HasMessage, Busy
<1>2. ASSUME NEW p \in Partitions, Revoke(p)
      PROVE  TypeInv'
  BY <1>2, BoundAssumption DEF Revoke, Fault, TypeOK, HasMessage, Busy
<1>3. ASSUME NEW w \in Workers, Crash(w)
      PROVE  TypeInv'
  BY <1>3, BoundAssumption
     DEF Crash, Leave, Release, Goto, Fault, TypeOK, HasMessage, Busy, Steps
<1>4. ASSUME NEW w \in Workers, Restart(w)
      PROVE  TypeInv'
  BY <1>4 DEF Restart, Goto, TypeOK, HasMessage, Busy, Steps
<1>5. ASSUME NEW p \in Partitions, NEW w \in Workers, Consume(p, w)
      PROVE  TypeInv'
  <2>1. committed[p] \in Nat /\ committed[p] + 1 \in 1 .. Len(Log[p])
    BY <1>5, LogAssumption DEF Consume, TypeOK
  <2>2. [part |-> p, offset |-> committed[p] + 1] \in Messages
    BY <2>1, MessageAt
  <2> QED
    BY <1>5, <2>2, BoundAssumption
       DEF Consume, Goto, TypeOK, HasMessage, Busy, Steps
<1>6. ASSUME NEW w \in Workers, BeginAttempt(w)
      PROVE  TypeInv'
  <2>1. Busy(w)
    BY <1>6 DEF BeginAttempt, Busy
  <2>2. CASE Throw(w)
    BY <1>6, <2>1, <2>2, ThrowType
       DEF BeginAttempt, TypeOK, HasMessage, Busy
  <2>3. CASE (Goto(w, "deadLetter") \/ Goto(w, "claim")) /\ UNCHANGED attempt
    BY <1>6, <2>1, <2>3
       DEF BeginAttempt, Goto, TypeOK, HasMessage, Busy, Steps, HandlerCalls
  <2> QED
    BY <1>6, <2>2, <2>3 DEF BeginAttempt
<1>7. ASSUME NEW w \in Workers, DeadLetter(w)
      PROVE  TypeInv'
  <2>1. msg[w] \in Messages
    BY <1>7 DEF DeadLetter, HasMessage, Busy
  <2>2. deadLetters' \subseteq [message : Messages, poison : BOOLEAN]
    <3>1. (Event(w) \in Invalid \ Malformed) \in BOOLEAN
      OBVIOUS
    <3>2. ASSUME NEW b \in BOOLEAN
          PROVE  [message |-> msg[w], poison |-> b]
                     \in [message : Messages, poison : BOOLEAN]
      BY <2>1
    <3> QED
      BY <1>7, <3>1, <3>2, Zenon DEF DeadLetter, TypeOK
  <2>3. "commit" \in Steps
    BY DEF Steps
  <2> QED
    BY <1>7, <2>2, <2>3
       DEF DeadLetter, Proceed, Goto, TypeOK, HasMessage, Busy
<1>8. ASSUME NEW w \in Workers, Commit(w)
      PROVE  TypeInv'
  <2>1. msg[w] \in Messages
    BY <1>8 DEF Commit, HasMessage, Busy
  <2>2. msg[w].offset \in Nat
    BY <2>1, MessageFacts
  <2>3. committed' \in [Partitions -> Nat]
    BY <1>8, <2>2 DEF Commit, TypeOK
  <2>4. attempt' \in [Workers -> 0 .. MaxAttempts]
    BY <1>8, BoundAssumption DEF Commit, Release, TypeOK
  <2> QED
    BY <1>8, <2>3, <2>4
       DEF Commit, Release, Goto, TypeOK, HasMessage, Busy, Steps
<1>9. ASSUME NEW w \in Workers, CommitRejected(w)
      PROVE  TypeInv'
  BY <1>9, BoundAssumption
     DEF CommitRejected, Leave, Release, Goto, TypeOK, HasMessage, Busy, Steps
<1>10. ASSUME NEW w \in Workers, CallFails(w)
       PROVE  TypeInv'
  <2>1. Busy(w)
    BY <1>10 DEF CallFails, Busy, HandlerCalls, ClaimHeld
  <2>2. AckLost(w) /\ UNCHANGED msg /\ "commit" \in Steps
    BY <1>10 DEF CallFails, AckLost, Steps
  <2> QED
    BY <1>10, <2>1, <2>2, OutcomeType DEF CallFails, TypeOK
<1>11. ASSUME NEW w \in Workers, SkipDuplicate(w)
       PROVE  TypeInv'
  BY <1>11 DEF SkipDuplicate, Proceed, Goto, TypeOK, HasMessage, Busy, Steps
<1>12. ASSUME NEW w \in Workers, Claim(w)
       PROVE  TypeInv'
  <2>1. Busy(w) /\ msg[w] \in Messages
    BY <1>12 DEF Claim, Busy, HasMessage
  <2>2. inbox' \in [Events -> {"absent", "claimed", "completed"}]
    BY <1>12, <2>1, MessageFacts DEF Claim, TypeOK, Event
  <2>3. CASE Goto(w, "commit") /\ Fault /\ UNCHANGED attempt
    BY <1>12, <2>1, <2>2, <2>3, BoundAssumption
       DEF Claim, Goto, Fault, TypeOK, HasMessage, Busy, Steps
  <2>4. CASE Proceed(w, "exists") \/ AckLost(w)
    <3>1. "exists" \in Steps
      BY DEF Steps, HandlerCalls, ClaimHeld
    <3> QED
      BY <1>12, <2>1, <2>2, <2>4, <3>1, OutcomeType DEF Claim, TypeOK
  <2> QED
    BY <1>12, <2>3, <2>4 DEF Claim
<1>13. ASSUME NEW w \in Workers, CheckExists(w)
       PROVE  TypeInv'
  BY <1>13
     DEF CheckExists, Proceed, Goto, TypeOK, HasMessage, Busy, Steps,
         HandlerCalls, ClaimHeld
<1>14. ASSUME NEW w \in Workers, Score(w)
       PROVE  TypeInv'
  <2>1. Busy(w) /\ msg[w] \in Messages
    BY <1>14 DEF Score, Busy, HasMessage
  <2>2. velocity' \subseteq Transactions
    BY <1>14, <2>1, MessageFacts DEF Score, TypeOK, Tx, Event
  <2>3. verdict' \in [Workers -> Decisions \union {Undecided}]
    BY <1>14 DEF Score, TypeOK
  <2>4. "save" \in Steps
    BY DEF Steps, HandlerCalls, ClaimHeld
  <2>5. Proceed(w, "save") \/ AckLost(w)
    BY <1>14 DEF Score
  <2> QED
    BY <1>14, <2>1, <2>2, <2>3, <2>4, <2>5, OutcomeType DEF Score, TypeOK
<1>15. ASSUME NEW w \in Workers, SaveDecision(w)
       PROVE  TypeInv'
  <2>1. Busy(w) /\ msg[w] \in Messages
    BY <1>15 DEF SaveDecision, Busy, HasMessage
  <2>2. decision' \in [Transactions -> Decisions \union {Undecided}]
    BY <1>15, <2>1, MessageFacts DEF SaveDecision, TypeOK, Tx, Event
  <2>3. "enqueueValidated" \in Steps
    BY DEF Steps, HandlerCalls, ClaimHeld
  <2> QED
    BY <1>15, <2>1, <2>2, <2>3, OutcomeType DEF SaveDecision, TypeOK
<1>16. ASSUME NEW w \in Workers, NEW topic \in Topics, NEW next \in Steps,
              NEW v \in Decisions \union {Undecided},
              Busy(w), Enqueue(w, topic, v, next)
       PROVE  TypeInv'
  <2>1. msg[w] \in Messages
    BY <1>16 DEF HasMessage
  <2>2. [topic |-> topic, event |-> Event(w), verdict |-> v] \in Row
    BY <2>1, MessageFacts DEF Row, Event
  <2>3. outbox' \in Seq(Row)
    BY <1>16, <2>2 DEF Enqueue, TypeOK
  <2> QED
    BY <1>16, <2>3, OutcomeType DEF Enqueue, TypeOK
<1>17. ASSUME NEW w \in Workers,
              EnqueueValidated(w) \/ EnqueueDecision(w) \/ EnqueueAlert(w)
       PROVE  TypeInv'
  <2>1. Busy(w)
    BY <1>17 DEF EnqueueValidated, EnqueueDecision, EnqueueAlert, Busy
  <2>2. {"enqueueDecision", "enqueueAlert", "complete"} \subseteq Steps
    BY DEF Steps, HandlerCalls, ClaimHeld
  <2>3. verdict[w] \in Decisions \union {Undecided}
    BY DEF TypeOK
  <2> QED
    BY <1>16, <1>17, <2>1, <2>2, <2>3
       DEF EnqueueValidated, EnqueueDecision, EnqueueAlert, Topics
<1>18. ASSUME NEW w \in Workers, Complete(w)
       PROVE  TypeInv'
  <2>1. Busy(w) /\ msg[w] \in Messages
    BY <1>18 DEF Complete, Busy, HasMessage
  <2>2. inbox' \in [Events -> {"absent", "claimed", "completed"}]
    BY <1>18, <2>1, MessageFacts DEF Complete, TypeOK, Event
  <2>3. "commit" \in Steps
    BY DEF Steps
  <2> QED
    BY <1>18, <2>1, <2>2, <2>3, OutcomeType DEF Complete, TypeOK
<1>19. ASSUME NEW w \in Workers, ClaimRefused(w)
       PROVE  TypeInv'
  BY <1>19, BoundAssumption
     DEF ClaimRefused, Fault, Goto, TypeOK, HasMessage, Busy, Steps
<1>20. CASE UNCHANGED vars
  BY <1>20 DEF vars, TypeOK, HasMessage, Busy
<1> QED
  BY <1>1, <1>2, <1>3, <1>4, <1>5, <1>6, <1>7, <1>8, <1>9, <1>10, <1>11,
     <1>12, <1>13, <1>14, <1>15, <1>17, <1>18, <1>19, <1>20
     DEF Next, Handle, Idle

\* Every state the processor reaches is well typed, and a worker past Consume
\* is handling a message of the log.
THEOREM TypeCorrect == Spec => []TypeInv
<1>1. Init => TypeInv
  BY TypeInit
<1>2. TypeInv /\ [Next]_vars => TypeInv'
  BY TypeNext
<1> QED
  BY <1>1, <1>2, PTL DEF Spec

\* The declared types hold in every reachable state, for every log and every
\* number of workers, attempts and faults: in particular ProcessWithRetryAsync
\* never makes more than RetryCount attempts.
THEOREM TypeSafety == Spec => []TypeOK
<1>1. TypeInv => TypeOK
  BY DEF TypeInv
<1> QED
  BY <1>1, TypeCorrect, PTL

-----------------------------------------------------------------------------
(* Layer 2: claims.  Only a payload that passed validation reaches the     *)
(* inbox, and a claim has one holder.                                      *)

ValidHandled ==
    \A w \in Workers : pc[w] \in HandlerCalls => Event(w) \notin Malformed \union Invalid

ValidClaimed ==
    \A e \in Events : inbox[e] # "absent" => e \notin Malformed \union Invalid

ClaimInv == ValidHandled /\ ValidClaimed /\ ClaimExclusive

\* A step that leaves the inbox alone and lets no worker into the handler, or
\* past TryBeginAsync, keeps the claims in order.
LEMMA ClaimFrame ==
    ASSUME TypeInv, ClaimInv, inbox' = inbox,
           \A v \in Workers :
               pc'[v] \in HandlerCalls => pc[v] \in HandlerCalls /\ msg'[v] = msg[v],
           \A v \in Workers : pc'[v] \in ClaimHeld => pc[v] \in ClaimHeld
    PROVE  ClaimInv'
<1>1. ClaimHeld \subseteq HandlerCalls
  BY DEF HandlerCalls
<1>2. \A v \in Workers : pc'[v] \in HandlerCalls => Event(v)' = Event(v)
  BY DEF Event, EventAt
<1> QED
  BY <1>1, <1>2
     DEF ClaimInv, ValidHandled, ValidClaimed, ClaimExclusive, Holds

\* A worker inside the handler goes on inside it, or leaves it.
LEMMA ProceedClaims ==
    ASSUME TypeInv, ClaimInv, inbox' = inbox, msg' = msg,
           NEW w \in Workers, Holds(w), NEW step \in Steps,
           Proceed(w, step) \/ AckLost(w)
    PROVE  ClaimInv'
<1>1. \A v \in Workers : v # w => pc'[v] = pc[v]
  <2>1. CASE Proceed(w, step)
    BY <2>1 DEF Proceed, Goto, TypeInv, TypeOK
  <2>2. CASE AckLost(w)
    BY <2>2 DEF AckLost, Throw, Goto, TypeInv, TypeOK
  <2> QED
    BY <2>1, <2>2
<1>2. pc[w] \in ClaimHeld /\ pc[w] \in HandlerCalls
  BY DEF Holds, HandlerCalls
<1> QED
  BY <1>1, <1>2, ClaimFrame

\* The inbox starts empty and nobody holds a claim.
LEMMA ClaimInit == Init => ClaimInv
  BY DEF Init, ClaimInv, ValidHandled, ValidClaimed, ClaimExclusive, Holds,
         HandlerCalls, ClaimHeld

\* Every action keeps the claims valid and exclusive.  Claim is the one that adds
\* a holder: it finds the row absent, so there is no other.
LEMMA ClaimNext == TypeInv /\ ClaimInv /\ [Next]_vars => ClaimInv'
<1> SUFFICES ASSUME TypeInv, ClaimInv, [Next]_vars
             PROVE  ClaimInv'
  OBVIOUS
<1> USE DEF broker, stores, locals
<1>1. ASSUME NEW p \in Partitions, NEW w \in Workers, Assign(p, w)
      PROVE  ClaimInv'
  BY <1>1, ClaimFrame DEF Assign
<1>2. ASSUME NEW p \in Partitions, Revoke(p)
      PROVE  ClaimInv'
  BY <1>2, ClaimFrame DEF Revoke
<1>3. ASSUME NEW w \in Workers, Crash(w)
      PROVE  ClaimInv'
  BY <1>3, ClaimFrame
     DEF Crash, Leave, Release, Goto, TypeInv, TypeOK, HandlerCalls, ClaimHeld
<1>4. ASSUME NEW w \in Workers, Restart(w)
      PROVE  ClaimInv'
  BY <1>4, ClaimFrame DEF Restart, Goto, TypeInv, TypeOK, HandlerCalls, ClaimHeld
<1>5. ASSUME NEW p \in Partitions, NEW w \in Workers, Consume(p, w)
      PROVE  ClaimInv'
  BY <1>5, ClaimFrame DEF Consume, Goto, TypeInv, TypeOK, HandlerCalls, ClaimHeld
<1>6. ASSUME NEW w \in Workers, BeginAttempt(w)
      PROVE  ClaimInv'
  <2>1. inbox' = inbox /\ msg' = msg
    BY <1>6 DEF BeginAttempt
  <2>2. \A v \in Workers : v # w => pc'[v] = pc[v]
    BY <1>6 DEF BeginAttempt, Throw, Goto, TypeInv, TypeOK
  <2>3. pc'[w] \in {"attempt", "deadLetter", "claim"}
    BY <1>6 DEF BeginAttempt, Throw, Goto, TypeInv, TypeOK
  <2>4. pc'[w] = "claim" => Event(w) \notin Malformed \union Invalid
    BY <1>6 DEF BeginAttempt, Throw, Goto, TypeInv, TypeOK
  <2>5. \A v \in Workers : Event(v)' = Event(v)
    BY <2>1 DEF Event, EventAt
  <2> QED
    BY <2>1, <2>2, <2>3, <2>4, <2>5
       DEF ClaimInv, ValidHandled, ValidClaimed, ClaimExclusive, Holds,
           HandlerCalls, ClaimHeld
<1>7. ASSUME NEW w \in Workers, DeadLetter(w)
      PROVE  ClaimInv'
  BY <1>7, ClaimFrame
     DEF DeadLetter, Proceed, Goto, TypeInv, TypeOK, HandlerCalls, ClaimHeld
<1>8. ASSUME NEW w \in Workers, Commit(w) \/ CommitRejected(w)
      PROVE  ClaimInv'
  BY <1>8, ClaimFrame
     DEF Commit, CommitRejected, Leave, Release, Goto, TypeInv, TypeOK,
         HandlerCalls, ClaimHeld
<1>9. ASSUME NEW w \in Workers, CallFails(w)
      PROVE  ClaimInv'
  <2>1. pc'[w] \in {"attempt", "deadLetter"}
    BY <1>9 DEF CallFails, Throw, Goto, TypeInv, TypeOK
  <2>2. \A v \in Workers : v # w => pc'[v] = pc[v]
    BY <1>9 DEF CallFails, Throw, Goto, TypeInv, TypeOK
  <2> QED
    BY <1>9, <2>1, <2>2, ClaimFrame DEF CallFails, HandlerCalls, ClaimHeld
<1>10. ASSUME NEW w \in Workers, SkipDuplicate(w) \/ ClaimRefused(w)
       PROVE  ClaimInv'
  BY <1>10, ClaimFrame
     DEF SkipDuplicate, ClaimRefused, Proceed, Goto, TypeInv, TypeOK, HandlerCalls, ClaimHeld
<1>11. ASSUME NEW w \in Workers, Claim(w)
       PROVE  ClaimInv'
  <2>1. Event(w) \in Events /\ Event(w) \notin Malformed \union Invalid
    BY <1>11, MessageFacts
       DEF Claim, TypeInv, HasMessage, Busy, Event, ClaimInv, ValidHandled,
           HandlerCalls
  <2>2. /\ inbox[Event(w)] = "absent"
        /\ inbox' = [inbox EXCEPT ![Event(w)] = "claimed"]
        /\ msg' = msg
    BY <1>11 DEF Claim
  <2>3. /\ \A v \in Workers : v # w => pc'[v] = pc[v]
        /\ pc'[w] \in {"exists", "commit", "attempt", "deadLetter"}
    BY <1>11 DEF Claim, Proceed, AckLost, Throw, Goto, TypeInv, TypeOK
  <2>4. \A v \in Workers : Event(v)' = Event(v)
    BY <2>2 DEF Event, EventAt
  <2>5. /\ inbox'[Event(w)] = "claimed"
        /\ \A e \in Events : e # Event(w) => inbox'[e] = inbox[e]
    BY <2>1, <2>2 DEF TypeInv, TypeOK
  \* Nobody else can hold a claim on an event whose row is absent.
  <2>6. \A v \in Workers : pc[v] \in ClaimHeld
            => /\ Event(v) # Event(w) /\ Event(v) \in Events
               /\ inbox[Event(v)] = "claimed" /\ v # w
    BY <1>11, <2>2, MessageFacts
       DEF ClaimInv, ClaimExclusive, Holds, TypeInv, HasMessage, Busy, Event,
           Claim, ClaimHeld
  <2>7. ValidHandled'
    BY <2>1, <2>3, <2>4
       DEF ClaimInv, ValidHandled, HandlerCalls, ClaimHeld
  <2>8. ValidClaimed'
    BY <2>1, <2>5 DEF ClaimInv, ValidClaimed
  <2>9. \A v \in Workers : pc'[v] \in ClaimHeld => v = w \/ pc[v] \in ClaimHeld
    BY <2>3
  <2>10. ClaimExclusive'
    <3>1. SUFFICES ASSUME NEW u \in Workers, NEW v \in Workers, Holds(v)'
                   PROVE  /\ inbox'[Event(v)] = "claimed"
                          /\ Holds(u)' /\ Event(u) = Event(v) => u = v
      BY <2>4 DEF ClaimExclusive
    <3> QED
      BY <3>1, <2>5, <2>6, <2>9
         DEF ClaimInv, ClaimExclusive, Holds
  <2> QED
    BY <2>7, <2>8, <2>10 DEF ClaimInv
<1>12. ASSUME NEW w \in Workers, CheckExists(w)
       PROVE  ClaimInv'
  BY <1>12, ProceedClaims DEF CheckExists, Holds, Steps, HandlerCalls, ClaimHeld
<1>13. ASSUME NEW w \in Workers, Score(w) \/ SaveDecision(w)
       PROVE  ClaimInv'
  BY <1>13, ProceedClaims
     DEF Score, SaveDecision, Proceed, Holds, Steps, HandlerCalls, ClaimHeld
<1>14. ASSUME NEW w \in Workers,
              EnqueueValidated(w) \/ EnqueueDecision(w) \/ EnqueueAlert(w)
       PROVE  ClaimInv'
  BY <1>14, ProceedClaims
     DEF EnqueueValidated, EnqueueDecision, EnqueueAlert, Enqueue, Holds,
         Steps, HandlerCalls, ClaimHeld
<1>15. ASSUME NEW w \in Workers, Complete(w)
       PROVE  ClaimInv'
  <2>1. Event(w) \in Events /\ inbox[Event(w)] = "claimed" /\ pc[w] \in ClaimHeld
    BY <1>15, MessageFacts
       DEF Complete, TypeInv, HasMessage, Busy, Event, ClaimInv,
           ClaimExclusive, Holds, ClaimHeld
  <2>2. inbox' = [inbox EXCEPT ![Event(w)] = "completed"] /\ msg' = msg
    BY <1>15 DEF Complete
  <2>3. /\ \A v \in Workers : v # w => pc'[v] = pc[v]
        /\ pc'[w] \in {"commit", "attempt", "deadLetter"}
    BY <1>15 DEF Complete, Proceed, AckLost, Throw, Goto, TypeInv, TypeOK
  <2>4. \A v \in Workers : Event(v)' = Event(v)
    BY <2>2 DEF Event, EventAt
  <2>5. \A v \in Workers : pc'[v] \in ClaimHeld => v # w /\ pc[v] \in ClaimHeld
    BY <2>3 DEF ClaimHeld
  <2>6. \A e \in Events : e # Event(w) => inbox'[e] = inbox[e]
    BY <2>2 DEF TypeInv, TypeOK
  <2>7. ValidHandled'
    BY <2>3, <2>4 DEF ClaimInv, ValidHandled, HandlerCalls, ClaimHeld
  <2>8. ValidClaimed'
    BY <2>1, <2>6 DEF ClaimInv, ValidClaimed
  \* The worker that completes was the only holder.
  <2>9. \A v \in Workers : pc'[v] \in ClaimHeld => Event(v) # Event(w)
    BY <2>1, <2>5 DEF ClaimInv, ClaimExclusive, Holds
  <2>10. ClaimExclusive'
    <3>1. \A v \in Workers : pc[v] \in ClaimHeld => Event(v) \in Events
      BY MessageFacts DEF TypeInv, HasMessage, Busy, Event, ClaimHeld
    <3> QED
      BY <2>4, <2>5, <2>6, <2>9, <3>1
         DEF ClaimInv, ClaimExclusive, Holds
  <2> QED
    BY <2>7, <2>8, <2>10 DEF ClaimInv
<1>16. CASE UNCHANGED vars
  BY <1>16, ClaimFrame DEF vars
<1> QED
  BY <1>1, <1>2, <1>3, <1>4, <1>5, <1>6, <1>7, <1>8, <1>9, <1>10, <1>11,
     <1>12, <1>13, <1>14, <1>15, <1>16
     DEF Next, Handle, Idle

\* Only validated payloads are handled and claimed, and a claim has one holder.
THEOREM ClaimsInvariant == Spec => [](TypeInv /\ ClaimInv)
<1>1. Init => ClaimInv
  BY ClaimInit
<1>2. TypeInv /\ ClaimInv /\ [Next]_vars => ClaimInv'
  BY ClaimNext
<1> QED
  BY <1>1, <1>2, TypeCorrect, PTL DEF Spec

\* However the group is rebalanced and however often a message is delivered, at
\* most one worker is past TryBeginAsync for an EventId.
THEOREM ClaimSafety == Spec => []ClaimExclusive
<1>1. ClaimInv => ClaimExclusive
  BY DEF ClaimInv
<1> QED
  BY <1>1, ClaimsInvariant, PTL

-----------------------------------------------------------------------------
(* The stores only grow.                                                   *)

\* What a step may do to the stores: dead letters and claims stay, decisions
\* stay as they are.
StoresGrow ==
    /\ deadLetters \subseteq deadLetters'
    /\ \A e \in Events : inbox[e] # "absent" => inbox'[e] # "absent"
    /\ \A t \in Transactions :
           decision[t] # Undecided => decision'[t] = decision[t]

\* No action takes back an inbox row or changes a decision once it is there.
LEMMA StoresGrowNext == TypeInv /\ [Next]_vars => StoresGrow
<1> SUFFICES ASSUME TypeInv, [Next]_vars
             PROVE  StoresGrow
  OBVIOUS
<1> USE DEF broker, stores, locals
<1>1. CASE UNCHANGED <<deadLetters, inbox, decision>>
  BY <1>1 DEF StoresGrow
<1>2. ASSUME NEW w \in Workers, DeadLetter(w)
      PROVE  StoresGrow
  BY <1>2 DEF DeadLetter, StoresGrow
<1>3. ASSUME NEW w \in Workers, Claim(w) \/ Complete(w)
      PROVE  StoresGrow
  BY <1>3 DEF Claim, Complete, StoresGrow, TypeInv, TypeOK
<1>4. ASSUME NEW w \in Workers, SaveDecision(w)
      PROVE  StoresGrow
  BY <1>4 DEF SaveDecision, StoresGrow, TypeInv, TypeOK
<1>5. ASSUME NEW p \in Partitions, NEW w \in Workers, Assign(p, w) \/ Consume(p, w)
      PROVE  UNCHANGED <<deadLetters, inbox, decision>>
  BY <1>5 DEF Assign, Consume
<1>6. ASSUME NEW p \in Partitions, Revoke(p)
      PROVE  UNCHANGED <<deadLetters, inbox, decision>>
  BY <1>6 DEF Revoke
<1>7. ASSUME NEW w \in Workers,
             \/ CallFails(w) \/ Crash(w) \/ Restart(w) \/ BeginAttempt(w)
             \/ Commit(w) \/ CommitRejected(w) \/ SkipDuplicate(w)
             \/ ClaimRefused(w) \/ CheckExists(w) \/ Score(w)
             \/ EnqueueValidated(w) \/ EnqueueDecision(w) \/ EnqueueAlert(w)
      PROVE  UNCHANGED <<deadLetters, inbox, decision>>
  BY <1>7
     DEF CallFails, Crash, Restart, BeginAttempt, Commit, CommitRejected,
         SkipDuplicate, ClaimRefused, CheckExists, Score, EnqueueValidated,
         EnqueueDecision, EnqueueAlert, Enqueue
<1>8. CASE UNCHANGED vars
  BY <1>8 DEF StoresGrow, vars
<1> QED
  BY <1>1, <1>2, <1>3, <1>4, <1>5, <1>6, <1>7, <1>8 DEF Next, Handle, Idle

\* risk_decisions is append-only, whatever races, retries and redeliveries do.
THEOREM DecisionsImmutable == Spec => DecisionImmutable
<1>1. TypeInv /\ [Next]_vars
          => [\A t \in Transactions :
                  decision[t] # Undecided => decision'[t] = decision[t]]_vars
  BY StoresGrowNext DEF StoresGrow
<1> QED
  BY <1>1, TypeCorrect, PTL DEF Spec, DecisionImmutable

-----------------------------------------------------------------------------
(* Layer 3: positions and traces.                                          *)

\* The owner of a partition handles the message after the committed offset.
AtNextOffset ==
    \A w \in Workers :
        Busy(w) /\ owner[msg[w].part] = w
            => msg[w].offset = committed[msg[w].part] + 1

\* The trace a rejected payload leaves: its dead letter.  (A valid one may leave
\* none: its claim may have been refused.)
Traced(m) == EventAt(m) \in Malformed \union Invalid => DeadLettered(m)

CommittedIsTraced ==
    \A m \in Messages : m.offset <= committed[m.part] => Traced(m)

\* A rejected message is traced before its offset can be committed.
TracedAtCommit == \A w \in Workers : pc[w] = "commit" => Traced(msg[w])

PoisonLabel ==
    \A d \in deadLetters : d.poison => EventAt(d.message) \in Invalid \ Malformed

TraceInv == AtNextOffset /\ TracedAtCommit /\ CommittedIsTraced /\ PoisonLabel

\* A trace is never lost: dead letters are not removed.
LEMMA TracedStable ==
    ASSUME StoresGrow, NEW m \in Messages, Traced(m)
    PROVE  Traced(m)'
<1>1. EventAt(m)' = EventAt(m)
  BY DEF EventAt
<1> QED
  BY <1>1 DEF StoresGrow, Traced, DeadLettered

\* A step that commits nothing, adds no dead letter, and brings no worker to
\* the commit keeps the layer, provided it keeps the positions.
LEMMA TraceFrame ==
    ASSUME TypeInv, TraceInv, StoresGrow, AtNextOffset',
           committed' = committed, deadLetters' = deadLetters,
           \A v \in Workers :
               pc'[v] = "commit" => pc[v] = "commit" /\ msg'[v] = msg[v]
    PROVE  TraceInv'
<1>1. TracedAtCommit'
  <2> SUFFICES ASSUME NEW v \in Workers, pc'[v] = "commit"
               PROVE  Traced(msg[v])'
    BY DEF TracedAtCommit
  <2>1. msg[v] \in Messages /\ Traced(msg[v])
    BY DEF TypeInv, HasMessage, Busy, TraceInv, TracedAtCommit
  <2>2. Traced(msg[v])' <=> \E m \in {msg[v]} : Traced(m)'
    BY DEF Traced, DeadLettered, EventAt
  <2> QED
    BY <2>1, <2>2, TracedStable
<1>2. CommittedIsTraced'
  BY TracedStable DEF TraceInv, CommittedIsTraced
<1>3. PoisonLabel'
  BY DEF TraceInv, PoisonLabel, EventAt
<1> QED
  BY <1>1, <1>2, <1>3 DEF TraceInv

\* Positions depend on owner, committed offset and message only.
LEMMA PositionFrame ==
    ASSUME AtNextOffset, committed' = committed,
           \A v \in Workers :
               Busy(v)' => /\ Busy(v) /\ msg'[v] = msg[v]
                           /\ owner'[msg[v].part] = v => owner[msg[v].part] = v
    PROVE  AtNextOffset'
  BY DEF AtNextOffset

\* Nothing is committed and nothing is in flight at the start.
LEMMA TraceInit == Init => TraceInv
<1> SUFFICES ASSUME Init
             PROVE  TraceInv
  OBVIOUS
<1>1. AtNextOffset /\ TracedAtCommit /\ PoisonLabel
  BY DEF Init, AtNextOffset, TracedAtCommit, PoisonLabel, Busy
<1>2. \A m \in Messages : ~ (m.offset <= committed[m.part])
  <2> SUFFICES ASSUME NEW m \in Messages
               PROVE  ~ (m.offset <= committed[m.part])
    OBVIOUS
  <2>1. m.part \in Partitions /\ m.offset \in 1 .. Len(Log[m.part])
    BY MessageFacts
  <2>2. Log[m.part] \in Seq(Events)
    BY <2>1, LogAssumption
  <2> QED
    BY <2>1, <2>2 DEF Init
<1> QED
  BY <1>1, <1>2 DEF TraceInv, CommittedIsTraced

\* Every action keeps the trace layer.  DeadLetter brings a worker to the commit
\* after leaving the trace; SkipDuplicate, ClaimRefused, Claim and Complete bring
\* it there with a valid event, which owes none.
LEMMA TraceNext == TypeInv /\ ClaimInv /\ TraceInv /\ [Next]_vars => TraceInv'
<1> SUFFICES ASSUME TypeInv, ClaimInv, TraceInv, [Next]_vars
             PROVE  TraceInv'
  OBVIOUS
<1> USE DEF broker, stores, locals
<1>0. StoresGrow /\ AtNextOffset
  BY StoresGrowNext DEF TraceInv
<1>1. ASSUME NEW p \in Partitions, NEW w \in Workers, Assign(p, w)
      PROVE  TraceInv'
  <2>1. \A v \in Workers : Busy(v)' =>
            /\ Busy(v) /\ msg'[v] = msg[v] /\ msg[v].part \in Partitions
            /\ owner'[msg[v].part] = v => owner[msg[v].part] = v
    BY <1>1, MessageFacts DEF Assign, Busy, TypeInv, TypeOK, HasMessage
  <2>2. AtNextOffset'
    BY <1>0, <1>1, <2>1, PositionFrame DEF Assign
  <2> QED
    BY <1>0, <1>1, <2>2, TraceFrame DEF Assign
<1>2. ASSUME NEW p \in Partitions, Revoke(p)
      PROVE  TraceInv'
  <2>1. \A v \in Workers : Busy(v)' =>
            /\ Busy(v) /\ msg'[v] = msg[v]
            /\ owner'[msg[v].part] = v => owner[msg[v].part] = v
    BY <1>2, MessageFacts, NullAssumption
       DEF Revoke, Busy, TypeInv, TypeOK, HasMessage
  <2>2. AtNextOffset'
    BY <1>0, <1>2, <2>1, PositionFrame DEF Revoke
  <2> QED
    BY <1>0, <1>2, <2>2, TraceFrame DEF Revoke
<1>3. ASSUME NEW w \in Workers, Crash(w) \/ CommitRejected(w)
      PROVE  TraceInv'
  <2>1. \A v \in Workers : Busy(v)' =>
            /\ Busy(v) /\ msg'[v] = msg[v] /\ pc'[v] = pc[v]
            /\ owner'[msg[v].part] = v => owner[msg[v].part] = v
    BY <1>3, MessageFacts, NullAssumption
       DEF Crash, CommitRejected, Leave, Release, Goto, Busy, TypeInv, TypeOK,
           HasMessage
  <2>2. committed' = committed /\ deadLetters' = deadLetters
    BY <1>3 DEF Crash, CommitRejected
  <2>3. AtNextOffset'
    BY <1>0, <2>1, <2>2, PositionFrame
  <2> QED
    BY <1>0, <2>1, <2>2, <2>3, TraceFrame DEF Busy
<1>4. ASSUME NEW w \in Workers, Restart(w)
      PROVE  TraceInv'
  <2>1. \A v \in Workers : Busy(v)' => Busy(v) /\ pc'[v] = pc[v]
    BY <1>4 DEF Restart, Goto, Busy, TypeInv, TypeOK
  <2>2. AtNextOffset'
    BY <1>0, <1>4, <2>1, PositionFrame DEF Restart
  <2> QED
    BY <1>0, <1>4, <2>1, <2>2, TraceFrame DEF Restart, Busy
<1>5. ASSUME NEW p \in Partitions, NEW w \in Workers, Consume(p, w)
      PROVE  TraceInv'
  <2>1. \A v \in Workers : v # w => pc'[v] = pc[v] /\ msg'[v] = msg[v]
    BY <1>5 DEF Consume, Goto, TypeInv, TypeOK
  <2>2. /\ pc'[w] = "attempt"
        /\ msg'[w] = [part |-> p, offset |-> committed[p] + 1]
    BY <1>5 DEF Consume, Goto, TypeInv, TypeOK
  <2>3. AtNextOffset'
    BY <1>0, <1>5, <2>1, <2>2 DEF Consume, AtNextOffset, Busy
  <2> QED
    BY <1>0, <1>5, <2>1, <2>2, <2>3, TraceFrame DEF Consume
\* A step of the handler that does not lead to the commit.
<1>6. ASSUME NEW w \in Workers, Busy(w), UNCHANGED <<broker, msg>>,
             \A v \in Workers : v # w => pc'[v] = pc[v],
             pc'[w] # "commit"
      PROVE  TraceInv'
  <2>1. AtNextOffset'
    BY <1>0, <1>6, PositionFrame DEF Busy
  <2> QED
    BY <1>0, <1>6, <2>1, TraceFrame
\* A step that leads to the commit of a traced message.
<1>7. ASSUME NEW w \in Workers, Busy(w), Traced(msg[w])',
             UNCHANGED <<committed, owner, msg>>, PoisonLabel',
             \A v \in Workers : v # w => pc'[v] = pc[v]
      PROVE  TraceInv'
  <2>1. AtNextOffset'
    BY <1>0, <1>7, PositionFrame DEF Busy
  <2>2. CommittedIsTraced'
    BY <1>0, <1>7, TracedStable DEF TraceInv, CommittedIsTraced
  <2>3. ASSUME NEW v \in Workers, pc'[v] = "commit", v # w
        PROVE  Traced(msg[v])'
    <3>1. msg[v] \in Messages /\ Traced(msg[v]) /\ msg'[v] = msg[v]
      BY <1>7, <2>3 DEF TypeInv, HasMessage, Busy, TraceInv, TracedAtCommit
    <3>2. Traced(msg[v])' <=> \E m \in {msg[v]} : Traced(m)'
      BY <3>1 DEF Traced, DeadLettered, EventAt
    <3> QED
      BY <1>0, <3>1, <3>2, TracedStable
  <2>4. TracedAtCommit'
    BY <1>7, <2>3 DEF TracedAtCommit
  <2> QED
    BY <1>7, <2>1, <2>2, <2>4 DEF TraceInv
<1>8. ASSUME NEW w \in Workers,
             \/ BeginAttempt(w) \/ CallFails(w) \/ CheckExists(w) \/ Score(w)
             \/ SaveDecision(w) \/ EnqueueValidated(w) \/ EnqueueDecision(w)
             \/ EnqueueAlert(w)
      PROVE  TraceInv'
  <2>1. Busy(w) /\ UNCHANGED <<broker, msg>>
    BY <1>8
       DEF BeginAttempt, CallFails, CheckExists, Score, SaveDecision,
           EnqueueValidated, EnqueueDecision, EnqueueAlert, Enqueue, Busy,
           HandlerCalls, ClaimHeld
  <2>2. /\ \A v \in Workers : v # w => pc'[v] = pc[v]
        /\ pc'[w] # "commit"
    BY <1>8
       DEF BeginAttempt, CallFails, CheckExists, Score, SaveDecision,
           EnqueueValidated, EnqueueDecision, EnqueueAlert, Enqueue, Proceed,
           AckLost, Throw, Goto, TypeInv, TypeOK
  <2> QED
    BY <1>6, <2>1, <2>2
<1>9. ASSUME NEW w \in Workers, DeadLetter(w)
      PROVE  TraceInv'
  <2>1. Busy(w) /\ UNCHANGED <<committed, owner, msg>>
    BY <1>9 DEF DeadLetter, Busy
  <2>2. \A v \in Workers : v # w => pc'[v] = pc[v]
    BY <1>9 DEF DeadLetter, Proceed, Goto, TypeInv, TypeOK
  <2> DEFINE poison == Event(w) \in Invalid \ Malformed
             dead == [message |-> msg[w], poison |-> poison]
  <2>5. deadLetters' = deadLetters \union {dead}
    BY <1>9 DEF DeadLetter
  <2>6. dead.message = msg[w] /\ dead.poison = poison
    OBVIOUS
  <2>7. poison => EventAt(msg[w]) \in Invalid \ Malformed
    BY DEF Event
  <2>3. Traced(msg[w])'
    <3> HIDE DEF dead
    <3> QED
      BY <2>1, <2>5, <2>6, Zenon DEF Traced, DeadLettered
  <2>4. PoisonLabel'
    <3> HIDE DEF dead, poison
    <3>1. \A d \in deadLetters' : d.poison => EventAt(d.message) \in Invalid \ Malformed
      BY <2>5, <2>6, <2>7, Zenon DEF TraceInv, PoisonLabel
    <3> QED
      BY <3>1 DEF PoisonLabel, EventAt
  <2> QED
    BY <1>7, <2>1, <2>2, <2>3, <2>4
<1>10. ASSUME NEW w \in Workers,
              SkipDuplicate(w) \/ ClaimRefused(w) \/ Claim(w) \/ Complete(w)
       PROVE  TraceInv'
  <2>1. Busy(w) /\ UNCHANGED <<broker, msg>> /\ pc[w] \in HandlerCalls
    BY <1>10
       DEF SkipDuplicate, ClaimRefused, Claim, Complete, Busy, HandlerCalls,
           ClaimHeld
  <2>2. \A v \in Workers : v # w => pc'[v] = pc[v]
    BY <1>10
       DEF SkipDuplicate, ClaimRefused, Claim, Complete, Proceed, AckLost,
           Throw, Goto, TypeInv, TypeOK
  <2>3. Event(w) \notin Malformed \union Invalid
    BY <2>1 DEF ClaimInv, ValidHandled
  <2>4. Traced(msg[w])'
    BY <2>1, <2>3 DEF Traced, Event, EventAt
  <2>5. PoisonLabel'
    BY <2>1 DEF TraceInv, PoisonLabel, EventAt
  <2> QED
    BY <1>7, <2>1, <2>2, <2>4, <2>5
<1>11. ASSUME NEW w \in Workers, Commit(w)
       PROVE  TraceInv'
  <2> DEFINE q == msg[w].part
  <2>1. /\ msg[w] \in Messages /\ Traced(msg[w])
        /\ q \in Partitions /\ owner[q] = w
        /\ msg[w].offset = committed[q] + 1
    BY <1>0, <1>11, MessageFacts
       DEF Commit, TypeInv, HasMessage, Busy, AtNextOffset, TraceInv,
           TracedAtCommit
  <2>2. committed' = [committed EXCEPT ![q] = committed[q] + 1]
    BY <1>11, <2>1 DEF Commit
  <2>3. /\ \A v \in Workers : v # w => pc'[v] = pc[v] /\ msg'[v] = msg[v]
        /\ pc'[w] = "consume"
        /\ owner' = owner /\ deadLetters' = deadLetters
    BY <1>11 DEF Commit, Release, Goto, TypeInv, TypeOK
  \* The other workers' positions are on other partitions.
  <2>4. AtNextOffset'
    <3> SUFFICES ASSUME NEW v \in Workers, Busy(v)', owner'[msg'[v].part] = v
                 PROVE  msg'[v].offset = committed'[msg'[v].part] + 1
      BY DEF AtNextOffset
    <3>1. v # w /\ Busy(v) /\ msg'[v] = msg[v] /\ owner[msg[v].part] = v
      BY <2>3 DEF Busy
    <3>2. msg[v].part # q /\ msg[v].part \in Partitions
      BY <2>1, <3>1, MessageFacts DEF TypeInv, HasMessage
    <3> QED
      BY <1>0, <2>2, <3>1, <3>2 DEF AtNextOffset, TypeInv, TypeOK
  <2>5. CommittedIsTraced'
    <3> SUFFICES ASSUME NEW m \in Messages, m.offset <= committed'[m.part]
                 PROVE  Traced(m)'
      BY DEF CommittedIsTraced
    <3>1. m.part \in Partitions /\ m.offset \in Nat
      BY MessageFacts
    <3>2. CASE m.offset <= committed[m.part]
      BY <1>0, <3>2, TracedStable DEF TraceInv, CommittedIsTraced
    <3>3. CASE ~ (m.offset <= committed[m.part])
      <4>1. m.part = q /\ m.offset = committed[q] + 1
        BY <2>1, <2>2, <3>1, <3>3 DEF TypeInv, TypeOK
      <4>2. EventAt(m) = EventAt(msg[w])
        BY <2>1, <4>1 DEF EventAt
      <4>3. m = msg[w]
        BY <2>1, <4>1 DEF Messages
      <4> QED
        BY <1>0, <2>1, <4>3, TracedStable
    <3> QED
      BY <3>2, <3>3
  <2>6. TracedAtCommit'
    <3> SUFFICES ASSUME NEW v \in Workers, pc'[v] = "commit"
                 PROVE  Traced(msg[v])'
      BY DEF TracedAtCommit
    <3>1. msg[v] \in Messages /\ Traced(msg[v]) /\ msg'[v] = msg[v]
      BY <2>3 DEF TypeInv, HasMessage, Busy, TraceInv, TracedAtCommit
    <3>2. Traced(msg[v])' <=> \E m \in {msg[v]} : Traced(m)'
      BY <3>1 DEF Traced, DeadLettered, EventAt
    <3> QED
      BY <1>0, <3>1, <3>2, TracedStable
  <2>7. PoisonLabel'
    BY <2>3 DEF TraceInv, PoisonLabel, EventAt
  <2> QED
    BY <2>4, <2>5, <2>6, <2>7 DEF TraceInv
<1>12. CASE UNCHANGED vars
  <2>1. AtNextOffset'
    BY <1>0, <1>12, PositionFrame DEF vars, Busy
  <2> QED
    BY <1>0, <1>12, <2>1, TraceFrame DEF vars
<1> QED
  BY <1>1, <1>2, <1>3, <1>4, <1>5, <1>8, <1>9, <1>10, <1>11, <1>12
     DEF Next, Handle, Idle

\* The three layers together are an invariant of the processor.
THEOREM TraceInvariant == Spec => [](TypeInv /\ ClaimInv /\ TraceInv)
<1>1. Init => TraceInv
  BY TraceInit
<1>2. TypeInv /\ ClaimInv /\ TraceInv /\ [Next]_vars => TraceInv'
  BY TraceNext
<1> QED
  BY <1>1, <1>2, ClaimsInvariant, PTL DEF Spec

\* No offset is committed past a payload that was rejected before the claim and
\* is not among the dead letters.
THEOREM RejectedSafety == Spec => []RejectedIsDeadLettered
<1>1. TraceInv => RejectedIsDeadLettered
  BY DEF TraceInv, CommittedIsTraced, Traced, RejectedIsDeadLettered
<1> QED
  BY <1>1, TraceInvariant, PTL

\* What the processor gives up as poison was never claimed.
THEOREM PoisonSafety == Spec => []PoisonNeverClaimed
<1>1. TypeInv /\ ClaimInv /\ TraceInv => PoisonNeverClaimed
  <2> SUFFICES ASSUME TypeInv, ClaimInv, TraceInv, NEW d \in deadLetters
               PROVE  /\ d.poison => EventAt(d.message) \in Invalid \ Malformed
                      /\ EventAt(d.message) \in Malformed \union Invalid
                             => inbox[EventAt(d.message)] = "absent"
    BY DEF PoisonNeverClaimed
  <2>1. d.message \in Messages
    BY DEF TypeInv, TypeOK
  <2>2. EventAt(d.message) \in Events
    BY <2>1, MessageFacts
  <2> QED
    BY <2>2 DEF TraceInv, PoisonLabel, ClaimInv, ValidClaimed
<1> QED
  BY <1>1, TraceInvariant, PTL

\* Offsets are committed one message at a time, in order, by the owner alone.
THEOREM CommitsInOrder == Spec => CommitInOrder
<1>1. TypeInv /\ TraceInv /\ [Next]_vars
          => [\A p \in Partitions :
                 committed'[p] # committed[p] => committed'[p] = committed[p] + 1]_vars
  <2> SUFFICES ASSUME TypeInv, TraceInv, Next, NEW p \in Partitions,
                      committed'[p] # committed[p]
               PROVE  committed'[p] = committed[p] + 1
    BY DEF vars, broker
  <2>1. PICK w \in Workers : Commit(w)
    BY DEF Next, Handle, Idle, vars, broker, stores, locals, Assign, Consume,
           Revoke, CallFails, Crash, Restart, BeginAttempt, DeadLetter,
           CommitRejected, SkipDuplicate, ClaimRefused, Claim, CheckExists, Score,
           SaveDecision, EnqueueValidated, EnqueueDecision, EnqueueAlert,
           Enqueue, Complete
  <2>2. msg[w].offset = committed[msg[w].part] + 1
    BY <2>1 DEF Commit, TraceInv, AtNextOffset, Busy
  <2> QED
    BY <2>1, <2>2 DEF Commit, TypeInv, TypeOK
<1> QED
  BY <1>1, TraceInvariant, PTL DEF Spec, CommitInOrder
=============================================================================
