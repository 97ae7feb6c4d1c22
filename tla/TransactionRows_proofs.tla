----------------------- MODULE TransactionRows_proofs -----------------------
(***************************************************************************)
(* Proofs about what TransactionProcessor leaves in the decision and       *)
(* outbox tables, on top of the layers of TransactionProcessor_proofs, the *)
(* proof that it implements DecisionLedger, and how much a fault can lose. *)
(***************************************************************************)
EXTENDS TransactionProcessor_proofs, FiniteSetTheorems

-----------------------------------------------------------------------------
(* Layer 4: the tables agree with how far each handler is.                 *)

RowsOf(e) == {i \in DOMAIN outbox : outbox[i].event = e}

\* The handler of a claimed event is the only one that adds rows for it.
HandlerRows ==
    \A w \in Workers :
        /\ pc[w] \in {"exists", "score", "save", "enqueueValidated"} =>
               RowsOf(Event(w)) = {}
        /\ pc[w] = "enqueueDecision" =>
               /\ Enqueued("validated", Event(w))
               /\ \A i \in RowsOf(Event(w)) : outbox[i].topic = "validated"
        /\ pc[w] = "enqueueAlert" =>
               /\ Enqueued("decision", Event(w))
               /\ \A i \in RowsOf(Event(w)) :
                      /\ outbox[i].topic # "alert"
                      /\ outbox[i].topic = "decision" => outbox[i].verdict = verdict[w]

\* What a handler that has evaluated knows, and what one that has saved left.
HandlerDecision ==
    \A w \in Workers :
        /\ pc[w] \in {"save", "enqueueValidated", "enqueueDecision", "enqueueAlert"} =>
               verdict[w] \in Decisions
        /\ pc[w] = "enqueueAlert" => verdict[w] \in Alerting
        /\ pc[w] = "save" => Tx(w) \in velocity
        /\ pc[w] \in {"enqueueValidated", "enqueueDecision", "enqueueAlert", "complete"} =>
               decision[Tx(w)] # Undecided

\* The event is claimed and its handler, if it still runs, has passed the save.
PastSave(e) ==
    /\ inbox[e] # "absent"
    /\ \A w \in Workers : pc[w] \in {"exists", "score", "save"} => Event(w) # e

DecidedBy ==
    \A t \in Transactions :
        decision[t] # Undecided =>
            /\ t \in velocity
            /\ \E e \in Events : TxOf[e] = t /\ PastSave(e)

\* What completion promises of an event.
Finished(e) ==
    \/ \E i \in DOMAIN outbox :
           /\ outbox[i].topic = "decision" /\ outbox[i].event = e
           /\ outbox[i].verdict \in Alerting => Enqueued("alert", e)
    \/ \E f \in Events \ {e} : TxOf[f] = TxOf[e] /\ inbox[f] # "absent"

FinishedAtEnd == \A w \in Workers : pc[w] = "complete" => Finished(Event(w))

RowsInv ==
    /\ HandlerRows /\ HandlerDecision /\ FinishedAtEnd
    /\ DecidedBy /\ OutboxPerEvent /\ AnnouncedIsPersisted /\ CompletedIsDone

-----------------------------------------------------------------------------
(* Facts about one worker.                                                 *)

\* A worker inside the handler has an event and a transaction.
LEMMA HandlerEvent ==
    ASSUME TypeInv, NEW w \in Workers, pc[w] \in HandlerCalls
    PROVE  Event(w) \in Events /\ Tx(w) \in Transactions /\ Tx(w) = TxOf[Event(w)]
<1>1. msg[w] \in Messages
  BY DEF TypeInv, HasMessage, Busy, HandlerCalls, ClaimHeld
<1> QED
  BY <1>1, MessageFacts DEF Event, Tx

\* Two workers past TryBeginAsync handle different events, which are claimed.
LEMMA HolderAlone ==
    ASSUME ClaimInv, NEW w \in Workers, pc[w] \in ClaimHeld
    PROVE  /\ inbox[Event(w)] = "claimed"
           /\ \A v \in Workers \ {w} : pc[v] \in ClaimHeld => Event(v) # Event(w)
  BY DEF ClaimInv, ClaimExclusive, Holds

\* A call that returns goes on, one that throws leaves the handler.
LEMMA CallOutcome ==
    ASSUME TypeInv, NEW w \in Workers, NEW step, Proceed(w, step) \/ AckLost(w)
    PROVE  /\ pc'[w] \in {step, "attempt", "deadLetter"}
           /\ \A v \in Workers \ {w} : pc'[v] = pc[v]
<1>1. pc \in [Workers -> Steps]
  BY DEF TypeInv, TypeOK
<1> QED
  BY <1>1 DEF Proceed, AckLost, Throw, Goto

\* What stands in the outbox is a row.
LEMMA RowType ==
    ASSUME TypeInv
    PROVE  \A i \in DOMAIN outbox :
               /\ outbox[i].topic \in Topics /\ outbox[i].event \in Events
               /\ outbox[i].verdict \in Decisions \union {Undecided}
<1>1. outbox \in Seq(Row)
  BY DEF TypeInv, TypeOK
<1>2. \A i \in DOMAIN outbox : outbox[i] \in Row
  BY <1>1
<1> QED
  BY <1>2 DEF Row

-----------------------------------------------------------------------------
(* Steps that leave the tables alone.                                      *)

\* A step that changes no table and takes no worker further into the handler
\* keeps the layer.
LEMMA RowsQuiet ==
    ASSUME RowsInv, UNCHANGED stores,
           \A v \in Workers : pc'[v] \in ClaimHeld =>
               pc'[v] = pc[v] /\ msg'[v] = msg[v] /\ verdict'[v] = verdict[v]
    PROVE  RowsInv'
<1> USE DEF stores
<1>1. \A v \in Workers : pc'[v] \in ClaimHeld =>
          Event(v)' = Event(v) /\ Tx(v)' = Tx(v)
  BY DEF Event, EventAt, Tx
<1>2. HandlerRows'
  BY <1>1 DEF RowsInv, HandlerRows, RowsOf, Enqueued, ClaimHeld
<1>3. HandlerDecision'
  BY <1>1 DEF RowsInv, HandlerDecision, ClaimHeld
<1>4. FinishedAtEnd'
  <2>1. \A e \in Events : Finished(e)' <=> Finished(e)
    BY DEF Finished, Enqueued
  <2> QED
    BY <1>1, <2>1 DEF RowsInv, FinishedAtEnd, Finished, Enqueued, ClaimHeld
<1>5. DecidedBy'
  BY <1>1 DEF RowsInv, DecidedBy, PastSave, ClaimHeld
<1>6. OutboxPerEvent' /\ AnnouncedIsPersisted' /\ CompletedIsDone'
  BY DEF RowsInv, OutboxPerEvent, AnnouncedIsPersisted, CompletedIsDone, Enqueued
<1> QED
  BY <1>2, <1>3, <1>4, <1>5, <1>6 DEF RowsInv

\* The tables are empty at the start and no handler runs.
LEMMA RowsInit == Init => RowsInv
<1> SUFFICES ASSUME Init PROVE RowsInv
  OBVIOUS
<1>1. DOMAIN outbox = {}
  BY DEF Init
<1>2. \A w \in Workers : pc[w] = "consume"
  BY DEF Init
<1>3. HandlerRows /\ HandlerDecision /\ FinishedAtEnd
  BY <1>2 DEF HandlerRows, HandlerDecision, FinishedAtEnd
<1>4. DecidedBy
  BY DEF Init, DecidedBy
<1>5. OutboxPerEvent /\ AnnouncedIsPersisted
  BY <1>1 DEF OutboxPerEvent, AnnouncedIsPersisted
<1>6. CompletedIsDone
  BY DEF Init, CompletedIsDone
<1> QED
  BY <1>3, <1>4, <1>5, <1>6 DEF RowsInv

-----------------------------------------------------------------------------
(* The calls that write inbox, velocity and decision.                      *)

\* An event with no inbox row has no rows in the outbox and has decided nothing,
\* so its first handler starts from nothing.
LEMMA ClaimKeepsRows ==
    ASSUME TypeInv, ClaimInv, RowsInv, NEW w \in Workers, Claim(w)
    PROVE  RowsInv'
<1> DEFINE e == Event(w)
<1>1. pc[w] = "claim" /\ inbox[e] = "absent" /\ e \in Events
      /\ UNCHANGED <<decision, outbox, velocity, msg, verdict>>
  BY HandlerEvent DEF Claim, HandlerCalls
<1>2. /\ \A v \in Workers \ {w} : pc'[v] = pc[v]
      /\ pc'[w] \in {"exists", "commit", "attempt", "deadLetter"}
  BY CallOutcome DEF Claim, Goto, TypeInv, TypeOK
<1>3. inbox'[e] = "claimed" /\ \A f \in Events \ {e} : inbox'[f] = inbox[f]
  BY <1>1 DEF Claim, TypeInv, TypeOK
<1>4. \A v \in Workers : Event(v)' = Event(v) /\ Tx(v)' = Tx(v)
  BY <1>1 DEF Event, EventAt, Tx
<1> HIDE DEF e
<1>5. RowsOf(e) = {}
  BY <1>1 DEF RowsOf, RowsInv, AnnouncedIsPersisted
<1>6. HandlerRows'
  BY <1>1, <1>2, <1>4, <1>5 DEF e, RowsInv, HandlerRows, RowsOf, Enqueued
<1>7. HandlerDecision'
  BY <1>1, <1>2, <1>4 DEF RowsInv, HandlerDecision
<1>8. \A f \in Events : Finished(f) => Finished(f)'
  BY <1>1, <1>3 DEF Finished, Enqueued
<1>9. FinishedAtEnd'
  <2> SUFFICES ASSUME NEW v \in Workers, pc'[v] = "complete"
               PROVE  Finished(Event(v))'
    BY DEF FinishedAtEnd
  <2>1. pc[v] = "complete" /\ Event(v) \in Events
    BY <1>2, HandlerEvent DEF HandlerCalls, ClaimHeld
  <2>2. Finished(Event(v))
    BY <2>1 DEF RowsInv, FinishedAtEnd
  <2> QED
    BY <1>1, <1>3, <1>4, <2>1, <2>2 DEF Finished, Enqueued
<1>10. DecidedBy'
  <2>1. ASSUME NEW f \in Events, PastSave(f)
        PROVE  PastSave(f)'
    BY <1>1, <1>2, <1>3, <1>4, <2>1 DEF e, PastSave
  <2> QED
    BY <1>1, <2>1 DEF RowsInv, DecidedBy
<1>11. OutboxPerEvent'
  BY <1>1 DEF RowsInv, OutboxPerEvent
<1>12. AnnouncedIsPersisted'
  <2> QED
    BY <1>1, <1>3, RowType DEF RowsInv, AnnouncedIsPersisted, Enqueued
<1>13. CompletedIsDone'
  BY <1>1, <1>3 DEF RowsInv, CompletedIsDone, Enqueued
<1> QED
  BY <1>6, <1>7, <1>9, <1>10, <1>11, <1>12, <1>13 DEF RowsInv

\* A decision that is found was saved by the handler of another event.
LEMMA CheckExistsKeepsRows ==
    ASSUME TypeInv, ClaimInv, RowsInv, NEW w \in Workers, CheckExists(w)
    PROVE  RowsInv'
<1>1. pc[w] = "exists" /\ UNCHANGED <<stores, msg, verdict>>
      /\ Event(w) \in Events /\ Tx(w) \in Transactions /\ Tx(w) = TxOf[Event(w)]
  BY HandlerEvent DEF CheckExists, HandlerCalls, ClaimHeld
<1>2. /\ \A v \in Workers \ {w} : pc'[v] = pc[v]
      /\ pc'[w] = IF decision[Tx(w)] # Undecided THEN "complete" ELSE "score"
  BY DEF CheckExists, Proceed, Goto, TypeInv, TypeOK
<1>3. \A v \in Workers : Event(v)' = Event(v) /\ Tx(v)' = Tx(v)
  BY <1>1 DEF Event, EventAt, Tx
<1>4. decision[Tx(w)] # Undecided => Finished(Event(w))
  <2> SUFFICES ASSUME decision[Tx(w)] # Undecided
               PROVE  Finished(Event(w))
    OBVIOUS
  <2>1. PICK f \in Events : TxOf[f] = Tx(w) /\ PastSave(f)
    BY <1>1 DEF RowsInv, DecidedBy
  <2>2. f # Event(w)
    BY <1>1, <2>1 DEF PastSave
  <2> QED
    BY <1>1, <2>1, <2>2 DEF Finished, PastSave
<1>5. HandlerRows'
  BY <1>1, <1>2, <1>3 DEF RowsInv, HandlerRows, RowsOf, Enqueued, stores
<1>6. HandlerDecision'
  BY <1>1, <1>2, <1>3 DEF RowsInv, HandlerDecision, stores
<1>7. FinishedAtEnd'
  BY <1>1, <1>2, <1>3, <1>4 DEF RowsInv, FinishedAtEnd, Finished, Enqueued, stores
<1>8. DecidedBy'
  BY <1>1, <1>2, <1>3 DEF RowsInv, DecidedBy, PastSave, stores
<1>9. OutboxPerEvent' /\ AnnouncedIsPersisted' /\ CompletedIsDone'
  BY <1>1 DEF RowsInv, OutboxPerEvent, AnnouncedIsPersisted, CompletedIsDone, Enqueued, stores
<1> QED
  BY <1>5, <1>6, <1>7, <1>8, <1>9 DEF RowsInv

\* The transaction is recorded before its evaluation can be saved.
LEMMA ScoreKeepsRows ==
    ASSUME TypeInv, ClaimInv, RowsInv, NEW w \in Workers, Score(w)
    PROVE  RowsInv'
<1>1. pc[w] = "score" /\ UNCHANGED <<inbox, decision, outbox, msg>>
      /\ velocity' = velocity \union {Tx(w)}
  BY DEF Score
<1>2. /\ \A v \in Workers \ {w} : pc'[v] = pc[v] /\ verdict'[v] = verdict[v]
      /\ pc'[w] \in {"save", "attempt", "deadLetter"}
      /\ pc'[w] = "save" => verdict'[w] \in Decisions
  <2>1. CASE Proceed(w, "save") /\ \E d \in Decisions : verdict' = [verdict EXCEPT ![w] = d]
    BY <2>1 DEF Proceed, Goto, TypeInv, TypeOK
  <2>2. CASE AckLost(w) /\ UNCHANGED verdict
    BY <2>2 DEF AckLost, Throw, Goto, TypeInv, TypeOK
  <2> QED
    BY <2>1, <2>2 DEF Score
<1>3. \A v \in Workers : Event(v)' = Event(v) /\ Tx(v)' = Tx(v)
  BY <1>1 DEF Event, EventAt, Tx
<1>4. HandlerRows'
  BY <1>1, <1>2, <1>3 DEF RowsInv, HandlerRows, RowsOf, Enqueued
<1>5. HandlerDecision'
  BY <1>1, <1>2, <1>3 DEF RowsInv, HandlerDecision
<1>6. FinishedAtEnd'
  BY <1>1, <1>2, <1>3 DEF RowsInv, FinishedAtEnd, Finished, Enqueued
<1>7. DecidedBy'
  BY <1>1, <1>2, <1>3 DEF RowsInv, DecidedBy, PastSave
<1>8. OutboxPerEvent' /\ AnnouncedIsPersisted' /\ CompletedIsDone'
  BY <1>1 DEF RowsInv, OutboxPerEvent, AnnouncedIsPersisted, CompletedIsDone, Enqueued
<1> QED
  BY <1>4, <1>5, <1>6, <1>7, <1>8 DEF RowsInv

\* A transaction that is decided by this step is decided by the handler of this
\* worker, which is past the save and alone on its event.
LEMMA SaveKeepsRows ==
    ASSUME TypeInv, ClaimInv, RowsInv, NEW w \in Workers, SaveDecision(w)
    PROVE  RowsInv'
<1> DEFINE e == Event(w)
           t == Tx(w)
<1>1. pc[w] = "save" /\ UNCHANGED <<inbox, outbox, velocity, msg, verdict>>
  BY DEF SaveDecision
<1>2. e \in Events /\ t \in Transactions /\ t = TxOf[e]
  BY <1>1, HandlerEvent DEF HandlerCalls, ClaimHeld
<1>3. /\ inbox[e] = "claimed"
      /\ \A v \in Workers \ {w} : pc[v] \in ClaimHeld => Event(v) # e
  BY <1>1, HolderAlone DEF ClaimHeld
<1>4. /\ \A v \in Workers \ {w} : pc'[v] = pc[v]
      /\ pc'[w] \in {"enqueueValidated", "attempt", "deadLetter"}
  BY CallOutcome DEF SaveDecision
<1>5. \A v \in Workers : Event(v)' = Event(v) /\ Tx(v)' = Tx(v)
  BY <1>1 DEF Event, EventAt, Tx
<1>6. verdict[w] \in Decisions /\ verdict[w] # Undecided /\ t \in velocity
  BY <1>1, DecisionAssumption DEF RowsInv, HandlerDecision
<1>7. /\ decision'[t] # Undecided
      /\ \A u \in Transactions : decision[u] # Undecided => decision'[u] # Undecided
      /\ \A u \in Transactions \ {t} : decision'[u] = decision[u]
  BY <1>2, <1>6 DEF SaveDecision, TypeInv, TypeOK
<1> HIDE DEF e, t
<1>8. HandlerRows'
  BY <1>1, <1>4, <1>5 DEF RowsInv, HandlerRows, RowsOf, Enqueued
<1>9. HandlerDecision'
  <2>1. \A v \in Workers \ {w} : pc[v] \in HandlerCalls => Tx(v) \in Transactions
    BY HandlerEvent
  <2> QED
    BY <1>1, <1>4, <1>5, <1>6, <1>7, <2>1
       DEF t, RowsInv, HandlerDecision, HandlerCalls, ClaimHeld
<1>10. FinishedAtEnd'
  BY <1>1, <1>4, <1>5 DEF RowsInv, FinishedAtEnd, Finished, Enqueued
<1>11. DecidedBy'
  <2>1. \A f \in Events : f = e => PastSave(f)'
    BY <1>1, <1>3, <1>4, <1>5 DEF e, PastSave, ClaimHeld
  <2>2. ASSUME NEW f \in Events, PastSave(f)
        PROVE  PastSave(f)'
    BY <1>1, <1>4, <1>5, <2>2 DEF PastSave
  <2>3. ASSUME NEW u \in Transactions, decision'[u] # Undecided
        PROVE  u \in velocity' /\ \E f \in Events : TxOf[f] = u /\ PastSave(f)'
    <3>1. CASE u = t
      BY <1>1, <1>2, <1>6, <2>1, <3>1
    <3>2. CASE u # t
      <4>1. decision[u] # Undecided
        BY <1>7, <2>3, <3>2
      <4>2. u \in velocity /\ \E f \in Events : TxOf[f] = u /\ PastSave(f)
        BY <4>1 DEF RowsInv, DecidedBy
      <4> QED
        BY <1>1, <2>2, <4>2
    <3> QED
      BY <3>1, <3>2
  <2> QED
    BY <2>3 DEF DecidedBy
<1>12. OutboxPerEvent'
  BY <1>1 DEF RowsInv, OutboxPerEvent
<1>13. AnnouncedIsPersisted'
  BY <1>1, <1>7, RowType, LogAssumption DEF RowsInv, AnnouncedIsPersisted, Enqueued
<1>14. CompletedIsDone'
  BY <1>1, <1>7, LogAssumption DEF RowsInv, CompletedIsDone, Enqueued
<1> QED
  BY <1>8, <1>9, <1>10, <1>11, <1>12, <1>13, <1>14 DEF RowsInv

\* The handler that completes an event has finished it.
LEMMA CompleteKeepsRows ==
    ASSUME TypeInv, ClaimInv, RowsInv, NEW w \in Workers, Complete(w)
    PROVE  RowsInv'
<1> DEFINE e == Event(w)
<1>1. pc[w] = "complete" /\ UNCHANGED <<decision, outbox, velocity, msg, verdict>>
  BY DEF Complete
<1>2. e \in Events /\ Tx(w) = TxOf[e]
  BY <1>1, HandlerEvent DEF HandlerCalls, ClaimHeld
<1>3. inbox'[e] = "completed" /\ \A f \in Events \ {e} : inbox'[f] = inbox[f]
  BY <1>2 DEF Complete, TypeInv, TypeOK
<1>4. \A f \in Events : inbox[f] # "absent" => inbox'[f] # "absent"
  BY <1>3
<1>5. /\ \A v \in Workers \ {w} : pc'[v] = pc[v]
      /\ pc'[w] \in {"commit", "attempt", "deadLetter"}
  BY CallOutcome DEF Complete
<1>6. \A v \in Workers : Event(v)' = Event(v) /\ Tx(v)' = Tx(v)
  BY <1>1 DEF Event, EventAt, Tx
<1>7. Finished(e) /\ decision[TxOf[e]] # Undecided
  BY <1>1, <1>2 DEF RowsInv, FinishedAtEnd, HandlerDecision
<1> HIDE DEF e
<1>8. HandlerRows' /\ HandlerDecision'
  BY <1>1, <1>5, <1>6
     DEF RowsInv, HandlerRows, HandlerDecision, RowsOf, Enqueued
<1>9. FinishedAtEnd'
  BY <1>1, <1>4, <1>5, <1>6 DEF RowsInv, FinishedAtEnd, Finished, Enqueued
<1>10. DecidedBy'
  BY <1>1, <1>4, <1>5, <1>6 DEF RowsInv, DecidedBy, PastSave
<1>11. OutboxPerEvent'
  BY <1>1 DEF RowsInv, OutboxPerEvent
<1>12. AnnouncedIsPersisted'
  BY <1>1, <1>4, RowType DEF RowsInv, AnnouncedIsPersisted, Enqueued
<1>13. CompletedIsDone'
  BY <1>1, <1>3, <1>4, <1>7 DEF RowsInv, CompletedIsDone, Finished, Enqueued
<1> QED
  BY <1>8, <1>9, <1>10, <1>11, <1>12, <1>13 DEF RowsInv

-----------------------------------------------------------------------------
(* The calls that add a row to the outbox.                                 *)

\* One row is added behind those that are there.
LEMMA RowAdded ==
    ASSUME TypeInv, NEW w \in Workers, NEW topic, NEW v,
           outbox' = Append(outbox, [topic |-> topic, event |-> Event(w), verdict |-> v])
    PROVE  LET n == Len(outbox) + 1
           IN  /\ n \in Nat /\ n \notin DOMAIN outbox
               /\ DOMAIN outbox' = DOMAIN outbox \union {n}
               /\ \A i \in DOMAIN outbox : i \in Nat /\ i < n /\ outbox'[i] = outbox[i]
               /\ outbox'[n].topic = topic
               /\ outbox'[n].event = Event(w)
               /\ outbox'[n].verdict = v
<1> DEFINE row == [topic |-> topic, event |-> Event(w), verdict |-> v]
           n == Len(outbox) + 1
<1>1. outbox \in Seq(Row) /\ outbox' = Append(outbox, row)
  BY DEF TypeInv, TypeOK
<1>2. row.topic = topic /\ row.event = Event(w) /\ row.verdict = v
  OBVIOUS
<1> HIDE DEF row
<1>3. /\ Len(outbox) \in Nat /\ DOMAIN outbox = 1 .. Len(outbox)
      /\ DOMAIN outbox' = 1 .. Len(outbox) + 1
      /\ \A i \in 1 .. Len(outbox) : outbox'[i] = outbox[i]
      /\ outbox'[Len(outbox) + 1] = row
  BY <1>1
<1> QED
  BY <1>2, <1>3

\* What a handler adds for its event leaves everything about other events, and
\* what it keeps to is that the new row is the first of its topic, in its place.
LEMMA EnqueueFrame ==
    ASSUME TypeInv, ClaimInv, RowsInv, NEW w \in Workers,
           NEW topic \in Topics, NEW v, NEW next, Enqueue(w, topic, v, next),
           pc[w] \in {"enqueueValidated", "enqueueDecision", "enqueueAlert"},
           next \in {"enqueueDecision", "enqueueAlert", "complete"},
           topic = "validated" => RowsOf(Event(w)) = {},
           topic # "validated" => Enqueued("validated", Event(w)),
           topic = "alert" => Enqueued("decision", Event(w)),
           \A i \in RowsOf(Event(w)) :
               /\ outbox[i].topic # topic
               /\ topic = "decision" => outbox[i].topic # "alert"
               /\ topic = "alert" /\ outbox[i].topic = "decision" =>
                      outbox[i].verdict = v /\ v \in Alerting
    PROVE  DecidedBy' /\ OutboxPerEvent' /\ AnnouncedIsPersisted' /\ CompletedIsDone'
<1> DEFINE e == Event(w)
           n == Len(outbox) + 1
<1>1. UNCHANGED <<inbox, decision, velocity, msg, verdict>>
  BY DEF Enqueue
<1>2. /\ n \in Nat /\ n \notin DOMAIN outbox
      /\ DOMAIN outbox' = DOMAIN outbox \union {n}
      /\ \A i \in DOMAIN outbox : i \in Nat /\ i < n /\ outbox'[i] = outbox[i]
      /\ outbox'[n].topic = topic /\ outbox'[n].event = e /\ outbox'[n].verdict = v
  BY RowAdded DEF Enqueue
<1>3. /\ e \in Events /\ inbox[e] = "claimed" /\ decision[TxOf[e]] # Undecided
  BY HandlerEvent, HolderAlone DEF HandlerCalls, ClaimHeld, RowsInv, HandlerDecision
<1>4. \A T, f : Enqueued(T, f) => Enqueued(T, f)'
  BY <1>2 DEF Enqueued
<1>5. \A f : f = e => Enqueued(topic, f)'
  BY <1>2 DEF Enqueued
<1>6. \A i \in DOMAIN outbox : outbox[i].event = e =>
          /\ topic # "validated" /\ outbox[i].topic # topic
          /\ topic = "decision" => outbox[i].topic # "alert"
          /\ topic = "alert" /\ outbox[i].topic = "decision" =>
                 outbox[i].verdict = v /\ v \in Alerting
  BY DEF RowsOf
<1> HIDE DEF e, n
<1>7. DecidedBy'
  <2>1. /\ \A u \in Workers \ {w} : pc'[u] = pc[u]
        /\ pc'[w] \notin {"exists", "score", "save"}
    BY CallOutcome DEF Enqueue
  <2> QED
    BY <1>1, <2>1 DEF RowsInv, DecidedBy, PastSave, Event, EventAt
<1>8. OutboxPerEvent'
  <2> DEFINE Fits(i, j) ==
          outbox'[i].event = outbox'[j].event =>
              /\ outbox'[i].topic = outbox'[j].topic => i = j
              /\ outbox'[i].topic = "decision" /\ outbox'[j].topic = "alert"
                     => /\ i < j
                        /\ outbox'[i].verdict = outbox'[j].verdict
                        /\ outbox'[j].verdict \in Alerting
              /\ outbox'[i].topic = "validated" => i <= j
  <2>1. \A i, j \in DOMAIN outbox : Fits(i, j)
    BY <1>2 DEF RowsInv, OutboxPerEvent
  <2>2. \A i \in DOMAIN outbox : Fits(i, n) /\ Fits(n, i)
    BY <1>2, <1>6
  <2>3. Fits(n, n)
    BY <1>2
  <2>4. \A i, j \in DOMAIN outbox' : Fits(i, j)
    <3> HIDE DEF Fits
    <3> QED
      BY <1>2, <2>1, <2>2, <2>3
  <2> QED
    BY <2>4 DEF OutboxPerEvent
<1>9. AnnouncedIsPersisted'
  <2> SUFFICES ASSUME NEW i \in DOMAIN outbox', NEW f, f = outbox'[i].event
               PROVE  /\ inbox[f] # "absent"
                      /\ decision[TxOf[f]] # Undecided
                      /\ Enqueued("validated", f)'
                      /\ outbox'[i].topic = "alert" => Enqueued("decision", f)'
    BY <1>1 DEF AnnouncedIsPersisted, Enqueued
  <2>1. CASE i \in DOMAIN outbox
    BY <1>2, <1>4, <2>1 DEF RowsInv, AnnouncedIsPersisted
  <2>2. CASE i = n
    BY <1>2, <1>3, <1>4, <1>5, <2>2 DEF e
  <2> QED
    BY <1>2, <2>1, <2>2
<1>10. CompletedIsDone'
  <2> SUFFICES ASSUME NEW f \in Events, inbox[f] = "completed"
               PROVE  /\ decision[TxOf[f]] # Undecided
                      /\ Finished(f)'
    BY <1>1 DEF CompletedIsDone, Finished, Enqueued
  <2>1. decision[TxOf[f]] # Undecided /\ Finished(f)
    BY DEF RowsInv, CompletedIsDone, Finished
  <2>2. Finished(f)'
    BY <1>1, <1>2, <1>4, <2>1 DEF Finished
  <2> QED
    BY <2>1, <2>2
<1> QED
  BY <1>7, <1>8, <1>9, <1>10

\* The rows of the other workers' events are as they were, and what was enqueued
\* stays.
LEMMA EnqueueOthers ==
    ASSUME TypeInv, ClaimInv, RowsInv, NEW w \in Workers,
           NEW topic \in Topics, NEW v, NEW next, Enqueue(w, topic, v, next),
           pc[w] \in {"enqueueValidated", "enqueueDecision", "enqueueAlert"}
    PROVE  /\ UNCHANGED <<inbox, decision, velocity, msg, verdict>>
           /\ \A u \in Workers : Event(u)' = Event(u) /\ Tx(u)' = Tx(u)
           /\ pc'[w] \in {next, "attempt", "deadLetter"}
           /\ \A u \in Workers \ {w} : pc'[u] = pc[u]
           /\ \A u \in Workers \ {w} : pc[u] \in ClaimHeld =>
                  Event(u) # Event(w) /\ Event(u) \in Events
           /\ \A f : f # Event(w) =>
                  /\ RowsOf(f)' = RowsOf(f)
                  /\ \A i \in RowsOf(f) : outbox'[i] = outbox[i]
           /\ \A T, f : Enqueued(T, f) => Enqueued(T, f)'
           /\ \A f \in Events : Finished(f) => Finished(f)'
<1> DEFINE n == Len(outbox) + 1
<1>1. /\ UNCHANGED <<inbox, decision, velocity, msg, verdict>>
      /\ \A u \in Workers : Event(u)' = Event(u) /\ Tx(u)' = Tx(u)
  BY DEF Enqueue, Event, EventAt, Tx
<1>2. /\ pc'[w] \in {next, "attempt", "deadLetter"}
      /\ \A u \in Workers \ {w} : pc'[u] = pc[u]
  BY CallOutcome DEF Enqueue
<1>3. \A u \in Workers \ {w} : pc[u] \in ClaimHeld =>
          Event(u) # Event(w) /\ Event(u) \in Events
  BY HandlerEvent, HolderAlone DEF HandlerCalls, ClaimHeld
<1>4. /\ n \notin DOMAIN outbox /\ DOMAIN outbox' = DOMAIN outbox \union {n}
      /\ \A i \in DOMAIN outbox : outbox'[i] = outbox[i]
      /\ outbox'[n].event = Event(w)
  BY RowAdded DEF Enqueue
<1> HIDE DEF n
<1>5. \A f : f # Event(w) =>
          /\ RowsOf(f)' = RowsOf(f)
          /\ \A i \in RowsOf(f) : outbox'[i] = outbox[i]
  BY <1>4 DEF RowsOf
<1>6. \A T, f : Enqueued(T, f) => Enqueued(T, f)'
  BY <1>4 DEF Enqueued
<1>7. \A f \in Events : Finished(f) => Finished(f)'
  BY <1>1, <1>4, <1>6 DEF Finished
<1> QED
  BY <1>1, <1>2, <1>3, <1>5, <1>6, <1>7

\* The three calls keep the layer: the first leaves only its row, the second the
\* row that tells whether an alert follows, the last one finishes the event.
LEMMA EnqueueKeepsRows ==
    ASSUME TypeInv, ClaimInv, RowsInv, NEW w \in Workers,
           EnqueueValidated(w) \/ EnqueueDecision(w) \/ EnqueueAlert(w)
    PROVE  RowsInv'
<1> DEFINE e == Event(w)
           n == Len(outbox) + 1
\* What a call has to leave of its own worker.
<1>1. ASSUME NEW topic \in Topics, NEW v, NEW next, Enqueue(w, topic, v, next),
             pc[w] \in {"enqueueValidated", "enqueueDecision", "enqueueAlert"},
             verdict[w] \in Decisions, decision[Tx(w)] # Undecided,
             next \in {"enqueueDecision", "enqueueAlert", "complete"},
             next = "enqueueAlert" => verdict[w] \in Alerting,
             next = "enqueueDecision" => \A f : f = e =>
                 /\ Enqueued("validated", f)'
                 /\ \A i \in RowsOf(f)' : outbox'[i].topic = "validated",
             next = "enqueueAlert" => \A f : f = e =>
                 /\ Enqueued("decision", f)'
                 /\ \A i \in RowsOf(f)' :
                        /\ outbox'[i].topic # "alert"
                        /\ outbox'[i].topic = "decision" => outbox'[i].verdict = verdict[w],
             next = "complete" => \A f : f = e => Finished(f)'
      PROVE  HandlerRows' /\ HandlerDecision' /\ FinishedAtEnd'
  <2>1. /\ UNCHANGED <<inbox, decision, velocity, msg, verdict>>
        /\ \A u \in Workers : Event(u)' = Event(u) /\ Tx(u)' = Tx(u)
        /\ pc'[w] \in {next, "attempt", "deadLetter"}
        /\ \A u \in Workers \ {w} : pc'[u] = pc[u]
        /\ \A u \in Workers \ {w} : pc[u] \in ClaimHeld =>
               Event(u) # e /\ Event(u) \in Events
    BY <1>1, EnqueueOthers
  <2>2. /\ \A f : f # e => /\ RowsOf(f)' = RowsOf(f)
                           /\ \A i \in RowsOf(f) : outbox'[i] = outbox[i]
        /\ \A T, f : Enqueued(T, f) => Enqueued(T, f)'
        /\ \A f \in Events : Finished(f) => Finished(f)'
    BY <1>1, EnqueueOthers
  <2> HIDE DEF e
  <2>3. HandlerDecision'
    BY <1>1, <2>1 DEF RowsInv, HandlerDecision
  <2>4. FinishedAtEnd'
    <3> SUFFICES ASSUME NEW u \in Workers, pc'[u] = "complete",
                        NEW f, f = Event(u)'
                 PROVE  Finished(f)'
      BY DEF FinishedAtEnd, Finished, Enqueued
    <3>1. CASE u = w
      BY <1>1, <2>1, <3>1 DEF e
    <3>2. CASE u # w
      <4>1. pc[u] = "complete" /\ f = Event(u) /\ f \in Events
        BY <2>1, <3>2 DEF ClaimHeld
      <4> QED
        BY <2>2, <4>1 DEF RowsInv, FinishedAtEnd
    <3> QED
      BY <3>1, <3>2
  <2>5. HandlerRows'
    <3> SUFFICES ASSUME NEW u \in Workers, NEW f, f = Event(u)'
                 PROVE  /\ pc'[u] \in {"exists", "score", "save", "enqueueValidated"} =>
                               RowsOf(f)' = {}
                        /\ pc'[u] = "enqueueDecision" =>
                               /\ Enqueued("validated", f)'
                               /\ \A i \in RowsOf(f)' : outbox'[i].topic = "validated"
                        /\ pc'[u] = "enqueueAlert" =>
                               /\ Enqueued("decision", f)'
                               /\ \A i \in RowsOf(f)' :
                                      /\ outbox'[i].topic # "alert"
                                      /\ outbox'[i].topic = "decision" =>
                                             outbox'[i].verdict = verdict'[u]
      BY DEF HandlerRows, RowsOf, Enqueued
    <3>1. CASE u = w
      BY <1>1, <2>1, <3>1 DEF e
    <3>2. CASE u # w /\ pc[u] \in ClaimHeld
      <4>1. pc'[u] = pc[u] /\ f = Event(u) /\ f # e /\ verdict' = verdict
        BY <2>1, <3>2
      <4>2. RowsOf(f)' = RowsOf(f) /\ \A i \in RowsOf(f) : outbox'[i] = outbox[i]
        BY <2>2, <4>1
      <4> QED
        BY <2>2, <4>1, <4>2 DEF RowsInv, HandlerRows
    <3>3. CASE u # w /\ pc[u] \notin ClaimHeld
      BY <2>1, <3>3 DEF ClaimHeld
    <3> QED
      BY <3>1, <3>2, <3>3
  <2> QED
    BY <2>3, <2>4, <2>5
<1>2. ASSUME NEW topic, NEW v, NEW next, Enqueue(w, topic, v, next)
      PROVE  /\ \A f : f = e => Enqueued(topic, f)' /\ RowsOf(f)' = RowsOf(f) \union {n}
             /\ \A i \in RowsOf(e) : outbox'[i] = outbox[i]
             /\ n \in DOMAIN outbox' /\ outbox'[n].event = e
             /\ outbox'[n].topic = topic /\ outbox'[n].verdict = v
  <2>1. /\ DOMAIN outbox' = DOMAIN outbox \union {n}
        /\ \A i \in DOMAIN outbox : outbox'[i] = outbox[i]
        /\ outbox'[n].event = e /\ outbox'[n].topic = topic /\ outbox'[n].verdict = v
    BY <1>2, RowAdded DEF Enqueue
  <2> QED
    BY <2>1 DEF Enqueued, RowsOf
<1>3. CASE EnqueueValidated(w)
  <2>1. /\ pc[w] = "enqueueValidated"
        /\ Enqueue(w, "validated", Undecided, "enqueueDecision")
        /\ "validated" \in Topics
        /\ RowsOf(e) = {} /\ verdict[w] \in Decisions /\ decision[Tx(w)] # Undecided
    BY <1>3 DEF EnqueueValidated, Topics, RowsInv, HandlerRows, HandlerDecision
  <2>2. HandlerRows' /\ HandlerDecision' /\ FinishedAtEnd'
    <3> HIDE DEF e, n
    <3>1. \A f : f = e =>
              /\ Enqueued("validated", f)'
              /\ \A i \in RowsOf(f)' : outbox'[i].topic = "validated"
      BY <1>2, <2>1
    <3> QED
      BY <1>1, <2>1, <3>1
  <2> QED
    BY <2>1, <2>2, EnqueueFrame DEF RowsInv
<1>4. CASE EnqueueDecision(w)
  <2> DEFINE next == IF verdict[w] \in Alerting THEN "enqueueAlert" ELSE "complete"
  <2>1. /\ pc[w] = "enqueueDecision"
        /\ Enqueue(w, "decision", verdict[w], next)
        /\ "decision" \in Topics
        /\ Enqueued("validated", e)
        /\ \A i \in RowsOf(e) : outbox[i].topic = "validated"
        /\ verdict[w] \in Decisions /\ decision[Tx(w)] # Undecided
    BY <1>4 DEF EnqueueDecision, Topics, RowsInv, HandlerRows, HandlerDecision
  <2>2. HandlerRows' /\ HandlerDecision' /\ FinishedAtEnd'
    <3> HIDE DEF e, n
    <3>1. \A f : f = e =>
              /\ Enqueued("decision", f)'
              /\ \A i \in RowsOf(f)' :
                     /\ outbox'[i].topic # "alert"
                     /\ outbox'[i].topic = "decision" => outbox'[i].verdict = verdict[w]
      BY <1>2, <2>1
    <3>2. next = "complete" => \A f : f = e => Finished(f)'
      BY <1>2, <2>1 DEF Finished
    <3> QED
      BY <1>1, <2>1, <3>1, <3>2
  <2> QED
    BY <2>1, <2>2, EnqueueFrame DEF RowsInv
<1>5. CASE EnqueueAlert(w)
  <2>1. /\ pc[w] = "enqueueAlert"
        /\ Enqueue(w, "alert", verdict[w], "complete")
        /\ "alert" \in Topics
        /\ Enqueued("decision", e)
        /\ \A i \in RowsOf(e) :
               /\ outbox[i].topic # "alert"
               /\ outbox[i].topic = "decision" => outbox[i].verdict = verdict[w]
        /\ verdict[w] \in Alerting /\ verdict[w] \in Decisions
        /\ decision[Tx(w)] # Undecided
    BY <1>5 DEF EnqueueAlert, Topics, RowsInv, HandlerRows, HandlerDecision
  <2>2. Enqueued("validated", e)
    BY <2>1 DEF RowsInv, AnnouncedIsPersisted, Enqueued
  <2>3. HandlerRows' /\ HandlerDecision' /\ FinishedAtEnd'
    <3>1. PICK i \in RowsOf(e) : outbox[i].topic = "decision"
      BY <2>1 DEF Enqueued, RowsOf
    <3>2. \A f : f = e => Finished(f)'
      <4>1. /\ i \in DOMAIN outbox' /\ outbox'[i] = outbox[i] /\ outbox[i].event = e
        BY <1>2, <2>1, <3>1, RowAdded DEF Enqueue, RowsOf
      <4> HIDE DEF e
      <4> QED
        BY <1>2, <2>1, <3>1, <4>1 DEF Finished
    <3> QED
      BY <1>1, <2>1, <3>2
  <2> QED
    BY <2>1, <2>2, <2>3, EnqueueFrame DEF RowsInv
<1> QED
  BY <1>3, <1>4, <1>5

-----------------------------------------------------------------------------
(* The layer is inductive on top of the types and the claims.              *)

\* A step that leaves the tables alone only takes workers out of the handler.
LEMMA QuietStep ==
    ASSUME TypeInv, NEW w \in Workers,
           \/ Crash(w) \/ Restart(w) \/ BeginAttempt(w) \/ DeadLetter(w) \/ Commit(w)
           \/ CommitRejected(w) \/ CallFails(w) \/ SkipDuplicate(w) \/ ClaimRefused(w)
           \/ \E p \in Partitions : Consume(p, w)
    PROVE  /\ UNCHANGED stores
           /\ \A v \in Workers : pc'[v] \in ClaimHeld =>
                  pc'[v] = pc[v] /\ msg'[v] = msg[v] /\ verdict'[v] = verdict[v]
<1> USE DEF stores, broker, locals
<1>1. pc \in [Workers -> Steps] /\ msg \in [Workers -> Messages \union {NoMessage}]
      /\ verdict \in [Workers -> Decisions \union {Undecided}]
  BY DEF TypeInv, TypeOK
<1>2. CASE Crash(w) \/ CommitRejected(w) \/ Commit(w)
  BY <1>1, <1>2 DEF Crash, CommitRejected, Commit, Leave, Release, Goto, ClaimHeld
<1>3. CASE Restart(w) \/ DeadLetter(w) \/ SkipDuplicate(w) \/ ClaimRefused(w)
  BY <1>1, <1>3
     DEF Restart, DeadLetter, SkipDuplicate, ClaimRefused, Proceed, Goto, ClaimHeld
<1>4. CASE BeginAttempt(w) \/ CallFails(w)
  <2>1. /\ UNCHANGED <<stores, msg, verdict>>
        /\ \A v \in Workers \ {w} : pc'[v] = pc[v]
        /\ pc'[w] \in {"attempt", "deadLetter", "claim"}
    BY <1>1, <1>4 DEF BeginAttempt, CallFails, Throw, Goto
  <2> QED
    BY <2>1 DEF ClaimHeld
<1>5. CASE \E p \in Partitions : Consume(p, w)
  BY <1>1, <1>5 DEF Consume, Goto, ClaimHeld
<1> QED
  BY <1>2, <1>3, <1>4, <1>5

\* Every action keeps the tables in agreement with the handlers.
LEMMA RowsNext == TypeInv /\ ClaimInv /\ RowsInv /\ [Next]_vars => RowsInv'
<1> SUFFICES ASSUME TypeInv, ClaimInv, RowsInv, [Next]_vars
             PROVE  RowsInv'
  OBVIOUS
<1>1. ASSUME NEW p \in Partitions, NEW w \in Workers, Assign(p, w)
      PROVE  RowsInv'
  BY <1>1, RowsQuiet DEF Assign, locals
<1>2. ASSUME NEW p \in Partitions, Revoke(p)
      PROVE  RowsInv'
  BY <1>2, RowsQuiet DEF Revoke, locals
<1>3. ASSUME NEW w \in Workers,
             \/ Crash(w) \/ Restart(w) \/ BeginAttempt(w) \/ DeadLetter(w) \/ Commit(w)
             \/ CommitRejected(w) \/ CallFails(w) \/ SkipDuplicate(w) \/ ClaimRefused(w)
             \/ \E p \in Partitions : Consume(p, w)
      PROVE  RowsInv'
  BY <1>3, QuietStep, RowsQuiet
<1>4. CASE UNCHANGED vars
  BY <1>4, RowsQuiet DEF vars, locals
<1> QED
  BY <1>1, <1>2, <1>3, <1>4, ClaimKeepsRows, CheckExistsKeepsRows, ScoreKeepsRows,
     SaveKeepsRows, EnqueueKeepsRows, CompleteKeepsRows
     DEF Next, Handle, Idle

\* Types, claims and tables agree in every reachable state.
THEOREM RowsInvariant == Spec => [](TypeInv /\ ClaimInv /\ RowsInv)
<1>1. Init => RowsInv
  BY RowsInit
<1>2. TypeInv /\ ClaimInv /\ RowsInv /\ [Next]_vars => RowsInv'
  BY RowsNext
<1> QED
  BY <1>1, <1>2, ClaimsInvariant, PTL DEF Spec

\* EnqueueAsync leaves at most one row per event and topic, in the order of the
\* calls, and the alert repeats the outcome of the decision row.
THEOREM OutboxRowsSafety == Spec => []OutboxPerEvent
<1>1. RowsInv => OutboxPerEvent
  BY DEF RowsInv
<1> QED
  BY <1>1, RowsInvariant, PTL

\* No row stands in the outbox for an event that is not claimed or a transaction
\* that is not decided.
THEOREM AnnouncedSafety == Spec => []AnnouncedIsPersisted
<1>1. RowsInv => AnnouncedIsPersisted
  BY DEF RowsInv
<1> QED
  BY <1>1, RowsInvariant, PTL

\* A completed inbox row means the work was done, by this event or another one.
THEOREM CompletedSafety == Spec => []CompletedIsDone
<1>1. RowsInv => CompletedIsDone
  BY DEF RowsInv
<1> QED
  BY <1>1, RowsInvariant, PTL

\* Every persisted decision has a claimed event behind it and its transaction in
\* the velocity windows.
THEOREM ProvenanceSafety == Spec => []DecisionHasProvenance
<1>1. RowsInv => DecisionHasProvenance
  BY DEF RowsInv, DecidedBy, PastSave, DecisionHasProvenance
<1> QED
  BY <1>1, RowsInvariant, PTL

-----------------------------------------------------------------------------
(* The processor implements the ledger.                                    *)

\* Announcing is adding a decision row, so nothing else changes the announced set.
LEMMA AnnouncedUnchanged ==
    ASSUME outbox' = outbox
    PROVE  Announced' = Announced
  BY DEF Announced, Enqueued

\* Nothing is claimed, decided or announced at the start.
LEMMA LedgerInit == Init => Ledger!Init
<1> SUFFICES ASSUME Init PROVE Ledger!Init
  OBVIOUS
<1>1. DOMAIN outbox = {}
  BY DEF Init
<1>2. Announced = {}
  BY <1>1 DEF Announced, Enqueued
<1> QED
  BY <1>2 DEF Init, Ledger!Init

\* Each of the four writes is the ledger's operation of the same meaning on the
\* event of its worker; every other step, and a save that finds the transaction
\* decided, is invisible.
LEMMA LedgerStep ==
    TypeInv /\ ClaimInv /\ RowsInv /\ [Next]_vars => [Ledger!Next]_(Ledger!vars)
<1> SUFFICES ASSUME TypeInv, ClaimInv, RowsInv, [Next]_vars
             PROVE  [Ledger!Next]_(Ledger!vars)
  OBVIOUS
<1>1. ASSUME NEW w \in Workers, Claim(w)
      PROVE  Ledger!Next
  <2>1. Event(w) \in Events
    BY <1>1, HandlerEvent DEF Claim, HandlerCalls
  <2>2. Announced' = Announced
    BY <1>1, AnnouncedUnchanged DEF Claim
  <2>3. Ledger!Claim(Event(w))
    BY <1>1, <2>2 DEF Claim, Ledger!Claim
  <2> QED
    BY <2>1, <2>3 DEF Ledger!Next
<1>2. ASSUME NEW w \in Workers, SaveDecision(w), decision' # decision
      PROVE  Ledger!Next
  <2>1. /\ Event(w) \in Events /\ Tx(w) = TxOf[Event(w)]
        /\ inbox[Event(w)] = "claimed" /\ verdict[w] \in Decisions
    BY <1>2, HandlerEvent, HolderAlone
       DEF SaveDecision, HandlerCalls, ClaimHeld, RowsInv, HandlerDecision
  <2>2. Announced' = Announced
    BY <1>2, AnnouncedUnchanged DEF SaveDecision
  <2>3. Ledger!Decide(Event(w), verdict[w])
    BY <1>2, <2>1, <2>2 DEF SaveDecision, Ledger!Decide
  <2> QED
    BY <2>1, <2>3 DEF Ledger!Next
<1>3. ASSUME NEW w \in Workers, EnqueueDecision(w)
      PROVE  Ledger!Next
  <2>1. /\ Event(w) \in Events /\ Tx(w) = TxOf[Event(w)]
        /\ inbox[Event(w)] = "claimed" /\ decision[Tx(w)] # Undecided
        /\ \A i \in RowsOf(Event(w)) : outbox[i].topic = "validated"
    BY <1>3, HandlerEvent, HolderAlone
       DEF EnqueueDecision, HandlerCalls, ClaimHeld, RowsInv, HandlerDecision, HandlerRows
  <2>2. Event(w) \notin Announced
    BY <2>1 DEF Announced, Enqueued, RowsOf
  <2>3. Announced' = Announced \union {Event(w)}
    <3> DEFINE n == Len(outbox) + 1
    <3>1. /\ DOMAIN outbox' = DOMAIN outbox \union {n}
          /\ \A i \in DOMAIN outbox : outbox'[i] = outbox[i]
          /\ n \notin DOMAIN outbox
          /\ outbox'[n].topic = "decision" /\ outbox'[n].event = Event(w)
      BY <1>3, RowAdded DEF EnqueueDecision, Enqueue
    <3> HIDE DEF n
    <3> QED
      BY <2>1, <3>1 DEF Announced, Enqueued
  <2>4. Ledger!Announce(Event(w))
    BY <1>3, <2>1, <2>2, <2>3 DEF EnqueueDecision, Enqueue, Ledger!Announce
  <2> QED
    BY <2>1, <2>4 DEF Ledger!Next
<1>4. ASSUME NEW w \in Workers, Complete(w)
      PROVE  Ledger!Next
  <2>1. /\ Event(w) \in Events /\ Tx(w) = TxOf[Event(w)]
        /\ inbox[Event(w)] = "claimed" /\ decision[Tx(w)] # Undecided
    BY <1>4, HandlerEvent, HolderAlone
       DEF Complete, HandlerCalls, ClaimHeld, RowsInv, HandlerDecision
  <2>2. Announced' = Announced
    BY <1>4, AnnouncedUnchanged DEF Complete
  <2>3. Ledger!Complete(Event(w))
    BY <1>4, <2>1, <2>2 DEF Complete, Ledger!Complete
  <2> QED
    BY <2>1, <2>3 DEF Ledger!Next
\* The rows of the other two topics do not announce anything.
<1>5. ASSUME NEW w \in Workers, EnqueueValidated(w) \/ EnqueueAlert(w)
      PROVE  UNCHANGED Ledger!vars
  <2> DEFINE n == Len(outbox) + 1
  <2>1. PICK topic, v, next : topic \in {"validated", "alert"} /\ Enqueue(w, topic, v, next)
    BY <1>5 DEF EnqueueValidated, EnqueueAlert
  <2>2. /\ DOMAIN outbox' = DOMAIN outbox \union {n}
        /\ \A i \in DOMAIN outbox : outbox'[i] = outbox[i]
        /\ n \notin DOMAIN outbox /\ outbox'[n].topic # "decision"
    BY <2>1, RowAdded DEF Enqueue
  <2>3. inbox' = inbox /\ decision' = decision
    BY <2>1 DEF Enqueue
  <2> HIDE DEF n
  <2>4. Announced' = Announced
    BY <2>2 DEF Announced, Enqueued
  <2> QED
    BY <2>3, <2>4 DEF Ledger!vars
<1>6. ASSUME UNCHANGED <<inbox, decision, outbox>>
      PROVE  UNCHANGED Ledger!vars
  BY <1>6, AnnouncedUnchanged DEF Ledger!vars
<1>7. ASSUME NEW w \in Workers,
             CheckExists(w) \/ Score(w) \/ (SaveDecision(w) /\ decision' = decision)
      PROVE  UNCHANGED Ledger!vars
  BY <1>6, <1>7 DEF CheckExists, Score, SaveDecision, stores
<1>8. ASSUME NEW p \in Partitions,
             Revoke(p) \/ \E w \in Workers : Assign(p, w)
      PROVE  UNCHANGED Ledger!vars
  BY <1>6, <1>8 DEF Revoke, Assign, stores
<1>9. CASE UNCHANGED vars
  BY <1>6, <1>9 DEF vars, stores
<1>10. ASSUME NEW w \in Workers,
              \/ Crash(w) \/ Restart(w) \/ BeginAttempt(w) \/ DeadLetter(w) \/ Commit(w)
              \/ CommitRejected(w) \/ CallFails(w) \/ SkipDuplicate(w) \/ ClaimRefused(w)
              \/ \E p \in Partitions : Consume(p, w)
       PROVE  UNCHANGED Ledger!vars
  BY <1>6, <1>10, QuietStep DEF stores
<1> QED
  BY <1>1, <1>2, <1>3, <1>4, <1>5, <1>7, <1>8, <1>9, <1>10
     DEF Next, Handle, Idle

\* What the rest of the system may believe of the processor, for every number of
\* workers, every log and every fault: a ledger that decides a transaction once,
\* for a claimed event of it, and announces an event once, when it is decided.
THEOREM LedgerImplemented == Spec => ImplementsLedger
<1>1. Init => Ledger!Init
  BY LedgerInit
<1>2. TypeInv /\ ClaimInv /\ RowsInv /\ [Next]_vars => [Ledger!Next]_(Ledger!vars)
  BY LedgerStep
<1> QED
  BY <1>1, <1>2, RowsInvariant, PTL DEF Spec, ImplementsLedger, Ledger!Spec

-----------------------------------------------------------------------------
(* Layer 5: each fault loses one event at most.  What is counted is not    *)
(* what is lost but what can no longer be saved: an event that is claimed  *)
(* or whose message is as good as committed, and that nobody is handling.  *)

Passed(m) ==
    \/ m.offset <= committed[m.part]
    \/ \E w \in Workers : pc[w] = "commit" /\ msg[w] = m

Unkept(e) == \E m \in Messages : EventAt(m) = e /\ Passed(m) /\ ~ DeadLettered(m)

AtRisk == {e \in Events : Abandoned(e) /\ (inbox[e] # "absent" \/ Unkept(e))}

LossInv == IsFiniteSet(AtRisk) /\ Cardinality(AtRisk) <= faults

\* A step that keeps the handlers of an event at work, claims nothing for it and
\* lets none of its messages pass does not put it at risk.
LEMMA RiskFrame ==
    ASSUME StoresGrow, NEW e \in Events,
           \A v \in Workers : Holds(v) /\ Event(v) = e => Holds(v)' /\ Event(v)' = e,
           inbox'[e] # "absent" => inbox[e] # "absent",
           \A m \in Messages : EventAt(m) = e /\ Passed(m)' =>
               Passed(m) \/ DeadLettered(m)' \/ inbox[e] # "absent",
           e \in AtRisk'
    PROVE  e \in AtRisk
<1>1. Abandoned(e)' /\ (inbox'[e] # "absent" \/ Unkept(e)')
  BY DEF AtRisk
<1>2. decision[TxOf[e]] = Undecided
  BY <1>1, LogAssumption DEF Abandoned, StoresGrow
<1>3. Abandoned(e)
  BY <1>1, <1>2 DEF Abandoned
<1>4. ASSUME Unkept(e)', inbox[e] = "absent"
      PROVE  Unkept(e)
  <2>1. PICK m \in Messages : EventAt(m) = e /\ Passed(m)' /\ ~ DeadLettered(m)'
    BY <1>4 DEF Unkept, EventAt
  <2>2. Passed(m) /\ ~ DeadLettered(m)
    BY <1>4, <2>1 DEF StoresGrow, DeadLettered
  <2> QED
    BY <2>1, <2>2 DEF Unkept
<1> QED
  BY <1>1, <1>3, <1>4 DEF AtRisk

\* A worker that does not commit lets no message pass but the one it takes to the
\* commit.
LEMMA PassedStep ==
    ASSUME NEW w \in Workers, committed' = committed,
           \A v \in Workers \ {w} : pc'[v] = pc[v] /\ msg'[v] = msg[v],
           pc'[w] = "commit" => msg'[w] = msg[w],
           NEW m, Passed(m)'
    PROVE  Passed(m) \/ (pc'[w] = "commit" /\ m = msg[w])
BY DEF Passed

\* The step of one worker puts no event at risk but the one it is handling.
LEMMA OthersAtRisk ==
    ASSUME StoresGrow, NEW w \in Workers, committed' = committed,
           \A v \in Workers \ {w} : pc'[v] = pc[v] /\ msg'[v] = msg[v],
           pc'[w] = "commit" => msg'[w] = msg[w],
           \A e \in Events : e # Event(w) => inbox'[e] = inbox[e]
    PROVE  \A e \in Events : e \in AtRisk' /\ e # Event(w) => e \in AtRisk
<1> SUFFICES ASSUME NEW e \in Events, e \in AtRisk', e # Event(w)
             PROVE  e \in AtRisk
  OBVIOUS
<1>1. \A v \in Workers : Holds(v) /\ Event(v) = e => Holds(v)' /\ Event(v)' = e
  BY DEF Holds, Event, EventAt
<1>2. \A m \in Messages : EventAt(m) = e /\ Passed(m)' => Passed(m)
  BY PassedStep DEF Event
<1> QED
  BY <1>1, <1>2, RiskFrame

\* A worker that goes on with its event and passes nothing keeps it from risk.
LEMMA StillHandled ==
    ASSUME StoresGrow, NEW w \in Workers, committed' = committed,
           \A v \in Workers \ {w} : pc'[v] = pc[v] /\ msg'[v] = msg[v],
           inbox' = inbox, pc'[w] # "commit",
           Holds(w) => Holds(w)' /\ Event(w)' = Event(w)
    PROVE  AtRisk' \subseteq AtRisk
<1> SUFFICES ASSUME NEW e \in Events, e \in AtRisk'
             PROVE  e \in AtRisk
  BY DEF AtRisk
<1>1. \A v \in Workers : Holds(v) /\ Event(v) = e => Holds(v)' /\ Event(v)' = e
  BY DEF Holds, Event, EventAt
<1>2. \A m \in Messages : Passed(m)' => Passed(m)
  BY PassedStep
<1> QED
  BY <1>1, <1>2, RiskFrame

\* What the count does when a fault puts one event at risk, and when none is.
LEMMA RiskCount ==
    ASSUME LossInv, faults \in Nat, faults' \in Nat,
           \/ AtRisk' \subseteq AtRisk /\ faults <= faults'
           \/ \E x : AtRisk' \subseteq AtRisk \union {x} /\ faults' = faults + 1
    PROVE  LossInv'
<1>0. IsFiniteSet(AtRisk) /\ Cardinality(AtRisk) \in Nat /\ Cardinality(AtRisk) <= faults
  BY FS_CardinalityType DEF LossInv
<1>1. CASE AtRisk' \subseteq AtRisk /\ faults <= faults'
  <2>1. IsFiniteSet(AtRisk') /\ Cardinality(AtRisk') <= Cardinality(AtRisk)
    BY <1>0, <1>1, FS_Subset
  <2>2. Cardinality(AtRisk') \in Nat
    BY <2>1, FS_CardinalityType
  <2> QED
    BY <1>0, <1>1, <2>1, <2>2 DEF LossInv
<1>2. ASSUME NEW x, AtRisk' \subseteq AtRisk \union {x}, faults' = faults + 1
      PROVE  LossInv'
  <2> DEFINE S == AtRisk \union {x}
  <2>1. IsFiniteSet(S) /\ Cardinality(S) <= Cardinality(AtRisk) + 1
    BY <1>0, FS_AddElement
  <2>2. Cardinality(S) \in Nat
    BY <2>1, FS_CardinalityType
  <2>3. IsFiniteSet(AtRisk') /\ Cardinality(AtRisk') <= Cardinality(S)
    BY <1>2, <2>1, FS_Subset
  <2>4. Cardinality(AtRisk') \in Nat
    BY <2>3, FS_CardinalityType
  <2> HIDE DEF S
  <2> QED
    BY <1>0, <1>2, <2>1, <2>2, <2>3, <2>4 DEF LossInv
<1> QED
  BY <1>1, <1>2

\* Nothing is at risk before the first message is read.
LEMMA LossInit == Init => LossInv
<1> SUFFICES ASSUME Init PROVE LossInv
  OBVIOUS
<1>1. \A m \in Messages : ~ Passed(m)
  BY MessageFacts DEF Init, Passed
<1>2. AtRisk = {}
  BY <1>1 DEF Init, AtRisk, Unkept
<1> QED
  BY <1>2, FS_EmptySet DEF Init, LossInv

\* A call of the handler that returns keeps the event in hand; one that throws
\* is a fault, and leaves that event behind.
LEMMA CallRisk ==
    ASSUME TypeInv, StoresGrow, LossInv, NEW w \in Workers, NEW step \in ClaimHeld,
           Holds(w), Proceed(w, step) \/ AckLost(w),
           UNCHANGED <<broker, inbox, msg>>
    PROVE  LossInv'
<1>1. /\ committed' = committed /\ msg' = msg /\ inbox' = inbox
      /\ pc'[w] \in {step, "attempt", "deadLetter"}
      /\ \A v \in Workers \ {w} : pc'[v] = pc[v]
  BY CallOutcome DEF broker
<1>2. faults \in Nat /\ pc'[w] # "commit" /\ Event(w)' = Event(w)
  BY <1>1, BoundAssumption DEF TypeInv, TypeOK, Event, EventAt, ClaimHeld
<1>3. CASE Proceed(w, step)
  <2>1. Holds(w)' /\ faults' = faults
    BY <1>3 DEF Proceed, Goto, TypeInv, TypeOK, Holds
  <2>2. AtRisk' \subseteq AtRisk
    BY <1>1, <1>2, <2>1, StillHandled
  <2> QED
    BY <1>2, <2>1, <2>2, RiskCount
<1>4. CASE AckLost(w)
  <2>1. faults' = faults + 1 /\ faults' \in Nat
    BY <1>2, <1>4 DEF AckLost, Fault
  <2>2. \A e \in Events : e \in AtRisk' /\ e # Event(w) => e \in AtRisk
    BY <1>1, OthersAtRisk
  <2>3. AtRisk' \subseteq AtRisk \union {Event(w)}
    BY <2>2 DEF AtRisk
  <2> QED
    BY <1>2, <2>1, <2>3, RiskCount
<1> QED
  BY <1>3, <1>4

\* Every action keeps the count.  The faults that add to it are a crash, a call
\* that throws, and a claim that is refused or whose acknowledgement is lost.
LEMMA LossNext ==
    TypeInv /\ ClaimInv /\ TraceInv /\ RowsInv /\ LossInv /\ [Next]_vars => LossInv'
<1> SUFFICES ASSUME TypeInv, ClaimInv, TraceInv, RowsInv, LossInv, [Next]_vars
             PROVE  LossInv'
  OBVIOUS
<1> USE DEF broker, stores, locals
<1>0. StoresGrow /\ faults \in Nat
  BY StoresGrowNext, BoundAssumption DEF TypeInv, TypeOK
\* A step of the group or the host that claims and passes nothing.
<1>1. ASSUME committed' = committed, inbox' = inbox,
             \A v \in Workers : Holds(v) => Holds(v)' /\ msg'[v] = msg[v],
             \A v \in Workers : pc'[v] = "commit" => pc[v] = "commit" /\ msg'[v] = msg[v],
             faults' = faults \/ Fault
      PROVE  LossInv'
  <2>1. \A m \in Messages : Passed(m)' => Passed(m)
    BY <1>1 DEF Passed
  <2>2. \A v \in Workers : Holds(v) => Holds(v)' /\ Event(v)' = Event(v)
    BY <1>1 DEF Event, EventAt
  <2>3. AtRisk' \subseteq AtRisk
    <3> SUFFICES ASSUME NEW e \in Events, e \in AtRisk'
                 PROVE  e \in AtRisk
      BY DEF AtRisk
    <3> QED
      BY <1>0, <1>1, <2>1, <2>2, RiskFrame
  <2>4. faults <= faults' /\ faults' \in Nat
    BY <1>0, <1>1 DEF Fault
  <2> QED
    BY <1>0, <2>3, <2>4, RiskCount
<1>2. ASSUME NEW p \in Partitions, Revoke(p) \/ \E w \in Workers : Assign(p, w)
      PROVE  LossInv'
  BY <1>1, <1>2 DEF Revoke, Assign, Holds
<1>3. ASSUME NEW w \in Workers,
             \/ Restart(w) \/ BeginAttempt(w) \/ CommitRejected(w)
             \/ \E p \in Partitions : Consume(p, w)
      PROVE  LossInv'
  <2>1. /\ committed' = committed /\ inbox' = inbox /\ faults' = faults
        /\ \A v \in Workers \ {w} : pc'[v] = pc[v] /\ msg'[v] = msg[v]
    BY <1>3
       DEF Restart, BeginAttempt, CommitRejected, Leave, Release, Consume, Throw,
           Goto, TypeInv, TypeOK
  <2>2. ~ Holds(w) /\ pc'[w] # "commit"
    BY <1>3
       DEF Restart, BeginAttempt, CommitRejected, Leave, Release, Consume, Throw,
           Goto, TypeInv, TypeOK, Holds, ClaimHeld
  <2> QED
    BY <1>1, <2>1, <2>2 DEF Holds
<1>4. ASSUME NEW w \in Workers, Crash(w) \/ CallFails(w) \/ ClaimRefused(w)
      PROVE  LossInv'
  <2>1. /\ committed' = committed /\ inbox' = inbox
        /\ \A v \in Workers \ {w} : pc'[v] = pc[v] /\ msg'[v] = msg[v]
        /\ pc'[w] = "commit" => msg'[w] = msg[w]
        /\ faults' = faults + 1
    BY <1>4
       DEF Crash, CallFails, ClaimRefused, Leave, Release, Throw, Fault, Goto,
           TypeInv, TypeOK
  <2>2. \A e \in Events : e \in AtRisk' /\ e # Event(w) => e \in AtRisk
    BY <1>0, <2>1, OthersAtRisk
  <2>3. AtRisk' \subseteq AtRisk \union {Event(w)} /\ faults' \in Nat
    BY <1>0, <2>1, <2>2 DEF AtRisk
  <2> QED
    BY <1>0, <2>1, <2>3, RiskCount
\* The message that goes to the commit is dead-lettered, or its event is claimed.
<1>5. ASSUME NEW w \in Workers, DeadLetter(w) \/ SkipDuplicate(w)
      PROVE  LossInv'
  <2>1. /\ committed' = committed /\ inbox' = inbox /\ faults' = faults /\ msg' = msg
        /\ \A v \in Workers \ {w} : pc'[v] = pc[v]
        /\ ~ Holds(w)
    BY <1>5
       DEF DeadLetter, SkipDuplicate, Proceed, Goto, TypeInv, TypeOK, Holds, ClaimHeld
  <2>2. DeadLettered(msg[w])' \/ inbox[Event(w)] # "absent"
    <3>1. CASE SkipDuplicate(w)
      BY <3>1 DEF SkipDuplicate
    <3>2. CASE DeadLetter(w)
      <4> DEFINE dead == [message |-> msg[w], poison |-> Event(w) \in Invalid \ Malformed]
      <4>1. dead \in deadLetters' /\ msg' = msg
        BY <3>2 DEF DeadLetter
      <4>2. dead.message = msg[w]
        OBVIOUS
      <4> HIDE DEF dead
      <4> QED
        BY <4>1, <4>2 DEF DeadLettered
    <3> QED
      BY <1>5, <3>1, <3>2
  <2>3. \A m \in Messages : Passed(m)' =>
            Passed(m) \/ DeadLettered(m)' \/ inbox[EventAt(m)] # "absent"
    <3>1. \A m : m = msg[w] => DeadLettered(m)' \/ inbox[EventAt(m)] # "absent"
      BY <2>1, <2>2 DEF DeadLettered, Event
    <3> QED
      BY <2>1, <3>1, PassedStep
  <2>4. \A v \in Workers : Holds(v) => Holds(v)' /\ Event(v)' = Event(v)
    BY <2>1 DEF Holds, Event, EventAt
  <2>5. AtRisk' \subseteq AtRisk
    <3> SUFFICES ASSUME NEW e \in Events, e \in AtRisk'
                 PROVE  e \in AtRisk
      BY DEF AtRisk
    <3> QED
      BY <1>0, <2>1, <2>3, <2>4, RiskFrame
  <2> QED
    BY <1>0, <2>1, <2>5, RiskCount
\* The offset that is committed is the one of the message at hand.
<1>6. ASSUME NEW w \in Workers, Commit(w)
      PROVE  LossInv'
  <2> DEFINE q == msg[w].part
  <2>1. /\ msg[w] \in Messages /\ pc[w] = "commit" /\ q \in Partitions
        /\ msg[w].offset = committed[q] + 1
        /\ committed' = [committed EXCEPT ![q] = committed[q] + 1]
        /\ committed \in [Partitions -> Nat]
    BY <1>6, MessageFacts
       DEF Commit, TypeInv, TypeOK, HasMessage, Busy, TraceInv, AtNextOffset
  <2>2. /\ inbox' = inbox /\ faults' = faults
        /\ \A v \in Workers \ {w} : pc'[v] = pc[v] /\ msg'[v] = msg[v]
        /\ pc'[w] = "consume" /\ ~ Holds(w)
    BY <1>6 DEF Commit, Release, Goto, TypeInv, TypeOK, Holds, ClaimHeld
  <2>3. ASSUME NEW m \in Messages, Passed(m)'
        PROVE  Passed(m)
    <3>1. CASE m.offset <= committed'[m.part]
      <4>1. m.part \in Partitions /\ m.offset \in Nat
        BY MessageFacts
      <4>2. m.offset <= committed[m.part] \/ (m.part = q /\ m.offset = msg[w].offset)
        BY <2>1, <3>1, <4>1
      <4>3. m.part = q /\ m.offset = msg[w].offset => m = msg[w]
        BY <2>1 DEF Messages
      <4> QED
        BY <2>1, <4>2, <4>3 DEF Passed
    <3>2. CASE \E v \in Workers : pc'[v] = "commit" /\ msg'[v] = m
      BY <2>2, <3>2 DEF Passed
    <3> QED
      BY <2>3, <3>1, <3>2 DEF Passed
  <2>4. \A v \in Workers : Holds(v) => Holds(v)' /\ Event(v)' = Event(v)
    BY <2>2 DEF Holds, Event, EventAt
  <2>5. AtRisk' \subseteq AtRisk
    <3> SUFFICES ASSUME NEW e \in Events, e \in AtRisk'
                 PROVE  e \in AtRisk
      BY DEF AtRisk
    <3> QED
      BY <1>0, <2>2, <2>3, <2>4, RiskFrame
  <2> QED
    BY <1>0, <2>2, <2>5, RiskCount
<1>7. ASSUME NEW w \in Workers, Claim(w)
      PROVE  LossInv'
  <2>1. /\ Event(w) \in Events
        /\ committed' = committed /\ msg' = msg
        /\ inbox' = [inbox EXCEPT ![Event(w)] = "claimed"]
        /\ \A v \in Workers \ {w} : pc'[v] = pc[v]
        /\ \A e \in Events : e # Event(w) => inbox'[e] = inbox[e]
    BY <1>7, HandlerEvent
       DEF Claim, HandlerCalls, Proceed, AckLost, Throw, Goto, TypeInv, TypeOK
  <2>2. \A e \in Events : e \in AtRisk' /\ e # Event(w) => e \in AtRisk
    BY <1>0, <2>1, OthersAtRisk
  <2>3. CASE Proceed(w, "exists")
    <3>1. faults' = faults /\ Holds(w)' /\ Event(w)' = Event(w)
      BY <2>1, <2>3 DEF Proceed, Goto, TypeInv, TypeOK, Holds, ClaimHeld, Event, EventAt
    <3>2. Event(w) \notin AtRisk'
      BY <3>1 DEF AtRisk, Abandoned
    <3>3. AtRisk' \subseteq AtRisk
      BY <2>2, <3>2 DEF AtRisk
    <3> QED
      BY <1>0, <3>1, <3>3, RiskCount
  <2>4. CASE Fault
    <3>1. AtRisk' \subseteq AtRisk \union {Event(w)} /\ faults' = faults + 1 /\ faults' \in Nat
      BY <1>0, <2>2, <2>4 DEF AtRisk, Fault
    <3> QED
      BY <1>0, <3>1, RiskCount
  <2> QED
    BY <1>7, <2>3, <2>4 DEF Claim, AckLost
<1>8. ASSUME NEW w \in Workers,
             \/ CheckExists(w) \/ Score(w) \/ SaveDecision(w)
             \/ EnqueueValidated(w) \/ EnqueueDecision(w) \/ EnqueueAlert(w)
      PROVE  LossInv'
  <2>1. Holds(w) /\ UNCHANGED <<broker, inbox, msg>>
    BY <1>8
       DEF CheckExists, Score, SaveDecision, EnqueueValidated, EnqueueDecision,
           EnqueueAlert, Enqueue, Holds, ClaimHeld
  <2>2. \E step \in ClaimHeld : Proceed(w, step) \/ AckLost(w)
    BY <1>8
       DEF CheckExists, Score, SaveDecision, EnqueueValidated, EnqueueDecision,
           EnqueueAlert, Enqueue, ClaimHeld
  <2> QED
    BY <1>0, <2>1, <2>2, CallRisk
\* The event that is completed is decided, so there is nothing left to lose.
<1>9. ASSUME NEW w \in Workers, Complete(w)
      PROVE  LossInv'
  <2>1. /\ Event(w) \in Events /\ decision[TxOf[Event(w)]] # Undecided
    BY <1>9, HandlerEvent
       DEF Complete, HandlerCalls, ClaimHeld, RowsInv, HandlerDecision
  <2>2. /\ committed' = committed /\ msg' = msg /\ decision' = decision
        /\ \A v \in Workers \ {w} : pc'[v] = pc[v]
        /\ \A e \in Events : e # Event(w) => inbox'[e] = inbox[e]
        /\ faults' = faults \/ Fault
    BY <1>9, <2>1
       DEF Complete, Proceed, AckLost, Throw, Goto, TypeInv, TypeOK
  <2>3. \A e \in Events : e \in AtRisk' /\ e # Event(w) => e \in AtRisk
    BY <1>0, <2>2, OthersAtRisk
  <2>4. \A e \in Events : e = Event(w) => e \notin AtRisk'
    BY <2>1, <2>2 DEF AtRisk, Abandoned
  <2>5. AtRisk' \subseteq AtRisk
    BY <2>3, <2>4 DEF AtRisk
  <2>6. faults <= faults' /\ faults' \in Nat
    BY <1>0, <2>2 DEF Fault
  <2> QED
    BY <1>0, <2>5, <2>6, RiskCount
<1>10. CASE UNCHANGED vars
  BY <1>1, <1>10 DEF vars, Holds
<1> QED
  BY <1>2, <1>3, <1>4, <1>5, <1>6, <1>7, <1>8, <1>9, <1>10
     DEF Next, Handle, Idle

\* All layers of the processor together.
THEOREM LossInvariant == Spec => [](TypeInv /\ ClaimInv /\ TraceInv /\ RowsInv /\ LossInv)
<1>1. Init => LossInv
  BY LossInit
<1>2. TypeInv /\ ClaimInv /\ TraceInv /\ RowsInv /\ LossInv /\ [Next]_vars => LossInv'
  BY LossNext
<1> QED
  BY <1>1, <1>2, RowsInvariant, TraceInvariant, PTL DEF Spec

\* A rejected payload is never committed without its dead letter, and the events
\* that are lost, committed with no decision, no dead letter and no handler, are
\* never more than the faults that have happened: without a fault none is lost.
THEOREM LossSafety == Spec => []LossNeedsFault
<1>1. TypeInv /\ TraceInv /\ LossInv => LossNeedsFault
  <2> SUFFICES ASSUME TypeInv, TraceInv, LossInv
               PROVE  LossNeedsFault
    OBVIOUS
  <2>1. RejectedIsDeadLettered
    BY DEF TraceInv, CommittedIsTraced, Traced, RejectedIsDeadLettered
  <2>2. Lost \subseteq AtRisk
    BY DEF Lost, AtRisk, Unkept, Passed
  <2>3. /\ Cardinality(AtRisk) \in Nat /\ Cardinality(Lost) \in Nat
        /\ Cardinality(Lost) <= Cardinality(AtRisk)
    BY <2>2, FS_Subset, FS_CardinalityType DEF LossInv
  <2>4. faults \in Nat
    BY BoundAssumption DEF TypeInv, TypeOK
  <2> QED
    BY <2>1, <2>3, <2>4 DEF LossNeedsFault, LossInv
<1> QED
  BY <1>1, LossInvariant, PTL
=============================================================================
