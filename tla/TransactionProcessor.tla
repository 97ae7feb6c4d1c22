------------------------ MODULE TransactionProcessor ------------------------
(***************************************************************************)
(* The TransactionProcessor consumer group: RawTransactionConsumer on top  *)
(* of KafkaConsumerHost, calling TransactionProcessingService.ProcessAsync *)
(* with the EF inbox, decision and outbox stores.                          *)
(*                                                                         *)
(* Every awaited database, Redis or Kafka call of the handler is one step, *)
(* because each call commits on its own.  A worker is one host process: it *)
(* handles one message at a time, may be stopped between any two steps,    *)
(* and may lose a partition to another worker while it is still handling   *)
(* a message of it (it finds out when it commits the offset).              *)
(***************************************************************************)
EXTENDS Integers, Sequences, FiniteSets

CONSTANTS
    Workers,        \* host processes of the consumer group
    Partitions,     \* partitions of sentinel.transactions.raw.v1
    Events,         \* EventId values carried by raw messages
    Transactions,   \* TransactionId values
    Log,            \* Log[p]: the EventIds of the raw messages of p, in order
    TxOf,           \* TxOf[e]: the TransactionId in the payload of e
    Malformed,      \* events whose payload makes SentinelJson.Deserialize throw
    Invalid,        \* events the transaction validator rejects
    Decisions,      \* outcomes of the risk engine
    Alerting,       \* the outcomes that raise an alert: REVIEW and BLOCK
    Undecided,      \* no decision
    NoWorker,       \* nobody owns the partition
    NoMessage,      \* no message in flight
    MaxAttempts,    \* KafkaOptions.RetryCount
    MaxFaults       \* bound: infrastructure faults in one behaviour

ASSUME LogAssumption ==
    /\ Log \in [Partitions -> Seq(Events)]
    /\ TxOf \in [Events -> Transactions]
    /\ Malformed \subseteq Events
    /\ Invalid \subseteq Events

ASSUME DecisionAssumption ==
    /\ Alerting \subseteq Decisions
    /\ Undecided \notin Decisions

ASSUME BoundAssumption ==
    /\ MaxAttempts \in Nat \ {0}
    /\ MaxFaults \in Nat

ASSUME NullAssumption ==
    /\ NoWorker \notin Workers
    /\ NoMessage \notin [part : Partitions, offset : Nat]

VARIABLES
    committed,      \* committed[p]: offsets of p the group has committed
    owner,          \* owner[p]: the worker p is assigned to
    deadLetters,    \* records on sentinel.deadletter.v1
    inbox,          \* inbox_messages, by EventId
    decision,       \* risk_decisions, by TransactionId
    outbox,         \* outbox_messages, in insertion order
    velocity,       \* transactions recorded in the Redis velocity sets
    pc,             \* pc[w]: the call worker w is about to make
    msg,            \* msg[w]: the message w is handling
    attempt,        \* attempt[w]: ProcessWithRetryAsync's counter
    verdict,        \* verdict[w]: evaluation.Decision in ProcessAsync
    faults          \* infrastructure faults so far

broker == <<committed, owner, deadLetters>>
stores == <<inbox, decision, outbox, velocity>>
locals == <<pc, msg, attempt, verdict>>
vars == <<broker, stores, locals, faults>>

Messages == UNION {[part : {p}, offset : 1 .. Len(Log[p])] : p \in Partitions}
Topics == {"validated", "decision", "alert"}
Row == [topic : Topics, event : Events, verdict : Decisions \union {Undecided}]

\* Calls made between a successful TryBeginAsync and the end of the handler.
ClaimHeld == {"exists", "score", "save", "enqueueValidated",
              "enqueueDecision", "enqueueAlert", "complete"}
HandlerCalls == {"claim"} \union ClaimHeld
Steps == {"down", "consume", "attempt", "deadLetter", "commit"} \union HandlerCalls

EventAt(m) == Log[m.part][m.offset]
Event(w) == EventAt(msg[w])
Tx(w) == TxOf[Event(w)]
Busy(w) == pc[w] \notin {"down", "consume"}
Holds(w) == pc[w] \in ClaimHeld

Enqueued(topic, e) ==
    \E i \in DOMAIN outbox : outbox[i].topic = topic /\ outbox[i].event = e

TypeOK ==
    /\ committed \in [Partitions -> Nat]
    /\ owner \in [Partitions -> Workers \union {NoWorker}]
    /\ deadLetters \subseteq [message : Messages, poison : BOOLEAN]
    /\ inbox \in [Events -> {"absent", "claimed", "completed"}]
    /\ decision \in [Transactions -> Decisions \union {Undecided}]
    /\ outbox \in Seq(Row)
    /\ velocity \subseteq Transactions
    /\ pc \in [Workers -> Steps]
    /\ msg \in [Workers -> Messages \union {NoMessage}]
    /\ attempt \in [Workers -> 0 .. MaxAttempts]
    /\ verdict \in [Workers -> Decisions \union {Undecided}]
    /\ faults \in 0 .. MaxFaults

Init ==
    /\ committed = [p \in Partitions |-> 0]
    /\ owner = [p \in Partitions |-> NoWorker]
    /\ deadLetters = {}
    /\ inbox = [e \in Events |-> "absent"]
    /\ decision = [t \in Transactions |-> Undecided]
    /\ outbox = <<>>
    /\ velocity = {}
    /\ pc = [w \in Workers |-> "consume"]
    /\ msg = [w \in Workers |-> NoMessage]
    /\ attempt = [w \in Workers |-> 0]
    /\ verdict = [w \in Workers |-> Undecided]
    /\ faults = 0

-----------------------------------------------------------------------------
(* Control of one worker.                                                  *)

Goto(w, step) == pc' = [pc EXCEPT ![w] = step]

\* The call returned: go on to the next one.
Proceed(w, step) == Goto(w, step) /\ UNCHANGED <<attempt, faults>>

\* Faulty variants of Throw: one attempt too many, and retrying for ever.
ThrowOneMore(w) ==
    IF attempt[w] <= MaxAttempts
    THEN /\ attempt' = [attempt EXCEPT ![w] = @ + 1]
         /\ Goto(w, "attempt")
    ELSE /\ Goto(w, "deadLetter")
         /\ UNCHANGED attempt

ThrowForever(w) ==
    /\ Goto(w, "attempt")
    /\ UNCHANGED attempt

\* An exception other than PoisonMessageException leaves the handler: try the
\* message again, or give it up after the last attempt.
Throw(w) ==
    IF attempt[w] < MaxAttempts
    THEN /\ attempt' = [attempt EXCEPT ![w] = @ + 1]
         /\ Goto(w, "attempt")
    ELSE /\ Goto(w, "deadLetter")
         /\ UNCHANGED attempt

Fault == faults < MaxFaults /\ faults' = faults + 1

\* A write the server applied, but whose call still ended in an exception.
AckLost(w) == Fault /\ Throw(w)

\* Back to Consume, or out of the process, with nothing in flight.
Release(w, step) ==
    /\ Goto(w, step)
    /\ msg' = [msg EXCEPT ![w] = NoMessage]
    /\ attempt' = [attempt EXCEPT ![w] = 0]
    /\ verdict' = [verdict EXCEPT ![w] = Undecided]

-----------------------------------------------------------------------------
(* Faulty variants of the actions below, for checking that the properties  *)
(* notice them.  None is part of the specification.                        *)

\* The commit does not depend on owning the partition.
CommitUnfenced(w) ==
    /\ pc[w] = "commit"
    /\ committed' = [committed EXCEPT ![msg[w].part] = msg[w].offset]
    /\ Release(w, "consume")
    /\ UNCHANGED <<owner, deadLetters, stores, faults>>

\* The validator's verdict is ignored before the claim.
BeginAttemptUnvalidated(w) ==
    /\ pc[w] = "attempt"
    /\ \/ Event(w) \in Malformed /\ Throw(w)
       \/ Event(w) \notin Malformed /\ Goto(w, "claim") /\ UNCHANGED attempt
    /\ UNCHANGED <<broker, stores, msg, verdict, faults>>

\* The inbox insert is an upsert.
ClaimAgain(w) ==
    /\ pc[w] = "claim"
    /\ inbox' = [inbox EXCEPT ![Event(w)] = "claimed"]
    /\ Proceed(w, "exists")
    /\ UNCHANGED <<broker, decision, outbox, velocity, msg, verdict>>

\* The inbox row is inserted as completed.
ClaimCompleted(w) ==
    /\ pc[w] = "claim"
    /\ inbox[Event(w)] = "absent"
    /\ inbox' = [inbox EXCEPT ![Event(w)] = "completed"]
    /\ Proceed(w, "exists")
    /\ UNCHANGED <<broker, decision, outbox, velocity, msg, verdict>>

\* A found decision returns without completing the inbox.
CheckExistsReturns(w) ==
    /\ pc[w] = "exists"
    /\ Proceed(w, IF decision[Tx(w)] # Undecided THEN "commit" ELSE "score")
    /\ UNCHANGED <<broker, stores, msg, verdict>>

\* The decision is announced before it is saved.
ScoreUnsaved(w) ==
    /\ pc[w] = "score"
    /\ velocity' = velocity \union {Tx(w)}
    /\ \E d \in Decisions : verdict' = [verdict EXCEPT ![w] = d]
    /\ Proceed(w, "enqueueValidated")
    /\ UNCHANGED <<broker, inbox, decision, outbox, msg>>

\* The evaluation does not record the transaction.
ScoreUnrecorded(w) ==
    /\ pc[w] = "score"
    /\ \E d \in Decisions : verdict' = [verdict EXCEPT ![w] = d]
    /\ Proceed(w, "save")
    /\ UNCHANGED <<broker, stores, msg>>

\* SaveAsync is an upsert.
SaveDecisionUpsert(w) ==
    /\ pc[w] = "save"
    /\ decision' = [decision EXCEPT ![Tx(w)] = verdict[w]]
    /\ (Proceed(w, "enqueueValidated") \/ AckLost(w))
    /\ UNCHANGED <<broker, inbox, outbox, velocity, msg, verdict>>

\* A lost acknowledgement is answered by enqueueing again.
EnqueueRepeated(w, topic, v, next) ==
    /\ outbox' = Append(outbox, [topic |-> topic, event |-> Event(w), verdict |-> v])
    /\ (Proceed(w, next) \/ (Fault /\ UNCHANGED <<pc, attempt>>))
    /\ UNCHANGED <<broker, inbox, decision, velocity, msg, verdict>>

-----------------------------------------------------------------------------
(* Group membership and process lifetime.                                  *)

\* A rebalance hands a free partition to a worker that is inside Consume.
Assign(p, w) ==
    /\ owner[p] = NoWorker
    /\ pc[w] = "consume"
    /\ owner' = [owner EXCEPT ![p] = w]
    /\ UNCHANGED <<committed, deadLetters, stores, locals, faults>>

\* The group takes a partition away.  Its worker may be handling a message.
Revoke(p) ==
    /\ owner[p] # NoWorker
    /\ Fault
    /\ owner' = [owner EXCEPT ![p] = NoWorker]
    /\ UNCHANGED <<committed, deadLetters, stores, locals>>

Leave(w) ==
    /\ Release(w, "down")
    /\ owner' = [p \in Partitions |-> IF owner[p] = w THEN NoWorker ELSE owner[p]]

\* The process dies: killed, told to stop, or ended by an exception that
\* escapes ExecuteAsync (dead-letter publish or offset commit failed).
Crash(w) ==
    /\ pc[w] # "down"
    /\ Fault
    /\ Leave(w)
    /\ UNCHANGED <<committed, deadLetters, stores>>

Restart(w) ==
    /\ pc[w] = "down"
    /\ Goto(w, "consume")
    /\ UNCHANGED <<broker, stores, msg, attempt, verdict, faults>>

-----------------------------------------------------------------------------
(* KafkaConsumerHost.                                                      *)

\* consumer.Consume: the owner reads on from the committed offset, since it
\* commits every message before it asks for the next one.
Consume(p, w) ==
    /\ pc[w] = "consume"
    /\ owner[p] = w
    /\ committed[p] < Len(Log[p])
    /\ msg' = [msg EXCEPT ![w] = [part |-> p, offset |-> committed[p] + 1]]
    /\ attempt' = [attempt EXCEPT ![w] = 1]
    /\ Goto(w, "attempt")
    /\ UNCHANGED <<broker, stores, verdict, faults>>

\* Deserialize and validate, before anything is claimed.  A JsonException is
\* retried like any other, a validation failure is poison at once.
BeginAttempt(w) ==
    /\ pc[w] = "attempt"
    /\ \/ /\ Event(w) \in Malformed
          /\ Throw(w)
       \/ /\ Event(w) \in Invalid \ Malformed
          /\ Goto(w, "deadLetter")
          /\ UNCHANGED attempt
       \/ /\ Event(w) \notin Malformed \union Invalid
          /\ Goto(w, "claim")
          /\ UNCHANGED attempt
    /\ UNCHANGED <<broker, stores, msg, verdict, faults>>

\* DeadLetterAsync, then return to the consume loop.
DeadLetter(w) ==
    /\ pc[w] = "deadLetter"
    /\ deadLetters' = deadLetters \union
           {[message |-> msg[w], poison |-> Event(w) \in Invalid \ Malformed]}
    /\ Proceed(w, "commit")
    /\ UNCHANGED <<committed, owner, stores, msg, verdict>>

\* consumer.Commit by the partition's owner.
Commit(w) ==
    /\ pc[w] = "commit"
    /\ owner[msg[w].part] = w
    /\ committed' = [committed EXCEPT ![msg[w].part] = msg[w].offset]
    /\ Release(w, "consume")
    /\ UNCHANGED <<owner, deadLetters, stores, faults>>

\* The commit of a worker that lost the partition throws KafkaException,
\* which nothing catches: the host stops.
CommitRejected(w) ==
    /\ pc[w] = "commit"
    /\ owner[msg[w].part] # w
    /\ Leave(w)
    /\ UNCHANGED <<committed, deadLetters, stores, faults>>

-----------------------------------------------------------------------------
(* TransactionProcessingService.ProcessAsync.                              *)

\* Any call of the handler fails without effect.
CallFails(w) ==
    /\ pc[w] \in HandlerCalls
    /\ Fault
    /\ Throw(w)
    /\ UNCHANGED <<broker, stores, msg, verdict>>

\* TryBeginAsync finds or hits the EventId's row: the message is a duplicate.
\* The handler returns, and the host commits the offset.
SkipDuplicate(w) ==
    /\ pc[w] = "claim"
    /\ inbox[Event(w)] # "absent"
    /\ Proceed(w, "commit")
    /\ UNCHANGED <<broker, stores, msg, verdict>>

\* TryBeginAsync inserts the row.  If the acknowledgement of the commit is
\* lost, the execution strategy repeats the insert and hits its own row:
\* DbUpdateException, reported as "duplicate".  Or the call just throws.
Claim(w) ==
    /\ pc[w] = "claim"
    /\ inbox[Event(w)] = "absent"
    /\ inbox' = [inbox EXCEPT ![Event(w)] = "claimed"]
    /\ \/ Proceed(w, "exists")
       \/ Goto(w, "commit") /\ Fault /\ UNCHANGED attempt
       \/ AckLost(w)
    /\ UNCHANGED <<broker, decision, outbox, velocity, msg, verdict>>

\* TryBeginAsync answers false for every DbUpdateException.  An insert that the
\* server refuses for another reason than the key (read-only after a failover,
\* a cancelled statement, a missing permission) is a "duplicate" as well: the
\* handler returns and the offset is committed, with no row and no dead letter.
ClaimRefused(w) ==
    /\ pc[w] = "claim"
    /\ inbox[Event(w)] = "absent"
    /\ Fault
    /\ Goto(w, "commit")
    /\ UNCHANGED <<broker, stores, msg, attempt, verdict>>

\* ExistsForTransactionAsync: with a decision there, only complete the inbox.
CheckExists(w) ==
    /\ pc[w] = "exists"
    /\ Proceed(w, IF decision[Tx(w)] # Undecided THEN "complete" ELSE "score")
    /\ UNCHANGED <<broker, stores, msg, verdict>>

\* Read ruleset, profile and devices, record the velocity, evaluate.
Score(w) ==
    /\ pc[w] = "score"
    /\ velocity' = velocity \union {Tx(w)}
    /\ \/ /\ \E d \in Decisions : verdict' = [verdict EXCEPT ![w] = d]
          /\ Proceed(w, "save")
       \/ AckLost(w) /\ UNCHANGED verdict
    /\ UNCHANGED <<broker, inbox, decision, outbox, msg>>

\* SaveAsync: the unique index on TransactionId keeps the first decision, and
\* the loser of a race goes on with its own evaluation.
SaveDecision(w) ==
    /\ pc[w] = "save"
    /\ decision' = IF decision[Tx(w)] = Undecided
                   THEN [decision EXCEPT ![Tx(w)] = verdict[w]]
                   ELSE decision
    /\ (Proceed(w, "enqueueValidated") \/ AckLost(w))
    /\ UNCHANGED <<broker, inbox, outbox, velocity, msg, verdict>>

\* EnqueueAsync: one outbox row, committed on its own.
Enqueue(w, topic, v, next) ==
    /\ outbox' = Append(outbox, [topic |-> topic, event |-> Event(w), verdict |-> v])
    /\ (Proceed(w, next) \/ AckLost(w))
    /\ UNCHANGED <<broker, inbox, decision, velocity, msg, verdict>>

EnqueueValidated(w) ==
    /\ pc[w] = "enqueueValidated"
    /\ Enqueue(w, "validated", Undecided, "enqueueDecision")

\* (Faulty variant: the alert is forgotten.)
EnqueueDecisionOnly(w) ==
    /\ pc[w] = "enqueueDecision"
    /\ Enqueue(w, "decision", verdict[w], "complete")

EnqueueDecision(w) ==
    /\ pc[w] = "enqueueDecision"
    /\ Enqueue(w, "decision", verdict[w],
               IF verdict[w] \in Alerting THEN "enqueueAlert" ELSE "complete")

EnqueueAlert(w) ==
    /\ pc[w] = "enqueueAlert"
    /\ Enqueue(w, "alert", verdict[w], "complete")

\* CompleteAsync, and the handler returns.
Complete(w) ==
    /\ pc[w] = "complete"
    /\ inbox' = [inbox EXCEPT ![Event(w)] = "completed"]
    /\ (Proceed(w, "commit") \/ AckLost(w))
    /\ UNCHANGED <<broker, decision, outbox, velocity, msg, verdict>>

-----------------------------------------------------------------------------
Handle(w) ==
    \/ BeginAttempt(w) \/ DeadLetter(w) \/ Commit(w) \/ CommitRejected(w)
    \/ SkipDuplicate(w) \/ Claim(w) \/ CheckExists(w) \/ Score(w)
    \/ SaveDecision(w) \/ EnqueueValidated(w) \/ EnqueueDecision(w)
    \/ EnqueueAlert(w) \/ Complete(w)

\* Every offset committed and every worker waiting for messages.
Idle ==
    /\ \A p \in Partitions : committed[p] = Len(Log[p])
    /\ \A w \in Workers : pc[w] = "consume"
    /\ UNCHANGED vars

Next ==
    \/ \E p \in Partitions, w \in Workers : Assign(p, w) \/ Consume(p, w)
    \/ \E p \in Partitions : Revoke(p)
    \/ \E w \in Workers :
           Handle(w) \/ CallFails(w) \/ ClaimRefused(w) \/ Crash(w) \/ Restart(w)
    \/ Idle

Spec == Init /\ [][Next]_vars

\* The broker assigns free partitions, a worker keeps running its loop, and a
\* stopped worker is started again.  Nothing makes a fault happen.
Fairness ==
    /\ \A w \in Workers : WF_vars(Handle(w)) /\ WF_vars(Restart(w))
    /\ \A p \in Partitions, w \in Workers :
           WF_vars(Assign(p, w)) /\ WF_vars(Consume(p, w))

LiveSpec == Spec /\ Fairness

-----------------------------------------------------------------------------
(* Safety.                                                                 *)

\* What the inbox promises ProcessAsync: at any moment at most one worker is
\* past TryBeginAsync for an EventId, however often the message is delivered
\* and whoever owns its partition, and the row is open while it is there.
ClaimExclusive ==
    \A v, w \in Workers :
        Holds(w) => /\ inbox[Event(w)] = "claimed"
                    /\ Holds(v) /\ Event(v) = Event(w) => v = w

\* What a fault can cost.  A payload the handler rejects before the claim is
\* never committed without its dead letter.  A valid event can be lost: one of
\* its messages is committed, was not given up, its transaction has no decision
\* and no worker is on its way to one (see NoSilentLoss).  But each fault loses
\* one event at most, however often the event is delivered or resubmitted, so
\* without a fault none is lost.
DeadLettered(m) == \E d \in deadLetters : d.message = m

RejectedIsDeadLettered ==
    \A m \in Messages :
        EventAt(m) \in Malformed \union Invalid /\ m.offset <= committed[m.part]
            => DeadLettered(m)

Abandoned(e) ==
    /\ decision[TxOf[e]] = Undecided
    /\ \A w \in Workers : ~ (Holds(w) /\ Event(w) = e)

Lost ==
    {e \in Events :
        /\ Abandoned(e)
        /\ \E m \in Messages :
               EventAt(m) = e /\ m.offset <= committed[m.part] /\ ~ DeadLettered(m)}

LossNeedsFault == RejectedIsDeadLettered /\ Cardinality(Lost) <= faults

\* A poison dead letter is an event that was never claimed, and a malformed one
\* is given up as a failed retry instead.
PoisonNeverClaimed ==
    \A d \in deadLetters :
        /\ d.poison => EventAt(d.message) \in Invalid \ Malformed
        /\ EventAt(d.message) \in Malformed \union Invalid
               => inbox[EventAt(d.message)] = "absent"

\* Rows of one handled event stand in the outbox at most once per topic, in the
\* order validated, decision, alert, and the alert carries the outcome of the
\* decision row, which is one that raises alerts.
OutboxPerEvent ==
    \A i, j \in DOMAIN outbox :
        outbox[i].event = outbox[j].event =>
            /\ outbox[i].topic = outbox[j].topic => i = j
            /\ outbox[i].topic = "decision" /\ outbox[j].topic = "alert"
                   => /\ i < j
                      /\ outbox[i].verdict = outbox[j].verdict
                      /\ outbox[j].verdict \in Alerting
            /\ outbox[i].topic = "validated" => i <= j

\* Nothing is announced before it is persisted: a row of the outbox belongs to
\* a claimed event whose transaction has a decision, and an alert or a decision
\* row never stands without the rows that precede it.
AnnouncedIsPersisted ==
    \A i \in DOMAIN outbox :
        LET e == outbox[i].event
        IN  /\ inbox[e] # "absent"
            /\ decision[TxOf[e]] # Undecided
            /\ Enqueued("validated", e)
            /\ outbox[i].topic = "alert" => Enqueued("decision", e)

\* CompletedAt can be trusted: the event's transaction is decided, and either
\* all its events are in the outbox, or another event of the same transaction
\* was being handled when this one found the decision.
CompletedIsDone ==
    \A e \in Events :
        inbox[e] = "completed" =>
            /\ decision[TxOf[e]] # Undecided
            /\ \/ \E i \in DOMAIN outbox :
                      /\ outbox[i].topic = "decision" /\ outbox[i].event = e
                      /\ outbox[i].verdict \in Alerting => Enqueued("alert", e)
               \/ \E f \in Events \ {e} :
                      TxOf[f] = TxOf[e] /\ inbox[f] # "absent"

\* Every decision was taken with the transaction in the velocity windows, by
\* the handler of some claimed event.
DecisionHasProvenance ==
    \A t \in Transactions :
        decision[t] # Undecided =>
            /\ t \in velocity
            /\ \E e \in Events : TxOf[e] = t /\ inbox[e] # "absent"

-----------------------------------------------------------------------------
(* Action properties.                                                      *)

\* risk_decisions is append-only: no later event, retry or zombie rewrites the
\* outcome of a decided transaction.
DecisionImmutable ==
    [][\A t \in Transactions :
           decision[t] # Undecided => decision'[t] = decision[t]]_vars

\* The group's offset never moves back and never skips a message, although a
\* worker that lost its partition still tries to commit.
CommitInOrder ==
    [][\A p \in Partitions :
           committed'[p] # committed[p] => committed'[p] = committed[p] + 1]_vars

-----------------------------------------------------------------------------
(* Refinement.                                                             *)

\* The detailed processor implements the ledger: a decision row is what counts
\* as the announcement of an event.  Repeated deliveries, retries, lost
\* acknowledgements and zombies are stuttering steps of the ledger.
Announced == {e \in Events : Enqueued("decision", e)}

Ledger == INSTANCE DecisionLedger
              WITH claims <- inbox, ledger <- decision, announced <- Announced

ImplementsLedger == Ledger!Spec

-----------------------------------------------------------------------------
(* Liveness.                                                               *)

\* However often processes die, calls fail and partitions move, as long as that
\* ends, every partition is consumed to its end: no message blocks it.
PartitionsDrain ==
    \A p \in Partitions : <>[](committed[p] = Len(Log[p]))

\* In a behaviour without faults every valid transaction gets its decision, and
\* every claimed event ends up completed.
FaultFreeCompletes ==
    [](faults = 0) =>
        \A m \in Messages :
            EventAt(m) \notin Malformed \union Invalid =>
                <>[](/\ inbox[EventAt(m)] = "completed"
                    /\ decision[TxOf[EventAt(m)]] # Undecided)

-----------------------------------------------------------------------------
(* What the documents say and the code does not do.                        *)

\* "Poison / exhausted retries" go to the dead-letter topic: a valid message
\* the group has committed was scored, or it is there.
NoSilentLoss ==
    \A m \in Messages :
        m.offset <= committed[m.part] =>
            \/ decision[TxOf[EventAt(m)]] # Undecided
            \/ DeadLettered(m)

\* An alert is raised when the decision is REVIEW or BLOCK: the decision that is
\* persisted for the transaction, the one case and dashboard show.
AlertMatchesDecision ==
    \A i \in DOMAIN outbox :
        outbox[i].topic = "alert" =>
            decision[TxOf[outbox[i].event]] = outbox[i].verdict
=============================================================================
