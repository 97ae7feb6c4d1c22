------------------------- MODULE DecisionConsumers --------------------------
(***************************************************************************)
(* The two consumer groups of sentinel.risk.decisions.v1, on one partition *)
(* of it: DecisionPublisher opens cases and feeds the live channels,       *)
(* ProfileProcessor folds the transaction into the customer profile.  Both *)
(* claim the event in inbox_messages, whose primary key is the EventId.    *)
(*                                                                         *)
(* Each group runs one process, as AppHost deploys it.  The group's offset *)
(* is committed after every message, so the message in flight is always    *)
(* the one after it.                                                       *)
(***************************************************************************)
EXTENDS Integers, Sequences, FiniteSets

CONSTANTS
    Events,         \* EventIds of RiskDecisionV1 messages
    Transactions,   \* TransactionIds
    Log,            \* the EventIds on the partition, in order
    TxOf,           \* TxOf[e]: the transaction decided by e
    Accounts,       \* AccountIds
    AccountOf,      \* AccountOf[t]: the account of t
    Seeded,         \* accounts whose profile DatabaseSeeder wrote
    Alerting,       \* events whose decision is REVIEW or BLOCK
    Nobody,         \* the event is not in the inbox
    MaxAttempts,    \* KafkaOptions.RetryCount
    MaxFaults       \* bound: infrastructure faults in one behaviour

ASSUME LogAssumption ==
    /\ Log \in Seq(Events)
    /\ TxOf \in [Events -> Transactions]
    /\ AccountOf \in [Transactions -> Accounts]
    /\ Seeded \subseteq Accounts
    /\ Alerting \subseteq Events

ASSUME BoundAssumption == MaxAttempts \in Nat \ {0} /\ MaxFaults \in Nat

Groups == {"publisher", "profiler"}

ASSUME NobodyAssumption == Nobody \notin Groups

VARIABLES
    committed,      \* committed[g]: offsets the group has committed
    deadLetters,    \* messages given up, with the group that did
    claimant,       \* claimant[e]: inbox_messages.Consumer, or Nobody
    completed,      \* events whose inbox row has CompletedAt
    cases,          \* fraud_cases: transaction and opening event
    live,           \* messages on the Redis live channels, in order
    profiles,       \* accounts with a customer_profiles row
    applied,        \* applied[e]: profile updates made for e
    profileRows,    \* ProfileUpdatedV1 rows in the outbox, by event
    pc,             \* pc[g]: the call the group's process is about to make
    attempt,        \* attempt[g]: ProcessWithRetryAsync's counter
    faults

broker == <<committed, deadLetters>>
inbox == <<claimant, completed>>
fanout == <<cases, live>>
profile == <<profiles, applied, profileRows>>
vars == <<broker, inbox, fanout, profile, pc, attempt, faults>>

PublisherCalls == {"openCase", "sendDecision", "sendAlert"}
ProfilerCalls == {"apply", "enqueue"}
HandlerCalls == {"claim", "complete"} \union PublisherCalls \union ProfilerCalls

Event(g) == Log[committed[g] + 1]
Account(g) == AccountOf[TxOf[Event(g)]]
HasCase(t) == \E c \in cases : c.tx = t
Sent(channel, e) ==
    \E i \in DOMAIN live : live[i].channel = channel /\ live[i].event = e

TypeOK ==
    /\ committed \in [Groups -> 0 .. Len(Log)]
    /\ deadLetters \subseteq [group : Groups, offset : 1 .. Len(Log)]
    /\ claimant \in [Events -> Groups \union {Nobody}]
    /\ completed \subseteq Events
    /\ cases \subseteq [tx : Transactions, event : Events]
    /\ live \in Seq([channel : {"decisions", "alerts"}, event : Events])
    /\ profiles \subseteq Accounts
    /\ applied \in [Events -> Nat]
    /\ profileRows \in [Events -> Nat]
    /\ pc \in [Groups -> HandlerCalls \union {"down", "consume", "deadLetter", "commit"}]
    /\ attempt \in [Groups -> 0 .. MaxAttempts]
    /\ faults \in 0 .. MaxFaults

Init ==
    /\ committed = [g \in Groups |-> 0]
    /\ deadLetters = {}
    /\ claimant = [e \in Events |-> Nobody]
    /\ completed = {}
    /\ cases = {}
    /\ live = <<>>
    /\ profiles = Seeded
    /\ applied = [e \in Events |-> 0]
    /\ profileRows = [e \in Events |-> 0]
    /\ pc = [g \in Groups |-> "consume"]
    /\ attempt = [g \in Groups |-> 0]
    /\ faults = 0

-----------------------------------------------------------------------------
(* KafkaConsumerHost.                                                      *)

Goto(g, step) == pc' = [pc EXCEPT ![g] = step]
Proceed(g, step) == Goto(g, step) /\ UNCHANGED <<attempt, faults>>
Fault == faults < MaxFaults /\ faults' = faults + 1

\* A faulty variant of Throw, with one attempt too many.
ThrowOneMore(g) ==
    IF attempt[g] <= MaxAttempts
    THEN /\ attempt' = [attempt EXCEPT ![g] = @ + 1]
         /\ Goto(g, "claim")
    ELSE /\ Goto(g, "deadLetter")
         /\ UNCHANGED attempt

\* An exception leaves the handler: retry, or give the message up.
Throw(g) ==
    IF attempt[g] < MaxAttempts
    THEN /\ attempt' = [attempt EXCEPT ![g] = @ + 1]
         /\ Goto(g, "claim")
    ELSE /\ Goto(g, "deadLetter")
         /\ UNCHANGED attempt

\* A write that is applied, but whose call ends in an exception.
AckLost(g) == Fault /\ Throw(g)

Consume(g) ==
    /\ pc[g] = "consume"
    /\ committed[g] < Len(Log)
    /\ attempt' = [attempt EXCEPT ![g] = 1]
    /\ Goto(g, "claim")
    /\ UNCHANGED <<broker, inbox, fanout, profile, faults>>

DeadLetter(g) ==
    /\ pc[g] = "deadLetter"
    /\ deadLetters' = deadLetters \union {[group |-> g, offset |-> committed[g] + 1]}
    /\ Proceed(g, "commit")
    /\ UNCHANGED <<committed, inbox, fanout, profile>>

\* A faulty variant of Commit, which stores the message's own offset instead of
\* the next one.
CommitSameOffset(g) ==
    /\ pc[g] = "commit"
    /\ attempt' = [attempt EXCEPT ![g] = 0]
    /\ Goto(g, "consume")
    /\ UNCHANGED <<broker, inbox, fanout, profile, faults>>

Commit(g) ==
    /\ pc[g] = "commit"
    /\ committed' = [committed EXCEPT ![g] = @ + 1]
    /\ attempt' = [attempt EXCEPT ![g] = 0]
    /\ Goto(g, "consume")
    /\ UNCHANGED <<deadLetters, inbox, fanout, profile, faults>>

\* Any call of the handler fails without effect.
CallFails(g) ==
    /\ pc[g] \in HandlerCalls
    /\ Fault
    /\ Throw(g)
    /\ UNCHANGED <<broker, inbox, fanout, profile>>

Crash(g) ==
    /\ pc[g] # "down"
    /\ Fault
    /\ Goto(g, "down")
    /\ attempt' = [attempt EXCEPT ![g] = 0]
    /\ UNCHANGED <<broker, inbox, fanout, profile>>

Restart(g) ==
    /\ pc[g] = "down"
    /\ Proceed(g, "consume")
    /\ UNCHANGED <<broker, inbox, fanout, profile>>

-----------------------------------------------------------------------------
(* The handlers.                                                           *)

FirstCall(g) ==
    CASE g = "profiler" -> "apply"
      [] g = "publisher" /\ Event(g) \in Alerting -> "openCase"
      [] OTHER -> "sendDecision"

\* Faulty variants of the actions below, for checking that the properties
\* notice them: a claim left open is taken up again, the inbox does not keep
\* the groups apart, the case is opened unchecked or its failure ignored, the
\* profile's outbox row is forgotten, an approval returns early.
ClaimReopened(g) ==
    /\ pc[g] = "claim"
    /\ claimant[Event(g)] \in {Nobody, g}
    /\ claimant' = [claimant EXCEPT ![Event(g)] = g]
    /\ Proceed(g, FirstCall(g))
    /\ UNCHANGED <<broker, completed, fanout, profile>>

OpenCaseUnchecked(g) ==
    /\ pc[g] = "openCase"
    /\ cases' = cases \union {[tx |-> TxOf[Event(g)], event |-> Event(g)]}
    /\ Proceed(g, "sendDecision")
    /\ UNCHANGED <<broker, inbox, live, profile>>

OpenCaseSwallowsFailure(g) ==
    /\ pc[g] = "openCase"
    /\ Fault
    /\ Goto(g, "sendDecision")
    /\ UNCHANGED <<broker, inbox, fanout, profile, attempt>>

ApplyOnly(g) ==
    /\ pc[g] = "apply"
    /\ profiles' = profiles \union {Account(g)}
    /\ applied' = [applied EXCEPT ![Event(g)] = @ + 1]
    /\ Proceed(g, "complete")
    /\ UNCHANGED <<broker, inbox, fanout, profileRows>>

SendDecisionReturns(g) ==
    /\ pc[g] = "sendDecision"
    /\ live' = Append(live, [channel |-> "decisions", event |-> Event(g)])
    /\ Proceed(g, IF Event(g) \in Alerting THEN "sendAlert" ELSE "commit")
    /\ UNCHANGED <<broker, inbox, cases, profile>>

\* TryBeginAsync finds the EventId in the inbox, whoever put it there.
SkipDuplicate(g) ==
    /\ pc[g] = "claim"
    /\ claimant[Event(g)] # Nobody
    /\ Proceed(g, "commit")
    /\ UNCHANGED <<broker, inbox, fanout, profile>>

\* TryBeginAsync inserts the row.  If the acknowledgement is lost, the insert
\* is repeated, hits its own row and is reported as a duplicate, or it throws.
Claim(g) ==
    /\ pc[g] = "claim"
    /\ claimant[Event(g)] = Nobody
    /\ claimant' = [claimant EXCEPT ![Event(g)] = g]
    /\ \/ Proceed(g, FirstCall(g))
       \/ Goto(g, "commit") /\ Fault /\ UNCHANGED attempt
       \/ AckLost(g)
    /\ UNCHANGED <<broker, completed, fanout, profile>>

\* TryBeginAsync answers false for every DbUpdateException: an insert that the
\* server refuses for another reason than the key is a "duplicate" too, and the
\* event is committed with no inbox row.
ClaimRefused(g) ==
    /\ pc[g] = "claim"
    /\ claimant[Event(g)] = Nobody
    /\ Fault
    /\ Goto(g, "commit")
    /\ UNCHANGED <<broker, inbox, fanout, profile, attempt>>

\* DecisionPublisher, REVIEW or BLOCK: a case and its first history row, unless
\* the transaction has a case.
OpenCase(g) ==
    /\ pc[g] = "openCase"
    /\ cases' = IF HasCase(TxOf[Event(g)]) THEN cases
                ELSE cases \union {[tx |-> TxOf[Event(g)], event |-> Event(g)]}
    /\ (Proceed(g, "sendDecision") \/ AckLost(g))
    /\ UNCHANGED <<broker, inbox, live, profile>>

SendDecision(g) ==
    /\ pc[g] = "sendDecision"
    /\ live' = Append(live, [channel |-> "decisions", event |-> Event(g)])
    /\ \/ Proceed(g, IF Event(g) \in Alerting THEN "sendAlert" ELSE "complete")
       \/ AckLost(g)
    /\ UNCHANGED <<broker, inbox, cases, profile>>

SendAlert(g) ==
    /\ pc[g] = "sendAlert"
    /\ live' = Append(live, [channel |-> "alerts", event |-> Event(g)])
    /\ (Proceed(g, "complete") \/ AckLost(g))
    /\ UNCHANGED <<broker, inbox, cases, profile>>

\* ProfileProcessor: ApplyTransactionAsync writes the account's first profile.
Apply(g) ==
    /\ pc[g] = "apply"
    /\ Account(g) \notin profiles
    /\ profiles' = profiles \union {Account(g)}
    /\ applied' = [applied EXCEPT ![Event(g)] = @ + 1]
    /\ (Proceed(g, "enqueue") \/ AckLost(g))
    /\ UNCHANGED <<broker, inbox, fanout, profileRows>>

\* A profile that is there has its categories stored as numbers, by the seeder
\* and by the first update alike.  TouchList reads them as strings: it throws.
ApplyUnreadable(g) ==
    /\ pc[g] = "apply"
    /\ Account(g) \in profiles
    /\ Throw(g)
    /\ UNCHANGED <<broker, inbox, fanout, profile, faults>>

\* The outbox row for sentinel.profile.updated.v1.
Enqueue(g) ==
    /\ pc[g] = "enqueue"
    /\ profileRows' = [profileRows EXCEPT ![Event(g)] = @ + 1]
    /\ (Proceed(g, "complete") \/ AckLost(g))
    /\ UNCHANGED <<broker, inbox, fanout, profiles, applied>>

Complete(g) ==
    /\ pc[g] = "complete"
    /\ completed' = completed \union {Event(g)}
    /\ (Proceed(g, "commit") \/ AckLost(g))
    /\ UNCHANGED <<broker, claimant, fanout, profile>>

-----------------------------------------------------------------------------
Handle(g) ==
    \/ Consume(g) \/ DeadLetter(g) \/ Commit(g)
    \/ SkipDuplicate(g) \/ Claim(g) \/ Complete(g)
    \/ OpenCase(g) \/ SendDecision(g) \/ SendAlert(g)
    \/ Apply(g) \/ ApplyUnreadable(g) \/ Enqueue(g)

\* Both groups have read the partition to its end.
Idle ==
    /\ \A g \in Groups : pc[g] = "consume" /\ committed[g] = Len(Log)
    /\ UNCHANGED vars

Next ==
    \/ \E g \in Groups :
           Handle(g) \/ CallFails(g) \/ ClaimRefused(g) \/ Crash(g) \/ Restart(g)
    \/ Idle

Spec == Init /\ [][Next]_vars

\* A process keeps running its loop and is started again when it stops.
Fairness == \A g \in Groups : WF_vars(Handle(g)) /\ WF_vars(Restart(g))

LiveSpec == Spec /\ Fairness

-----------------------------------------------------------------------------
(* Safety.                                                                 *)

\* However often a decision event is delivered and its handling retried, each
\* of its effects happens at most once: a message per live channel, a profile
\* update, a row for the profile topic.
OncePerEvent ==
    /\ \A i, j \in DOMAIN live : live[i] = live[j] => i = j
    /\ \A e \in Events : applied[e] <= 1 /\ profileRows[e] <= applied[e]

\* A transaction has at most one case, although several of its decision events
\* may alert, and the case was opened for an alert that the publisher claimed.
CasePerTransaction ==
    /\ \A c, d \in cases : c.tx = d.tx => c = d
    /\ \A c \in cases : c.event \in Alerting /\ claimant[c.event] = "publisher"

\* An alert that reaches the dashboard can be followed to its case, and comes
\* after the decision it belongs to.
AlertAfterCase ==
    \A i \in DOMAIN live :
        live[i].channel = "alerts" =>
            /\ HasCase(TxOf[live[i].event])
            /\ \E j \in 1 .. i - 1 :
                   live[j] = [channel |-> "decisions", event |-> live[i].event]

\* CompletedAt can be trusted: every effect of the claiming group is there.
CompletedIsDone ==
    \A e \in completed :
        \/ /\ claimant[e] = "publisher"
           /\ Sent("decisions", e)
           /\ e \in Alerting => Sent("alerts", e) /\ HasCase(TxOf[e])
        \/ /\ claimant[e] = "profiler"
           /\ applied[e] = 1 /\ profileRows[e] = 1

-----------------------------------------------------------------------------
(* Liveness.                                                               *)

\* Both groups read the partition to its end, whatever fails on the way.
TopicDrains == \A g \in Groups : <>[](committed[g] = Len(Log))

\* Without faults every event is completed by the group that claimed it, except
\* those whose profile the profile processor cannot read.
FaultFreeCompletes ==
    [](faults = 0) =>
        \A i \in DOMAIN Log :
            <>[](\/ Log[i] \in completed
                \/ /\ claimant[Log[i]] = "profiler"
                   /\ applied[Log[i]] = 0
                   /\ AccountOf[TxOf[Log[i]]] \in profiles)

-----------------------------------------------------------------------------
(* What the documents say and the code does not do.                        *)

\* "REVIEW and BLOCK open cases": an alerting decision event that the publisher
\* group has committed left a case, or at least a dead letter.
ReviewOpensCase ==
    \A n \in 1 .. committed["publisher"] :
        Log[n] \in Alerting =>
            \/ HasCase(TxOf[Log[n]])
            \/ [group |-> "publisher", offset |-> n] \in deadLetters

\* "ProfileProcessor updates rolling behavioural statistics": a decision event it
\* claimed and has committed is in the profile, or is a dead letter.
ProfileFollowsDecisions ==
    \A n \in 1 .. committed["profiler"] :
        claimant[Log[n]] = "profiler" =>
            \/ applied[Log[n]] > 0
            \/ [group |-> "profiler", offset |-> n] \in deadLetters
=============================================================================
