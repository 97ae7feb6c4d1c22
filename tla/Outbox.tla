------------------------------- MODULE Outbox -------------------------------
(***************************************************************************)
(* The transactional outbox: EnqueueAsync on the writers' side, and the    *)
(* OutboxDispatcher that TransactionProcessor and ProfileProcessor each    *)
(* run on the one table, without a lock between them.                      *)
(*                                                                         *)
(* A producer is one sequential writer of rows with one partition key: the *)
(* worker that handles the messages of an account.  It reads the clock for *)
(* CreatedAt before its insert commits, so a row may become visible after  *)
(* rows of other producers that carry a later time.                        *)
(***************************************************************************)
EXTENDS Integers, Sequences, FiniteSets

CONSTANTS
    Producers,      \* sequential writers of outbox rows
    Dispatchers,    \* processes that run an OutboxDispatcher
    RowsPer,        \* bound: RowsPer[p] rows are written by producer p
    BatchSize,      \* rows a dispatcher takes at a time
    MaxFaults       \* bound: faults in one behaviour

ASSUME SizeAssumption ==
    /\ RowsPer \in [Producers -> Nat]
    /\ BatchSize \in Nat \ {0}
    /\ MaxFaults \in Nat

ASSUME FiniteAssumption == IsFiniteSet(Producers) /\ IsFiniteSet(Dispatchers)

VARIABLES
    created,        \* created[r]: CreatedAt of row r, 0 before it is written
    next,           \* next[p]: number of the row p writes next
    inserted,       \* rows whose insert has committed
    marked,         \* rows with PublishedAt set
    topic,          \* records of the Kafka partition the rows go to
    pc,             \* pc[d]: the step dispatcher d is about to make
    batch,          \* batch[d]: the rows DequeueBatchAsync returned
    todo,           \* todo[d]: the rows of the batch not yet published
    faults          \* faults so far

table == <<created, next, inserted, marked>>
locals == <<pc, batch, todo>>
vars == <<table, topic, locals, faults>>

Rows == UNION {[producer : {p}, number : 1 .. RowsPer[p]] : p \in Producers}

Unmarked == inserted \ marked

\* OrderBy(CreatedAt): the rows of S that come before r.
Earlier(r, S) == {q \in S : created[q] < created[r]}

\* Take(BatchSize) of the rows of S in that order.
Oldest(S) == {r \in S : Cardinality(Earlier(r, S)) < BatchSize}

OnTopic == {topic[i] : i \in DOMAIN topic}

TypeOK ==
    /\ created \in [Rows -> 0 .. Cardinality(Rows)]
    /\ DOMAIN next = Producers
    /\ \A p \in Producers : next[p] \in 1 .. RowsPer[p] + 1
    /\ inserted \subseteq Rows
    /\ marked \subseteq Rows
    /\ topic \in Seq(Rows)
    /\ pc \in [Dispatchers -> {"down", "poll", "publish", "mark"}]
    /\ batch \in [Dispatchers -> SUBSET Rows]
    /\ todo \in [Dispatchers -> SUBSET Rows]
    /\ faults \in 0 .. MaxFaults

Init ==
    /\ created = [r \in Rows |-> 0]
    /\ next = [p \in Producers |-> 1]
    /\ inserted = {}
    /\ marked = {}
    /\ topic = <<>>
    /\ pc = [d \in Dispatchers |-> "poll"]
    /\ batch = [d \in Dispatchers |-> {}]
    /\ todo = [d \in Dispatchers |-> {}]
    /\ faults = 0

Fault == faults < MaxFaults /\ faults' = faults + 1

-----------------------------------------------------------------------------
(* EnqueueAsync.                                                           *)

Current(p) == [producer |-> p, number |-> next[p]]

\* The row object is made: CreatedAt is the time now.
Stamp(p) ==
    /\ next[p] <= RowsPer[p]
    /\ created[Current(p)] = 0
    /\ created' = [created EXCEPT ![Current(p)] =
                       Cardinality({r \in Rows : created[r] # 0}) + 1]
    /\ UNCHANGED <<next, inserted, marked, topic, locals, faults>>

\* SaveChangesAsync ends: the row is there, or it is not and the handler fails.
Insert(p) ==
    /\ next[p] <= RowsPer[p]
    /\ created[Current(p)] # 0
    /\ next' = [next EXCEPT ![p] = @ + 1]
    /\ \/ inserted' = inserted \union {Current(p)} /\ UNCHANGED faults
       \/ Fault /\ UNCHANGED inserted
    /\ UNCHANGED <<created, marked, topic, locals>>

-----------------------------------------------------------------------------
(* Faulty variants of the dispatcher's actions, for checking that the      *)
(* properties notice them.  None is part of the specification.             *)

\* No OrderBy: any row.
PollUnordered(d) ==
    /\ pc[d] = "poll"
    /\ Unmarked # {}
    /\ \E S \in SUBSET Unmarked :
           /\ Cardinality(S) = 1
           /\ batch' = [batch EXCEPT ![d] = S]
           /\ todo' = [todo EXCEPT ![d] = S]
    /\ pc' = [pc EXCEPT ![d] = "publish"]
    /\ UNCHANGED <<table, topic, faults>>

\* The failed row is added to the published ids like the others.
PublishSwallowsFailure(d) ==
    /\ pc[d] = "publish"
    /\ Fault
    /\ \E r \in todo[d] : todo' = [todo EXCEPT ![d] = @ \ {r}]
    /\ pc' = [pc EXCEPT ![d] = IF todo'[d] = {} THEN "mark" ELSE "publish"]
    /\ UNCHANGED <<table, topic, batch>>

\* The try block is around the loop instead of inside it.
PublishFailsForGood(d) ==
    /\ pc[d] = "publish"
    /\ Fault
    /\ pc' = [pc EXCEPT ![d] = "stopped"]
    /\ UNCHANGED <<table, topic, batch, todo>>

\* Only the last row of the batch is marked.
MarkLastOnly(d) ==
    /\ pc[d] = "mark"
    /\ marked' = marked \union {r \in batch[d] : Earlier(r, batch[d]) = batch[d] \ {r}}
    /\ pc' = [pc EXCEPT ![d] = "poll"]
    /\ batch' = [batch EXCEPT ![d] = {}]
    /\ UNCHANGED <<created, next, inserted, topic, todo, faults>>

-----------------------------------------------------------------------------
(* OutboxDispatcher.ExecuteAsync.                                          *)

\* DequeueBatchAsync finds rows.  (With none it waits and polls again.)
Poll(d) ==
    /\ pc[d] = "poll"
    /\ Unmarked # {}
    /\ batch' = [batch EXCEPT ![d] = Oldest(Unmarked)]
    /\ todo' = [todo EXCEPT ![d] = Oldest(Unmarked)]
    /\ pc' = [pc EXCEPT ![d] = "publish"]
    /\ UNCHANGED <<table, topic, faults>>

\* PublishAsync of the next row in order is acknowledged.
Publish(d) ==
    /\ pc[d] = "publish"
    /\ \E r \in todo[d] :
           /\ Earlier(r, todo[d]) = {}
           /\ topic' = Append(topic, r)
           /\ todo' = [todo EXCEPT ![d] = @ \ {r}]
           /\ pc' = [pc EXCEPT ![d] = IF todo[d] = {r} THEN "mark" ELSE @]
    /\ UNCHANGED <<table, batch, faults>>

\* The batch is forgotten, with nothing in it marked.
Forget(d, step) ==
    /\ pc' = [pc EXCEPT ![d] = step]
    /\ batch' = [batch EXCEPT ![d] = {}]
    /\ todo' = [todo EXCEPT ![d] = {}]

\* PublishAsync throws: the record is lost, or only its acknowledgement is.
PublishFails(d) ==
    /\ pc[d] = "publish"
    /\ Fault
    /\ \E r \in todo[d] :
           /\ Earlier(r, todo[d]) = {}
           /\ topic' \in {topic, Append(topic, r)}
    /\ Forget(d, "poll")
    /\ UNCHANGED table

\* MarkPublishedAsync, one UPDATE for the whole batch.
Mark(d) ==
    /\ pc[d] = "mark"
    /\ marked' = marked \union batch[d]
    /\ Forget(d, "poll")
    /\ UNCHANGED <<created, next, inserted, topic, faults>>

MarkFails(d) ==
    /\ pc[d] = "mark"
    /\ Fault
    /\ Forget(d, "poll")
    /\ UNCHANGED <<table, topic>>

\* The process ends, in the middle of anything.
Crash(d) ==
    /\ pc[d] # "down"
    /\ Fault
    /\ Forget(d, "down")
    /\ UNCHANGED <<table, topic>>

Restart(d) ==
    /\ pc[d] = "down"
    /\ Forget(d, "poll")
    /\ UNCHANGED <<table, topic, faults>>

-----------------------------------------------------------------------------
Write(p) == Stamp(p) \/ Insert(p)
Dispatch(d) == Poll(d) \/ Publish(d) \/ Mark(d) \/ Restart(d)

\* Every row written and dispatched.
Idle ==
    /\ \A p \in Producers : next[p] > RowsPer[p]
    /\ Unmarked = {}
    /\ \A d \in Dispatchers : pc[d] = "poll"
    /\ UNCHANGED vars

Next ==
    \/ \E p \in Producers : Write(p)
    \/ \E d \in Dispatchers :
           Dispatch(d) \/ PublishFails(d) \/ MarkFails(d) \/ Crash(d)
    \/ Idle

Spec == Init /\ [][Next]_vars

\* A dispatcher that is up keeps running its loop, one that is down is started
\* again.  Writers may stop at any time, and nothing makes a fault happen.
Fairness == \A d \in Dispatchers : WF_vars(Dispatch(d))

LiveSpec == Spec /\ Fairness

-----------------------------------------------------------------------------
(* Properties.                                                             *)

\* PublishedAt can be trusted: a marked row was committed and is on the topic,
\* although two dispatchers mark each other's rows and batches fail half way.
MarkedIsDelivered == marked \subseteq OnTopic /\ OnTopic \subseteq inserted

\* Consumers see the first copies of a producer's rows in the order it wrote
\* them, whatever copies are repeated: no copy of a later row stands on the
\* topic before the first copy of an earlier one.
FirstCopiesInOrder ==
    \A i \in DOMAIN topic, q \in inserted :
        /\ q.producer = topic[i].producer
        /\ q.number < topic[i].number
        => \E j \in 1 .. i - 1 : topic[j] = q

\* At-least-once does not mean any number of times: a dispatcher that fails
\* nowhere publishes a row once, so copies come from the other dispatchers and
\* from the faults.
Copies(r) == Cardinality({i \in DOMAIN topic : topic[i] = r})

CopiesBounded ==
    \A r \in Rows : Copies(r) <= Cardinality(Dispatchers) + faults

\* A committed row is on the topic and marked in the end, however often the
\* dispatchers fail and die before that stops.
AllDispatched ==
    \A r \in Rows : r \in inserted ~> r \in marked /\ r \in OnTopic
=============================================================================
