--------------------------- MODULE Outbox_proofs ---------------------------
(***************************************************************************)
(* Proofs about Outbox, for any number of producers, rows, dispatchers,    *)
(* batches and faults.                                                     *)
(***************************************************************************)
EXTENDS Outbox, FiniteSetTheorems, TLAPS

Stamped == {r \in Rows : created[r] # 0}

Shape ==
    /\ created \in [Rows -> Nat]
    /\ next \in [Producers -> Nat]
    /\ topic \in Seq(Rows)
    /\ pc \in [Dispatchers -> {"down", "poll", "publish", "mark"}]
    /\ batch \in [Dispatchers -> SUBSET Rows]
    /\ todo \in [Dispatchers -> SUBSET Rows]
    /\ inserted \subseteq Rows

\* CreatedAt orders the rows of a producer as it wrote them.
StampInv ==
    /\ IsFiniteSet(Stamped)
    /\ \A r \in Rows : created[r] <= Cardinality(Stamped)
    /\ \A p \in Producers : next[p] \in 1 .. RowsPer[p] + 1
    /\ \A r \in Rows : r.number < next[r.producer] => created[r] # 0
    /\ \A r \in Rows : r.number > next[r.producer] => created[r] = 0
    /\ \A q, r \in Rows :
           q.producer = r.producer /\ q.number < r.number /\ created[r] # 0
               => created[q] < created[r]
    /\ \A r \in inserted : r.number < next[r.producer]

\* What is not left to publish of a batch is on the topic, and so is every earlier
\* row of a producer of which a row is left.
BatchInv ==
    /\ marked \subseteq OnTopic /\ OnTopic \subseteq inserted
    /\ \A d \in Dispatchers :
           /\ batch[d] \subseteq inserted /\ todo[d] \subseteq batch[d]
           /\ batch[d] \ todo[d] \subseteq OnTopic
           /\ pc[d] = "mark" => todo[d] = {}
           /\ \A r \in todo[d], q \in inserted :
                  q.producer = r.producer /\ q.number < r.number
                      => q \in OnTopic \union todo[d]

OutboxInv == Shape /\ StampInv /\ BatchInv /\ FirstCopiesInOrder

-----------------------------------------------------------------------------
\* A row is a producer and a number within what that producer writes.
LEMMA RowShape ==
    ASSUME NEW r \in Rows
    PROVE  /\ r.producer \in Producers /\ r.number \in 1 .. RowsPer[r.producer]
           /\ r.number \in Nat /\ r.number >= 1
           /\ RowsPer[r.producer] \in Nat
           /\ r = [producer |-> r.producer, number |-> r.number]
<1>1. PICK p \in Producers : r \in [producer : {p}, number : 1 .. RowsPer[p]]
  BY DEF Rows
<1>2. RowsPer[p] \in Nat
  BY SizeAssumption DEF SizeAssumption
<1> QED
  BY <1>1, <1>2

\* The row a producer is about to write is the only one with its number.
LEMMA CurrentRow ==
    ASSUME NEW p \in Producers, next[p] \in 1 .. RowsPer[p] + 1, next[p] <= RowsPer[p]
    PROVE  /\ Current(p) \in Rows /\ Current(p).producer = p /\ Current(p).number = next[p]
           /\ \A r \in Rows : r.producer = p /\ r.number = next[p] => r = Current(p)
<1>1. RowsPer[p] \in Nat
  BY SizeAssumption DEF SizeAssumption
<1>2. Current(p) \in [producer : {p}, number : 1 .. RowsPer[p]]
  BY <1>1 DEF Current
<1>3. Current(p) \in Rows
  BY <1>2 DEF Rows
<1> QED
  BY <1>3, RowShape DEF Current

\* A published row is added at the end of the topic.
LEMMA OnTopicGrows ==
    ASSUME NEW r \in Rows, topic \in Seq(Rows), topic' = Append(topic, r)
    PROVE  /\ topic' \in Seq(Rows) /\ OnTopic' = OnTopic \union {r}
           /\ DOMAIN topic = 1 .. Len(topic) /\ DOMAIN topic' = 1 .. Len(topic) + 1
           /\ Len(topic) \in Nat
           /\ \A i \in DOMAIN topic : topic'[i] = topic[i]
           /\ topic'[Len(topic) + 1] = r
<1>1. /\ topic' \in Seq(Rows)
      /\ DOMAIN topic = 1 .. Len(topic) /\ DOMAIN topic' = 1 .. Len(topic) + 1
      /\ Len(topic) \in Nat
      /\ \A i \in DOMAIN topic : topic'[i] = topic[i]
      /\ topic'[Len(topic) + 1] = r
  OBVIOUS
<1>2. OnTopic \union {r} \subseteq OnTopic'
  BY <1>1 DEF OnTopic
<1>3. OnTopic' \subseteq OnTopic \union {r}
  <2> SUFFICES ASSUME NEW i \in DOMAIN topic'
               PROVE  topic'[i] \in OnTopic \union {r}
    BY DEF OnTopic
  <2>1. i \in DOMAIN topic \/ i = Len(topic) + 1
    BY <1>1
  <2> QED
    BY <1>1, <2>1 DEF OnTopic
<1> QED
  BY <1>1, <1>2, <1>3

-----------------------------------------------------------------------------
(* Writers.                                                                *)

\* A producer that takes CreatedAt keeps the invariant.
LEMMA StampKeeps ==
    ASSUME OutboxInv, NEW p \in Producers, Stamp(p)
    PROVE  OutboxInv'
<1> DEFINE c == Current(p)
           n == Cardinality(Stamped) + 1
<1>1. next[p] \in 1 .. RowsPer[p] + 1 /\ next[p] <= RowsPer[p] /\ next[p] \in Nat
  BY DEF Stamp, OutboxInv, StampInv, Shape
<1>2. /\ c \in Rows /\ c.producer = p /\ c.number = next[p]
      /\ \A r \in Rows : r.producer = p /\ r.number = next[p] => r = c
  BY <1>1, CurrentRow
<1>3. /\ created[c] = 0 /\ created' = [created EXCEPT ![c] = n]
      /\ UNCHANGED <<next, inserted, marked, topic, locals>>
  BY DEF Stamp, Stamped
<1>4. Cardinality(Stamped) \in Nat /\ n \in Nat /\ n > 0 /\ n = Cardinality(Stamped) + 1
  BY FS_CardinalityType DEF OutboxInv, StampInv
<1> HIDE DEF c, n
<1>5. c \notin Stamped /\ Stamped' = Stamped \union {c}
  <2>1. created'[c] = n /\ \A r \in Rows \ {c} : created'[r] = created[r]
    BY <1>2, <1>3 DEF OutboxInv, Shape
  <2>2. ASSUME NEW r \in Rows
        PROVE  created'[r] # 0 <=> created[r] # 0 \/ r = c
    BY <1>4, <2>1
  <2> QED
    BY <1>2, <1>3, <2>2 DEF Stamped
<1>6. IsFiniteSet(Stamped') /\ Cardinality(Stamped') = n
  BY <1>4, <1>5, FS_AddElement DEF OutboxInv, StampInv
<1>7. Shape'
  BY <1>3, <1>4 DEF OutboxInv, Shape, locals
<1>8. /\ created'[c] = n
      /\ \A r \in Rows \ {c} : created'[r] = created[r]
      /\ \A r \in Rows : created[r] \in Nat /\ created[r] < n
  BY <1>2, <1>3, <1>4 DEF OutboxInv, Shape, StampInv
<1>9. \A r \in Rows : created'[r] <= Cardinality(Stamped')
  BY <1>4, <1>6, <1>8
<1>10. \A r \in Rows : r.number < next'[r.producer] => created'[r] # 0
  BY <1>3, <1>4, <1>8 DEF OutboxInv, StampInv
<1>11. \A r \in Rows : r.number > next'[r.producer] => created'[r] = 0
  BY <1>1, <1>2, <1>3, <1>8 DEF OutboxInv, StampInv
<1>12. ASSUME NEW q \in Rows, NEW r \in Rows,
              q.producer = r.producer, q.number < r.number, created'[r] # 0
       PROVE  created'[q] < created'[r]
  <2>1. q.number \in Nat /\ r.number \in Nat
    BY RowShape
  <2>2. CASE r = c
    <3>1. q # c
      BY <1>12, <2>1, <2>2
    <3> QED
      BY <1>8, <2>2, <3>1
  <2>3. CASE r # c
    <3>1. created[r] # 0
      BY <1>8, <1>12, <2>3
    <3>2. q # c
      BY <1>1, <1>2, <1>12, <2>1, <3>1 DEF OutboxInv, StampInv
    <3> QED
      BY <1>8, <1>12, <2>3, <3>1, <3>2 DEF OutboxInv, StampInv
  <2> QED
    BY <2>2, <2>3
<1>13. StampInv'
  BY <1>3, <1>6, <1>9, <1>10, <1>11, <1>12 DEF OutboxInv, StampInv
<1>14. BatchInv' /\ FirstCopiesInOrder'
  BY <1>3 DEF OutboxInv, BatchInv, FirstCopiesInOrder, OnTopic, locals
<1> QED
  BY <1>7, <1>13, <1>14 DEF OutboxInv

\* A producer that commits its row keeps the invariant.
LEMMA InsertKeeps ==
    ASSUME OutboxInv, NEW p \in Producers, Insert(p)
    PROVE  OutboxInv'
<1> DEFINE c == Current(p)
<1>1. next[p] \in 1 .. RowsPer[p] + 1 /\ next[p] <= RowsPer[p] /\ next[p] \in Nat /\ RowsPer[p] \in Nat
  BY SizeAssumption DEF Insert, OutboxInv, StampInv, Shape, SizeAssumption
<1>2. /\ c \in Rows /\ c.producer = p /\ c.number = next[p]
      /\ \A r \in Rows : r.producer = p /\ r.number = next[p] => r = c
  BY <1>1, CurrentRow
<1>3. /\ created[c] # 0 /\ next' = [next EXCEPT ![p] = @ + 1]
      /\ inserted' = inserted \/ inserted' = inserted \union {c}
      /\ UNCHANGED <<created, marked, topic, locals>>
  BY DEF Insert
<1> HIDE DEF c
<1>4. Shape'
  BY <1>1, <1>2, <1>3 DEF OutboxInv, Shape, locals
<1>5. /\ next'[p] = next[p] + 1
      /\ \A x \in Producers \ {p} : next'[x] = next[x]
      /\ \A x \in Producers : next[x] \in Nat
  BY <1>3 DEF OutboxInv, Shape
<1>6. \A x \in Producers : next'[x] \in 1 .. RowsPer[x] + 1
  BY <1>1, <1>5 DEF OutboxInv, StampInv
<1>7. ASSUME NEW r \in Rows
      PROVE  /\ r.number < next'[r.producer] => created[r] # 0
             /\ r.number > next'[r.producer] => created[r] = 0
             /\ r.number < next[r.producer] => r.number < next'[r.producer]
  <2>1. r.producer \in Producers /\ r.number \in Nat
    BY RowShape
  <2>2. CASE r.producer = p
    <3>1. r.number < next'[p] => r.number < next[p] \/ r = c
      BY <1>1, <1>2, <1>5, <2>1, <2>2
    <3>2. r.number > next'[p] => r.number > next[p]
      BY <1>1, <1>5, <2>1
    <3>3. r.number < next[p] => r.number < next'[p]
      BY <1>1, <1>5, <2>1
    <3> QED
      BY <1>3, <2>2, <3>1, <3>2, <3>3 DEF OutboxInv, StampInv
  <2>3. CASE r.producer # p
    BY <1>5, <2>1, <2>3 DEF OutboxInv, StampInv
  <2> QED
    BY <2>2, <2>3
<1>8. \A r \in inserted' : r.number < next'[r.producer]
  <2>1. c.number < next'[c.producer]
    BY <1>1, <1>2, <1>5
  <2> QED
    BY <1>3, <1>7, <2>1 DEF OutboxInv, StampInv, Shape
<1>9. StampInv'
  BY <1>3, <1>6, <1>7, <1>8 DEF OutboxInv, StampInv, Stamped
<1>10. \A r \in inserted : ~(c.producer = r.producer /\ c.number < r.number)
  <2>1. \A r \in inserted : r \in Rows /\ r.number \in Nat /\ r.number < next[r.producer]
    BY RowShape DEF OutboxInv, StampInv, Shape
  <2> QED
    BY <1>1, <1>2, <2>1
<1>11. BatchInv'
  BY <1>3, <1>10 DEF OutboxInv, BatchInv, OnTopic, locals
<1>12. FirstCopiesInOrder'
  <2>1. \A i \in DOMAIN topic : topic[i] \in inserted
    BY DEF OutboxInv, BatchInv, OnTopic
  <2> QED
    BY <1>3, <1>10, <2>1 DEF OutboxInv, FirstCopiesInOrder
<1> QED
  BY <1>4, <1>9, <1>11, <1>12 DEF OutboxInv

-----------------------------------------------------------------------------
(* Dispatchers.                                                            *)

\* A row that is among the oldest of S has every earlier row of S before it there.
LEMMA OldestIsPrefix ==
    ASSUME NEW S, IsFiniteSet(S), NEW r \in Oldest(S), NEW q \in S,
           \A x \in S : created[x] \in Nat, created[q] < created[r]
    PROVE  q \in Oldest(S)
<1>1. r \in S /\ Cardinality(Earlier(r, S)) < BatchSize
  BY DEF Oldest
<1>2. Earlier(q, S) \subseteq Earlier(r, S) /\ Earlier(r, S) \subseteq S
  BY <1>1 DEF Earlier
<1>3. IsFiniteSet(Earlier(r, S))
  BY <1>2, FS_Subset
<1>4. /\ Cardinality(Earlier(q, S)) \in Nat /\ Cardinality(Earlier(r, S)) \in Nat
      /\ Cardinality(Earlier(q, S)) <= Cardinality(Earlier(r, S))
  BY <1>2, <1>3, FS_Subset, FS_CardinalityType
<1>5. Cardinality(Earlier(q, S)) < BatchSize
  BY <1>1, <1>4, SizeAssumption DEF SizeAssumption
<1> QED
  BY <1>5 DEF Oldest

\* CreatedAt orders the rows of a producer in the table as it wrote them.
LEMMA InsertedRows ==
    ASSUME OutboxInv
    PROVE  /\ inserted \subseteq Stamped /\ inserted \subseteq Rows
           /\ IsFiniteSet(inserted)
           /\ \A x \in inserted : created[x] \in Nat /\ x.number \in Nat
           /\ \A q, r \in inserted :
                  q.producer = r.producer /\ q.number < r.number => created[q] < created[r]
<1>1. inserted \subseteq Stamped /\ inserted \subseteq Rows
  BY DEF OutboxInv, Shape, StampInv, Stamped
<1>2. IsFiniteSet(inserted)
  BY <1>1, FS_Subset DEF OutboxInv, StampInv
<1>3. \A q, r \in inserted :
          q.producer = r.producer /\ q.number < r.number => created[q] < created[r]
  BY <1>1 DEF Stamped, OutboxInv, StampInv
<1> QED
  BY <1>1, <1>2, <1>3, RowShape DEF OutboxInv, Shape

\* What does not touch the table or the topic leaves all but the batches alone.
LEMMA BatchStep ==
    ASSUME OutboxInv, UNCHANGED <<created, next, inserted, topic>>, Shape', BatchInv'
    PROVE  OutboxInv'
BY DEF OutboxInv, StampInv, FirstCopiesInOrder, Stamped

\* A dispatcher that drops its batch, and publishes or marks nothing out of turn,
\* keeps what is said of the batches.
LEMMA ForgetKeeps ==
    ASSUME OutboxInv, NEW d \in Dispatchers, NEW step \in {"poll", "down"}, Forget(d, step),
           OnTopic \subseteq OnTopic', OnTopic' \subseteq inserted, inserted' = inserted,
           marked' \subseteq OnTopic'
    PROVE  BatchInv'
<1>1. /\ batch' = [batch EXCEPT ![d] = {}] /\ todo' = [todo EXCEPT ![d] = {}]
      /\ pc' = [pc EXCEPT ![d] = step]
  BY DEF Forget
<1>2. ASSUME NEW x \in Dispatchers
      PROVE  /\ batch'[x] \subseteq inserted' /\ todo'[x] \subseteq batch'[x]
             /\ batch'[x] \ todo'[x] \subseteq OnTopic'
             /\ pc'[x] = "mark" => todo'[x] = {}
             /\ \A r \in todo'[x], q \in inserted' :
                    q.producer = r.producer /\ q.number < r.number
                        => q \in OnTopic' \union todo'[x]
  <2>1. CASE x = d
    BY <1>1, <2>1 DEF OutboxInv, Shape
  <2>2. CASE x # d
    <3>1. batch'[x] = batch[x] /\ todo'[x] = todo[x] /\ pc'[x] = pc[x]
      BY <1>1, <2>2 DEF OutboxInv, Shape
    <3> QED
      BY <3>1 DEF OutboxInv, BatchInv
  <2> QED
    BY <2>1, <2>2
<1> QED
  BY <1>2 DEF BatchInv

\* GetUnpublishedAsync: the oldest unmarked rows leave no earlier row of a producer
\* out that is not on the topic.
LEMMA PollKeeps ==
    ASSUME OutboxInv, NEW d \in Dispatchers, Poll(d)
    PROVE  OutboxInv'
<1> DEFINE S == Oldest(Unmarked)
<1>1. /\ batch' = [batch EXCEPT ![d] = S] /\ todo' = [todo EXCEPT ![d] = S]
      /\ pc' = [pc EXCEPT ![d] = "publish"] /\ UNCHANGED <<table, topic>>
  BY DEF Poll
<1>2. S \subseteq Unmarked /\ Unmarked \subseteq inserted
  BY DEF Oldest, Unmarked
<1>3. ASSUME NEW r \in S, NEW q \in inserted, q.producer = r.producer, q.number < r.number
      PROVE  q \in OnTopic \union S
  <2>1. CASE q \in marked
    BY <2>1 DEF OutboxInv, BatchInv
  <2>2. CASE q \in Unmarked
    <3>1. IsFiniteSet(Unmarked)
      BY <1>2, InsertedRows, FS_Subset
    <3>2. created[q] < created[r] /\ \A x \in Unmarked : created[x] \in Nat
      BY <1>2, <1>3, InsertedRows
    <3> QED
      BY <2>2, <3>1, <3>2, OldestIsPrefix
  <2> QED
    BY <2>1, <2>2 DEF Unmarked
<1> HIDE DEF S
<1>4. Shape'
  BY <1>1, <1>2 DEF OutboxInv, Shape, table
<1>5. ASSUME NEW x \in Dispatchers
      PROVE  /\ batch'[x] \subseteq inserted /\ todo'[x] \subseteq batch'[x]
             /\ batch'[x] \ todo'[x] \subseteq OnTopic
             /\ pc'[x] = "mark" => todo'[x] = {}
             /\ \A r \in todo'[x], q \in inserted :
                    q.producer = r.producer /\ q.number < r.number
                        => q \in OnTopic \union todo'[x]
  <2>1. CASE x = d
    BY <1>1, <1>2, <1>3, <2>1 DEF OutboxInv, Shape
  <2>2. CASE x # d
    <3>1. batch'[x] = batch[x] /\ todo'[x] = todo[x] /\ pc'[x] = pc[x]
      BY <1>1, <2>2 DEF OutboxInv, Shape
    <3> QED
      BY <3>1 DEF OutboxInv, BatchInv
  <2> QED
    BY <2>1, <2>2
<1>6. BatchInv'
  BY <1>1, <1>5 DEF OutboxInv, BatchInv, table, OnTopic
<1> QED
  BY <1>1, <1>4, <1>6, BatchStep DEF table

\* The first row in order goes to the topic after every earlier one of its producer.
LEMMA AppendKeeps ==
    ASSUME OutboxInv, NEW d \in Dispatchers, NEW r \in todo[d], Earlier(r, todo[d]) = {},
           topic' = Append(topic, r), UNCHANGED table
    PROVE  /\ topic' \in Seq(Rows) /\ OnTopic' = OnTopic \union {r}
           /\ OnTopic' \subseteq inserted /\ marked' \subseteq OnTopic'
           /\ FirstCopiesInOrder'
<1>1. r \in inserted /\ r \in Rows /\ topic \in Seq(Rows) /\ todo[d] \subseteq inserted
  BY DEF OutboxInv, BatchInv, Shape
<1>2. /\ topic' \in Seq(Rows) /\ OnTopic' = OnTopic \union {r}
      /\ DOMAIN topic = 1 .. Len(topic) /\ DOMAIN topic' = 1 .. Len(topic) + 1
      /\ Len(topic) \in Nat
      /\ \A i \in DOMAIN topic : topic'[i] = topic[i]
      /\ topic'[Len(topic) + 1] = r
  BY <1>1, OnTopicGrows
<1>3. OnTopic' \subseteq inserted /\ marked' \subseteq OnTopic'
  BY <1>1, <1>2 DEF OutboxInv, BatchInv, table
<1>4. ASSUME NEW q \in inserted, q.producer = r.producer, q.number < r.number
      PROVE  q \in OnTopic
  <2>1. q \in OnTopic \union todo[d]
    BY <1>4 DEF OutboxInv, BatchInv
  <2>2. created[q] < created[r]
    BY <1>1, <1>4, InsertedRows
  <2> QED
    BY <2>1, <2>2 DEF Earlier
<1>5. FirstCopiesInOrder'
  <2> SUFFICES ASSUME NEW i \in DOMAIN topic', NEW q \in inserted,
                      q.producer = topic'[i].producer, q.number < topic'[i].number
               PROVE  \E j \in 1 .. i - 1 : topic'[j] = q
    BY DEF FirstCopiesInOrder, table
  <2>1. CASE i \in DOMAIN topic
    <3>1. PICK j \in 1 .. i - 1 : topic[j] = q
      BY <1>2, <2>1 DEF OutboxInv, FirstCopiesInOrder
    <3>2. j \in DOMAIN topic
      BY <1>2, <2>1, <3>1
    <3> QED
      BY <1>2, <3>1, <3>2
  <2>2. CASE i \notin DOMAIN topic
    <3>1. i = Len(topic) + 1 /\ topic'[i] = r
      BY <1>2, <2>2
    <3>2. PICK j \in DOMAIN topic : topic[j] = q
      BY <1>4, <3>1 DEF OnTopic
    <3>3. j \in 1 .. i - 1 /\ topic'[j] = q
      BY <1>2, <3>1, <3>2
    <3> QED
      BY <3>3
  <2> QED
    BY <2>1, <2>2
<1> QED
  BY <1>2, <1>3, <1>5

\* Publishing the earliest row that is left keeps the invariant.
LEMMA PublishKeeps ==
    ASSUME OutboxInv, NEW d \in Dispatchers, Publish(d)
    PROVE  OutboxInv'
<1> PICK r \in todo[d] : /\ Earlier(r, todo[d]) = {}
                         /\ topic' = Append(topic, r)
                         /\ todo' = [todo EXCEPT ![d] = @ \ {r}]
                         /\ pc' = [pc EXCEPT ![d] = IF todo[d] = {r} THEN "mark" ELSE @]
  BY DEF Publish
<1>1. UNCHANGED table /\ batch' = batch /\ pc[d] = "publish"
  BY DEF Publish
<1>2. /\ topic' \in Seq(Rows) /\ OnTopic' = OnTopic \union {r}
      /\ OnTopic' \subseteq inserted /\ marked' \subseteq OnTopic' /\ FirstCopiesInOrder'
  BY <1>1, AppendKeeps
<1>3. Shape'
  BY <1>1, <1>2 DEF OutboxInv, Shape, table
<1>4. ASSUME NEW x \in Dispatchers
      PROVE  /\ batch[x] \subseteq inserted /\ todo'[x] \subseteq batch[x]
             /\ batch[x] \ todo'[x] \subseteq OnTopic'
             /\ pc'[x] = "mark" => todo'[x] = {}
             /\ \A s \in todo'[x], q \in inserted :
                    q.producer = s.producer /\ q.number < s.number
                        => q \in OnTopic' \union todo'[x]
  <2>1. CASE x = d
    <3>1. todo'[x] = todo[x] \ {r} /\ pc'[x] = IF todo[x] = {r} THEN "mark" ELSE "publish"
      BY <1>1, <2>1 DEF OutboxInv, Shape
    <3> QED
      BY <1>2, <3>1 DEF OutboxInv, BatchInv
  <2>2. CASE x # d
    <3>1. todo'[x] = todo[x] /\ pc'[x] = pc[x]
      BY <2>2 DEF OutboxInv, Shape
    <3> QED
      BY <1>2, <3>1 DEF OutboxInv, BatchInv
  <2> QED
    BY <2>1, <2>2
<1>5. BatchInv'
  BY <1>1, <1>2, <1>4 DEF BatchInv, table
<1>6. StampInv'
  BY <1>1 DEF OutboxInv, StampInv, Stamped, table
<1> QED
  BY <1>2, <1>3, <1>5, <1>6 DEF OutboxInv

\* A batch that ends, done or not, keeps the invariant.
LEMMA DropKeeps ==
    ASSUME OutboxInv, NEW d \in Dispatchers,
           PublishFails(d) \/ Mark(d) \/ MarkFails(d) \/ Crash(d) \/ Restart(d)
    PROVE  OutboxInv'
<1>1. PICK step \in {"poll", "down"} : Forget(d, step)
  BY DEF PublishFails, Mark, MarkFails, Crash, Restart
<1>2. UNCHANGED <<created, next, inserted>>
  BY DEF PublishFails, Mark, MarkFails, Crash, Restart, table
<1>3. StampInv'
  BY <1>2 DEF OutboxInv, StampInv, Stamped
<1>4. /\ topic' \in Seq(Rows) /\ OnTopic \subseteq OnTopic' /\ OnTopic' \subseteq inserted
      /\ marked' \subseteq OnTopic' /\ FirstCopiesInOrder'
  <2>1. CASE UNCHANGED <<table, topic>>
    BY <2>1 DEF OutboxInv, Shape, BatchInv, FirstCopiesInOrder, OnTopic, table
  <2>2. CASE Mark(d)
    <3>1. batch[d] \subseteq OnTopic
      BY <2>2 DEF Mark, OutboxInv, BatchInv
    <3> QED
      BY <2>2, <3>1 DEF Mark, OutboxInv, Shape, BatchInv, FirstCopiesInOrder, OnTopic
  <2>3. CASE \E r \in todo[d] : /\ Earlier(r, todo[d]) = {} /\ topic' = Append(topic, r)
                                /\ UNCHANGED table
    BY <2>3, AppendKeeps
  <2> QED
    BY <2>1, <2>2, <2>3 DEF PublishFails, MarkFails, Crash, Restart
<1>5. Shape'
  BY <1>1, <1>2, <1>4 DEF OutboxInv, Shape, Forget
<1>6. BatchInv'
  BY <1>1, <1>2, <1>4, ForgetKeeps
<1> QED
  BY <1>3, <1>4, <1>5, <1>6 DEF OutboxInv

\* The table and the topic are empty at the start.
LEMMA OutboxStart == Init => OutboxInv
<1> SUFFICES ASSUME Init PROVE OutboxInv
  OBVIOUS
<1>1. Shape
  BY DEF Init, Shape
<1>2. Stamped = {}
  BY DEF Init, Stamped
<1>3. IsFiniteSet(Stamped) /\ Cardinality(Stamped) = 0
  BY <1>2, FS_EmptySet
<1>4. \A p \in Producers : RowsPer[p] \in Nat
  BY SizeAssumption DEF SizeAssumption
<1>5. StampInv
  BY <1>3, <1>4, RowShape DEF Init, StampInv
<1>6. BatchInv /\ FirstCopiesInOrder
  BY DEF Init, BatchInv, FirstCopiesInOrder, OnTopic
<1> QED
  BY <1>1, <1>5, <1>6 DEF OutboxInv

\* However dispatchers, failures and producers interleave, a batch never holds a row
\* without the earlier ones of its producer, unless those are on the topic.
THEOREM OutboxInvariant == Spec => []OutboxInv
<1>1. ASSUME OutboxInv, [Next]_vars
      PROVE  OutboxInv'
  <2>1. CASE \E p \in Producers : Write(p)
    BY <1>1, <2>1, StampKeeps, InsertKeeps DEF Write
  <2>2. CASE \E d \in Dispatchers : Dispatch(d) \/ PublishFails(d) \/ MarkFails(d) \/ Crash(d)
    BY <1>1, <2>2, PollKeeps, PublishKeeps, DropKeeps DEF Dispatch
  <2>3. CASE UNCHANGED vars
    BY <1>1, <2>3 DEF OutboxInv, Shape, StampInv, BatchInv, FirstCopiesInOrder, OnTopic, Stamped,
       vars, table, locals
  <2> QED
    BY <1>1, <2>1, <2>2, <2>3 DEF Next, Idle
<1> QED
  BY <1>1, OutboxStart, PTL DEF Spec

\* A marked row is committed and on the topic, whatever the two dispatchers do to
\* each other's rows and wherever they fail.
THEOREM MarkSafety == Spec => []MarkedIsDelivered
<1>1. OutboxInv => MarkedIsDelivered
  BY DEF OutboxInv, BatchInv, MarkedIsDelivered
<1> QED
  BY <1>1, OutboxInvariant, PTL

\* The first copies of a producer's rows are on the topic in the order they were
\* written, although rows become visible out of order and batches are repeated.
THEOREM OrderSafety == Spec => []FirstCopiesInOrder
BY OutboxInvariant, PTL DEF OutboxInv

-----------------------------------------------------------------------------
(* Types, and how often a row is published.                                *)

\* Finitely many producers write finitely many rows.
LEMMA RowsFinite == IsFiniteSet(Rows)
<1> DEFINE Of(p) == [producer : {p}, number : 1 .. RowsPer[p]]
           All == {Of(p) : p \in Producers}
<1>1. ASSUME NEW p \in Producers PROVE IsFiniteSet(Of(p))
  <2> DEFINE f == [n \in 1 .. RowsPer[p] |-> [producer |-> p, number |-> n]]
  <2>1. IsFiniteSet(1 .. RowsPer[p])
    BY FS_Interval, SizeAssumption
  <2>2. f \in [1 .. RowsPer[p] -> Of(p)]
    OBVIOUS
  <2>3. \A r \in Of(p) : \E n \in 1 .. RowsPer[p] : f[n] = r
    OBVIOUS
  <2>4. f \in Surjection(1 .. RowsPer[p], Of(p))
    BY <2>2, <2>3 DEF Surjection
  <2> QED
    BY <2>1, <2>4, FS_Surjection
<1>2. IsFiniteSet(All)
  <2> DEFINE g == [p \in Producers |-> Of(p)]
  <2>1. g \in [Producers -> All] /\ \A T \in All : \E p \in Producers : g[p] = T
    OBVIOUS
  <2>2. g \in Surjection(Producers, All)
    BY <2>1 DEF Surjection
  <2> QED
    BY <2>2, FiniteAssumption, FS_Surjection
<1>3. \A T \in All : IsFiniteSet(T)
  BY <1>1
<1>4. Rows = UNION All
  BY DEF Rows
<1> QED
  BY <1>2, <1>3, <1>4, FS_UNION

\* The dispatchers that have published r in the batch they hold, and those that
\* still have it to publish.
Sent(r) == {d \in Dispatchers : r \in batch[d] \ todo[d]}
Due(r) == {d \in Dispatchers : r \in todo[d]}

\* While a row is unmarked, each copy of it is owed to a dispatcher that holds it
\* or to a fault; once it is marked, nobody takes it into a batch again.
CopiesInv ==
    /\ faults \in 0 .. MaxFaults
    /\ \A d \in Dispatchers : pc[d] \in {"poll", "down"} => batch[d] = {}
    /\ \A r \in Rows \ marked : Copies(r) <= faults + Cardinality(Sent(r))
    /\ \A r \in marked : Copies(r) + Cardinality(Due(r)) <= faults + Cardinality(Dispatchers)

\* Nobody has a row both behind and before him.
LEMMA HolderCounts ==
    ASSUME NEW r, NEW D \in SUBSET Due(r)
    PROVE  /\ IsFiniteSet(Sent(r)) /\ IsFiniteSet(D) /\ IsFiniteSet(Due(r))
           /\ Cardinality(Sent(r)) \in Nat /\ Cardinality(D) \in Nat
           /\ Cardinality(Due(r)) \in Nat /\ Cardinality(Dispatchers) \in Nat
           /\ Cardinality(D) <= Cardinality(Due(r))
           /\ Cardinality(Sent(r)) + Cardinality(D) <= Cardinality(Dispatchers)
<1>1. /\ Sent(r) \subseteq Dispatchers /\ Due(r) \subseteq Dispatchers /\ D \subseteq Dispatchers
      /\ Sent(r) \cap D = {} /\ Sent(r) \union D \subseteq Dispatchers
  BY DEF Sent, Due
<1>2. IsFiniteSet(Sent(r)) /\ IsFiniteSet(D) /\ IsFiniteSet(Due(r))
  BY <1>1, FiniteAssumption, FS_Subset
<1>3. /\ Cardinality(Sent(r)) \in Nat /\ Cardinality(D) \in Nat
      /\ Cardinality(Due(r)) \in Nat /\ Cardinality(Dispatchers) \in Nat
  BY <1>2, FiniteAssumption, FS_CardinalityType
<1>4. Cardinality(D) <= Cardinality(Due(r))
  BY <1>2, FS_Subset
<1>5. Cardinality(Sent(r) \union D) = Cardinality(Sent(r)) + Cardinality(D)
  <2>1. Cardinality(Sent(r) \cap D) = 0
    BY <1>1, FS_EmptySet
  <2>2. Cardinality(Sent(r) \union D)
            = Cardinality(Sent(r)) + Cardinality(D) - Cardinality(Sent(r) \cap D)
    BY <1>2, FS_Union
  <2> QED
    BY <1>3, <2>1, <2>2
<1>6. Cardinality(Sent(r) \union D) <= Cardinality(Dispatchers)
  BY <1>1, FiniteAssumption, FS_Subset
<1> QED
  BY <1>2, <1>3, <1>4, <1>5, <1>6

\* The copies of a row on the topic are counted in natural numbers.
LEMMA CopiesType ==
    ASSUME NEW r, topic \in Seq(Rows)
    PROVE  IsFiniteSet({i \in DOMAIN topic : topic[i] = r}) /\ Copies(r) \in Nat
<1>1. {i \in DOMAIN topic : topic[i] = r} \subseteq 1 .. Len(topic) /\ Len(topic) \in Nat
  OBVIOUS
<1>2. IsFiniteSet(1 .. Len(topic))
  BY <1>1, FS_Interval
<1> QED
  BY <1>1, <1>2, FS_Subset, FS_CardinalityType DEF Copies

\* A record adds one copy of its row.
LEMMA CopiesGrow ==
    ASSUME NEW r \in Rows, topic \in Seq(Rows), topic' = Append(topic, r)
    PROVE  /\ Copies(r)' = Copies(r) + 1
           /\ \A s \in Rows \ {r} : Copies(s)' = Copies(s)
<1> DEFINE n == Len(topic) + 1
           At(s) == {i \in DOMAIN topic : topic[i] = s}
<1>1. /\ DOMAIN topic = 1 .. Len(topic) /\ DOMAIN topic' = DOMAIN topic \union {n}
      /\ n \notin DOMAIN topic /\ topic'[n] = r
      /\ \A i \in DOMAIN topic : topic'[i] = topic[i]
  BY OnTopicGrows
<1> HIDE DEF n
<1>2. \A s \in Rows \ {r} : {i \in DOMAIN topic' : topic'[i] = s} = At(s)
  BY <1>1
<1>3. {i \in DOMAIN topic' : topic'[i] = r} = At(r) \union {n} /\ n \notin At(r)
  BY <1>1
<1>4. Cardinality(At(r) \union {n}) = Cardinality(At(r)) + 1
  <2>1. IsFiniteSet(At(r))
    BY CopiesType
  <2> HIDE DEF At
  <2> QED
    BY <1>3, <2>1, FS_AddElement
<1> QED
  BY <1>2, <1>3, <1>4 DEF Copies

\* Counting after one dispatcher left a set.
LEMMA OneLess ==
    ASSUME NEW S, IsFiniteSet(S), NEW d
    PROVE  /\ IsFiniteSet(S \ {d}) /\ Cardinality(S) \in Nat /\ Cardinality(S \ {d}) \in Nat
           /\ Cardinality(S \ {d}) <= Cardinality(S)
           /\ Cardinality(S) <= Cardinality(S \ {d}) + 1
           /\ d \in S => Cardinality(S \ {d}) = Cardinality(S) - 1
           /\ d \notin S => Cardinality(S \ {d}) = Cardinality(S)
<1>1. /\ IsFiniteSet(S \ {d})
      /\ Cardinality(S \ {d}) = IF d \in S THEN Cardinality(S) - 1 ELSE Cardinality(S)
  BY FS_RemoveElement
<1>2. Cardinality(S) \in Nat /\ Cardinality(S \ {d}) \in Nat
  BY <1>1, FS_CardinalityType
<1> QED
  BY <1>1, <1>2

\* A dispatcher that forgets its batch is in no set any more.
LEMMA ForgetLeaves ==
    ASSUME OutboxInv, NEW d \in Dispatchers, NEW step, Forget(d, step), NEW r
    PROVE  Sent(r)' = Sent(r) \ {d} /\ Due(r)' = Due(r) \ {d}
<1>1. /\ batch'[d] = {} /\ todo'[d] = {}
      /\ \A x \in Dispatchers \ {d} : batch'[x] = batch[x] /\ todo'[x] = todo[x]
  BY DEF Forget, OutboxInv, Shape
<1> QED
  BY <1>1 DEF Sent, Due

\* A dispatcher has a row either behind it or before it, never both.
LEMMA CountTypes ==
    ASSUME OutboxInv, NEW r
    PROVE  /\ Copies(r) \in Nat /\ Cardinality(Sent(r)) \in Nat /\ Cardinality(Due(r)) \in Nat
           /\ Cardinality(Sent(r)) + Cardinality(Due(r)) <= Cardinality(Dispatchers)
           /\ Cardinality(Dispatchers) \in Nat
  BY HolderCounts, CopiesType DEF OutboxInv, Shape

\* Writers and waiting dispatchers publish nothing and take nothing.
LEMMA CopiesQuiet ==
    ASSUME OutboxInv, CopiesInv, UNCHANGED <<topic, marked, pc, batch, todo>>,
           faults' = faults \/ Fault
    PROVE  CopiesInv'
<1>1. /\ faults \in Nat /\ faults' \in 0 .. MaxFaults /\ faults <= faults' /\ faults' \in Nat
  BY SizeAssumption DEF CopiesInv, Fault
<1>2. \A r : Copies(r)' = Copies(r) /\ Sent(r)' = Sent(r) /\ Due(r)' = Due(r)
  BY DEF Copies, Sent, Due
<1>3. \A r \in Rows \ marked : Copies(r)' <= faults' + Cardinality(Sent(r)')
  BY <1>1, <1>2, CountTypes DEF CopiesInv
<1>4. \A r \in marked : Copies(r)' + Cardinality(Due(r)') <= faults' + Cardinality(Dispatchers)
  BY <1>1, <1>2, CountTypes DEF CopiesInv
<1> QED
  BY <1>1, <1>3, <1>4 DEF CopiesInv

\* A batch is taken from the unmarked rows, and none of it is published yet.
LEMMA PollCopies ==
    ASSUME OutboxInv, CopiesInv, NEW d \in Dispatchers, Poll(d)
    PROVE  CopiesInv'
<1>1. /\ pc[d] = "poll" /\ pc'[d] = "publish" /\ batch[d] = {} /\ todo[d] = {}
      /\ batch'[d] = todo'[d] /\ todo'[d] \subseteq Unmarked
      /\ \A x \in Dispatchers \ {d} :
             batch'[x] = batch[x] /\ todo'[x] = todo[x] /\ pc'[x] = pc[x]
      /\ UNCHANGED <<topic, marked, faults>>
  BY DEF Poll, Oldest, CopiesInv, OutboxInv, Shape, BatchInv, table
<1>2. \A r : Copies(r)' = Copies(r) /\ Sent(r)' = Sent(r)
  BY <1>1 DEF Copies, Sent
<1>3. \A r \in marked : Due(r)' = Due(r)
  BY <1>1 DEF Due, Unmarked
<1>4. \A x \in Dispatchers : pc'[x] \in {"poll", "down"} => batch'[x] = {}
  BY <1>1 DEF CopiesInv
<1> QED
  BY <1>1, <1>2, <1>3, <1>4 DEF CopiesInv

\* The copy is owed to the dispatcher that made it, which has published the row
\* now and has it no longer to publish.
LEMMA PublishCopies ==
    ASSUME OutboxInv, CopiesInv, NEW d \in Dispatchers, Publish(d)
    PROVE  CopiesInv'
<1> PICK r \in todo[d] : /\ topic' = Append(topic, r)
                         /\ todo' = [todo EXCEPT ![d] = @ \ {r}]
                         /\ pc' = [pc EXCEPT ![d] = IF todo[d] = {r} THEN "mark" ELSE @]
  BY DEF Publish
<1>1. /\ UNCHANGED <<marked, batch, faults>> /\ pc[d] = "publish"
      /\ r \in Rows /\ r \in batch[d] /\ topic \in Seq(Rows)
      /\ pc'[d] \in {"publish", "mark"} /\ todo'[d] = todo[d] \ {r}
      /\ \A x \in Dispatchers \ {d} : todo'[x] = todo[x] /\ pc'[x] = pc[x]
  BY DEF Publish, OutboxInv, Shape, BatchInv, table
<1>2. Copies(r)' = Copies(r) + 1 /\ \A s \in Rows \ {r} : Copies(s)' = Copies(s)
  BY <1>1, CopiesGrow
<1>3. \A s \in Rows \ {r} : Sent(s)' = Sent(s) /\ Due(s)' = Due(s)
  BY <1>1 DEF Sent, Due
<1>4. /\ Sent(r)' = Sent(r) \union {d} /\ d \notin Sent(r)
      /\ Due(r)' = Due(r) \ {d} /\ d \in Due(r)
  BY <1>1 DEF Sent, Due
<1>5. Cardinality(Sent(r)') = Cardinality(Sent(r)) + 1
  BY <1>4, HolderCounts, FS_AddElement
<1>6. Cardinality(Due(r)') = Cardinality(Due(r)) - 1
  BY <1>4, HolderCounts, OneLess
<1>7. \A x \in Dispatchers : pc'[x] \in {"poll", "down"} => batch'[x] = {}
  BY <1>1 DEF CopiesInv
<1>8. faults \in Nat
  BY SizeAssumption DEF CopiesInv
<1>9. \A s \in Rows \ marked : Copies(s)' <= faults + Cardinality(Sent(s)')
  BY <1>1, <1>2, <1>3, <1>5, <1>8, CountTypes DEF CopiesInv
<1>10. \A s \in marked : Copies(s)' + Cardinality(Due(s)') <= faults + Cardinality(Dispatchers)
  <2> SUFFICES ASSUME NEW s \in marked
               PROVE  Copies(s)' + Cardinality(Due(s)') <= faults + Cardinality(Dispatchers)
    OBVIOUS
  <2>1. s \in Rows
    BY DEF OutboxInv, BatchInv, Shape
  <2>2. Copies(s) + Cardinality(Due(s)) <= faults + Cardinality(Dispatchers)
    BY DEF CopiesInv
  <2>3. CASE s = r
    BY <1>2, <1>6, <1>8, <2>2, <2>3, CountTypes
  <2>4. CASE s # r
    BY <1>2, <1>3, <2>1, <2>2, <2>4
  <2> QED
    BY <2>3, <2>4
<1> QED
  BY <1>1, <1>7, <1>9, <1>10 DEF CopiesInv

\* A failure forgets a batch: the fault pays for what was published of it, and
\* for the copy that was delivered without an acknowledgement.
LEMMA FailureCopies ==
    ASSUME OutboxInv, CopiesInv, NEW d \in Dispatchers,
           PublishFails(d) \/ MarkFails(d) \/ Crash(d) \/ Restart(d)
    PROVE  CopiesInv'
<1>1. PICK step \in {"poll", "down"} : Forget(d, step)
  BY DEF PublishFails, MarkFails, Crash, Restart
<1>2. /\ batch'[d] = {}
      /\ \A x \in Dispatchers \ {d} : batch'[x] = batch[x] /\ pc'[x] = pc[x]
      /\ marked' = marked /\ topic \in Seq(Rows) /\ marked \subseteq Rows
  BY <1>1 DEF Forget, OutboxInv, Shape, BatchInv, PublishFails, MarkFails, Crash, Restart, table
<1>3. \A x \in Dispatchers : pc'[x] \in {"poll", "down"} => batch'[x] = {}
  BY <1>2 DEF CopiesInv
<1>4. CASE Restart(d)
  <2>1. topic' = topic /\ faults' = faults /\ batch[d] = {} /\ todo[d] = {}
    BY <1>4 DEF Restart, CopiesInv, OutboxInv, BatchInv
  <2>2. \A r : Copies(r)' = Copies(r) /\ Sent(r)' = Sent(r) /\ Due(r)' = Due(r)
    <3>1. \A r : d \notin Sent(r) /\ d \notin Due(r)
      BY <2>1 DEF Sent, Due
    <3> QED
      BY <1>1, <2>1, <3>1, ForgetLeaves DEF Copies
  <2> QED
    BY <1>2, <1>3, <2>1, <2>2 DEF CopiesInv
<1>5. CASE ~ Restart(d)
  <2>1. /\ faults' = faults + 1 /\ faults \in Nat /\ faults' \in 0 .. MaxFaults
    BY <1>5, SizeAssumption DEF PublishFails, MarkFails, Crash, Fault, CopiesInv
  <2>2. \/ topic' = topic
        \/ \E r \in todo[d] : topic' = Append(topic, r)
    BY <1>5 DEF PublishFails, MarkFails, Crash
  \* One row may have a new copy, which this dispatcher still had to publish.
  <2>3. ASSUME NEW s \in Rows
        PROVE  /\ Copies(s)' = Copies(s) \/ (Copies(s)' = Copies(s) + 1 /\ d \in Due(s))
               /\ d \in Due(s) => d \notin Sent(s)
    <3>1. CASE topic' = topic
      BY <3>1 DEF Copies, Due, Sent
    <3>2. CASE \E r \in todo[d] : topic' = Append(topic, r)
      <4> PICK r \in todo[d] : topic' = Append(topic, r)
        BY <3>2
      <4>1. r \in Rows
        BY DEF OutboxInv, Shape
      <4> QED
        BY <1>2, <4>1, CopiesGrow DEF Due, Sent
    <3> QED
      BY <2>2, <3>1, <3>2
  <2>4. ASSUME NEW s
        PROVE  /\ Cardinality(Sent(s)) <= Cardinality(Sent(s)') + 1
               /\ d \notin Sent(s) => Cardinality(Sent(s)') = Cardinality(Sent(s))
               /\ Cardinality(Due(s)') <= Cardinality(Due(s))
               /\ Cardinality(Sent(s)') \in Nat /\ Cardinality(Due(s)') \in Nat
               /\ d \in Due(s) => Cardinality(Due(s)') = Cardinality(Due(s)) - 1
    <3>1. Sent(s)' = Sent(s) \ {d} /\ Due(s)' = Due(s) \ {d}
      BY <1>1, ForgetLeaves
    <3>2. IsFiniteSet(Sent(s)) /\ IsFiniteSet(Due(s))
      BY HolderCounts
    <3> QED
      BY <3>1, <3>2, OneLess
  <2>5. ASSUME NEW s \in Rows \ marked
        PROVE  Copies(s)' <= faults' + Cardinality(Sent(s)')
    <3>1. \A c, cc, f, n, nn \in Nat :
              /\ c <= f + n /\ n <= nn + 1
              /\ cc = c \/ (cc = c + 1 /\ n = nn)
              => cc <= f + 1 + nn
      OBVIOUS
    <3>2. /\ Copies(s) <= faults + Cardinality(Sent(s))
          /\ Copies(s)' = Copies(s) \/ (Copies(s)' = Copies(s) + 1 /\ d \notin Sent(s))
      BY <2>3 DEF CopiesInv
    <3>3. Copies(s) \in Nat /\ Copies(s)' \in Nat /\ Cardinality(Sent(s)) \in Nat
      BY <3>2, CountTypes
    <3> QED
      BY <2>1, <2>4, <3>1, <3>2, <3>3
  <2>6. ASSUME NEW s \in marked
        PROVE  Copies(s)' + Cardinality(Due(s)') <= faults' + Cardinality(Dispatchers)
    <3>1. \A c, cc, f, n, nn, k \in Nat :
              /\ c + n <= f + k /\ nn <= n
              /\ cc = c \/ (cc = c + 1 /\ nn = n - 1)
              => cc + nn <= f + 1 + k
      OBVIOUS
    <3>2. /\ Copies(s) + Cardinality(Due(s)) <= faults + Cardinality(Dispatchers)
          /\ Copies(s)' = Copies(s) \/ (Copies(s)' = Copies(s) + 1 /\ d \in Due(s))
      BY <1>2, <2>3 DEF CopiesInv
    <3>3. /\ Copies(s) \in Nat /\ Copies(s)' \in Nat
          /\ Cardinality(Due(s)) \in Nat /\ Cardinality(Dispatchers) \in Nat
      BY <3>2, CountTypes
    <3> QED
      BY <2>1, <2>4, <3>1, <3>2, <3>3
  <2> QED
    BY <1>2, <1>3, <2>1, <2>5, <2>6 DEF CopiesInv
<1> QED
  BY <1>4, <1>5

\* When a row is marked, those that published it and those that still will are
\* different dispatchers.
LEMMA MarkCopies ==
    ASSUME OutboxInv, CopiesInv, NEW d \in Dispatchers, Mark(d)
    PROVE  CopiesInv'
<1>1. /\ pc[d] = "mark" /\ todo[d] = {} /\ marked' = marked \union batch[d]
      /\ Forget(d, "poll") /\ UNCHANGED <<topic, faults>>
  BY DEF Mark, OutboxInv, BatchInv
<1>2. /\ batch'[d] = {} /\ batch[d] \subseteq Rows
      /\ \A x \in Dispatchers \ {d} : batch'[x] = batch[x] /\ pc'[x] = pc[x]
      /\ faults \in Nat
  BY <1>1, SizeAssumption DEF Forget, OutboxInv, Shape, CopiesInv
<1>3. \A x \in Dispatchers : pc'[x] \in {"poll", "down"} => batch'[x] = {}
  BY <1>2 DEF CopiesInv
<1>4. \A s : /\ Copies(s)' = Copies(s) /\ Due(s)' = Due(s)
             /\ s \notin batch[d] => Sent(s)' = Sent(s)
  <2>1. \A s : /\ Sent(s)' = Sent(s) \ {d} /\ Due(s)' = Due(s) \ {d}
               /\ d \notin Due(s) /\ (s \notin batch[d] => d \notin Sent(s))
    BY <1>1, ForgetLeaves DEF Due, Sent
  <2> QED
    BY <1>1, <2>1 DEF Copies
<1>5. \A s \in Rows \ marked' : Copies(s)' <= faults + Cardinality(Sent(s)')
  BY <1>1, <1>4 DEF CopiesInv
<1>6. \A s \in marked' : Copies(s)' + Cardinality(Due(s)') <= faults + Cardinality(Dispatchers)
  <2> SUFFICES ASSUME NEW s \in marked'
               PROVE  Copies(s) + Cardinality(Due(s)) <= faults + Cardinality(Dispatchers)
    BY <1>4
  <2>1. CASE s \in marked
    BY <2>1 DEF CopiesInv
  <2>2. CASE s \notin marked
    <3>1. Copies(s) <= faults + Cardinality(Sent(s))
      BY <1>1, <1>2, <2>2 DEF CopiesInv
    <3> QED
      BY <1>2, <3>1, CountTypes
  <2> QED
    BY <2>1, <2>2
<1> QED
  BY <1>1, <1>3, <1>5, <1>6 DEF CopiesInv

\* No row has a copy at the start.
LEMMA CopiesInit == Init => CopiesInv
<1> SUFFICES ASSUME Init PROVE CopiesInv
  OBVIOUS
<1>1. /\ faults = 0 /\ marked = {} /\ DOMAIN topic = {}
      /\ \A d \in Dispatchers : batch[d] = {} /\ todo[d] = {}
  BY DEF Init
<1>2. \A r : Copies(r) = 0 /\ Cardinality(Sent(r)) = 0
  <2>1. \A r : {i \in DOMAIN topic : topic[i] = r} = {} /\ Sent(r) = {}
    BY <1>1 DEF Sent
  <2> QED
    BY <2>1, FS_EmptySet DEF Copies
<1> QED
  BY <1>1, <1>2, SizeAssumption DEF CopiesInv

\* Every action keeps the account of the copies.
THEOREM CopiesInvariant == Spec => [](OutboxInv /\ CopiesInv)
<1>1. ASSUME OutboxInv, CopiesInv, [Next]_vars
      PROVE  CopiesInv'
  <2>1. CASE (\E p \in Producers : Write(p)) \/ UNCHANGED vars
    BY <1>1, <2>1, CopiesQuiet DEF Write, Stamp, Insert, vars, table, locals
  <2>2. CASE \E d \in Dispatchers : Dispatch(d) \/ PublishFails(d) \/ MarkFails(d) \/ Crash(d)
    BY <1>1, <2>2, PollCopies, PublishCopies, MarkCopies, FailureCopies DEF Dispatch
  <2> QED
    BY <1>1, <2>1, <2>2 DEF Next, Idle
<1> QED
  BY <1>1, CopiesInit, OutboxInvariant, PTL DEF Spec

\* A row is on the topic at most once per dispatcher and per fault, however many
\* batches it is taken into and however they end.
THEOREM CopiesSafety == Spec => []CopiesBounded
<1>1. OutboxInv /\ CopiesInv => CopiesBounded
  <2> SUFFICES ASSUME OutboxInv, CopiesInv, NEW r \in Rows
               PROVE  Copies(r) <= Cardinality(Dispatchers) + faults
    BY DEF CopiesBounded
  <2>1. faults \in Nat
    BY SizeAssumption DEF CopiesInv
  <2>2. CASE r \in marked
    BY <2>1, <2>2, CountTypes DEF CopiesInv
  <2>3. CASE r \notin marked
    BY <2>1, <2>3, CountTypes DEF CopiesInv
  <2> QED
    BY <2>2, <2>3
<1> QED
  BY <1>1, CopiesInvariant, PTL

\* The declared types hold: in particular CreatedAt never runs past the number of
\* rows, and only written rows are marked or published.
THEOREM OutboxTypes == Spec => []TypeOK
<1>1. OutboxInv /\ CopiesInv => TypeOK
  <2> SUFFICES ASSUME OutboxInv, CopiesInv
               PROVE  TypeOK
    OBVIOUS
  <2>1. created \in [Rows -> 0 .. Cardinality(Rows)]
    <3>1. Stamped \subseteq Rows
      BY DEF Stamped
    <3>2. /\ Cardinality(Rows) \in Nat /\ Cardinality(Stamped) \in Nat
          /\ Cardinality(Stamped) <= Cardinality(Rows)
      BY <3>1, RowsFinite, FS_Subset, FS_CardinalityType
    <3>3. \A r \in Rows : created[r] \in 0 .. Cardinality(Rows)
      BY <3>2 DEF OutboxInv, Shape, StampInv
    <3> QED
      BY <3>3 DEF OutboxInv, Shape
  <2>2. marked \subseteq Rows /\ inserted \subseteq Rows
    BY DEF OutboxInv, BatchInv, Shape
  <2> QED
    BY <2>1, <2>2 DEF TypeOK, OutboxInv, Shape, StampInv, CopiesInv
<1> QED
  BY <1>1, CopiesInvariant, PTL
=============================================================================
