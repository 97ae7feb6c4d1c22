---------------------------- MODULE VelocityStore ----------------------------
(***************************************************************************)
(* The sliding windows of one account in Redis (RedisVelocityStore.cs): a  *)
(* sorted set of transactions scored by their own time.  The four sets of  *)
(* an account are written and trimmed alike; one of them is modelled.  The *)
(* commands of a record go out as one pipelined batch, which is taken as   *)
(* one step.                                                               *)
(***************************************************************************)
EXTENDS Integers, FiniteSets

CONSTANTS
    Retention,      \* 36 hours: what a record leaves in the set
    OneMinute, FiveMinutes,     \* lengths of the two windows
    Earlier         \* records [tx, at], one of which may be in the set at first

ASSUME VelocityAssumption ==
    /\ Retention \in Nat /\ OneMinute \in Nat /\ FiveMinutes \in Nat
    /\ OneMinute < Retention /\ FiveMinutes < Retention
    /\ \A e \in Earlier : e.at \in Nat

VARIABLES
    entries,        \* the sorted set: records [tx, at], one for a tx
    recorded,       \* what it would be if nothing were ever trimmed
    horizon         \* the latest time recorded since the key exists, or -1

velocityVars == <<entries, recorded, horizon>>

\* The account is new, or an evaluation has left its transaction.
VelocityInit ==
    \/ entries = {} /\ recorded = {} /\ horizon = -1
    \/ \E e \in Earlier : entries = {e} /\ recorded = {e} /\ horizon = e.at

\* SortedSetAddAsync: a member is in a set once, with its last score.
Add(set, e) == {x \in set : x.tx # e.tx} \union {[tx |-> e.tx, at |-> e.at]}

\* SortedSetRemoveRangeByScoreAsync from minus infinity to the cutoff.
Trim(set, cutoff) == {x \in set : x.at > cutoff}

\* SortedSetLengthAsync, both ends included.
Within(set, at, window) == {x \in set : x.at >= at - window /\ x.at <= at}

-----------------------------------------------------------------------------
\* A faulty variant, which keeps what the longest of the windows needs instead of
\* 36 hours: not part of the specification.
RecordKeepingWindow(e) ==
    /\ entries' = Trim(Add(entries, e), e.at - FiveMinutes)
    /\ recorded' = Add(recorded, e)
    /\ horizon' = IF e.at > horizon THEN e.at ELSE horizon

-----------------------------------------------------------------------------
\* The batch of RecordAndSnapshotAsync: the time that trims is the transaction's.
Record(e) ==
    /\ entries' = Trim(Add(entries, e), e.at - Retention)
    /\ recorded' = Add(recorded, e)
    /\ horizon' = IF e.at > horizon THEN e.at ELSE horizon

Count(at, window) == Cardinality(Within(entries, at, window))

\* The key expires, 36 hours after its last record, or Redis is lost.
KeyGone ==
    /\ entries # {}
    /\ entries' = {}
    /\ recorded' = {}
    /\ horizon' = -1

-----------------------------------------------------------------------------
(* Properties.                                                             *)

\* Transactions may come in any order and carry any time.  A window is complete
\* all the same while it begins less than Retention before the latest of them:
\* the only ones missing, ever, are those that a later time has trimmed.
WindowsComplete ==
    \A e \in recorded, window \in {OneMinute, FiveMinutes} :
        e.at - window > horizon - Retention =>
            Within(entries, e.at, window) = Within(recorded, e.at, window)
=============================================================================
