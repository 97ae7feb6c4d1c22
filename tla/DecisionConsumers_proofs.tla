---------------------- MODULE DecisionConsumers_proofs ----------------------
(***************************************************************************)
(* Proofs about DecisionConsumers, for any log, any seeded profiles and    *)
(* any number of attempts and faults.                                      *)
(***************************************************************************)
EXTENDS DecisionConsumers, TLAPS

Away == {"down", "consume"}
Effects == {"complete"} \union PublisherCalls \union ProfilerCalls

\* Each process runs its own handler, on a message that is there.
TypeInv ==
    /\ TypeOK
    /\ \A g \in Groups : pc[g] \notin Away => committed[g] < Len(Log)
    /\ pc["publisher"] \notin ProfilerCalls
    /\ pc["profiler"] \notin PublisherCalls

\* Past its claim, a handler works on an event that is its own.
ClaimInv == \A g \in Groups : pc[g] \in Effects => claimant[Event(g)] = g

\* How far the publisher is, and what the channels show of the event in hand.
PublisherInv ==
    LET g == "publisher"  e == Event("publisher")
    IN  /\ \A i \in DOMAIN live : claimant[live[i].event] = g
        /\ pc[g] \in {"openCase", "sendDecision"} => ~Sent("decisions", e)
        /\ pc[g] \in PublisherCalls => ~Sent("alerts", e)
        /\ pc[g] \in {"openCase", "sendAlert"} => e \in Alerting
        /\ pc[g] = "sendDecision" /\ e \in Alerting => HasCase(TxOf[e])
        /\ pc[g] = "sendAlert" => Sent("decisions", e) /\ HasCase(TxOf[e])
        /\ pc[g] = "complete" => /\ Sent("decisions", e)
                                 /\ e \in Alerting => Sent("alerts", e) /\ HasCase(TxOf[e])
        /\ \A i, j \in DOMAIN live : live[i] = live[j] => i = j

\* How far the profile processor is, and what the stores hold of the event in hand.
ProfilerInv ==
    LET g == "profiler"  e == Event("profiler")
    IN  /\ \A x \in Events : applied[x] > 0 => claimant[x] = g
        /\ \A x \in Events : applied[x] <= 1 /\ profileRows[x] <= applied[x]
        /\ pc[g] = "apply" => applied[e] = 0
        /\ pc[g] = "enqueue" => applied[e] = 1 /\ profileRows[e] = 0
        /\ pc[g] = "complete" => applied[e] = 1 /\ profileRows[e] = 1

ConsumersInv ==
    /\ TypeInv /\ ClaimInv /\ PublisherInv /\ ProfilerInv
    /\ CasePerTransaction /\ AlertAfterCase /\ CompletedIsDone

-----------------------------------------------------------------------------
\* A consumer that is not away has a message of the log in hand.
LEMMA EventsAndTransactions ==
    ASSUME TypeInv, NEW g \in Groups, pc[g] \notin Away
    PROVE  /\ Event(g) \in Events /\ TxOf[Event(g)] \in Transactions
           /\ Account(g) \in Accounts /\ committed[g] + 1 \in 1 .. Len(Log)
<1>1. committed[g] + 1 \in 1 .. Len(Log)
  BY LogAssumption DEF LogAssumption, TypeInv, TypeOK
<1>2. Event(g) \in Events
  BY <1>1, LogAssumption DEF LogAssumption, Event
<1> QED
  BY <1>1, <1>2, LogAssumption DEF LogAssumption, Account

\* The elements of a sequence over a set are in the set.
LEMMA ElementsOfSeq ==
    ASSUME NEW S, NEW s \in Seq(S) PROVE \A i \in DOMAIN s : s[i] \in S
OBVIOUS

\* A handler that throws is tried again or dead-lettered, and its attempts stay in
\* bounds.
LEMMA ThrowTypes ==
    ASSUME TypeInv, NEW g \in Groups, Throw(g)
    PROVE  /\ attempt' \in [Groups -> 0 .. MaxAttempts]
           /\ \E step \in {"claim", "deadLetter"} : Goto(g, step)
<1>1. attempt[g] \in 0 .. MaxAttempts /\ MaxAttempts \in Nat
  BY BoundAssumption DEF BoundAssumption, TypeInv, TypeOK
<1>2. CASE attempt[g] < MaxAttempts
  <2>1. attempt' = [attempt EXCEPT ![g] = @ + 1] /\ Goto(g, "claim")
    BY <1>2 DEF Throw
  <2> QED
    BY <1>1, <1>2, <2>1 DEF TypeInv, TypeOK
<1>3. CASE ~(attempt[g] < MaxAttempts)
  BY <1>3 DEF Throw, TypeInv, TypeOK
<1> QED
  BY <1>2, <1>3

\* A move of one consumer keeps every consumer at a call of its own handler.
LEMMA GotoTypes ==
    ASSUME TypeInv, NEW g \in Groups,
           NEW step \in HandlerCalls \union {"down", "consume", "deadLetter", "commit"}, Goto(g, step),
           step \notin Away => committed'[g] < Len(Log),
           \A h \in Groups \ {g} : committed'[h] = committed[h],
           step \in ProfilerCalls => g = "profiler",
           step \in PublisherCalls => g = "publisher"
    PROVE  /\ pc' \in [Groups -> HandlerCalls \union {"down", "consume", "deadLetter", "commit"}]
           /\ \A h \in Groups : pc'[h] \notin Away => committed'[h] < Len(Log)
           /\ pc'["publisher"] \notin ProfilerCalls
           /\ pc'["profiler"] \notin PublisherCalls
BY DEF TypeInv, TypeOK, Goto, Groups

\* A fault stays within the bound on faults.
LEMMA FaultTypes == ASSUME TypeInv, Fault PROVE faults' \in 0 .. MaxFaults
BY BoundAssumption DEF BoundAssumption, TypeInv, TypeOK, Fault

\* The three ways a call of a handler ends.
Ends(g, step) ==
    \/ Proceed(g, step)
    \/ AckLost(g)
    \/ Goto(g, step) /\ Fault /\ UNCHANGED attempt

\* However a call of a handler ends, the consumer stays well typed.
LEMMA EndTypes ==
    ASSUME TypeInv, NEW g \in Groups, pc[g] \notin Away, committed' = committed,
           NEW step \in HandlerCalls \union {"commit", "deadLetter"}, Ends(g, step),
           step \in ProfilerCalls => g = "profiler",
           step \in PublisherCalls => g = "publisher"
    PROVE  /\ attempt' \in [Groups -> 0 .. MaxAttempts] /\ faults' \in 0 .. MaxFaults
           /\ pc' \in [Groups -> HandlerCalls \union {"down", "consume", "deadLetter", "commit"}]
           /\ \A h \in Groups : pc'[h] \notin Away => committed'[h] < Len(Log)
           /\ pc'["publisher"] \notin ProfilerCalls
           /\ pc'["profiler"] \notin PublisherCalls
           /\ \A h \in Groups \ {g} : pc'[h] = pc[h]
           /\ pc'[g] \in {step, "claim", "deadLetter"}
<1>1. attempt' \in [Groups -> 0 .. MaxAttempts] /\ faults' \in 0 .. MaxFaults
  BY ThrowTypes, FaultTypes DEF Ends, Proceed, AckLost, TypeInv, TypeOK
<1>2. PICK next \in {step, "claim", "deadLetter"} : Goto(g, next)
  BY ThrowTypes DEF Ends, Proceed, AckLost
<1>3. committed[g] < Len(Log)
  BY DEF TypeInv
<1>4. next \in HandlerCalls \union {"down", "consume", "deadLetter", "commit"}
      /\ (next \in ProfilerCalls => g = "profiler") /\ (next \in PublisherCalls => g = "publisher")
  BY DEF HandlerCalls, ProfilerCalls, PublisherCalls
<1>5. \A h \in Groups \ {g} : pc'[h] = pc[h] /\ pc'[g] = next
  BY <1>2 DEF Goto, TypeInv, TypeOK
<1>6. pc'[g] = next
  BY <1>2 DEF Goto, TypeInv, TypeOK
<1> QED
  BY <1>1, <1>2, <1>3, <1>4, <1>5, <1>6, GotoTypes

-----------------------------------------------------------------------------
(* Steps that leave the stores alone.                                      *)

\* The host's steps, and the calls that come to nothing.
Quiet(g) ==
    /\ UNCHANGED <<inbox, fanout, profile>>
    /\ \A h \in Groups \ {g} : pc'[h] = pc[h] /\ committed'[h] = committed[h]
    /\ pc'[g] \notin Effects

\* A step that writes nothing and reaches no call with an effect breaks nothing.
LEMMA QuietKeeps ==
    ASSUME ConsumersInv, TypeInv', NEW g \in Groups, Quiet(g)
    PROVE  ConsumersInv'
<1>1. \A h \in Groups : pc'[h] \in Effects => pc'[h] = pc[h] /\ Event(h)' = Event(h)
  BY DEF Quiet, Event
<1>2. "publisher" \in Groups /\ "profiler" \in Groups
  BY DEF Groups
<1>3. UNCHANGED <<claimant, completed, cases, live, profiles, applied, profileRows>>
  BY DEF Quiet, inbox, fanout, profile
<1>4. ClaimInv'
  BY <1>1, <1>3 DEF ConsumersInv, ClaimInv
<1>5. PublisherInv'
  BY <1>1, <1>2, <1>3 DEF ConsumersInv, PublisherInv, Sent, HasCase, Effects, PublisherCalls
<1>6. ProfilerInv'
  BY <1>1, <1>2, <1>3 DEF ConsumersInv, ProfilerInv, Effects, ProfilerCalls
<1>7. CasePerTransaction' /\ AlertAfterCase' /\ CompletedIsDone'
  BY <1>3 DEF ConsumersInv, CasePerTransaction, AlertAfterCase, CompletedIsDone, Sent, HasCase
<1> QED
  BY <1>4, <1>5, <1>6, <1>7 DEF ConsumersInv

\* The steps of the consumer host, crashes and restarts included, keep the
\* invariant.
LEMMA HostStep ==
    ASSUME ConsumersInv, NEW g \in Groups,
           \/ Consume(g) \/ DeadLetter(g) \/ Commit(g) \/ CallFails(g) \/ Crash(g) \/ Restart(g)
           \/ SkipDuplicate(g) \/ ClaimRefused(g) \/ ApplyUnreadable(g)
    PROVE  ConsumersInv'
<1> USE DEF broker, inbox, fanout, profile
<1>1. TypeInv /\ TypeOK
  BY DEF ConsumersInv, TypeInv
<1>2. /\ Len(Log) \in Nat /\ MaxAttempts \in Nat /\ 1 <= MaxAttempts
      /\ \A h \in Groups : committed[h] \in 0 .. Len(Log)
  BY <1>1, LogAssumption, BoundAssumption DEF LogAssumption, BoundAssumption, TypeOK
<1>3. PICK step \in {"claim", "commit", "deadLetter", "consume", "down"} :
         /\ Goto(g, step)
         /\ step \notin Away => committed'[g] < Len(Log)
  <2>1. CASE CallFails(g) \/ ApplyUnreadable(g)
    <3>1. \E step \in {"claim", "deadLetter"} : Goto(g, step)
      BY <1>1, <2>1, ThrowTypes DEF CallFails, ApplyUnreadable
    <3>2. pc[g] \notin Away /\ committed' = committed
      BY <2>1 DEF CallFails, ApplyUnreadable, HandlerCalls, Away, PublisherCalls, ProfilerCalls
    <3> QED
      BY <1>1, <3>1, <3>2 DEF TypeInv
  <2>2. CASE Consume(g) \/ DeadLetter(g) \/ SkipDuplicate(g) \/ ClaimRefused(g)
    <3>1. \E step \in {"claim", "commit"} : Goto(g, step)
      BY <2>2 DEF Consume, DeadLetter, SkipDuplicate, ClaimRefused, Proceed
    <3>2. committed' = committed /\ (pc[g] \notin Away \/ committed[g] < Len(Log))
      BY <2>2 DEF Consume, DeadLetter, SkipDuplicate, ClaimRefused, Away
    <3> QED
      BY <1>1, <3>1, <3>2 DEF TypeInv
  <2>3. CASE Commit(g) \/ Crash(g) \/ Restart(g)
    <3>1. \E step \in {"consume", "down"} : Goto(g, step)
      BY <2>3 DEF Commit, Crash, Restart, Proceed
    <3> QED
      BY <3>1 DEF Away
  <2> QED
    BY <2>1, <2>2, <2>3
<1>4. \A h \in Groups \ {g} : committed'[h] = committed[h]
  BY <1>1 DEF Consume, DeadLetter, Commit, CallFails, Crash, Restart, SkipDuplicate,
     ClaimRefused, ApplyUnreadable, TypeOK
<1>5. /\ pc' \in [Groups -> HandlerCalls \union {"down", "consume", "deadLetter", "commit"}]
      /\ \A h \in Groups : pc'[h] \notin Away => committed'[h] < Len(Log)
      /\ pc'["publisher"] \notin ProfilerCalls
      /\ pc'["profiler"] \notin PublisherCalls
  <2>1. /\ step \in HandlerCalls \union {"down", "consume", "deadLetter", "commit"}
        /\ step \notin ProfilerCalls /\ step \notin PublisherCalls
    BY DEF HandlerCalls, PublisherCalls, ProfilerCalls
  <2>2. pc' = [pc EXCEPT ![g] = step]
    BY <1>3 DEF Goto
  <2>3. pc' \in [Groups -> HandlerCalls \union {"down", "consume", "deadLetter", "commit"}]
        /\ pc'[g] = step /\ \A h \in Groups \ {g} : pc'[h] = pc[h]
    BY <1>1, <2>1, <2>2 DEF TypeOK
  <2>4. ASSUME NEW h \in Groups, pc'[h] \notin Away
        PROVE  committed'[h] < Len(Log)
    BY <1>1, <1>3, <1>4, <2>3, <2>4 DEF TypeInv
  <2>5. pc'["publisher"] \notin ProfilerCalls /\ pc'["profiler"] \notin PublisherCalls
    BY <1>1, <2>1, <2>3 DEF TypeInv, Groups
  <2> QED
    BY <2>3, <2>4, <2>5
<1>6. attempt' \in [Groups -> 0 .. MaxAttempts] /\ faults' \in 0 .. MaxFaults
  <2>1. attempt \in [Groups -> 0 .. MaxAttempts] /\ faults \in 0 .. MaxFaults
    BY <1>1 DEF TypeOK
  <2>2. CASE CallFails(g) \/ ApplyUnreadable(g)
    <3>1. attempt' \in [Groups -> 0 .. MaxAttempts]
      BY <1>1, <2>2, ThrowTypes DEF CallFails, ApplyUnreadable
    <3>2. Fault \/ faults' = faults
      BY <2>2 DEF CallFails, ApplyUnreadable
    <3> QED
      BY <1>1, <2>1, <3>1, <3>2, FaultTypes
  <2>3. CASE Crash(g)
    <3>1. Fault /\ attempt' = [attempt EXCEPT ![g] = 0]
      BY <2>3 DEF Crash
    <3>2. faults' \in 0 .. MaxFaults
      BY <1>1, <3>1, FaultTypes
    <3> QED
      BY <1>2, <2>1, <3>1, <3>2
  <2>4. CASE Consume(g) \/ DeadLetter(g) \/ Commit(g) \/ Restart(g) \/ SkipDuplicate(g)
    BY <1>2, <2>1, <2>4 DEF Consume, DeadLetter, Commit, Restart, SkipDuplicate, Proceed
  <2>5. CASE ClaimRefused(g)
    BY <1>1, <2>1, <2>5, FaultTypes DEF ClaimRefused
  <2> QED
    BY <2>2, <2>3, <2>4, <2>5
<1>7. committed' \in [Groups -> 0 .. Len(Log)]
  <2>1. CASE Commit(g)
    <3>1. committed[g] < Len(Log)
      BY <1>1, <2>1 DEF Commit, TypeInv, Away
    <3> QED
      BY <1>1, <1>2, <2>1, <3>1 DEF Commit, TypeOK
  <2>2. CASE ~Commit(g)
    BY <1>1, <2>2 DEF Consume, DeadLetter, CallFails, Crash, Restart, SkipDuplicate,
       ClaimRefused, ApplyUnreadable, TypeOK
  <2> QED
    BY <2>1, <2>2
<1>8. deadLetters' \subseteq [group : Groups, offset : 1 .. Len(Log)]
  <2>1. CASE DeadLetter(g)
    <3>1. committed[g] + 1 \in 1 .. Len(Log)
      BY <1>1, <2>1, EventsAndTransactions DEF DeadLetter, Away
    <3> QED
      BY <1>1, <2>1, <3>1 DEF DeadLetter, TypeOK
  <2>2. CASE ~DeadLetter(g)
    BY <1>1, <2>2 DEF Consume, Commit, CallFails, Crash, Restart, SkipDuplicate,
       ClaimRefused, ApplyUnreadable, TypeOK
  <2> QED
    BY <2>1, <2>2
<1>9. UNCHANGED <<inbox, fanout, profile>>
  BY DEF Consume, DeadLetter, Commit, CallFails, Crash, Restart, SkipDuplicate,
     ClaimRefused, ApplyUnreadable
<1>10. TypeInv'
  BY <1>1, <1>5, <1>6, <1>7, <1>8, <1>9 DEF TypeInv, TypeOK
<1>11. Quiet(g)
  BY <1>1, <1>3, <1>4, <1>9 DEF Quiet, Goto, TypeOK, Effects, PublisherCalls, ProfilerCalls
<1> QED
  BY <1>10, <1>11, QuietKeeps

-----------------------------------------------------------------------------
(* The calls.                                                              *)

\* A message more on the live channels.
LEMMA SendsOne ==
    ASSUME TypeOK, NEW m \in [channel : {"decisions", "alerts"}, event : Events],
           live' = Append(live, m)
    PROVE  /\ live' \in Seq([channel : {"decisions", "alerts"}, event : Events])
           /\ DOMAIN live = 1 .. Len(live) /\ DOMAIN live' = 1 .. Len(live) + 1 /\ Len(live) \in Nat
           /\ \A i \in DOMAIN live : live'[i] = live[i]
           /\ live'[Len(live) + 1] = m
           /\ \A c, e : Sent(c, e)' <=> Sent(c, e) \/ (c = m.channel /\ e = m.event)
<1>1. /\ live' \in Seq([channel : {"decisions", "alerts"}, event : Events])
      /\ DOMAIN live = 1 .. Len(live) /\ DOMAIN live' = 1 .. Len(live) + 1 /\ Len(live) \in Nat
      /\ \A i \in DOMAIN live : live'[i] = live[i]
      /\ live'[Len(live) + 1] = m
  BY DEF TypeOK
<1>2. \A i \in DOMAIN live' : i \in DOMAIN live \/ i = Len(live) + 1
  BY <1>1
<1>3. Len(live) + 1 \in DOMAIN live' /\ \A i \in DOMAIN live : i \in DOMAIN live'
  BY <1>1
<1> QED
  BY <1>1, <1>2, <1>3 DEF Sent

\* The other process is where it was.
LEMMA OtherStays ==
    ASSUME TypeInv, NEW g \in Groups, NEW h \in Groups \ {g}, committed' = committed,
           \A x \in Groups \ {g} : pc'[x] = pc[x]
    PROVE  pc'[h] = pc[h] /\ Event(h)' = Event(h) /\ Event(g)' = Event(g)
BY DEF Event

\* TryBeginAsync: the claim of an event nobody has keeps the invariant.
LEMMA ClaimKeeps ==
    ASSUME ConsumersInv, NEW g \in Groups, Claim(g)
    PROVE  ConsumersInv'
<1> DEFINE e == Event(g)
<1>1. TypeInv /\ TypeOK /\ pc[g] = "claim" /\ pc[g] \notin Away
  BY DEF ConsumersInv, TypeInv, Claim, Away
<1>2. e \in Events
  BY <1>1, EventsAndTransactions
<1>3. claimant[e] = Nobody /\ claimant' = [claimant EXCEPT ![e] = g]
      /\ UNCHANGED <<committed, deadLetters, completed, cases, live, profiles, applied, profileRows>>
  BY DEF Claim, broker, fanout, profile
<1>4. PICK step \in {FirstCall(g), "commit"} : Ends(g, step)
  BY DEF Claim, Ends
<1>5. /\ step \in {"apply", "openCase", "sendDecision", "commit"}
      /\ step = "apply" => g = "profiler"
      /\ step \in {"openCase", "sendDecision"} => g = "publisher"
      /\ step = "openCase" => e \in Alerting
      /\ step = "sendDecision" => e \notin Alerting
  BY DEF FirstCall, Groups
<1>6. /\ step \in HandlerCalls \union {"commit", "deadLetter"}
      /\ step \in ProfilerCalls => g = "profiler"
      /\ step \in PublisherCalls => g = "publisher"
  BY <1>5 DEF HandlerCalls, ProfilerCalls, PublisherCalls
<1>7. /\ attempt' \in [Groups -> 0 .. MaxAttempts] /\ faults' \in 0 .. MaxFaults
      /\ pc' \in [Groups -> HandlerCalls \union {"down", "consume", "deadLetter", "commit"}]
      /\ \A h \in Groups : pc'[h] \notin Away => committed'[h] < Len(Log)
      /\ pc'["publisher"] \notin ProfilerCalls
      /\ pc'["profiler"] \notin PublisherCalls
      /\ \A h \in Groups \ {g} : pc'[h] = pc[h]
      /\ pc'[g] \in {step, "claim", "deadLetter"}
  BY <1>1, <1>3, <1>4, <1>6, EndTypes
<1>8. TypeInv'
  BY <1>1, <1>2, <1>3, <1>7 DEF TypeInv, TypeOK
<1>9. /\ claimant'[e] = g
      /\ \A x \in Events \ {e} : claimant'[x] = claimant[x]
      /\ \A x \in Events : claimant[x] \in Groups => claimant'[x] = claimant[x]
  BY <1>1, <1>2, <1>3, NobodyAssumption DEF NobodyAssumption, TypeOK
<1>10. \A h \in Groups : Event(h)' = Event(h)
  BY <1>3 DEF Event
<1>11. ASSUME NEW h \in Groups, pc'[h] \in Effects
       PROVE  claimant'[Event(h)] = h
  <2>1. CASE h = g
    BY <1>9, <2>1
  <2>2. CASE h # g
    <3>1. pc[h] \in Effects /\ pc[h] \notin Away
      BY <1>7, <1>11, <2>2 DEF Effects, Away, PublisherCalls, ProfilerCalls
    <3> QED
      BY <1>1, <1>9, <3>1, EventsAndTransactions DEF ConsumersInv, ClaimInv
  <2> QED
    BY <2>1, <2>2
<1>12. "publisher" \in Groups /\ "profiler" \in Groups /\ g \in {"publisher", "profiler"}
  BY DEF Groups
<1>13. /\ ~Sent("decisions", e) /\ ~Sent("alerts", e) /\ applied[e] = 0
       /\ \A i \in DOMAIN live : claimant'[live[i].event] = "publisher"
  <2>1. \A i \in DOMAIN live : live[i].event \in Events
    <3>1. live \in Seq([channel : {"decisions", "alerts"}, event : Events])
      BY <1>1 DEF TypeOK
    <3>2. \A i \in DOMAIN live : live[i] \in [channel : {"decisions", "alerts"}, event : Events]
      BY <3>1, ElementsOfSeq
    <3> QED
      BY <3>2
  <2> HIDE DEF e
  <2>4. \A i \in DOMAIN live : claimant[live[i].event] = "publisher"
    BY DEF ConsumersInv, PublisherInv
  <2>2. \A i \in DOMAIN live : live[i].event # e
    BY <1>3, <1>12, <2>4, NobodyAssumption DEF NobodyAssumption
  <2>3. applied[e] \in Nat /\ ~(applied[e] > 0)
    BY <1>1, <1>2, <1>3, <1>12, NobodyAssumption DEF NobodyAssumption, ConsumersInv, ProfilerInv, TypeOK
  <2> QED
    BY <1>9, <1>12, <2>1, <2>2, <2>3, <2>4 DEF Sent
<1> HIDE DEF e
<1>14. PublisherInv'
  <2>1. CASE g = "publisher"
    BY <1>3, <1>5, <1>7, <1>10, <1>13, <2>1
       DEF e, ConsumersInv, PublisherInv, Sent, HasCase, PublisherCalls
  <2>2. CASE g = "profiler"
    BY <1>3, <1>7, <1>10, <1>12, <1>13, <2>2
       DEF ConsumersInv, PublisherInv, Sent, HasCase, PublisherCalls
  <2> QED
    BY <1>12, <2>1, <2>2
<1>15. ProfilerInv'
  <2>1. \A x \in Events : applied[x] > 0 => claimant'[x] = "profiler"
    BY <1>9, <1>12 DEF ConsumersInv, ProfilerInv
  <2>2. CASE g = "profiler"
    BY <1>3, <1>5, <1>7, <1>10, <1>13, <2>1, <2>2 DEF e, ConsumersInv, ProfilerInv
  <2>3. CASE g = "publisher"
    BY <1>3, <1>7, <1>10, <1>12, <2>1, <2>3 DEF ConsumersInv, ProfilerInv
  <2> QED
    BY <1>12, <2>2, <2>3
<1>16. CasePerTransaction' /\ AlertAfterCase'
  <2>1. \A c \in cases : c.event \in Events
    BY <1>1 DEF TypeOK
  <2> QED
    BY <1>3, <1>9, <1>12, <2>1 DEF ConsumersInv, CasePerTransaction, AlertAfterCase, HasCase
<1>17. CompletedIsDone'
  <2>1. \A x \in completed : claimant[x] \in Groups => claimant'[x] = claimant[x]
    BY <1>1, <1>9 DEF TypeOK
  <2> QED
    BY <1>3, <1>12, <2>1 DEF ConsumersInv, CompletedIsDone, Sent, HasCase
<1>18. ClaimInv'
  BY <1>10, <1>11 DEF ClaimInv
<1> QED
  BY <1>8, <1>18, <1>14, <1>15, <1>16, <1>17 DEF ConsumersInv, ClaimInv

\* What every later call of a handler has in common: it works on an event that its
\* own group claimed, and neither claims nor offsets change.
Working(g, step) ==
    /\ pc[g] \in Effects
    /\ Ends(g, step)
    /\ UNCHANGED <<committed, deadLetters, claimant>>

\* What is known of a consumer while it works on an event it has claimed.
LEMMA WorkingFacts ==
    ASSUME ConsumersInv, NEW g \in Groups, NEW step \in HandlerCalls \union {"commit"},
           Working(g, step),
           step \in ProfilerCalls => g = "profiler",
           step \in PublisherCalls => g = "publisher"
    PROVE  /\ TypeInv /\ TypeOK
           /\ Event(g) \in Events /\ TxOf[Event(g)] \in Transactions /\ Account(g) \in Accounts
           /\ claimant[Event(g)] = g
           /\ attempt' \in [Groups -> 0 .. MaxAttempts] /\ faults' \in 0 .. MaxFaults
           /\ pc' \in [Groups -> HandlerCalls \union {"down", "consume", "deadLetter", "commit"}]
           /\ \A h \in Groups : pc'[h] \notin Away => committed'[h] < Len(Log)
           /\ pc'["publisher"] \notin ProfilerCalls
           /\ pc'["profiler"] \notin PublisherCalls
           /\ \A h \in Groups \ {g} : pc'[h] = pc[h]
           /\ pc'[g] \in {step, "claim", "deadLetter"}
           /\ \A h \in Groups : Event(h)' = Event(h)
           /\ step \in Effects => ClaimInv'
<1>1. TypeInv /\ TypeOK /\ pc[g] \notin Away
  BY DEF ConsumersInv, TypeInv, Working, Effects, Away, PublisherCalls, ProfilerCalls
<1>2. /\ Event(g) \in Events /\ TxOf[Event(g)] \in Transactions /\ Account(g) \in Accounts
      /\ claimant[Event(g)] = g
  BY <1>1, EventsAndTransactions DEF ConsumersInv, ClaimInv, Working
<1>3. /\ attempt' \in [Groups -> 0 .. MaxAttempts] /\ faults' \in 0 .. MaxFaults
      /\ pc' \in [Groups -> HandlerCalls \union {"down", "consume", "deadLetter", "commit"}]
      /\ \A h \in Groups : pc'[h] \notin Away => committed'[h] < Len(Log)
      /\ pc'["publisher"] \notin ProfilerCalls
      /\ pc'["profiler"] \notin PublisherCalls
      /\ \A h \in Groups \ {g} : pc'[h] = pc[h]
      /\ pc'[g] \in {step, "claim", "deadLetter"}
  BY <1>1, EndTypes DEF Working
<1>4. \A h \in Groups : Event(h)' = Event(h)
  BY DEF Working, Event
<1>5. ClaimInv'
  <2>1. ASSUME NEW h \in Groups, pc'[h] \in Effects
        PROVE  claimant'[Event(h)] = h
    BY <1>2, <1>3, <2>1 DEF Working, ConsumersInv, ClaimInv
  <2> QED
    BY <1>4, <2>1 DEF ClaimInv
<1> QED
  BY <1>1, <1>2, <1>3, <1>4, <1>5

\* There are two consumer groups.
LEMMA GroupNames == "publisher" \in Groups /\ "profiler" \in Groups /\ Groups = {"publisher", "profiler"}
BY DEF Groups

\* The case of an alerting decision is opened once for a transaction.
LEMMA OpenCaseKeeps ==
    ASSUME ConsumersInv, NEW g \in Groups, OpenCase(g)
    PROVE  ConsumersInv'
<1> PICK e : e = Event(g)
  OBVIOUS
<1> DEFINE case == [tx |-> TxOf[e], event |-> e]
<1>1. g = "publisher" /\ pc[g] = "openCase"
  BY DEF OpenCase, ConsumersInv, TypeInv, PublisherCalls, Groups
<1>2. /\ Working(g, "sendDecision")
      /\ UNCHANGED <<completed, live, profiles, applied, profileRows>>
      /\ cases' = IF HasCase(TxOf[e]) THEN cases ELSE cases \union {case}
  BY DEF OpenCase, Working, Ends, Effects, PublisherCalls, broker, inbox, profile
<1>3. /\ "sendDecision" \in HandlerCalls \union {"commit"} /\ "sendDecision" \notin ProfilerCalls
      /\ "sendDecision" \in Effects
  BY DEF HandlerCalls, PublisherCalls, ProfilerCalls, Effects
<1>4. /\ TypeInv /\ TypeOK
      /\ e \in Events /\ TxOf[e] \in Transactions /\ claimant[e] = g
      /\ attempt' \in [Groups -> 0 .. MaxAttempts] /\ faults' \in 0 .. MaxFaults
      /\ pc' \in [Groups -> HandlerCalls \union {"down", "consume", "deadLetter", "commit"}]
      /\ \A h \in Groups : pc'[h] \notin Away => committed'[h] < Len(Log)
      /\ pc'["publisher"] \notin ProfilerCalls
      /\ pc'["profiler"] \notin PublisherCalls
      /\ \A h \in Groups \ {g} : pc'[h] = pc[h]
      /\ pc'[g] \in {"sendDecision", "claim", "deadLetter"}
      /\ \A h \in Groups : Event(h)' = Event(h)
      /\ ClaimInv'
  BY <1>1, <1>2, <1>3, WorkingFacts
<1>5. case \in [tx : Transactions, event : Events] /\ case.tx = TxOf[e] /\ case.event = e
  BY <1>4
<1> HIDE DEF case
<1>6. TypeInv'
  BY <1>2, <1>4, <1>5 DEF TypeInv, TypeOK, Working
<1>7. HasCase(TxOf[e])' /\ \A t : HasCase(t) => HasCase(t)'
  BY <1>2, <1>5 DEF HasCase
<1>8. /\ e \in Alerting /\ ~Sent("decisions", e) /\ ~Sent("alerts", e)
  BY <1>1 DEF ConsumersInv, PublisherInv, PublisherCalls
<1>9. \A c, x : Sent(c, x)' = Sent(c, x)
  BY <1>2 DEF Sent
<1>10. PublisherInv'
  <2>1. Event("publisher") = e /\ Event("publisher")' = e
    BY <1>1, <1>4
  <2> QED
    BY <1>1, <1>2, <1>4, <1>7, <1>8, <1>9, <2>1 DEF ConsumersInv, PublisherInv, PublisherCalls, Working
<1>11. ProfilerInv'
  BY <1>1, <1>2, <1>4, GroupNames DEF ConsumersInv, ProfilerInv, Working
<1>12. CasePerTransaction'
  BY <1>1, <1>2, <1>4, <1>5, <1>8 DEF ConsumersInv, CasePerTransaction, Working, HasCase
<1>13. AlertAfterCase'
  BY <1>2, <1>7 DEF ConsumersInv, AlertAfterCase
<1>14. CompletedIsDone'
  BY <1>2, <1>7, <1>9 DEF ConsumersInv, CompletedIsDone, Working
<1> QED
  BY <1>4, <1>6, <1>10, <1>11, <1>12, <1>13, <1>14 DEF ConsumersInv

\* A message of the event in hand that was not sent before, an alert only after its
\* decision and its case.
LEMMA SendKeeps ==
    ASSUME ConsumersInv, NEW m \in [channel : {"decisions", "alerts"}, event : Events],
           live' = Append(live, m), UNCHANGED <<claimant, completed, cases, applied, profileRows>>,
           claimant[m.event] = "publisher", ~Sent(m.channel, m.event),
           m.channel = "alerts" => Sent("decisions", m.event) /\ HasCase(TxOf[m.event])
    PROVE  /\ live' \in Seq([channel : {"decisions", "alerts"}, event : Events])
           /\ \A i \in DOMAIN live' : claimant'[live'[i].event] = "publisher"
           /\ \A i, j \in DOMAIN live' : live'[i] = live'[j] => i = j
           /\ \A c, x : Sent(c, x)' <=> Sent(c, x) \/ (c = m.channel /\ x = m.event)
           /\ \A t : HasCase(t)' = HasCase(t)
           /\ CasePerTransaction' /\ AlertAfterCase' /\ CompletedIsDone'
<1>1. TypeOK
  BY DEF ConsumersInv, TypeInv
<1>2. /\ live' \in Seq([channel : {"decisions", "alerts"}, event : Events])
      /\ DOMAIN live = 1 .. Len(live) /\ DOMAIN live' = 1 .. Len(live) + 1 /\ Len(live) \in Nat
      /\ \A i \in DOMAIN live : live'[i] = live[i]
      /\ live'[Len(live) + 1] = m
      /\ \A c, e : Sent(c, e)' <=> Sent(c, e) \/ (c = m.channel /\ e = m.event)
  BY <1>1, SendsOne
<1>3. \A i \in DOMAIN live' : i \in DOMAIN live \/ i = Len(live) + 1
  BY <1>2
<1>4. \A i \in DOMAIN live' : claimant'[live'[i].event] = "publisher"
  <2>1. \A i \in DOMAIN live : claimant[live[i].event] = "publisher"
    BY DEF ConsumersInv, PublisherInv
  <2> QED
    BY <1>2, <1>3, <2>1
<1>5. \A i \in DOMAIN live : live[i] # m
  BY DEF Sent
<1>6. \A i, j \in DOMAIN live' : live'[i] = live'[j] => i = j
  <2>1. \A i, j \in DOMAIN live : live[i] = live[j] => i = j
    BY DEF ConsumersInv, PublisherInv
  <2> QED
    BY <1>2, <1>3, <1>5, <2>1
<1>7. \A t : HasCase(t)' = HasCase(t)
  BY DEF HasCase
<1>8. CasePerTransaction' /\ CompletedIsDone'
  BY <1>2, <1>7 DEF ConsumersInv, CasePerTransaction, CompletedIsDone
<1>9. AlertAfterCase'
  <2> SUFFICES ASSUME NEW i \in DOMAIN live', live'[i].channel = "alerts"
               PROVE  /\ \E c \in cases : c.tx = TxOf[live'[i].event]
                      /\ \E j \in 1 .. i - 1 :
                             live'[j] = [channel |-> "decisions", event |-> live'[i].event]
    BY DEF AlertAfterCase, HasCase
  <2>1. CASE i \in DOMAIN live
    <3>1. /\ \E c \in cases : c.tx = TxOf[live[i].event]
          /\ \E j \in 1 .. i - 1 : live[j] = [channel |-> "decisions", event |-> live[i].event]
      BY <1>2, <2>1 DEF ConsumersInv, AlertAfterCase, HasCase
    <3>2. \A j \in 1 .. i - 1 : j \in DOMAIN live
      BY <1>2, <2>1
    <3> QED
      BY <1>2, <2>1, <3>1, <3>2
  <2>2. CASE i \notin DOMAIN live
    <3>1. i = Len(live) + 1 /\ live'[i] = m /\ m.channel = "alerts"
      BY <1>2, <1>3, <2>2
    <3>2. PICK j \in DOMAIN live : live[j].channel = "decisions" /\ live[j].event = m.event
      BY <3>1 DEF Sent
    <3>3. live[j] \in [channel : {"decisions", "alerts"}, event : Events]
      BY <1>1, ElementsOfSeq DEF TypeOK
    <3>4. \E c \in cases : c.tx = TxOf[m.event]
      BY <3>1 DEF HasCase
    <3>5. live'[j] = [channel |-> "decisions", event |-> m.event] /\ j \in 1 .. i - 1
      BY <1>2, <3>1, <3>2, <3>3
    <3> QED
      BY <3>1, <3>4, <3>5
  <2> QED
    BY <2>1, <2>2
<1> QED
  BY <1>2, <1>4, <1>6, <1>7, <1>8, <1>9

\* The two messages of the publisher are sent in order, each once for an event.
LEMMA PublisherSends ==
    ASSUME ConsumersInv, NEW g \in Groups, SendDecision(g) \/ SendAlert(g)
    PROVE  ConsumersInv'
<1> PICK e : e = Event(g)
  OBVIOUS
<1> PICK channel : channel = IF pc[g] = "sendDecision" THEN "decisions" ELSE "alerts"
  OBVIOUS
<1> PICK step : step = IF pc[g] = "sendDecision" /\ e \in Alerting THEN "sendAlert" ELSE "complete"
  OBVIOUS
<1> DEFINE m == [channel |-> channel, event |-> e]
<1>1. g = "publisher" /\ pc[g] \in {"sendDecision", "sendAlert"}
  BY DEF SendDecision, SendAlert, ConsumersInv, TypeInv, PublisherCalls, Groups
<1>2. /\ Working(g, step) /\ live' = Append(live, m)
      /\ UNCHANGED <<completed, cases, profiles, applied, profileRows>>
  BY DEF SendDecision, SendAlert, Working, Ends, Effects, PublisherCalls, broker, inbox, profile
<1>3. /\ step \in HandlerCalls \union {"commit"} /\ step \notin ProfilerCalls /\ step \in Effects
      /\ channel \in {"decisions", "alerts"} /\ m.channel = channel /\ m.event = e
      /\ step \in {"sendAlert", "complete"}
  BY DEF HandlerCalls, PublisherCalls, ProfilerCalls, Effects
<1>4. /\ pc[g] = "sendDecision" => channel = "decisions" /\ (e \in Alerting <=> step = "sendAlert")
      /\ pc[g] = "sendAlert" => channel = "alerts" /\ step = "complete"
  OBVIOUS
<1>5. e = Event("publisher")
  BY <1>1
<1>6. /\ TypeInv /\ TypeOK
      /\ e \in Events /\ claimant[e] = g
      /\ attempt' \in [Groups -> 0 .. MaxAttempts] /\ faults' \in 0 .. MaxFaults
      /\ pc' \in [Groups -> HandlerCalls \union {"down", "consume", "deadLetter", "commit"}]
      /\ \A h \in Groups : pc'[h] \notin Away => committed'[h] < Len(Log)
      /\ pc'["publisher"] \notin ProfilerCalls
      /\ pc'["profiler"] \notin PublisherCalls
      /\ \A h \in Groups \ {g} : pc'[h] = pc[h]
      /\ pc'[g] \in {step, "claim", "deadLetter"}
      /\ \A h \in Groups : Event(h)' = Event(h)
      /\ ClaimInv'
  BY <1>1, <1>2, <1>3, WorkingFacts
<1>7. m \in [channel : {"decisions", "alerts"}, event : Events]
  BY <1>3, <1>6
<1> HIDE DEF m
<1>8. /\ ~Sent(channel, e) /\ ~Sent("alerts", e)
      /\ channel = "alerts" => Sent("decisions", e) /\ HasCase(TxOf[e]) /\ e \in Alerting
      /\ channel = "decisions" /\ e \in Alerting => HasCase(TxOf[e])
  BY <1>1, <1>4, <1>5 DEF ConsumersInv, PublisherInv, PublisherCalls
<1>9. UNCHANGED claimant
  BY <1>2 DEF Working
<1>10. /\ live' \in Seq([channel : {"decisions", "alerts"}, event : Events])
       /\ \A i \in DOMAIN live' : claimant'[live'[i].event] = "publisher"
       /\ \A i, j \in DOMAIN live' : live'[i] = live'[j] => i = j
       /\ \A c, x : Sent(c, x)' <=> Sent(c, x) \/ (c = channel /\ x = e)
       /\ \A t : HasCase(t)' = HasCase(t)
       /\ CasePerTransaction' /\ AlertAfterCase' /\ CompletedIsDone'
  <2>1. /\ claimant[m.event] = "publisher" /\ ~Sent(m.channel, m.event)
        /\ m.channel = "alerts" => Sent("decisions", m.event) /\ HasCase(TxOf[m.event])
    BY <1>1, <1>3, <1>6, <1>8
  <2>2. UNCHANGED <<claimant, completed, cases, applied, profileRows>> /\ live' = Append(live, m)
    BY <1>2, <1>9
  <2>3. /\ live' \in Seq([channel : {"decisions", "alerts"}, event : Events])
        /\ \A i \in DOMAIN live' : claimant'[live'[i].event] = "publisher"
        /\ \A i, j \in DOMAIN live' : live'[i] = live'[j] => i = j
        /\ \A c, x : Sent(c, x)' <=> Sent(c, x) \/ (c = m.channel /\ x = m.event)
        /\ \A t : HasCase(t)' = HasCase(t)
        /\ CasePerTransaction' /\ AlertAfterCase' /\ CompletedIsDone'
    BY <1>7, <2>1, <2>2, SendKeeps
  <2> QED
    BY <1>3, <2>3
<1>11. TypeInv'
  BY <1>2, <1>6, <1>10 DEF TypeInv, TypeOK, Working
<1>12. PublisherInv'
  <2>1. Event("publisher")' = e /\ pc'["publisher"] \in {step, "claim", "deadLetter"}
    BY <1>1, <1>5, <1>6
  <2>2. pc["publisher"] = "sendDecision" \/ pc["publisher"] = "sendAlert"
    BY <1>1
  <2> QED
    BY <1>1, <1>3, <1>4, <1>8, <1>10, <2>1, <2>2 DEF PublisherInv, PublisherCalls
<1>13. ProfilerInv'
  BY <1>1, <1>2, <1>6, <1>9, GroupNames DEF ConsumersInv, ProfilerInv
<1> QED
  BY <1>6, <1>10, <1>11, <1>12, <1>13 DEF ConsumersInv

\* The profile and its row are written once for an event.
LEMMA ProfilerWrites ==
    ASSUME ConsumersInv, NEW g \in Groups, Apply(g) \/ Enqueue(g)
    PROVE  ConsumersInv'
<1> PICK e : e = Event(g)
  OBVIOUS
<1> PICK step : step = IF pc[g] = "apply" THEN "enqueue" ELSE "complete"
  OBVIOUS
<1>1. g = "profiler" /\ pc[g] \in {"apply", "enqueue"}
  BY DEF Apply, Enqueue, ConsumersInv, TypeInv, ProfilerCalls, Groups
<1>2. Working(g, step) /\ UNCHANGED <<completed, cases, live>>
  BY DEF Apply, Enqueue, Working, Ends, Effects, ProfilerCalls, broker, inbox, fanout
<1>3. /\ step \in HandlerCalls \union {"commit"} /\ step \notin PublisherCalls /\ step \in Effects
  BY DEF HandlerCalls, PublisherCalls, ProfilerCalls, Effects
<1>4. /\ TypeInv /\ TypeOK
      /\ e \in Events /\ Account(g) \in Accounts /\ claimant[e] = g
      /\ attempt' \in [Groups -> 0 .. MaxAttempts] /\ faults' \in 0 .. MaxFaults
      /\ pc' \in [Groups -> HandlerCalls \union {"down", "consume", "deadLetter", "commit"}]
      /\ \A h \in Groups : pc'[h] \notin Away => committed'[h] < Len(Log)
      /\ pc'["publisher"] \notin ProfilerCalls
      /\ pc'["profiler"] \notin PublisherCalls
      /\ \A h \in Groups \ {g} : pc'[h] = pc[h]
      /\ pc'[g] \in {step, "claim", "deadLetter"}
      /\ \A h \in Groups : Event(h)' = Event(h)
      /\ step \in Effects => ClaimInv'
  BY <1>1, <1>2, <1>3, WorkingFacts
<1>5. /\ pc[g] = "apply" => /\ applied' = [applied EXCEPT ![e] = @ + 1] /\ profileRows' = profileRows
                            /\ profiles' = profiles \union {Account(g)}
                            /\ applied[e] = 0 /\ profileRows[e] = 0
      /\ pc[g] = "enqueue" => /\ profileRows' = [profileRows EXCEPT ![e] = @ + 1]
                              /\ applied' = applied /\ profiles' = profiles
                              /\ applied[e] = 1 /\ profileRows[e] = 0
  <2>1. pc[g] = "apply" => applied[e] = 0
    BY <1>1 DEF ConsumersInv, ProfilerInv
  <2>2. pc[g] = "enqueue" => applied[e] = 1 /\ profileRows[e] = 0
    BY <1>1 DEF ConsumersInv, ProfilerInv
  <2>3. profileRows[e] \in Nat /\ profileRows[e] <= applied[e]
    BY <1>4 DEF ConsumersInv, ProfilerInv, TypeOK
  <2>4. pc[g] = "apply" => profileRows[e] = 0
    BY <2>1, <2>3
  <2> QED
    BY <2>1, <2>2, <2>4 DEF Apply, Enqueue
<1>6. /\ applied' \in [Events -> Nat] /\ profileRows' \in [Events -> Nat] /\ profiles' \subseteq Accounts
      /\ applied'[e] = 1
      /\ profileRows'[e] = IF pc[g] = "apply" THEN 0 ELSE 1
      /\ \A x \in Events \ {e} : applied'[x] = applied[x] /\ profileRows'[x] = profileRows[x]
  BY <1>1, <1>4, <1>5 DEF TypeOK
<1>7. TypeInv'
  BY <1>2, <1>4, <1>6 DEF TypeInv, TypeOK, Working
<1>8. ProfilerInv'
  <2>1. Event("profiler")' = e /\ pc'["profiler"] \in {step, "claim", "deadLetter"}
    BY <1>1, <1>4
  <2>2. \A x \in Events : applied'[x] > 0 => claimant'[x] = "profiler"
    BY <1>1, <1>2, <1>4, <1>6 DEF Working, ConsumersInv, ProfilerInv
  <2>3. \A x \in Events : applied'[x] <= 1 /\ profileRows'[x] <= applied'[x]
    BY <1>6 DEF ConsumersInv, ProfilerInv
  <2> QED
    BY <1>1, <1>6, <2>1, <2>2, <2>3 DEF ProfilerInv
<1>9. PublisherInv'
  BY <1>1, <1>2, <1>4, GroupNames
     DEF ConsumersInv, PublisherInv, Working, Sent, HasCase
<1>10. CasePerTransaction' /\ AlertAfterCase'
  BY <1>2 DEF ConsumersInv, CasePerTransaction, AlertAfterCase, Working, HasCase
<1>11. CompletedIsDone'
  <2>1. e \notin completed
    BY <1>1, <1>4, <1>5 DEF ConsumersInv, CompletedIsDone
  <2>2. \A x \in completed : applied'[x] = applied[x] /\ profileRows'[x] = profileRows[x]
    BY <1>4, <1>6, <2>1 DEF TypeOK
  <2> QED
    BY <1>2, <2>2 DEF ConsumersInv, CompletedIsDone, Working, Sent, HasCase
<1> QED
  BY <1>3, <1>4, <1>7, <1>8, <1>9, <1>10, <1>11 DEF ConsumersInv

\* An inbox row is completed after the work of its handler.
LEMMA CompleteKeeps ==
    ASSUME ConsumersInv, NEW g \in Groups, Complete(g)
    PROVE  ConsumersInv'
<1> PICK e : e = Event(g)
  OBVIOUS
<1> PICK step : step = "commit"
  OBVIOUS
<1>1. pc[g] = "complete" /\ g \in {"publisher", "profiler"}
  BY DEF Complete, Groups
<1>2. /\ Working(g, step) /\ completed' = completed \union {e}
      /\ UNCHANGED <<cases, live, profiles, applied, profileRows>>
  BY DEF Complete, Working, Ends, Effects, broker, fanout, profile
<1>3. step \in HandlerCalls \union {"commit"} /\ step \notin PublisherCalls /\ step \notin ProfilerCalls
  BY DEF PublisherCalls, ProfilerCalls
<1>4. /\ TypeInv /\ TypeOK
      /\ e \in Events /\ claimant[e] = g
      /\ attempt' \in [Groups -> 0 .. MaxAttempts] /\ faults' \in 0 .. MaxFaults
      /\ pc' \in [Groups -> HandlerCalls \union {"down", "consume", "deadLetter", "commit"}]
      /\ \A h \in Groups : pc'[h] \notin Away => committed'[h] < Len(Log)
      /\ pc'["publisher"] \notin ProfilerCalls
      /\ pc'["profiler"] \notin PublisherCalls
      /\ \A h \in Groups \ {g} : pc'[h] = pc[h]
      /\ pc'[g] \in {step, "claim", "deadLetter"}
      /\ \A h \in Groups : Event(h)' = Event(h)
      /\ step \in Effects => ClaimInv'
  BY <1>1, <1>2, <1>3, WorkingFacts
<1>5. TypeInv'
  BY <1>2, <1>4 DEF TypeInv, TypeOK, Working
<1>6. ClaimInv'
  <2>1. ASSUME NEW h \in Groups, pc'[h] \in Effects
        PROVE  pc'[h] = pc[h]
    BY <1>4, <2>1 DEF Effects, PublisherCalls, ProfilerCalls
  <2> QED
    BY <1>2, <1>4, <2>1 DEF ConsumersInv, ClaimInv, Working
<1>7. \A c, x : Sent(c, x)' = Sent(c, x)
  BY <1>2 DEF Sent
<1>8. \A t : HasCase(t)' = HasCase(t)
  BY <1>2 DEF HasCase
<1>9. PublisherInv'
  BY <1>1, <1>2, <1>4, GroupNames DEF ConsumersInv, PublisherInv, PublisherCalls, Working, Sent, HasCase
<1>10. ProfilerInv'
  BY <1>1, <1>2, <1>4, GroupNames DEF ConsumersInv, ProfilerInv, Working
<1>11. CasePerTransaction' /\ AlertAfterCase'
  BY <1>2 DEF ConsumersInv, CasePerTransaction, AlertAfterCase, Working, HasCase
<1>12. \/ /\ claimant[e] = "publisher"
          /\ Sent("decisions", e)
          /\ e \in Alerting => Sent("alerts", e) /\ HasCase(TxOf[e])
       \/ /\ claimant[e] = "profiler"
          /\ applied[e] = 1 /\ profileRows[e] = 1
  BY <1>1, <1>4 DEF ConsumersInv, PublisherInv, ProfilerInv
<1>13. CompletedIsDone'
  BY <1>2, <1>12 DEF ConsumersInv, CompletedIsDone, Working, Sent, HasCase
<1> QED
  BY <1>5, <1>6, <1>9, <1>10, <1>11, <1>13 DEF ConsumersInv

-----------------------------------------------------------------------------
\* Nothing is claimed, sent or applied at the start.
LEMMA ConsumersStart == Init => ConsumersInv
<1> SUFFICES ASSUME Init PROVE ConsumersInv
  OBVIOUS
<1>1. Len(Log) \in Nat /\ MaxAttempts \in Nat /\ MaxFaults \in Nat
  BY LogAssumption, BoundAssumption DEF LogAssumption, BoundAssumption
<1>2. TypeInv
  BY <1>1, LogAssumption DEF LogAssumption, Init, TypeInv, TypeOK, Away, HandlerCalls, PublisherCalls,
     ProfilerCalls, Groups
<1>3. ClaimInv /\ PublisherInv /\ ProfilerInv
  BY DEF Init, ClaimInv, PublisherInv, ProfilerInv, Effects, PublisherCalls, ProfilerCalls, Groups
<1>4. CasePerTransaction /\ AlertAfterCase /\ CompletedIsDone
  BY DEF Init, CasePerTransaction, AlertAfterCase, CompletedIsDone
<1> QED
  BY <1>2, <1>3, <1>4 DEF ConsumersInv

\* In any interleaving of the two consumers with crashes, lost answers and
\* redeliveries, how far a consumer is agrees with what it has claimed and written.
THEOREM ConsumersInvariant == Spec => []ConsumersInv
<1>1. ASSUME ConsumersInv, [Next]_vars
      PROVE  ConsumersInv'
  <2>1. ASSUME NEW g \in Groups, Handle(g) \/ CallFails(g) \/ ClaimRefused(g) \/ Crash(g) \/ Restart(g)
        PROVE  ConsumersInv'
    BY <1>1, <2>1, HostStep, ClaimKeeps, OpenCaseKeeps, PublisherSends, ProfilerWrites, CompleteKeeps
       DEF Handle
  <2>2. CASE UNCHANGED vars
    <3>1. UNCHANGED <<committed, deadLetters, claimant, completed, cases, live, profiles, applied,
                      profileRows, pc, attempt, faults>>
      BY <2>2 DEF vars, broker, inbox, fanout, profile
    <3>2. \A g \in Groups : Event(g)' = Event(g)
      BY <3>1 DEF Event
    <3>3. TypeInv' /\ ClaimInv'
      BY <1>1, <3>1, <3>2 DEF ConsumersInv, TypeInv, TypeOK, ClaimInv
    <3>4. PublisherInv' /\ ProfilerInv'
      BY <1>1, <3>1, <3>2, GroupNames DEF ConsumersInv, PublisherInv, ProfilerInv, Sent, HasCase
    <3>5. CasePerTransaction' /\ AlertAfterCase' /\ CompletedIsDone'
      BY <1>1, <3>1 DEF ConsumersInv, CasePerTransaction, AlertAfterCase, CompletedIsDone, Sent, HasCase
    <3> QED
      BY <3>3, <3>4, <3>5 DEF ConsumersInv
  <2> QED
    BY <1>1, <2>1, <2>2 DEF Next, Idle
<1> QED
  BY <1>1, ConsumersStart, PTL DEF Spec

\* Every reachable state is well typed.
THEOREM TypeSafety == Spec => []TypeOK
BY ConsumersInvariant, PTL DEF ConsumersInv, TypeInv

\* However often a decision event is delivered and retried, each of its effects is
\* made at most once.
THEOREM EffectSafety == Spec => []OncePerEvent
<1>1. ConsumersInv => OncePerEvent
  BY DEF ConsumersInv, PublisherInv, ProfilerInv, OncePerEvent
<1> QED
  BY <1>1, ConsumersInvariant, PTL

\* A transaction has one case, opened for an alert the publisher claimed.
THEOREM CaseSafety == Spec => []CasePerTransaction
BY ConsumersInvariant, PTL DEF ConsumersInv

\* An alert on the dashboard comes after its decision and has its case.
THEOREM AlertSafety == Spec => []AlertAfterCase
BY ConsumersInvariant, PTL DEF ConsumersInv

\* An event marked complete has had every effect of the group that claimed it.
THEOREM CompletionSafety == Spec => []CompletedIsDone
BY ConsumersInvariant, PTL DEF ConsumersInv
=============================================================================
