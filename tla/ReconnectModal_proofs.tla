------------------------ MODULE ReconnectModal_proofs ------------------------
(***************************************************************************)
(* Proofs about ReconnectModal, for any number of handlers in flight and   *)
(* any number of lost connections.                                         *)
(***************************************************************************)
EXTENDS ReconnectModal, TLAPS

\* While the page shows "failed", coming back to the tab has an effect or a retry
\* is under way.  FailedKeepsListening says this of the moments without a retry
\* only, and is not inductive: what it leaves open is who will listen again.
Attended ==
    Running /\ class = "failed" =>
        listening \/ \E c \in Calls : call[c] \in {"reconnect", "resumeAfterRetry"}

Inv == TypeOK /\ DialogShowsOutage /\ Attended

\* The variables are well typed in every reachable state, so the dialog never
\* carries a class without a rule.
THEOREM TypeSafety == Spec => []TypeOK
<1>1. Init => TypeOK
  <2>1. losses = 0 => losses \in 0 .. MaxLosses
    BY LossesAssumption DEF LossesAssumption
  <2> QED
    BY <2>1, Zenon DEF Init, TypeOK
<1>2. TypeOK /\ [Next]_vars => TypeOK'
  <2> SUFFICES ASSUME TypeOK, [Next]_vars PROVE TypeOK'
    OBVIOUS
  <2> USE LossesAssumption DEF LossesAssumption, TypeOK, vars, script, Settle, Await
  <2>1. ASSUME NEW c \in Calls, RetryClick(c) PROVE TypeOK'
    BY <2>1 DEF RetryClick, Retry
  <2>2. ASSUME NEW c \in Calls, ResumeClick(c) PROVE TypeOK'
    BY <2>2 DEF ResumeClick
  <2>3. ASSUME NEW c \in Calls, TabReturns(c) PROVE TypeOK'
    BY <2>3 DEF TabReturns, Retry
  <2>4. ASSUME NEW c \in Calls, Reconnected(c) PROVE TypeOK'
    BY <2>4 DEF Reconnected, Connected, Hide
  <2>5. ASSUME NEW c \in Calls, ReconnectRefused(c) PROVE TypeOK'
    BY <2>5 DEF ReconnectRefused
  <2>6. ASSUME NEW c \in Calls, ReconnectThrows(c) PROVE TypeOK'
    BY <2>6 DEF ReconnectThrows
  <2>7. ASSUME NEW c \in Calls, Resumed(c) PROVE TypeOK'
    BY <2>7 DEF Resumed, Connected, Hide
  <2>8. ASSUME NEW c \in Calls, ResumeRefused(c) PROVE TypeOK'
    BY <2>8 DEF ResumeRefused, Reload
  <2>9. ASSUME NEW c \in Calls, ResumeThrows(c) PROVE TypeOK'
    BY <2>9 DEF ResumeThrows
  <2>10. CASE TabLeaves
    BY <2>10 DEF TabLeaves
  <2>11. CASE ConnectionLost
    BY <2>11 DEF ConnectionLost, Loss, Show
  <2>12. CASE ServerPauses
    BY <2>12 DEF ServerPauses, Loss, Show
  <2>13. CASE AutoReconnected
    BY <2>13 DEF AutoReconnected, Connected, Hide
  <2>14. CASE AutoRejected
    BY <2>14 DEF AutoRejected, Rejected, Reload
  <2>15. CASE AutoGivesUp
    BY <2>15 DEF AutoGivesUp, Failed
  <2>16. CASE CircuitExpires
    BY <2>16 DEF CircuitExpires
  <2>17. CASE ServerStops
    <3>1. losses' \in 0 .. MaxLosses
      BY <2>17 DEF ServerStops, Loss
    <3> QED
      BY <2>17, <3>1, Zenon DEF ServerStops
  <2>18. CASE ServerReturns
    BY <2>18 DEF ServerReturns
  <2>19. CASE Loaded
    BY <2>19 DEF Loaded
  <2>20. CASE UNCHANGED vars
    BY <2>20
  <2> QED
    BY <2>1, <2>2, <2>3, <2>4, <2>5, <2>6, <2>7, <2>8, <2>9, <2>10, <2>11, <2>12, <2>13,
       <2>14, <2>15, <2>16, <2>17, <2>18, <2>19, <2>20 DEF Next, Answer, Runtime
<1> QED
  BY <1>1, <1>2, PTL DEF Spec

-----------------------------------------------------------------------------
\* The dialog and the listener: what holds in every reachable state.
THEOREM ScriptInvariant == Spec => [](DialogShowsOutage /\ Attended)
<1>1. Init => DialogShowsOutage /\ Attended
  BY DEF Init, DialogShowsOutage, Attended
<1>2. ASSUME TypeOK, TypeOK', DialogShowsOutage, Attended, [Next]_vars
      PROVE DialogShowsOutage' /\ Attended'
  <2> USE <1>2 DEF TypeOK, DialogShowsOutage, Attended, Running, script
  <2>1. ASSUME NEW c \in Calls, RetryClick(c) PROVE DialogShowsOutage' /\ Attended'
    BY <2>1 DEF RetryClick, Retry, Await
  <2>2. ASSUME NEW c \in Calls, ResumeClick(c) PROVE DialogShowsOutage' /\ Attended'
    BY <2>2 DEF ResumeClick, Await
  <2>3. ASSUME NEW c \in Calls, TabReturns(c) PROVE DialogShowsOutage' /\ Attended'
    BY <2>3 DEF TabReturns, Retry, Await
  <2>4. ASSUME NEW c \in Calls, Reconnected(c) PROVE DialogShowsOutage' /\ Attended'
    BY <2>4 DEF Reconnected, Connected, Hide
  <2>5. ASSUME NEW c \in Calls, ReconnectRefused(c) PROVE DialogShowsOutage' /\ Attended'
    BY <2>5 DEF ReconnectRefused, Await
  <2>6. ASSUME NEW c \in Calls, ReconnectThrows(c) PROVE DialogShowsOutage' /\ Attended'
    BY <2>6 DEF ReconnectThrows, Settle
  <2>7. ASSUME NEW c \in Calls, Resumed(c) PROVE DialogShowsOutage' /\ Attended'
    BY <2>7 DEF Resumed, Connected, Hide
  <2>8. ASSUME NEW c \in Calls, ResumeRefused(c) PROVE DialogShowsOutage' /\ Attended'
    BY <2>8 DEF ResumeRefused, Reload
  <2>9. ASSUME NEW c \in Calls, ResumeThrows(c) PROVE DialogShowsOutage' /\ Attended'
    BY <2>9 DEF ResumeThrows, Settle
  <2>10. CASE TabLeaves
    BY <2>10 DEF TabLeaves
  <2>11. CASE ConnectionLost
    BY <2>11 DEF ConnectionLost, Show
  <2>12. CASE ServerPauses
    BY <2>12 DEF ServerPauses, Show
  <2>13. CASE AutoReconnected
    BY <2>13 DEF AutoReconnected, Connected, Hide
  <2>14. CASE AutoRejected
    BY <2>14 DEF AutoRejected, Rejected, Reload
  <2>15. CASE AutoGivesUp
    BY <2>15 DEF AutoGivesUp, Failed
  <2>16. CASE CircuitExpires
    BY <2>16 DEF CircuitExpires
  <2>17. CASE ServerStops
    BY <2>17 DEF ServerStops
  <2>18. CASE ServerReturns
    BY <2>18 DEF ServerReturns
  <2>19. CASE Loaded
    BY <2>19 DEF Loaded
  <2>20. CASE UNCHANGED vars
    BY <2>20 DEF vars
  <2> QED
    BY <2>1, <2>2, <2>3, <2>4, <2>5, <2>6, <2>7, <2>8, <2>9, <2>10, <2>11, <2>12, <2>13,
       <2>14, <2>15, <2>16, <2>17, <2>18, <2>19, <2>20 DEF Next, Answer, Runtime
<1> QED
  BY <1>1, <1>2, TypeSafety, PTL DEF Spec

\* The dialog covers the page exactly while it is not connected.
THEOREM DialogSafety == Spec => []DialogShowsOutage
BY ScriptInvariant, PTL

\* Without a retry in flight, a page that was given up listens.
THEOREM ListenerSafety == Spec => []FailedKeepsListening
<1>1. Attended => FailedKeepsListening
  BY DEF Attended, FailedKeepsListening
<1> QED
  BY <1>1, ScriptInvariant, PTL

-----------------------------------------------------------------------------
\* Pages are thrown away only for a server that answers and while their circuit is
\* not connected.
THEOREM ReloadSafety == Spec => ReloadOnlyOnRefusal
<1> DEFINE Step == Running /\ page' = "unloading" => reachable /\ circuit # "up"
<1>1. TypeOK /\ [Next]_vars => [Step]_vars
  <2> SUFFICES ASSUME TypeOK, Next, Running, page' = "unloading"
               PROVE  reachable /\ circuit # "up"
    BY DEF Step
  <2>1. ~(page' = page)
    BY DEF Running
  <2>2. \/ \E c \in Calls : ResumeRefused(c)
        \/ AutoRejected
        \/ Loaded
    BY <2>1 DEF Next, Answer, Runtime, script, RetryClick, Retry, ResumeClick, TabReturns,
                Reconnected, ReconnectRefused, ReconnectThrows, Resumed, ResumeThrows,
                TabLeaves, ConnectionLost, Show, ServerPauses, AutoReconnected, Connected,
                Hide, AutoGivesUp, Failed, CircuitExpires, ServerStops, ServerReturns
  <2> QED
    BY <2>2 DEF ResumeRefused, AutoRejected, Loaded, Running
<1> QED
  BY <1>1, TypeSafety, PTL DEF Spec, ReloadOnlyOnRefusal
=============================================================================
