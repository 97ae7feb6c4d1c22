--------------------------- MODULE ReconnectModal ---------------------------
(***************************************************************************)
(* The reconnect dialog of the dashboard: ReconnectModal.razor.js, the     *)
(* script that decides when a page whose Blazor circuit is lost tries      *)
(* again, resumes it or reloads.  The actions named after its functions    *)
(* are the script's; the Blazor runtime, the server's circuit and the      *)
(* user are the environment, as far as the script and its markup rely on   *)
(* them.                                                                   *)
(*                                                                         *)
(* A promise settles and its continuation runs in one task of the browser, *)
(* so the answer to a call and what the handler does with it are one step. *)
(* Between a call and its answer anything may happen, and handlers overlap *)
(* when the user clicks again or comes back to the tab meanwhile.          *)
(***************************************************************************)
EXTENDS Integers

CONSTANTS
    Calls,          \* bound: handler invocations in flight together
    MaxLosses       \* bound: lost connections, pauses and server stops

ASSUME LossesAssumption == MaxLosses \in Nat

VARIABLES
    page,           \* "live", or "unloading" once location.reload() was called
    dialog,         \* the dialog is open
    listening,      \* the visibilitychange listener is registered
    visible,        \* document.visibilityState is "visible"
    class,          \* the class the dialog carries: what it shows
    call,           \* call[c]: the promise a running handler awaits
    circuit,        \* the circuit: connected, retained, persisted or gone
    looping,        \* the runtime is making its own attempts to reconnect
    reachable,      \* the server answers
    losses

script == <<page, dialog, listening, class, call>>
vars == <<script, visible, circuit, looping, reachable, losses>>

TypeOK ==
    /\ page \in {"live", "unloading"}
    /\ dialog \in BOOLEAN
    /\ listening \in BOOLEAN
    /\ visible \in BOOLEAN
    /\ class \in {"hide", "show", "failed", "paused", "resumeFailed"}
    /\ call \in [Calls -> {"none", "reconnect", "resumeAfterRetry", "resume"}]
    /\ circuit \in {"up", "retained", "persisted", "gone"}
    /\ looping \in BOOLEAN
    /\ reachable \in BOOLEAN
    /\ losses \in 0 .. MaxLosses

\* A document just loaded: the script has set up its handlers, nothing more.
Init ==
    /\ page = "live"
    /\ dialog = FALSE
    /\ listening = FALSE
    /\ class = "hide"
    /\ call = [c \in Calls |-> "none"]
    /\ circuit = "up"
    /\ looping = FALSE
    /\ visible = TRUE
    /\ reachable = TRUE
    /\ losses = 0

Loss == losses < MaxLosses /\ losses' = losses + 1
Running == page = "live"
Settle(c) == call' = [call EXCEPT ![c] = "none"]
Await(c, promise) == call' = [call EXCEPT ![c] = promise]

\* location.reload(): the document and everything it awaits go away.
Reload ==
    /\ page' = "unloading"
    /\ call' = [c \in Calls |-> "none"]
    /\ UNCHANGED <<dialog, listening, class>>

-----------------------------------------------------------------------------
(* Faulty variants, for checking that the properties notice them.  None is *)
(* part of the specification.                                              *)

\* The dialog is left open when the runtime reports the connection back.
HideForgotten == class' = "hide" /\ UNCHANGED <<page, listening, dialog>>

\* The listener is registered only if the document is hidden already.
FailedWhileHidden ==
    /\ class' = "failed"
    /\ listening' = (listening \/ ~visible)
    /\ UNCHANGED <<page, dialog>>

\* The catch block does not register the listener again.
ReconnectThrowsQuietly(c) ==
    /\ Running
    /\ call[c] = "reconnect"
    /\ ~reachable /\ circuit # "up"
    /\ Settle(c)
    /\ UNCHANGED <<page, dialog, listening, class, visible, circuit, looping, reachable, losses>>

\* The catch block reloads, like a refusal.
ReconnectThrowsReloads(c) ==
    /\ Running
    /\ call[c] = "reconnect"
    /\ ~reachable /\ circuit # "up"
    /\ Reload
    /\ UNCHANGED <<visible, circuit, looping, reachable, losses>>

\* The class put in place of "paused" is one that no style rule knows.
ResumeThrowsMisspelt(c) ==
    /\ Running
    /\ call[c] = "resume"
    /\ ~reachable /\ circuit # "up"
    /\ class' = IF class = "paused" THEN "resume" ELSE class
    /\ Settle(c)
    /\ UNCHANGED <<page, dialog, listening, visible, circuit, looping, reachable, losses>>

-----------------------------------------------------------------------------
(* handleReconnectStateChanged, called by the runtime with a new state and *)
(* after it has set the class of the dialog.                               *)

Show(shown) ==
    /\ class' = shown
    /\ dialog' = TRUE
    /\ UNCHANGED <<page, listening>>

Hide ==
    /\ class' = "hide"
    /\ dialog' = FALSE
    /\ UNCHANGED <<page, listening>>

Failed ==
    /\ class' = "failed"
    /\ listening' = TRUE
    /\ UNCHANGED <<page, dialog>>

Rejected == Reload

-----------------------------------------------------------------------------
(* retry, started by the button or by retryWhenDocumentBecomesVisible.     *)

Retry(c) ==
    /\ call[c] = "none"
    /\ listening' = FALSE
    /\ Await(c, "reconnect")
    /\ UNCHANGED <<page, dialog, class>>

\* The button is visible while the dialog has the class "failed".
RetryClick(c) ==
    /\ Running
    /\ class = "failed"
    /\ Retry(c)
    /\ UNCHANGED <<visible, circuit, looping, reachable, losses>>

\* visibilitychange, on the way back to the tab: with the listener registered
\* it retries.
TabReturns(c) ==
    /\ Running
    /\ ~visible
    /\ visible' = TRUE
    /\ IF listening THEN Retry(c) ELSE UNCHANGED script
    /\ UNCHANGED <<circuit, looping, reachable, losses>>

\* visibilitychange on leaving: the listener finds the document not visible.
TabLeaves ==
    /\ visible
    /\ visible' = FALSE
    /\ UNCHANGED <<script, circuit, looping, reachable, losses>>

\* The runtime has a connected circuit again: it stops its attempts and
\* reports "hide".
Connected ==
    /\ circuit' = "up"
    /\ looping' = FALSE
    /\ Hide

\* Blazor.reconnect() gives true.
Reconnected(c) ==
    /\ Running
    /\ call[c] = "reconnect"
    /\ circuit = "up" \/ (reachable /\ circuit = "retained")
    /\ Connected
    /\ Settle(c)
    /\ UNCHANGED <<visible, reachable, losses>>

\* It gives false: the server is there and does not know the circuit.  The
\* handler goes on to Blazor.resumeCircuit().
ReconnectRefused(c) ==
    /\ Running
    /\ call[c] = "reconnect"
    /\ reachable /\ circuit \in {"persisted", "gone"}
    /\ Await(c, "resumeAfterRetry")
    /\ UNCHANGED <<page, dialog, listening, class, visible, circuit, looping, reachable, losses>>

\* Either call of retry throws: the server was not reached.
ReconnectThrows(c) ==
    /\ Running
    /\ call[c] \in {"reconnect", "resumeAfterRetry"}
    /\ ~reachable /\ circuit # "up"
    /\ listening' = TRUE
    /\ Settle(c)
    /\ UNCHANGED <<page, dialog, class, visible, circuit, looping, reachable, losses>>

-----------------------------------------------------------------------------
(* resume, started by its button, and the second half of retry.            *)

\* The button is visible with either of the two classes.
ResumeClick(c) ==
    /\ Running
    /\ class \in {"paused", "resumeFailed"}
    /\ call[c] = "none"
    /\ Await(c, "resume")
    /\ UNCHANGED <<page, dialog, listening, class, visible, circuit, looping, reachable, losses>>

\* Blazor.resumeCircuit() gives true.  retry closes the dialog, which the
\* runtime has reported as hidden already; resume leaves it to the runtime.
Resumed(c) ==
    /\ Running
    /\ call[c] \in {"resumeAfterRetry", "resume"}
    /\ circuit = "up" \/ (reachable /\ circuit \in {"retained", "persisted"})
    /\ Connected
    /\ Settle(c)
    /\ UNCHANGED <<visible, reachable, losses>>

\* It gives false: both handlers reload.
ResumeRefused(c) ==
    /\ Running
    /\ call[c] \in {"resumeAfterRetry", "resume"}
    /\ reachable /\ circuit \in {"retained", "gone"}
    /\ Reload
    /\ UNCHANGED <<visible, circuit, looping, reachable, losses>>

\* It throws in resume: classList.replace, which changes the class "paused"
\* and no other.
ResumeThrows(c) ==
    /\ Running
    /\ call[c] = "resume"
    /\ ~reachable /\ circuit # "up"
    /\ class' = IF class = "paused" THEN "resumeFailed" ELSE class
    /\ Settle(c)
    /\ UNCHANGED <<page, dialog, listening, visible, circuit, looping, reachable, losses>>

-----------------------------------------------------------------------------
(* The environment: the runtime, the server and its circuit.               *)

ConnectionLost ==
    /\ Running
    /\ circuit = "up"
    /\ Loss
    /\ circuit' = "retained"
    /\ looping' = TRUE
    /\ reachable' \in BOOLEAN
    /\ Show("show")
    /\ UNCHANGED <<call, visible>>

ServerPauses ==
    /\ Running
    /\ circuit = "up"
    /\ Loss
    /\ circuit' = "persisted"
    /\ Show("paused")
    /\ UNCHANGED <<call, visible, looping, reachable>>

\* The runtime's own attempts: success, refusal, or none of them got through.
AutoReconnected ==
    /\ Running
    /\ looping
    /\ reachable /\ circuit = "retained"
    /\ Connected
    /\ UNCHANGED <<call, visible, reachable, losses>>

AutoRejected ==
    /\ Running
    /\ looping
    /\ reachable /\ circuit \in {"persisted", "gone"}
    /\ Rejected
    /\ looping' = FALSE
    /\ UNCHANGED <<visible, circuit, reachable, losses>>

AutoGivesUp ==
    /\ Running
    /\ looping
    /\ ~reachable
    /\ Failed
    /\ looping' = FALSE
    /\ UNCHANGED <<call, visible, circuit, reachable, losses>>

\* The server evicts a circuit without a connection, and forgets a persisted one.
CircuitExpires ==
    /\ circuit' \in CASE circuit = "retained"  -> {"persisted", "gone"}
                      [] circuit = "persisted" -> {"gone"}
                      [] OTHER                 -> {}
    /\ UNCHANGED <<script, visible, looping, reachable, losses>>

ServerStops ==
    /\ circuit # "up"
    /\ reachable
    /\ Loss
    /\ reachable' = FALSE
    /\ UNCHANGED <<script, visible, circuit, looping>>

ServerReturns ==
    /\ ~reachable
    /\ reachable' = TRUE
    /\ UNCHANGED <<script, visible, circuit, looping, losses>>

\* The reload, or the user's next one, gets the page from the server.
Loaded ==
    /\ page = "unloading"
    /\ reachable
    /\ page' = "live"
    /\ dialog' = FALSE
    /\ listening' = FALSE
    /\ class' = "hide"
    /\ circuit' = "up"
    /\ looping' = FALSE
    /\ UNCHANGED <<call, visible, reachable, losses>>

-----------------------------------------------------------------------------
Answer(c) ==
    \/ Reconnected(c) \/ ReconnectRefused(c) \/ ReconnectThrows(c)
    \/ Resumed(c) \/ ResumeRefused(c) \/ ResumeThrows(c)

Runtime == AutoReconnected \/ AutoRejected \/ AutoGivesUp

Next ==
    \/ \E c \in Calls : RetryClick(c) \/ ResumeClick(c) \/ TabReturns(c) \/ Answer(c)
    \/ TabLeaves
    \/ ConnectionLost \/ ServerPauses \/ Runtime
    \/ CircuitExpires \/ ServerStops \/ ServerReturns \/ Loaded

Spec == Init /\ [][Next]_vars

\* Calls are answered, the runtime makes its attempts, and a requested page
\* loads.  The user leaves the tab and comes back, and presses Resume when that
\* is what the page offers; nobody need ever press Retry.
Fairness ==
    /\ \A c \in Calls : WF_vars(Answer(c))
    /\ WF_vars(Runtime)
    /\ WF_vars(Loaded)
    /\ WF_vars(TabLeaves)
    /\ WF_vars(\E c \in Calls : TabReturns(c))
    /\ WF_vars(\E c \in Calls : ResumeClick(c))

LiveSpec == Spec /\ Fairness

-----------------------------------------------------------------------------
(* Properties.                                                             *)

\* The dialog covers the page exactly while it is not connected, whichever of
\* the runtime, a retry and a resume in flight brought the circuit back.
DialogShowsOutage == Running => (dialog <=> circuit # "up")

\* A page that was given up still reacts when the user comes back to the tab:
\* once no retry is in flight, the listener each of them removed is there again.
FailedKeepsListening ==
    Running /\ class = "failed" /\ (\A c \in Calls : call[c] = "none") => listening

\* The script throws a page away only for a server that answers and only when
\* its circuit is not connected: a reload while the server is out of reach would
\* leave the user with the browser's error page.
ReloadOnlyOnRefusal ==
    [][Running /\ page' = "unloading" => reachable /\ circuit # "up"]_vars

\* When the server stays reachable from some time on, the page ends up live and
\* connected, by reconnecting, resuming or reloading, without a press of Retry.
SessionComesBack ==
    <>[]reachable => <>[](Running /\ circuit = "up")
=============================================================================
