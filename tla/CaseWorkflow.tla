---------------------------- MODULE CaseWorkflow ----------------------------
(***************************************************************************)
(* One fraud case and its writers: the requests of the case management API *)
(* (Transition and PublishFeedback in Program.cs) and the pages of the     *)
(* dashboard (CaseDetail.razor).  Each reads the case into its own         *)
(* DbContext, changes it there and saves; no row has a concurrency token,  *)
(* and a save writes only the columns whose value differs from the one     *)
(* read.  A request lives as long as one call; a page keeps the case it    *)
(* loaded first for as long as its circuit lives.                          *)
(***************************************************************************)
EXTENDS Integers, Sequences, FiniteSets

CONSTANTS
    Requests,       \* API requests in flight together
    Pages,          \* dashboard circuits that show the case
    MaxMoves,       \* bound: moves and notes begun
    MaxFaults       \* bound: failed calls

ASSUME BoundAssumption == MaxMoves \in Nat /\ MaxFaults \in Nat

VARIABLES
    status,         \* fraud_cases.Status
    decision,       \* fraud_cases.AnalystDecision
    history,        \* case_history; the index is the order of the commits, which
                    \* no column keeps: readers order the rows by ChangedAt, at
    notes,          \* number of analyst_notes
    feedback,       \* feedback[v]: records for verdict v on the feedback topic
    casesOpen,      \* the metric CasesOpen
    request,        \* request[r]: the move request r makes
    page,           \* page[g]: the move page g makes; from is what it tracks
    moves,
    faults

stored == <<status, decision, history>>
vars == <<stored, notes, feedback, casesOpen, request, page, moves, faults>>

Verdicts == {"ConfirmedFraud", "FalsePositive", "Closed"}
Statuses == {"Open", "Assigned", "Investigating", "Escalated"} \union Verdicts
Targets == Statuses \ {"Open"}
Decisions == {"None", "Block", "Approve"}

\* The time of DateTimeOffset.UtcNow, one clock for every process, as coarse as
\* the order of the rows needs it: it goes on with every row saved.  Stamps taken
\* between the same two saves are equal, and may be read in either order.
Now == Len(history)

\* A move as a writer holds it: the columns it read, what it sets them to, and
\* the time from which it may be stamped.
MoveAt(step) ==
    [step : {step}, from : Statuses, to : Statuses, was : Decisions, becomes : Decisions,
     since : Nat]
Still(step, seen) ==
    [step |-> step, from |-> seen, to |-> seen, was |-> "None", becomes |-> "None",
     since |-> 0]
Free == Still("free", "Open")

TypeOK ==
    /\ status \in Statuses
    /\ decision \in Decisions
    /\ history \in Seq([from : Statuses, to : Statuses, by : {"system", "api", "page"},
                       at : Nat])
    /\ notes \in 0 .. MaxMoves
    /\ feedback \in [Verdicts -> 0 .. MaxMoves]
    /\ casesOpen \in 1 - MaxMoves .. 1
    /\ request \in [Requests -> {Free} \union MoveAt("save") \union MoveAt("publish")]
    /\ page \in [Pages -> {Free} \union MoveAt("shown") \union MoveAt("saving")
                             \union MoveAt("abandoned")]
    /\ moves \in 0 .. MaxMoves
    /\ faults \in 0 .. MaxFaults

\* The decision publisher has opened the case and counted it.
Init ==
    /\ status = "Open"
    /\ decision = "None"
    /\ history = <<[from |-> "Open", to |-> "Open", by |-> "system", at |-> 0]>>
    /\ notes = 0
    /\ feedback = [v \in Verdicts |-> 0]
    /\ casesOpen = 1
    /\ request = [r \in Requests |-> Free]
    /\ page = [g \in Pages |-> Free]
    /\ moves = 0
    /\ faults = 0

Begun == moves < MaxMoves /\ moves' = moves + 1
Fault == faults < MaxFaults /\ faults' = faults + 1

-----------------------------------------------------------------------------
(* SaveChangesAsync: one transaction, the changed columns and the new row. *)

Update(column, was, becomes) == IF becomes = was THEN column ELSE becomes

Commit(m, writer, at) ==
    /\ status' = Update(status, m.from, m.to)
    /\ decision' = Update(decision, m.was, m.becomes)
    /\ history' = Append(history, [from |-> m.from, to |-> m.to, by |-> writer, at |-> at])

\* Transition sets ChangedAt some time between its read and its save, Move in the
\* page at the click.
CommitMove(r) == \E at \in request[r].since .. Now : Commit(request[r], "api", at)
CommitClick(g) == Commit(page[g], "page", page[g].since)

Is(r, step) == request[r].step = step
Shows(g, step) == page[g].step = step
Answered(r) == request' = [request EXCEPT ![r] = Free]
CircuitEnds(g) == page' = [page EXCEPT ![g] = Free]

-----------------------------------------------------------------------------
(* Faulty variants, for checking that the properties notice them.  None is *)
(* part of the specification.                                              *)

\* A case that leaves a verdict counts as open again, although a verdict given on
\* a page never counted it as closed.
ClosingAndReopening(from, to) ==
    CASE to \in Verdicts   -> IF from \in Verdicts THEN 0 ELSE 1
      [] from \in Verdicts -> -1
      [] OTHER             -> 0

\* The request goes on to the feedback although the save threw.
SaveSwallowsFailure(r) ==
    /\ Is(r, "save")
    /\ Fault
    /\ request' = [request EXCEPT ![r] = IF @.to \in Verdicts THEN Still("publish", @.to)
                                                              ELSE Free]
    /\ UNCHANGED <<stored, notes, feedback, casesOpen, page, moves>>

\* The row of the history is saved on its own, before the case, and is there when
\* the save of the case fails.
SaveFailsHalfWay(r) ==
    /\ Is(r, "save")
    /\ Fault
    /\ history' = Append(history, [from |-> request[r].from, to |-> request[r].to,
                                   by |-> "api", at |-> Now])
    /\ Answered(r)
    /\ UNCHANGED <<status, decision, notes, feedback, casesOpen, page, moves>>

\* The page catches the exception and goes on with what it has in memory.
PageSaveSurvives(g) ==
    /\ Shows(g, "saving")
    /\ Fault
    /\ page' = [page EXCEPT ![g] = Still("shown", @.to)]
    /\ UNCHANGED <<stored, notes, feedback, casesOpen, request, moves>>

\* The feedback is published for frauds and false positives only.
SaveClosingQuietly(r) ==
    /\ Is(r, "save")
    /\ CommitMove(r)
    /\ request' = [request EXCEPT ![r] = IF @.to \in Verdicts \ {"Closed"}
                                         THEN Still("publish", @.to) ELSE Free]
    /\ UNCHANGED <<notes, feedback, casesOpen, page, moves, faults>>

-----------------------------------------------------------------------------
(* The API.                                                                *)

\* How much Transition takes from the metric: a confirmed fraud always counts.
Closing(from, to) ==
    IF to = "ConfirmedFraud" \/ (to \in Verdicts /\ from \notin Verdicts) THEN 1 ELSE 0

Verdict(to, was) ==
    CASE to = "ConfirmedFraud" -> "Block"
      [] to = "FalsePositive"  -> "Approve"
      [] OTHER                 -> was

\* Transition up to its save: the case is read, and changed in memory only; the
\* metric is changed at once.
Begin(r, to) ==
    /\ Is(r, "free")
    /\ Begun
    /\ request' = [request EXCEPT ![r] =
                       [step |-> "save", from |-> status, to |-> to,
                        was |-> decision, becomes |-> Verdict(to, decision),
                        since |-> Now]]
    /\ casesOpen' = casesOpen - Closing(status, to)
    /\ UNCHANGED <<stored, notes, feedback, page, faults>>

Save(r) ==
    /\ Is(r, "save")
    /\ CommitMove(r)
    /\ request' = [request EXCEPT ![r] = IF @.to \in Verdicts THEN Still("publish", @.to)
                                                              ELSE Free]
    /\ UNCHANGED <<notes, feedback, casesOpen, page, moves, faults>>

\* The save throws, or the process ends: nothing was committed, or all of it.
SaveFails(r) ==
    /\ Is(r, "save")
    /\ Fault
    /\ CommitMove(r) \/ UNCHANGED stored
    /\ Answered(r)
    /\ UNCHANGED <<notes, feedback, casesOpen, page, moves>>

Emit(v) == feedback' = [feedback EXCEPT ![v] = @ + 1]

\* PublishFeedback: the event goes to Kafka, not to the outbox.
PublishFeedback(r) ==
    /\ Is(r, "publish")
    /\ Emit(request[r].to)
    /\ Answered(r)
    /\ UNCHANGED <<stored, notes, casesOpen, page, moves, faults>>

PublishFails(r) ==
    /\ Is(r, "publish")
    /\ Fault
    /\ Emit(request[r].to) \/ UNCHANGED feedback
    /\ Answered(r)
    /\ UNCHANGED <<stored, notes, casesOpen, page, moves>>

PostNote ==
    /\ Begun
    /\ notes' = notes + 1
    /\ UNCHANGED <<stored, feedback, casesOpen, request, page, faults>>

-----------------------------------------------------------------------------
(* The page.                                                               *)

\* LoadAsync on a new circuit.
OpenPage(g) ==
    /\ Shows(g, "free")
    /\ page' = [page EXCEPT ![g] = Still("shown", status)]
    /\ UNCHANGED <<stored, notes, feedback, casesOpen, request, moves, faults>>

\* Move up to its save: from is the status the page tracks, not the stored one.
Move(g, to) ==
    /\ Shows(g, "shown")
    /\ Begun
    /\ page' = [page EXCEPT ![g].step = "saving", ![g].to = to, ![g].since = Now]
    /\ UNCHANGED <<stored, notes, feedback, casesOpen, request, faults>>

\* The save and LoadAsync, whose query gives the tracked case again unchanged.
PageSave(g) ==
    /\ Shows(g, "saving") \/ Shows(g, "abandoned")
    /\ CommitClick(g)
    /\ page' = [page EXCEPT ![g] = IF @.step = "saving" THEN Still("shown", @.to) ELSE Free]
    /\ UNCHANGED <<notes, feedback, casesOpen, request, moves, faults>>

\* The exception is not handled and ends the circuit.
PageSaveFails(g) ==
    /\ Shows(g, "saving")
    /\ Fault
    /\ CommitClick(g) \/ UNCHANGED stored
    /\ CircuitEnds(g)
    /\ UNCHANGED <<notes, feedback, casesOpen, request, moves>>

\* A second click uses the busy DbContext, which throws, or the tab is closed:
\* the circuit ends with the save under way, and it may still commit.
Abandon(g) ==
    /\ Shows(g, "saving")
    /\ page' = [page EXCEPT ![g].step = "abandoned"]
    /\ UNCHANGED <<stored, notes, feedback, casesOpen, request, moves, faults>>

\* The circuit ends with no save, or with one that was cancelled.
ClosePage(g) ==
    /\ Shows(g, "shown") \/ Shows(g, "abandoned")
    /\ CircuitEnds(g)
    /\ UNCHANGED <<stored, notes, feedback, casesOpen, request, moves, faults>>

AddNote(g) ==
    /\ Shows(g, "shown")
    /\ Begun
    /\ notes' = notes + 1
    /\ UNCHANGED <<stored, feedback, casesOpen, request, page, faults>>

-----------------------------------------------------------------------------
Proceed(r) == Save(r) \/ PublishFeedback(r)

\* No further moves are taken, and nothing is under way.
Done ==
    /\ moves = MaxMoves
    /\ \A r \in Requests : Is(r, "free")
    /\ \A g \in Pages : Shows(g, "free")
    /\ UNCHANGED vars

Next ==
    \/ \E r \in Requests :
           \/ \E to \in Targets : Begin(r, to)
           \/ Proceed(r) \/ SaveFails(r) \/ PublishFails(r)
    \/ PostNote
    \/ \E g \in Pages :
           \/ \E to \in Targets : Move(g, to)
           \/ OpenPage(g) \/ PageSave(g) \/ PageSaveFails(g)
           \/ Abandon(g) \/ ClosePage(g) \/ AddNote(g)
    \/ Done

Spec == Init /\ [][Next]_vars

\* A request that was accepted is run to its end.  Nobody has to move a case.
Fairness == \A r \in Requests : WF_vars(Proceed(r))

LiveSpec == Spec /\ Fairness

-----------------------------------------------------------------------------
(* Properties.                                                             *)

\* The history is connected as it is read, stale writers or not: every move starts
\* from a status that was the case's first one or the target of a row with an
\* earlier ChangedAt.
FromWasStatus ==
    \A i \in DOMAIN history :
        \/ history[i].from = "Open"
        \/ \E j \in DOMAIN history : /\ history[j].to = history[i].from
                                     /\ history[j].at < history[i].at

\* What the history, read by ChangedAt, tells of the status.  It is not the target of
\* the last row: a stale writer that "moves" the case to the status it remembers
\* leaves a row and no change.  It is the target of the last row that names two
\* different statuses, or of the last one saved when that one was stamped no later:
\* then the two moves overlapped, and were saved in the other order.
Effective == {i \in DOMAIN history : history[i].from # history[i].to}
Latest == {i \in Effective : \A j \in Effective : history[j].at <= history[i].at}

StatusIsLastUnlessOverlap ==
    /\ Effective = {} => status = "Open"
    /\ \A last \in Latest :
           \/ status = history[last].to
           \/ \E i \in Effective : /\ status = history[i].to
                                  /\ last < i /\ history[i].at <= history[last].at
                                  /\ \A j \in Effective : j <= i

\* What a verdict leaves behind is backed by the history: there is never more
\* feedback for a verdict than moves of the API to it, and the decision of the
\* analyst is one the API recorded.
Given(v) == Cardinality({i \in DOMAIN history : history[i].to = v /\ history[i].by = "api"})

VerdictIsRecorded ==
    /\ \A v \in Verdicts : feedback[v] <= Given(v)
    /\ decision = "Block" => Given("ConfirmedFraud") > 0
    /\ decision = "Approve" => Given("FalsePositive") > 0

\* While no call fails, each verdict the API commits is followed by its feedback,
\* however many moves are under way together.
FeedbackFollows ==
    \A v \in Verdicts, n \in 1 .. MaxMoves :
        Given(v) = n ~> feedback[v] >= n \/ faults > 0

\* EVENT_FLOW.md: "Analyst feedback emits sentinel.case.feedback.v1".  With
\* nothing under way and no failed call, every verdict in the history has its
\* feedback.
VerdictEmitsFeedback ==
    faults = 0 /\ (\A r \in Requests : Is(r, "free")) =>
        \A v \in Verdicts : Cardinality({i \in DOMAIN history : history[i].to = v}) <= feedback[v]
=============================================================================
