------------------------ MODULE CaseWorkflow_proofs ------------------------
(***************************************************************************)
(* Proofs about CaseWorkflow, for any number of requests, pages and moves. *)
(***************************************************************************)
EXTENDS CaseWorkflow, FiniteSetTheorems, TLAPS

Row == [from : Statuses, to : Statuses, by : {"system", "api", "page"}, at : Nat]

\* The statuses the case has had, as far as the rows stamped before t tell.
Past(h, t) == {"Open"} \union {h[i].to : i \in {j \in DOMAIN h : h[j].at < t}}

\* The steps of a writer that is going to leave a row.
Writing == {"save", "saving", "abandoned"}

\* What a writer may hold: columns it read some time, before its row is stamped if
\* it is going to leave one.
Held(h) ==
    {m \in [step : {"free", "shown", "publish"} \union Writing, from : Statuses, to : Statuses,
            was : Decisions, becomes : Decisions, since : Nat] :
        /\ m.since <= Len(h)
        /\ m.from \in Past(h, IF m.step \in Writing THEN m.since ELSE Len(h))}

\* The status in the order of the saves: the target of the last row saved that
\* names two different statuses.
StatusIsLastSave ==
    IF Effective = {} THEN status = "Open"
    ELSE \E i \in Effective : status = history[i].to /\ \A j \in Effective : j <= i

\* Whoever is going to write starts from a status the case had before the time the
\* row will carry, however long ago it was read.
CaseInv ==
    /\ history \in Seq(Row)
    /\ \A i \in DOMAIN history : history[i].at < Len(history)
    /\ status \in Statuses /\ status \in Past(history, Len(history))
    /\ request \in [Requests -> Held(history)]
    /\ page \in [Pages -> Held(history)]
    /\ decision \in Decisions
    /\ FromWasStatus
    /\ StatusIsLastSave

\* A row more in the history: the statuses the case has had are kept, the new one
\* joins them, and what a writer holds stays held.
LEMMA PastGrows ==
    ASSUME NEW h \in Seq(Row), NEW x \in Row, x.at <= Len(h)
    PROVE  /\ Append(h, x) \in Seq(Row)
           /\ x.to \in Past(Append(h, x), Len(Append(h, x)))
           /\ Past(h, Len(h)) \subseteq Past(Append(h, x), Len(Append(h, x)))
           /\ Held(h) \subseteq Held(Append(h, x))
<1> DEFINE k == Append(h, x)
<1>1. /\ k \in Seq(Row)
      /\ DOMAIN k = 1 .. Len(h) + 1 /\ Len(k) = Len(h) + 1
      /\ DOMAIN h = 1 .. Len(h) /\ Len(h) \in Nat
      /\ \A i \in DOMAIN h : k[i] = h[i]
      /\ k[Len(h) + 1] = x
  OBVIOUS
<1>2. x.at \in Nat /\ \A i \in DOMAIN h : h[i].at \in Nat
  <2>1. \A i \in DOMAIN h : h[i] \in Row
    OBVIOUS
  <2> QED
    BY <2>1 DEF Row
<1> HIDE DEF k
<1>3. ASSUME NEW s \in Nat, NEW t \in Nat, s <= t
      PROVE  Past(h, s) \subseteq Past(k, t)
  <2>1. ASSUME NEW i \in DOMAIN h, h[i].at < s
        PROVE  i \in DOMAIN k /\ k[i].to = h[i].to /\ k[i].at < t
    BY <1>1, <1>2, <1>3, <2>1
  <2> QED
    BY <2>1 DEF Past
<1>4. x.to \in Past(k, Len(k))
  <2>1. Len(h) + 1 \in DOMAIN k /\ k[Len(h) + 1].at < Len(k)
    BY <1>1, <1>2
  <2> QED
    BY <1>1, <2>1 DEF Past
<1>5. Past(h, Len(h)) \subseteq Past(k, Len(k))
  BY <1>1, <1>3
<1>6. ASSUME NEW m \in Held(h)
      PROVE  m \in Held(k)
  <2>1. m.since \in Nat /\ m.since <= Len(h)
    BY DEF Held
  <2>2. Past(h, m.since) \subseteq Past(k, m.since)
    BY <1>3, <2>1
  <2>3. m.since <= Len(k)
    BY <1>1, <2>1
  <2> QED
    BY <1>5, <2>2, <2>3 DEF Held
<1> QED
  BY <1>1, <1>4, <1>5, <1>6 DEF k

\* A committed move keeps the history connected in the order of its stamps, and the
\* status in the order of the saves.
LEMMA CommitKeeps ==
    ASSUME CaseInv, NEW m \in Held(history), m.step \in Writing,
           NEW writer \in {"api", "page"}, NEW at \in m.since .. Now, Commit(m, writer, at)
    PROVE  /\ history' \in Seq(Row)
           /\ \A i \in DOMAIN history' : history'[i].at < Len(history')
           /\ m.to \in Past(history', Len(history'))
           /\ Held(history) \subseteq Held(history')
           /\ status' \in Statuses /\ status' \in Past(history', Len(history'))
           /\ decision' \in Decisions
           /\ FromWasStatus' /\ StatusIsLastSave'
<1> DEFINE x == [from |-> m.from, to |-> m.to, by |-> writer, at |-> at]
           n == Len(history) + 1
<1>0. /\ m.since \in Nat /\ m.from \in Past(history, m.since)
      /\ m.from \in Statuses /\ m.to \in Statuses
      /\ Len(history) \in Nat /\ at \in Nat /\ m.since <= at /\ at <= Len(history)
  <2>1. /\ m.since \in Nat /\ m.from \in Past(history, m.since)
        /\ m.from \in Statuses /\ m.to \in Statuses
    BY DEF Held
  <2>2. Len(history) \in Nat
    BY DEF CaseInv
  <2> QED
    BY <2>1, <2>2 DEF Now
<1>1. x \in Row /\ x.at = at
  BY <1>0 DEF Row
<1>2. history' = Append(history, x) /\ history \in Seq(Row)
  BY DEF Commit, CaseInv
<1>3. /\ DOMAIN history' = 1 .. n /\ DOMAIN history = 1 .. n - 1
      /\ n \in Nat /\ n \in 1 .. n /\ Len(history') = n
      /\ \A i \in DOMAIN history : history'[i] = history[i]
      /\ history'[n] = x
  BY <1>1, <1>2
<1>4. /\ history' \in Seq(Row) /\ Held(history) \subseteq Held(history')
      /\ m.to \in Past(history', Len(history'))
      /\ Past(history, Len(history)) \subseteq Past(history', Len(history'))
  BY <1>0, <1>1, <1>2, PastGrows
<1>5. status' = (IF m.to = m.from THEN status ELSE m.to) /\ decision' \in Decisions
  BY DEF Commit, Update, CaseInv, Held
<1>6. x.from = m.from /\ x.to = m.to
  OBVIOUS
<1>10. \A i \in DOMAIN history : history[i] \in Row /\ history[i].at \in Nat
  <2>1. \A i \in DOMAIN history : history[i] \in Row
    BY <1>2
  <2> QED
    BY <2>1 DEF Row
<1>11. \A i \in DOMAIN history' : history'[i].at < Len(history')
  <2> SUFFICES ASSUME NEW i \in DOMAIN history'
               PROVE  history'[i].at < n
    BY <1>3
  <2>1. CASE i \in DOMAIN history
    <3>1. history[i].at < Len(history) /\ history[i].at \in Nat
      BY <1>10, <2>1 DEF CaseInv
    <3> QED
      BY <1>0, <1>3, <2>1, <3>1
  <2>2. CASE i \notin DOMAIN history
    BY <1>0, <1>1, <1>3, <2>2
  <2> QED
    BY <2>1, <2>2
<1> HIDE DEF x
<1>7. status' \in Statuses /\ status' \in Past(history', Len(history'))
  BY <1>0, <1>4, <1>5 DEF CaseInv
<1> HIDE DEF n
<1>8. FromWasStatus'
  <2> SUFFICES ASSUME NEW i \in DOMAIN history', history'[i].from # "Open"
               PROVE  \E j \in DOMAIN history' : /\ history'[j].to = history'[i].from
                                                 /\ history'[j].at < history'[i].at
    BY DEF FromWasStatus
  <2>1. CASE i \in DOMAIN history
    <3>1. PICK j \in DOMAIN history : /\ history[j].to = history[i].from
                                      /\ history[j].at < history[i].at
      BY <1>3, <2>1 DEF CaseInv, FromWasStatus
    <3> QED
      BY <1>3, <2>1, <3>1
  <2>2. CASE i \notin DOMAIN history
    <3>1. i = n
      BY <1>3, <2>2
    <3>2. PICK j \in DOMAIN history : history[j].to = m.from /\ history[j].at < m.since
      BY <1>0, <1>3, <1>6, <3>1 DEF Past
    <3>3. j \in DOMAIN history' /\ history'[j] = history[j] /\ history[j].at < at
      BY <1>0, <1>3, <1>10, <3>2
    <3> QED
      BY <1>1, <1>3, <1>6, <3>1, <3>2, <3>3
  <2> QED
    BY <2>1, <2>2
<1>9. StatusIsLastSave'
  <2>1. Effective' = {i \in DOMAIN history' : history'[i].from # history'[i].to}
    BY DEF Effective
  <2>2. CASE m.to = m.from
    <3>1. Effective' = Effective
      BY <1>3, <1>6, <2>1, <2>2 DEF Effective
    <3> QED
      BY <1>3, <1>5, <2>2, <3>1 DEF CaseInv, StatusIsLastSave, Effective
  <2>3. CASE m.to # m.from
    <3>1. n \in Effective' /\ status' = history'[n].to
      BY <1>3, <1>5, <1>6, <2>1, <2>3
    <3>2. \A j \in Effective' : j <= n
      BY <1>3, <2>1
    <3> QED
      BY <3>1, <3>2 DEF StatusIsLastSave
  <2> QED
    BY <2>2, <2>3
<1> QED
  BY <1>4, <1>5, <1>7, <1>8, <1>9, <1>11

\* A step that writes nothing leaves what is said of the rows alone.
LEMMA StoredStays ==
    ASSUME CaseInv, UNCHANGED stored
    PROVE  /\ history' \in Seq(Row)
           /\ \A i \in DOMAIN history' : history'[i].at < Len(history')
           /\ Held(history') = Held(history)
           /\ status' \in Statuses /\ status' \in Past(history', Len(history'))
           /\ decision' \in Decisions
           /\ FromWasStatus' /\ StatusIsLastSave'
BY DEF CaseInv, stored, FromWasStatus, StatusIsLastSave, Effective

\* A writer that is done holds nothing out of the ordinary, and one that has just
\* read the status s holds what the case has had.
LEMMA StillIsHeld ==
    ASSUME NEW h \in Seq(Row)
    PROVE  /\ Free \in Held(h)
           /\ \A s \in Statuses, step \in {"shown", "publish"} :
                  s \in Past(h, Len(h)) => Still(step, s) \in Held(h)
<1>1. Len(h) \in Nat
  OBVIOUS
<1> QED
  BY <1>1 DEF Free, Still, Held, Past, Writing, Statuses, Decisions

\* One writer moves on, the others keep what they hold.
LEMMA RequestMoves ==
    ASSUME CaseInv, NEW r \in Requests, Held(history) \subseteq Held(history'),
           NEW m \in Held(history'), request' = [request EXCEPT ![r] = m], page' = page
    PROVE  request' \in [Requests -> Held(history')] /\ page' \in [Pages -> Held(history')]
BY DEF CaseInv

\* The same for a page.
LEMMA PageMoves ==
    ASSUME CaseInv, NEW g \in Pages, Held(history) \subseteq Held(history'),
           NEW m \in Held(history'), page' = [page EXCEPT ![g] = m], request' = request
    PROVE  request' \in [Requests -> Held(history')] /\ page' \in [Pages -> Held(history')]
BY DEF CaseInv

\* The steps of the case API's endpoints that move a case keep the invariant.
LEMMA RequestStep ==
    ASSUME CaseInv, NEW r \in Requests,
           (\E to \in Targets : Begin(r, to)) \/ Proceed(r) \/ SaveFails(r) \/ PublishFails(r)
    PROVE  CaseInv'
<1>1. request[r] \in Held(history) /\ history \in Seq(Row) /\ Len(history) \in Nat
  BY DEF CaseInv
<1>2. CASE \E to \in Targets : Begin(r, to)
  <2> PICK to \in Targets : Begin(r, to)
    BY <1>2
  <2> DEFINE m == [step |-> "save", from |-> status, to |-> to,
                   was |-> decision, becomes |-> Verdict(to, decision), since |-> Now]
  <2>1. UNCHANGED stored /\ page' = page /\ request' = [request EXCEPT ![r] = m]
    BY DEF Begin
  <2>2. m \in Held(history)
    <3>1. Verdict(to, decision) \in Decisions /\ to \in Statuses
      BY DEF CaseInv, Verdict, Decisions, Targets
    <3> QED
      BY <1>1, <3>1 DEF Held, Writing, CaseInv, Now
  <2> HIDE DEF m
  <2> QED
    BY <2>1, <2>2, StoredStays, RequestMoves DEF CaseInv
<1>3. ASSUME CommitMove(r), Is(r, "save"), page' = page,
             \/ request' = [request EXCEPT ![r] = Free]
             \/ request' = [request EXCEPT ![r] = Still("publish", request[r].to)]
      PROVE  CaseInv'
  <2> PICK at \in request[r].since .. Now : Commit(request[r], "api", at)
    BY <1>3 DEF CommitMove
  <2>1. request[r].step \in Writing /\ request[r].to \in Statuses
    BY <1>1, <1>3 DEF Is, Writing, Held
  <2>2. /\ history' \in Seq(Row) /\ Held(history) \subseteq Held(history')
        /\ \A i \in DOMAIN history' : history'[i].at < Len(history')
        /\ status' \in Statuses /\ status' \in Past(history', Len(history'))
        /\ request[r].to \in Past(history', Len(history'))
        /\ decision' \in Decisions /\ FromWasStatus' /\ StatusIsLastSave'
    BY <1>1, <2>1, CommitKeeps
  <2>3. Free \in Held(history') /\ Still("publish", request[r].to) \in Held(history')
    BY <2>1, <2>2, StillIsHeld
  <2> QED
    BY <1>3, <2>2, <2>3, RequestMoves DEF CaseInv
<1>4. CASE Save(r) \/ SaveFails(r)
  <2>1. CASE UNCHANGED stored /\ page' = page /\ request' = [request EXCEPT ![r] = Free]
    BY <1>1, <2>1, StoredStays, StillIsHeld, RequestMoves DEF CaseInv
  <2> QED
    BY <1>3, <1>4, <2>1 DEF Save, SaveFails, Answered
<1>5. CASE PublishFeedback(r) \/ PublishFails(r)
  <2>1. UNCHANGED stored /\ page' = page /\ request' = [request EXCEPT ![r] = Free]
    BY <1>5 DEF PublishFeedback, PublishFails, Answered
  <2> QED
    BY <1>1, <2>1, StoredStays, StillIsHeld, RequestMoves DEF CaseInv
<1> QED
  BY <1>2, <1>4, <1>5 DEF Proceed

\* The steps of the page, which writes the case itself, keep the invariant.
LEMMA PageStep ==
    ASSUME CaseInv, NEW g \in Pages,
           \/ \E to \in Targets : Move(g, to)
           \/ OpenPage(g) \/ PageSave(g) \/ PageSaveFails(g)
           \/ Abandon(g) \/ ClosePage(g)
    PROVE  CaseInv'
<1>1. page[g] \in Held(history) /\ history \in Seq(Row) /\ Len(history) \in Nat
  BY DEF CaseInv
<1>2. CASE \E to \in Targets : Move(g, to)
  <2> PICK to \in Targets : Move(g, to)
    BY <1>2
  <2> DEFINE m == [page[g] EXCEPT !.step = "saving", !.to = to, !.since = Now]
  <2>1. UNCHANGED stored /\ request' = request /\ page' = [page EXCEPT ![g] = m]
    BY DEF Move, CaseInv
  <2>2. m \in Held(history)
    <3>1. /\ page[g].from \in Past(history, Len(history))
          /\ page[g] \in [step : {"free", "shown", "publish"} \union Writing,
                         from : Statuses, to : Statuses,
                         was : Decisions, becomes : Decisions, since : Nat]
      BY <1>1 DEF Move, Shows, Held, Writing
    <3>2. /\ m \in [step : {"free", "shown", "publish"} \union Writing,
                    from : Statuses, to : Statuses,
                    was : Decisions, becomes : Decisions, since : Nat]
          /\ m.since = Len(history) /\ m.from = page[g].from /\ m.step = "saving"
      BY <1>1, <3>1 DEF Writing, Targets, Now
    <3> HIDE DEF m
    <3>3. "saving" \in Writing /\ m.since <= Len(history)
      BY <1>1, <3>2 DEF Writing
    <3> QED
      BY <3>1, <3>2, <3>3 DEF Held
  <2> HIDE DEF m
  <2> QED
    BY <2>1, <2>2, StoredStays, PageMoves DEF CaseInv
<1>3. CASE OpenPage(g)
  <2>1. Still("shown", status) \in Held(history)
    BY <1>1, StillIsHeld DEF CaseInv
  <2>2. UNCHANGED stored /\ request' = request
        /\ page' = [page EXCEPT ![g] = Still("shown", status)]
    BY <1>3 DEF OpenPage
  <2> QED
    BY <2>1, <2>2, StoredStays, PageMoves DEF CaseInv
<1>4. ASSUME CommitClick(g), page[g].step \in Writing, request' = request,
             \/ page' = [page EXCEPT ![g] = Free]
             \/ page' = [page EXCEPT ![g] = Still("shown", page[g].to)]
      PROVE  CaseInv'
  <2>1. /\ page[g].since \in page[g].since .. Now /\ page[g].to \in Statuses
        /\ Commit(page[g], "page", page[g].since)
    BY <1>1, <1>4 DEF CommitClick, Held, Now
  <2>2. /\ history' \in Seq(Row) /\ Held(history) \subseteq Held(history')
        /\ \A i \in DOMAIN history' : history'[i].at < Len(history')
        /\ status' \in Statuses /\ status' \in Past(history', Len(history'))
        /\ page[g].to \in Past(history', Len(history'))
        /\ decision' \in Decisions /\ FromWasStatus' /\ StatusIsLastSave'
    BY <1>1, <1>4, <2>1, CommitKeeps
  <2>3. Free \in Held(history') /\ Still("shown", page[g].to) \in Held(history')
    BY <2>1, <2>2, StillIsHeld
  <2> QED
    BY <1>4, <2>2, <2>3, PageMoves DEF CaseInv
<1>5. CASE PageSave(g) \/ PageSaveFails(g)
  <2>1. CASE UNCHANGED stored /\ request' = request /\ page' = [page EXCEPT ![g] = Free]
    BY <1>1, <2>1, StoredStays, StillIsHeld, PageMoves DEF CaseInv
  <2> QED
    BY <1>4, <1>5, <2>1 DEF PageSave, PageSaveFails, CircuitEnds, Shows, Writing
<1>6. CASE Abandon(g)
  <2> DEFINE m == [page[g] EXCEPT !.step = "abandoned"]
  <2>1. UNCHANGED stored /\ request' = request /\ page' = [page EXCEPT ![g] = m]
    BY <1>6 DEF Abandon, CaseInv
  <2>2. m \in Held(history)
    BY <1>1, <1>6 DEF Held, Writing, Abandon, Shows
  <2> HIDE DEF m
  <2> QED
    BY <2>1, <2>2, StoredStays, PageMoves DEF CaseInv
<1>7. CASE ClosePage(g)
  <2>1. UNCHANGED stored /\ request' = request /\ page' = [page EXCEPT ![g] = Free]
    BY <1>7 DEF ClosePage, CircuitEnds
  <2> QED
    BY <1>1, <2>1, StoredStays, StillIsHeld, PageMoves DEF CaseInv
<1> QED
  BY <1>2, <1>3, <1>5, <1>6, <1>7

\* A new case is open and has no history.
LEMMA CaseStart == Init => CaseInv
<1> SUFFICES ASSUME Init PROVE CaseInv
  OBVIOUS
<1>1. /\ history \in Seq(Row) /\ DOMAIN history = {1} /\ Len(history) = 1
      /\ history[1].from = "Open" /\ history[1].to = "Open" /\ history[1].at = 0
  BY DEF Init, Row, Statuses
<1>2. FromWasStatus /\ StatusIsLastSave
  BY <1>1 DEF Init, FromWasStatus, StatusIsLastSave, Effective
<1>3. \A i \in DOMAIN history : history[i].at < Len(history)
  BY <1>1
<1>4. Free \in Held(history)
  BY <1>1, StillIsHeld
<1> QED
  BY <1>1, <1>2, <1>3, <1>4 DEF Init, CaseInv, Past, Statuses, Decisions

\* Whoever writes, and however long ago it read the case, its row starts from a
\* status the case had before the time the row is stamped with; and in the order of
\* the saves, which no reader sees, the last effective row gives the status.
THEOREM CaseInvariant == Spec => []CaseInv
<1>1. ASSUME CaseInv, [Next]_vars
      PROVE  CaseInv'
  <2>1. CASE UNCHANGED stored /\ UNCHANGED <<request, page>>
    <3>1. Held(history') = Held(history)
      BY <1>1, <2>1, StoredStays
    <3>2. request' \in [Requests -> Held(history')] /\ page' \in [Pages -> Held(history')]
      BY <1>1, <2>1, <3>1 DEF CaseInv
    <3> QED
      BY <1>1, <2>1, <3>2, StoredStays DEF CaseInv
  <2>2. ASSUME NEW r \in Requests,
               (\E to \in Targets : Begin(r, to)) \/ Proceed(r) \/ SaveFails(r) \/ PublishFails(r)
        PROVE  CaseInv'
    BY <1>1, <2>2, RequestStep
  <2>3. ASSUME NEW g \in Pages,
               \/ \E to \in Targets : Move(g, to)
               \/ OpenPage(g) \/ PageSave(g) \/ PageSaveFails(g)
               \/ Abandon(g) \/ ClosePage(g)
        PROVE  CaseInv'
    BY <1>1, <2>3, PageStep
  <2>4. CASE PostNote \/ Done \/ UNCHANGED vars \/ \E g \in Pages : AddNote(g)
    BY <1>1, <2>1, <2>4 DEF PostNote, AddNote, Done, vars
  <2> QED
    BY <1>1, <2>2, <2>3, <2>4 DEF Next
<1> QED
  BY <1>1, CaseStart, PTL DEF Spec

\* The history of a case is connected in the order its readers see it, by ChangedAt,
\* whatever stale requests and pages write.
THEOREM HistorySafety == Spec => []FromWasStatus
BY CaseInvariant, PTL DEF CaseInv

\* The status of a case is the target of the last effective row by ChangedAt, except
\* where a move that was stamped no later was saved after it: nothing but two moves
\* that overlap can make the history and the status disagree.
THEOREM StatusSafety == Spec => []StatusIsLastUnlessOverlap
<1>1. CaseInv => StatusIsLastUnlessOverlap
  <2> SUFFICES ASSUME CaseInv, NEW last \in Latest, status # history[last].to
               PROVE  \E i \in Effective : /\ status = history[i].to
                                          /\ last < i /\ history[i].at <= history[last].at
                                          /\ \A j \in Effective : j <= i
    BY DEF CaseInv, StatusIsLastSave, StatusIsLastUnlessOverlap
  <2>1. last \in Effective /\ \A j \in Effective : history[j].at <= history[last].at
    BY DEF Latest
  <2>2. PICK i \in Effective : status = history[i].to /\ \A j \in Effective : j <= i
    BY <2>1 DEF CaseInv, StatusIsLastSave
  <2>3. i \in Nat /\ last \in Nat /\ last <= i /\ last # i
    BY <2>1, <2>2 DEF CaseInv, Effective
  <2>4. last < i
    BY <2>3
  <2> QED
    BY <2>1, <2>2, <2>4
<1> QED
  BY <1>1, CaseInvariant, PTL

-----------------------------------------------------------------------------
(* Types, and what is counted.                                             *)

\* A move changes the decision of the analyst only where it gives a verdict.
Kept(m) ==
    \/ m.becomes = m.was
    \/ m.becomes = "Block" /\ m.to = "ConfirmedFraud"
    \/ m.becomes = "Approve" /\ m.to = "FalsePositive"

\* What each writer holds at its step.
WriterInv ==
    /\ request \in [Requests -> {Free} \union MoveAt("save") \union MoveAt("publish")]
    /\ page \in [Pages -> {Free} \union MoveAt("shown") \union MoveAt("saving")
                             \union MoveAt("abandoned")]
    /\ \A r \in Requests :
           /\ Is(r, "save") => Kept(request[r])
           /\ Is(r, "publish") => request[r].to \in Verdicts
    /\ \A g \in Pages : page[g].becomes = page[g].was
    /\ faults \in 0 .. MaxFaults

\* Requests under way, and those that still owe the feedback of a verdict.
Busy == {r \in Requests : ~ Is(r, "free")}
Publishing(v) == {r \in Requests : Is(r, "publish") /\ request[r].to = v}

\* A verdict in the history pays for one record of feedback: the one that is sent
\* or the one a request is about to send.  Every request under way is a move begun.
CountInv ==
    /\ IsFiniteSet(Busy)
    /\ moves \in 0 .. MaxMoves
    /\ notes \in Nat /\ notes <= moves
    /\ casesOpen \in Int /\ casesOpen <= 1 /\ 1 - moves <= casesOpen
    /\ feedback \in [Verdicts -> Nat]
    /\ \A v \in Verdicts :
           /\ feedback[v] + Cardinality(Publishing(v)) <= Given(v)
           /\ feedback[v] + Cardinality(Busy) <= moves
    /\ decision = "Block" => Given("ConfirmedFraud") > 0
    /\ decision = "Approve" => Given("FalsePositive") > 0

\* A move is committed, whatever time its row is stamped with.
Leaves(m, writer) == \E at \in Nat : Commit(m, writer, at)

\* Both kinds of writer commit the move they hold.
LEMMA WritersLeave ==
    ASSUME CaseInv
    PROVE  /\ \A r \in Requests : CommitMove(r) => Leaves(request[r], "api")
           /\ \A g \in Pages : CommitClick(g) => Leaves(page[g], "page")
<1>1. /\ Now \in Nat
      /\ \A r \in Requests : request[r].since \in Nat
      /\ \A g \in Pages : page[g].since \in Nat
  BY DEF CaseInv, Held, Now
<1>2. \A r \in Requests : request[r].since .. Now \subseteq Nat
  BY <1>1
<1> QED
  BY <1>1, <1>2 DEF CommitMove, CommitClick, Leaves

\* A row written by the API is one more move to its status.
LEMMA GivenGrows ==
    ASSUME CaseInv, NEW m \in Held(history), NEW writer \in {"api", "page"},
           Leaves(m, writer), NEW v
    PROVE  /\ Given(v) \in Nat /\ Given(v)' \in Nat
           /\ Given(v)' = IF m.to = v /\ writer = "api" THEN Given(v) + 1 ELSE Given(v)
<1>0. PICK at \in Nat : Commit(m, writer, at)
  BY DEF Leaves
<1> DEFINE x == [from |-> m.from, to |-> m.to, by |-> writer, at |-> at]
           n == Len(history) + 1
           To == {i \in DOMAIN history : history[i].to = v /\ history[i].by = "api"}
<1>1. x \in Row
  BY DEF Held, Row
<1>2. history' = Append(history, x) /\ history \in Seq(Row)
  BY <1>0 DEF Commit, CaseInv
<1>3. /\ DOMAIN history' = DOMAIN history \union {n} /\ n \notin DOMAIN history
      /\ DOMAIN history = 1 .. Len(history) /\ Len(history) \in Nat
      /\ \A i \in DOMAIN history : history'[i] = history[i]
      /\ history'[n] = x
  BY <1>1, <1>2
<1>4. x.to = m.to /\ x.by = writer
  OBVIOUS
<1> HIDE DEF x, n
<1>5. IsFiniteSet(To)
  <2>1. IsFiniteSet(1 .. Len(history))
    BY <1>3, FS_Interval
  <2>2. To \subseteq 1 .. Len(history)
    BY <1>3
  <2> QED
    BY <2>1, <2>2, FS_Subset
<1>6. Given(v) = Cardinality(To) /\ Cardinality(To) \in Nat
  BY <1>5, FS_CardinalityType DEF Given
<1>7. CASE m.to = v /\ writer = "api"
  <2>1. /\ {i \in DOMAIN history' : history'[i].to = v /\ history'[i].by = "api"} = To \union {n}
        /\ n \notin To
    BY <1>3, <1>4, <1>7
  <2> HIDE DEF To
  <2>2. Cardinality(To \union {n}) = Cardinality(To) + 1
    BY <1>5, <2>1, FS_AddElement
  <2>3. Given(v)' = Cardinality(To \union {n})
    BY <2>1, Zenon DEF Given
  <2> QED
    BY <1>6, <1>7, <2>2, <2>3
<1>8. CASE ~ (m.to = v /\ writer = "api")
  <2>1. {i \in DOMAIN history' : history'[i].to = v /\ history'[i].by = "api"} = To
    BY <1>3, <1>4, <1>8
  <2> HIDE DEF To
  <2>2. Given(v)' = Cardinality(To)
    BY <2>1, Zenon DEF Given
  <2> QED
    BY <1>6, <1>8, <2>2
<1> QED
  BY <1>7, <1>8

\* The verdicts the API gave are counted in natural numbers.
LEMMA GivenType ==
    ASSUME CaseInv, NEW v
    PROVE  Given(v) \in Nat
<1>1. /\ {i \in DOMAIN history : history[i].to = v /\ history[i].by = "api"}
             \subseteq 1 .. Len(history)
      /\ Len(history) \in Nat
  BY DEF CaseInv
<1>2. IsFiniteSet(1 .. Len(history))
  BY <1>1, FS_Interval
<1> QED
  BY <1>1, <1>2, FS_Subset, FS_CardinalityType DEF Given

\* A step that writes no row leaves the moves to a status as many as they were.
LEMMA GivenStays ==
    ASSUME UNCHANGED stored, NEW v
    PROVE  Given(v)' = Given(v)
BY DEF Given, stored

\* Counting after one request entered or left a set.
LEMMA OneMoved ==
    ASSUME NEW S, IsFiniteSet(S), NEW r
    PROVE  /\ Cardinality(S) \in Nat
           /\ IsFiniteSet(S \union {r}) /\ Cardinality(S \union {r}) \in Nat
           /\ IsFiniteSet(S \ {r}) /\ Cardinality(S \ {r}) \in Nat
           /\ r \notin S => Cardinality(S \union {r}) = Cardinality(S) + 1
           /\ r \in S => Cardinality(S \ {r}) = Cardinality(S) - 1
           /\ Cardinality(S \ {r}) <= Cardinality(S)
<1>1. /\ IsFiniteSet(S \union {r})
      /\ Cardinality(S \union {r}) = IF r \in S THEN Cardinality(S) ELSE Cardinality(S) + 1
  BY FS_AddElement
<1>2. /\ IsFiniteSet(S \ {r})
      /\ Cardinality(S \ {r}) = IF r \in S THEN Cardinality(S) - 1 ELSE Cardinality(S)
  BY FS_RemoveElement
<1>3. Cardinality(S) \in Nat
  BY FS_CardinalityType
<1> QED
  BY <1>1, <1>2, <1>3, FS_CardinalityType

\* What one request takes up or puts down moves it in and out of the two sets.
LEMMA RequestSets ==
    ASSUME WriterInv, IsFiniteSet(Busy), NEW r \in Requests, NEW m,
           request' = [request EXCEPT ![r] = m]
    PROVE  /\ Busy' = IF m.step = "free" THEN Busy \ {r} ELSE Busy \union {r}
           /\ \A v : /\ Publishing(v)' = IF m.step = "publish" /\ m.to = v
                                         THEN Publishing(v) \union {r}
                                         ELSE Publishing(v) \ {r}
                    /\ IsFiniteSet(Publishing(v))
           /\ r \in Busy <=> ~ Is(r, "free")
           /\ \A v : r \in Publishing(v) <=> Is(r, "publish") /\ request[r].to = v
<1>1. request'[r] = m /\ \A s \in Requests \ {r} : request'[s] = request[s]
  BY DEF WriterInv
<1>2. Busy' = IF m.step = "free" THEN Busy \ {r} ELSE Busy \union {r}
  BY <1>1 DEF Busy, Is
<1>3. \A v : Publishing(v)' = IF m.step = "publish" /\ m.to = v
                              THEN Publishing(v) \union {r} ELSE Publishing(v) \ {r}
  BY <1>1 DEF Publishing, Is
<1>4. \A v : IsFiniteSet(Publishing(v))
  <2>1. \A v : Publishing(v) \subseteq Busy
    BY DEF Publishing, Busy, Is
  <2> QED
    BY <2>1, FS_Subset
<1>5. /\ r \in Busy <=> ~ Is(r, "free")
      /\ \A v : r \in Publishing(v) <=> Is(r, "publish") /\ request[r].to = v
  BY DEF Busy, Publishing
<1> QED
  BY <1>2, <1>3, <1>4, <1>5

\* Requests and pages hold what their step says.
LEMMA WriterNext == CaseInv /\ WriterInv /\ [Next]_vars => WriterInv'
<1> SUFFICES ASSUME CaseInv, WriterInv, [Next]_vars
             PROVE  WriterInv'
  OBVIOUS
<1>1. status \in Statuses /\ decision \in Decisions
  BY DEF CaseInv
<1>2. Fault => faults' \in 0 .. MaxFaults
  BY BoundAssumption DEF Fault, WriterInv
\* A request moves on.
<1>3. ASSUME NEW r \in Requests, page' = page, faults' = faults \/ Fault,
             NEW m \in {Free} \union MoveAt("save") \union MoveAt("publish"),
             request' = [request EXCEPT ![r] = m],
             m.step = "save" => Kept(m), m.step = "publish" => m.to \in Verdicts
      PROVE  WriterInv'
  <2>1. request'[r] = m /\ \A s \in Requests \ {r} : request'[s] = request[s]
    BY <1>3 DEF WriterInv
  <2>2. request' \in [Requests -> {Free} \union MoveAt("save") \union MoveAt("publish")]
    BY <1>3 DEF WriterInv
  <2> QED
    BY <1>2, <1>3, <2>1, <2>2 DEF WriterInv, Is
\* A page moves on.
<1>4. ASSUME NEW g \in Pages, request' = request, faults' = faults \/ Fault,
             NEW m \in {Free} \union MoveAt("shown") \union MoveAt("saving")
                              \union MoveAt("abandoned"),
             page' = [page EXCEPT ![g] = m], m.becomes = m.was
      PROVE  WriterInv'
  <2>1. page'[g] = m /\ \A s \in Pages \ {g} : page'[s] = page[s]
    BY <1>4 DEF WriterInv
  <2>2. page' \in [Pages -> {Free} \union MoveAt("shown") \union MoveAt("saving")
                                \union MoveAt("abandoned")]
    BY <1>4 DEF WriterInv
  <2> QED
    BY <1>2, <1>4, <2>1, <2>2 DEF WriterInv, Is
<1>5. Free.step = "free" /\ Free.becomes = Free.was
  BY DEF Free, Still
<1>6. ASSUME NEW r \in Requests, NEW to \in Targets, Begin(r, to)
      PROVE  WriterInv'
  <2> DEFINE m == [step |-> "save", from |-> status, to |-> to,
                   was |-> decision, becomes |-> Verdict(to, decision), since |-> Now]
  <2>0. Now \in Nat
    BY DEF CaseInv, Now
  <2>1. m \in MoveAt("save") /\ m.step = "save" /\ Kept(m)
    BY <1>1, <2>0 DEF MoveAt, Kept, Verdict, Targets, Decisions
  <2>2. page' = page /\ faults' = faults /\ request' = [request EXCEPT ![r] = m]
    BY <1>6 DEF Begin
  <2> HIDE DEF m
  <2> QED
    BY <1>3, <2>1, <2>2
<1>7. ASSUME NEW r \in Requests, Save(r)
      PROVE  WriterInv'
  <2> DEFINE m == Still("publish", request[r].to)
  <2>1. request[r] \in MoveAt("save")
    BY <1>7, <1>5 DEF Save, Is, WriterInv, MoveAt
  <2>2. m \in MoveAt("publish") /\ m.step = "publish" /\ m.to = request[r].to
    BY <2>1 DEF MoveAt, Still, Decisions
  <2>3. page' = page /\ faults' = faults
        /\ request' = [request EXCEPT ![r] = IF request[r].to \in Verdicts THEN m ELSE Free]
    BY <1>7 DEF Save
  <2> HIDE DEF m
  <2> QED
    BY <1>3, <1>5, <2>2, <2>3
<1>8. ASSUME NEW r \in Requests, SaveFails(r) \/ PublishFeedback(r) \/ PublishFails(r)
      PROVE  WriterInv'
  <2>1. page' = page /\ (faults' = faults \/ Fault) /\ request' = [request EXCEPT ![r] = Free]
    BY <1>8 DEF SaveFails, PublishFeedback, PublishFails, Answered
  <2> QED
    BY <1>3, <1>5, <2>1
<1>9. ASSUME NEW g \in Pages, NEW to \in Targets, Move(g, to)
      PROVE  WriterInv'
  <2>0. Now \in Nat
    BY DEF CaseInv, Now
  <2> DEFINE m == [page[g] EXCEPT !.step = "saving", !.to = to, !.since = Now]
  <2>1. page[g] \in MoveAt("shown") /\ page[g].becomes = page[g].was
    BY <1>9, <1>5 DEF Move, Shows, WriterInv, MoveAt
  <2>2. m \in MoveAt("saving") /\ m.becomes = m.was
    BY <2>0, <2>1 DEF MoveAt, Targets
  <2>3. request' = request /\ faults' = faults /\ page' = [page EXCEPT ![g] = m]
    BY <1>9 DEF Move, WriterInv
  <2> HIDE DEF m
  <2> QED
    BY <1>4, <2>2, <2>3
<1>10. ASSUME NEW g \in Pages, NEW s \in Statuses
       PROVE  Still("shown", s) \in MoveAt("shown") /\ Still("shown", s).becomes = Still("shown", s).was
  BY DEF Still, MoveAt, Decisions
<1>11. ASSUME NEW g \in Pages, OpenPage(g)
       PROVE  WriterInv'
  <2>1. request' = request /\ faults' = faults /\ page' = [page EXCEPT ![g] = Still("shown", status)]
    BY <1>11 DEF OpenPage
  <2> QED
    BY <1>1, <1>4, <1>10, <2>1
<1>12. ASSUME NEW g \in Pages, PageSave(g)
       PROVE  WriterInv'
  <2>1. page[g].to \in Statuses
    BY <1>5 DEF WriterInv, MoveAt, Free, Still, Statuses
  <2>2. request' = request /\ faults' = faults
        /\ page' = [page EXCEPT ![g] = IF page[g].step = "saving"
                                       THEN Still("shown", page[g].to) ELSE Free]
    BY <1>12 DEF PageSave
  <2> QED
    BY <1>4, <1>5, <1>10, <2>1, <2>2
<1>13. ASSUME NEW g \in Pages, PageSaveFails(g) \/ ClosePage(g)
       PROVE  WriterInv'
  <2>1. request' = request /\ (faults' = faults \/ Fault) /\ page' = [page EXCEPT ![g] = Free]
    BY <1>13 DEF PageSaveFails, ClosePage, CircuitEnds
  <2> QED
    BY <1>4, <1>5, <2>1
<1>14. ASSUME NEW g \in Pages, Abandon(g)
       PROVE  WriterInv'
  <2> DEFINE m == [page[g] EXCEPT !.step = "abandoned"]
  <2>1. page[g] \in MoveAt("saving") /\ page[g].becomes = page[g].was
    BY <1>14, <1>5 DEF Abandon, Shows, WriterInv, MoveAt
  <2>2. m \in MoveAt("abandoned") /\ m.becomes = m.was
    BY <2>1 DEF MoveAt
  <2>3. request' = request /\ faults' = faults /\ page' = [page EXCEPT ![g] = m]
    BY <1>14 DEF Abandon, WriterInv
  <2> HIDE DEF m
  <2> QED
    BY <1>4, <2>2, <2>3
<1>15. CASE UNCHANGED <<request, page, faults>>
  BY <1>15 DEF WriterInv, Is
<1> QED
  BY <1>6, <1>7, <1>8, <1>9, <1>11, <1>12, <1>13, <1>14, <1>15
     DEF Next, Proceed, PostNote, AddNote, Done, vars

\* A commit leaves a decision the history backs.
LEMMA DecisionBacked ==
    ASSUME CaseInv, CountInv, NEW m \in Held(history), NEW writer \in {"api", "page"},
           Leaves(m, writer), Kept(m), writer = "page" => m.becomes = m.was
    PROVE  /\ decision' = "Block" => Given("ConfirmedFraud")' > 0
           /\ decision' = "Approve" => Given("FalsePositive")' > 0
<1>1. \A v : /\ Given(v) \in Nat /\ Given(v)' \in Nat /\ Given(v) <= Given(v)'
             /\ m.to = v /\ writer = "api" => Given(v)' > 0
  BY GivenGrows
<1>2. decision' = IF m.becomes = m.was THEN decision ELSE m.becomes
  BY DEF Leaves, Commit, Update
<1> QED
  BY <1>1, <1>2 DEF Kept, CountInv

\* The counts after a request has ended: what it sent, if anything, was owed.
LEMMA RequestEnds ==
    ASSUME CaseInv, WriterInv, CountInv, NEW r \in Requests, ~ Is(r, "free"), Answered(r),
           UNCHANGED <<notes, casesOpen, moves>>,
           \A v \in Verdicts : Given(v)' \in Nat /\ Given(v) <= Given(v)',
           feedback' = feedback \/ (Is(r, "publish") /\ Emit(request[r].to)),
           decision' = "Block" => Given("ConfirmedFraud")' > 0,
           decision' = "Approve" => Given("FalsePositive")' > 0
    PROVE  CountInv'
<1>1. /\ request' = [request EXCEPT ![r] = Free]
      /\ Free.step = "free" /\ IsFiniteSet(Busy)
  BY DEF Answered, Free, Still, CountInv
<1>2. /\ Busy' = Busy \ {r} /\ r \in Busy
      /\ \A v : /\ Publishing(v)' = Publishing(v) \ {r} /\ IsFiniteSet(Publishing(v))
                /\ r \in Publishing(v) <=> Is(r, "publish") /\ request[r].to = v
  BY <1>1, RequestSets
<1>3. /\ IsFiniteSet(Busy') /\ Cardinality(Busy) \in Nat
      /\ Cardinality(Busy') = Cardinality(Busy) - 1
  BY <1>1, <1>2, OneMoved
<1>4. \A v : /\ Cardinality(Publishing(v)) \in Nat /\ Cardinality(Publishing(v)') \in Nat
             /\ Cardinality(Publishing(v)') <= Cardinality(Publishing(v))
             /\ r \in Publishing(v) => Cardinality(Publishing(v)') = Cardinality(Publishing(v)) - 1
  BY <1>2, OneMoved
<1>5. feedback' \in [Verdicts -> Nat]
  BY DEF Emit, CountInv
<1>6. ASSUME NEW v \in Verdicts
      PROVE  /\ feedback'[v] + Cardinality(Publishing(v)') <= Given(v)'
             /\ feedback'[v] + Cardinality(Busy') <= moves'
  <2>1. /\ feedback[v] \in Nat /\ Given(v) \in Nat /\ moves \in Nat
        /\ feedback[v] + Cardinality(Publishing(v)) <= Given(v)
        /\ feedback[v] + Cardinality(Busy) <= moves
    BY <1>2, GivenType, BoundAssumption DEF CountInv
  <2>2. CASE feedback'[v] = feedback[v]
    BY <1>3, <1>4, <2>1, <2>2
  <2>3. CASE feedback'[v] # feedback[v]
    <3>1. feedback'[v] = feedback[v] + 1 /\ r \in Publishing(v)
      BY <1>2, <2>3 DEF Emit, CountInv
    <3> QED
      BY <1>3, <1>4, <2>1, <3>1
  <2> QED
    BY <2>2, <2>3
<1> QED
  BY <1>3, <1>5, <1>6 DEF CountInv

\* A request begun is a move and owes nothing yet.
LEMMA BeginCounts ==
    ASSUME CaseInv, WriterInv, CountInv, NEW r \in Requests, NEW to \in Targets, Begin(r, to)
    PROVE  CountInv'
<1> DEFINE m == [step |-> "save", from |-> status, to |-> to,
                 was |-> decision, becomes |-> Verdict(to, decision), since |-> Now]
<1>1. /\ request' = [request EXCEPT ![r] = m] /\ m.step = "save" /\ Is(r, "free")
      /\ moves' = moves + 1 /\ moves' \in 0 .. MaxMoves /\ moves \in Nat
      /\ UNCHANGED <<stored, notes, feedback>>
      /\ casesOpen' = casesOpen - Closing(status, to) /\ Closing(status, to) \in {0, 1}
  BY BoundAssumption DEF Begin, Begun, CountInv, Closing
<1> HIDE DEF m
<1>2. /\ Busy' = Busy \union {r} /\ r \notin Busy /\ IsFiniteSet(Busy)
      /\ \A v : Publishing(v)' = Publishing(v) \ {r} /\ r \notin Publishing(v)
  BY <1>1, RequestSets DEF CountInv, Is
<1>3. /\ IsFiniteSet(Busy') /\ Cardinality(Busy) \in Nat
      /\ Cardinality(Busy') = Cardinality(Busy) + 1
  BY <1>2, OneMoved
<1>4. \A v : Publishing(v)' = Publishing(v) /\ Given(v)' = Given(v)
  BY <1>1, <1>2, GivenStays
<1>5. \A v \in Verdicts : feedback[v] + Cardinality(Busy') <= moves'
  BY <1>1, <1>3 DEF CountInv
<1>6. notes' \in Nat /\ notes' <= moves'
  BY <1>1 DEF CountInv
<1>7. casesOpen' \in Int /\ casesOpen' <= 1 /\ 1 - moves' <= casesOpen'
  BY <1>1 DEF CountInv
<1> QED
  BY <1>1, <1>3, <1>4, <1>5, <1>6, <1>7 DEF CountInv, stored

\* A verdict that is committed owes its feedback to the request that gave it.
LEMMA SaveCounts ==
    ASSUME CaseInv, WriterInv, CountInv, NEW r \in Requests, Save(r)
    PROVE  CountInv'
<1>1. /\ Is(r, "save") /\ Leaves(request[r], "api") /\ request[r] \in Held(history)
      /\ Kept(request[r])
      /\ UNCHANGED <<notes, feedback, casesOpen, moves>>
  BY WritersLeave DEF Save, CaseInv, WriterInv
<1>2. \A v : /\ Given(v) \in Nat /\ Given(v)' \in Nat
             /\ Given(v)' = IF request[r].to = v THEN Given(v) + 1 ELSE Given(v)
  BY <1>1, GivenGrows
<1>3. /\ decision' = "Block" => Given("ConfirmedFraud")' > 0
      /\ decision' = "Approve" => Given("FalsePositive")' > 0
  BY <1>1, DecisionBacked
<1>4. CASE request[r].to \notin Verdicts
  <2>1. Answered(r) /\ ~ Is(r, "free") /\ \A v : Given(v) <= Given(v)'
    BY <1>1, <1>2, <1>4 DEF Save, Answered, Is
  <2> QED
    BY <1>1, <1>2, <1>3, <2>1, RequestEnds
<1>5. CASE request[r].to \in Verdicts
  <2> DEFINE m == Still("publish", request[r].to)
  <2>1. /\ request' = [request EXCEPT ![r] = m]
        /\ m.step = "publish" /\ m.to = request[r].to
    BY <1>1, <1>5 DEF Save, Still
  <2> HIDE DEF m
  <2>2. /\ Busy' = Busy /\ IsFiniteSet(Busy)
        /\ \A v : /\ r \notin Publishing(v) /\ IsFiniteSet(Publishing(v))
                  /\ Publishing(v)' = IF request[r].to = v THEN Publishing(v) \union {r}
                                      ELSE Publishing(v)
    <3>1. /\ Busy' = Busy \union {r} /\ r \in Busy /\ IsFiniteSet(Busy)
          /\ \A v : /\ Publishing(v)' = IF request[r].to = v THEN Publishing(v) \union {r}
                                          ELSE Publishing(v) \ {r}
                    /\ IsFiniteSet(Publishing(v))
                    /\ r \in Publishing(v) <=> Is(r, "publish") /\ request[r].to = v
      <4>1. IsFiniteSet(Busy) /\ ~ Is(r, "free")
        BY <1>1 DEF CountInv, Is
      <4> QED
        BY <2>1, <4>1, RequestSets
    <3>2. \A v : r \notin Publishing(v)
      BY <1>1, <3>1 DEF Is
    <3>3. Busy' = Busy
      BY <3>1
    <3>4. \A v : request[r].to # v => Publishing(v)' = Publishing(v)
      BY <3>1, <3>2
    <3> QED
      BY <3>1, <3>2, <3>3, <3>4
  <2>3. \A v : /\ Cardinality(Publishing(v)) \in Nat
               /\ Cardinality(Publishing(v)') = IF request[r].to = v
                                                THEN Cardinality(Publishing(v)) + 1
                                                ELSE Cardinality(Publishing(v))
    BY <2>2, OneMoved
  <2>4. \A v \in Verdicts : feedback[v] + Cardinality(Publishing(v)') <= Given(v)'
    BY <1>2, <2>3 DEF CountInv
  <2> QED
    BY <1>1, <1>3, <2>2, <2>4 DEF CountInv
<1> QED
  BY <1>4, <1>5

\* The requests together with notes keep the counts.
LEMMA CountNext == CaseInv /\ WriterInv /\ CountInv /\ [Next]_vars => CountInv'
<1> SUFFICES ASSUME CaseInv, WriterInv, CountInv, [Next]_vars
             PROVE  CountInv'
  OBVIOUS
<1>1. ASSUME NEW r \in Requests, SaveFails(r) \/ PublishFeedback(r) \/ PublishFails(r)
      PROVE  CountInv'
  <2>1. /\ ~ Is(r, "free") /\ Answered(r) /\ UNCHANGED <<notes, casesOpen, moves>>
        /\ feedback' = feedback \/ (Is(r, "publish") /\ Emit(request[r].to))
    BY <1>1 DEF SaveFails, PublishFeedback, PublishFails, Is
  <2>2. /\ \A v : Given(v)' \in Nat /\ Given(v) <= Given(v)'
        /\ decision' = "Block" => Given("ConfirmedFraud")' > 0
        /\ decision' = "Approve" => Given("FalsePositive")' > 0
    <3>1. CASE UNCHANGED stored
      <4>1. \A v : Given(v)' = Given(v) /\ Given(v) \in Nat
        BY <3>1, GivenStays, GivenType
      <4> QED
        BY <3>1, <4>1 DEF CountInv, stored
    <3>2. CASE Is(r, "save") /\ Leaves(request[r], "api")
      <4>1. request[r] \in Held(history) /\ Kept(request[r])
        BY <3>2 DEF CaseInv, WriterInv
      <4>2. \A v : Given(v)' \in Nat /\ Given(v) <= Given(v)'
        BY <3>2, <4>1, GivenGrows
      <4> QED
        BY <3>2, <4>1, <4>2, DecisionBacked
    <3> QED
      BY <1>1, <3>1, <3>2, WritersLeave DEF SaveFails, PublishFeedback, PublishFails
  <2> QED
    BY <2>1, <2>2, RequestEnds
\* The steps of a page, and notes, leave the requests alone.
<1>2. ASSUME UNCHANGED <<request, feedback, casesOpen>>,
             \/ UNCHANGED <<notes, moves>>
             \/ notes' \in {notes, notes + 1} /\ Begun,
             \/ UNCHANGED stored
             \/ \E g \in Pages : Leaves(page[g], "page")
      PROVE  CountInv'
  <2>1. Busy' = Busy /\ \A v : Publishing(v)' = Publishing(v)
    BY <1>2 DEF Busy, Publishing, Is
  <2>2. /\ moves' \in 0 .. MaxMoves /\ moves <= moves' /\ moves \in Nat /\ moves' \in Nat
        /\ notes' \in Nat /\ notes' <= moves'
    BY <1>2, BoundAssumption DEF Begun, CountInv
  <2>3. /\ \A v : Given(v)' = Given(v)
        /\ decision' = decision
    <3>1. CASE UNCHANGED stored
      BY <3>1, GivenStays DEF stored
    <3>2. ASSUME NEW g \in Pages, Leaves(page[g], "page")
          PROVE  (\A v : Given(v)' = Given(v)) /\ decision' = decision
      <4>1. page[g] \in Held(history) /\ page[g].becomes = page[g].was
        BY DEF CaseInv, WriterInv
      <4>2. \A v : Given(v)' = Given(v)
        BY <3>2, <4>1, GivenGrows
      <4>3. decision' = decision
        BY <3>2, <4>1 DEF Leaves, Commit, Update
      <4> QED
        BY <4>2, <4>3
    <3> QED
      BY <1>2, <3>1, <3>2
  <2>4. 1 - moves' <= casesOpen'
    <3>1. casesOpen \in Int /\ 1 - moves <= casesOpen /\ casesOpen' = casesOpen
      BY <1>2 DEF CountInv
    <3>2. \A a, b \in Nat, c \in Int : a <= b /\ 1 - a <= c => 1 - b <= c
      OBVIOUS
    <3> QED
      BY <2>2, <3>1, <3>2
  <2>5. \A v \in Verdicts : feedback[v] + Cardinality(Busy) <= moves'
    <3>1. Cardinality(Busy) \in Nat
      BY FS_CardinalityType DEF CountInv
    <3> QED
      BY <2>2, <3>1 DEF CountInv
  <2> QED
    BY <1>2, <2>1, <2>2, <2>3, <2>4, <2>5 DEF CountInv
<1>3. ASSUME NEW g \in Pages,
             \/ \E to \in Targets : Move(g, to)
             \/ OpenPage(g) \/ PageSave(g) \/ PageSaveFails(g)
             \/ Abandon(g) \/ ClosePage(g) \/ AddNote(g)
      PROVE  CountInv'
  BY <1>2, <1>3, WritersLeave
     DEF Move, OpenPage, PageSave, PageSaveFails, Abandon, ClosePage, AddNote
<1>4. CASE PostNote \/ Done \/ UNCHANGED vars
  BY <1>2, <1>4 DEF PostNote, Done, vars
<1> QED
  BY <1>1, <1>3, <1>4, BeginCounts, SaveCounts DEF Next, Proceed

\* Before the first request there is nothing to account for.
LEMMA CountStart == Init => WriterInv /\ CountInv
<1> SUFFICES ASSUME Init PROVE WriterInv /\ CountInv
  OBVIOUS
<1>1. Free.step = "free" /\ Free.becomes = Free.was
  BY DEF Free, Still
<1>2. WriterInv
  BY <1>1, BoundAssumption DEF Init, WriterInv, Is
<1>3. Busy = {} /\ \A v : Publishing(v) = {}
  BY <1>1 DEF Init, Busy, Publishing, Is
<1>4. \A v : Given(v) \in Nat
  BY CaseStart, GivenType
<1>5. /\ moves = 0 /\ notes = 0 /\ casesOpen = 1 /\ decision = "None"
      /\ feedback = [v \in Verdicts |-> 0]
  BY DEF Init
<1> QED
  BY <1>2, <1>3, <1>4, <1>5, FS_EmptySet, BoundAssumption DEF CountInv

\* The three layers together.
THEOREM CountInvariant == Spec => [](CaseInv /\ WriterInv /\ CountInv)
BY CountStart, WriterNext, CountNext, CaseInvariant, PTL DEF Spec

\* There is never more feedback for a verdict than moves of the API to it, and the
\* decision of the analyst is one the API recorded, however requests and pages
\* overwrite each other and fail.
THEOREM VerdictSafety == Spec => []VerdictIsRecorded
<1>1. CaseInv /\ CountInv /\ WriterInv => VerdictIsRecorded
  <2> SUFFICES ASSUME CaseInv, CountInv, WriterInv
               PROVE  VerdictIsRecorded
    OBVIOUS
  <2>1. \A v \in Verdicts : Given(v) \in Nat /\ Cardinality(Publishing(v)) \in Nat
    <3>1. \A v : Publishing(v) \subseteq Busy
      BY DEF Publishing, Busy, Is
    <3> QED
      BY <3>1, GivenType, FS_Subset, FS_CardinalityType DEF CountInv
  <2>2. \A v \in Verdicts : feedback[v] <= Given(v)
    BY <2>1 DEF CountInv
  <2> QED
    BY <2>2 DEF CountInv, VerdictIsRecorded
<1> QED
  BY <1>1, CountInvariant, PTL

\* The declared types hold.  The metric goes down at most once per move begun, so
\* it may become negative, but not further than that.
THEOREM CaseTypes == Spec => []TypeOK
<1>1. CaseInv /\ WriterInv /\ CountInv => TypeOK
  <2> SUFFICES ASSUME CaseInv, WriterInv, CountInv
               PROVE  TypeOK
    OBVIOUS
  <2>1. status \in Statuses /\ decision \in Decisions /\ history \in Seq(Row)
    BY DEF CaseInv
  <2>2. feedback \in [Verdicts -> 0 .. MaxMoves]
    <3>1. Cardinality(Busy) \in Nat
      BY FS_CardinalityType DEF CountInv
    <3>2. \A v \in Verdicts : feedback[v] \in 0 .. MaxMoves
      BY <3>1, BoundAssumption DEF CountInv
    <3> QED
      BY <3>2 DEF CountInv
  <2>3. notes \in 0 .. MaxMoves /\ casesOpen \in 1 - MaxMoves .. 1
    BY BoundAssumption DEF CountInv
  <2> QED
    BY <2>1, <2>2, <2>3 DEF TypeOK, WriterInv, CountInv, Row
<1> QED
  BY <1>1, CountInvariant, PTL
=============================================================================
