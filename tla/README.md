# Sentinel: TLA+ models and proofs

Sentinel scores card transactions. A transaction posted to the ingestion API goes through Kafka to a
processor that evaluates it and stores a decision; outbox rows carry the decision to two more
consumers, which open fraud cases, feed the dashboard and update the customer's profile. Everything
that matters happens in handlers that make several calls to PostgreSQL, Redis and Kafka, each of which
commits on its own, under at-least-once delivery. This directory models those handlers in TLA+, checks
them with TLC and proves the central facts with TLAPS.

Paths below are relative to the repository (`src/...` is its source directory).

## Inventory

| Component | State it keeps | Operations | Talks to | What makes it correct |
| --- | --- | --- | --- | --- |
| Kafka consumer host (`BuildingBlocks/Sentinel.Eventing/KafkaConsumerHost.cs`) | group offset, retry counter of the message in hand | consume, retry with back-off, dead-letter, commit | broker, its handler | no rejected message is committed without its dead letter, bounded retries, no blocked partition |
| Transaction processing service (`RiskEngine/.../TransactionProcessingService.cs`) | none of its own | `ProcessAsync` | inbox, decisions, profile, velocity, outbox | one decision per transaction, effects at most once per event, persisted before announced |
| Inbox, outbox, decision stores (`Sentinel.Persistence/Repositories.cs`) | `inbox_messages`, `outbox_messages`, `risk_decisions` | TryBegin, Complete, Enqueue, DequeueBatch, MarkPublished, Exists, Save | PostgreSQL | atomic claims, immutable decisions |
| Outbox dispatcher (`RiskEngine/.../OutboxDispatcher.cs`), in two services | batch in memory | poll, publish, mark | outbox table, Kafka | every committed row delivered, in order for its writer |
| Decision publisher (`Workers/Sentinel.DecisionPublisher`) | `fraud_cases`, `case_history` | claim, open case, publish to Redis | inbox, Redis | one case per alerting transaction |
| Profile processor and profile store (`Workers/Sentinel.ProfileProcessor`, `EfCustomerProfileStore`) | `customer_profiles`, `known_devices` | claim, apply transaction, enqueue | inbox, outbox | every decided transaction counted once |
| Case API (`CaseManagement`), web case page (`CaseDetail.razor`) | `fraud_cases`, `case_history`, open-case metric | assign, investigate, escalate, confirm, false positive, close, note | PostgreSQL, Kafka | a connected history, a metric that counts open cases, feedback for every verdict |
| Admin API, rule configuration provider | `ruleset_versions`, `risk_rule_configurations`, cache | activate a ruleset, read the active one | PostgreSQL | one active version, rules of one version in one evaluation |
| Risk engine, rules, policy (`RiskEngine.Domain`) | none | evaluate | pure | scores in range, combination and thresholds |
| Velocity store (`RedisVelocityStore.cs`) | sorted sets per account | record and snapshot | Redis | windows count what happened in them, replay idempotent |
| Reconnect dialog (`Web/.../Layout/ReconnectModal.razor.js`) | the dialog's class and openness, a listener, awaited promises | retry, resume, reload, react to the runtime | Blazor runtime, circuit on the server, user | the dialog tells the truth about the connection, a page that was given up keeps listening, pages are thrown away only on a refusal |
| Live feed (`LiveTransactions.razor`, `LiveDecisionListener.cs`) | rows on a page | load, subscribe, receive | PostgreSQL, Redis, SignalR | each decision shown once |
| Ingestion API | none | validate, publish | Kafka | every accepted transaction on the log |
| Startup (`DatabaseSeeder`, `MigrationExtensions`, `KafkaTopicBootstrapper`) | schema and seed rows | migrate, seed, create topics | PostgreSQL, Kafka | several services may start at once |

Contracts, shared kernel, service defaults, authentication, AppHost, the transaction generator and the
anomaly model keep no state of interest here.

The hard behaviours: a worker that lost its partition and works on; a crash, a failed call or a lost
acknowledgement between any two commits of a handler; a retry that meets its own earlier claim; the same
transaction under two EventIds; two dispatchers and two consumer groups on shared tables; read, modify,
write without a lock in the profile, case and ruleset code; a web page that keeps an old row for as long
as it is open; windows trimmed by the time a client sent; and overlapping handlers in the reconnect
script. `PROJECT.json` lists them with the line where each bites.

## Plan

| Step | Module | Content | State |
| --- | --- | --- | --- |
| 1 | `TransactionProcessor`, `DecisionLedger` | consumer host, `ProcessAsync` and its stores; the ledger it implements | done |
| 2 | `Outbox` | writers and two dispatchers on one table | done |
| 3 | `DecisionConsumers` | decision publisher and profile processor on one topic and one inbox | done |
| 4 | `CaseWorkflow` | API and web page as writers of one case, history, metric, feedback | done |
| 5 | `Rulesets`, `VelocityStore`, `RiskScoring` | concurrent activation; windows trimmed by event time; the arithmetic of the engine | done |
| 6 | `RiskEvaluation` | composition of the three: one evaluation, call by call | done |
| 7 | `ReconnectModal` | the reconnect script with its runtime, circuit and user | done |
| 8 | composition | processor, outbox and consumers end to end: an accepted transaction and its case | left |

The statistics of a customer profile, the live feed and startup are not modelled; "Not modelled" says why.

Theorems left: none for the safety properties of the components; liveness cannot be proved with these
provers. Step 8 would bring its own refinement to prove.

## Modules

### TransactionProcessor

One group of workers, one message in hand per worker. `pc[w]` names the call the worker makes next:

| `pc` | Code | Action |
| --- | --- | --- |
| `consume` | `consumer.Consume` | `Consume`, `Assign` |
| `attempt` | `Deserialize` and `Validate` | `BeginAttempt` |
| `claim` | `TryBeginAsync` | `Claim`, `ClaimRefused`, `SkipDuplicate` |
| `exists` | `ExistsForTransactionAsync` | `CheckExists` |
| `score` | ruleset, profile, devices, velocity, `EvaluateAsync` | `Score` |
| `save` | `SaveAsync` | `SaveDecision` |
| `enqueueValidated`, `enqueueDecision`, `enqueueAlert` | three `EnqueueAsync` | `EnqueueValidated`, `EnqueueDecision`, `EnqueueAlert` |
| `complete` | `CompleteAsync` | `Complete` |
| `deadLetter` | `DeadLetterAsync` | `DeadLetter` |
| `commit` | `consumer.Commit` | `Commit`, `CommitRejected` |
| `down` | process not running | `Restart` |

`committed`, `owner` and `deadLetters` are the broker's; `inbox`, `decision`, `outbox` and `velocity` the
stores'. `Revoke` takes a partition from a worker that does not know it yet (a zombie): it works on, and
its commit is rejected, which ends the process (`Commit` is outside the inner `catch`). `CallFails` and
`AckLost` are the two ways a call can throw: without effect, or with its effect applied. A claim whose
acknowledgement is lost is special, because `EnableRetryOnFailure` repeats the insert, meets its own
row, and `TryBeginAsync` answers "duplicate". `ClaimRefused` is the other way it answers so for a new event: it
catches every `DbUpdateException`, also one that left no row (a server that is read-only after a failover, a
cancelled statement, a missing permission). The log is a constant and may repeat EventIds and
TransactionIds, as clients that retry make it do.

Abstracted: the payload (an event has a transaction and is malformed, invalid or valid), the evaluation
(any outcome), the reads before it, which change nothing, and the delay between retries.

`DecisionLedger` says what all this is for: claims that only grow, at most one decision per transaction
and at most one announcement per event, after the decision. `ImplementsLedger` checks that the processor
implements it, reading an enqueued decision row as the announcement.

### Outbox

Producers are sequential writers with one key (the worker that handles an account). `Stamp` reads the
clock for `CreatedAt`, `Insert` commits, so rows become visible out of order. A dispatcher polls
(`DequeueBatchAsync`: the `BatchSize` oldest unmarked rows), publishes them in order and marks them by one
update. A failed publish, with or without the record on the topic, a failed update or a crash forgets the
batch. One partition of one topic is modelled; `CreatedAt` values are distinct.

### DecisionConsumers

The two handlers on one partition of the decision topic, one process per group as in `AppHost.cs`, with
the same retry, lost-acknowledgement, refused-claim, crash and restart behaviour. `claimant` is the `Consumer` column of
the one inbox row an EventId can have. `ApplyTransactionAsync` is modelled by when it can write: `Apply` creates
an account's profile, and `ApplyUnreadable` is what happens to a profile that is there, whose category list
is stored as numbers and read as strings. The statistics it computes are left out: `applied[e]` counts its
commits.

### CaseWorkflow

One case and its writers. A request of the API reads the case, changes it in memory and the metric at once
(`Begin`), saves (`Save`) and publishes the feedback of a verdict (`PublishFeedback`). A page of the
dashboard does the same with the case it loaded when it was opened: Blazor's DbContext lives as long as
the circuit, and a query for a tracked row returns the tracked values, so `page[g].from` is never
refreshed, only replaced by what the page itself saves. A save writes the columns that differ from what
the writer read (`Update`); that is why a stale writer can leave a row of history without changing the
status. `history` has its rows in the order of the commits, which no column of the table keeps; both readers
(`Program.cs:64`, `CaseDetail.razor:59`) order by `ChangedAt`, the field `at`. It is stamped before the save: by a
request some time between its read and its save (`CommitMove`), by the page at the click (`CommitClick`). `Now`
counts the rows saved, which is as fine as the order of the rows needs: stamps taken between the same two saves
are equal, and the properties hold in whatever order equal ones are read. One clock for all processes is assumed.
`SaveFails`, `PublishFails` and `PageSaveFails` throw, with or without the effect; `Abandon` is a
circuit that ends with its save under way.

Abstracted: one case, which exists (a request for an unknown one changes nothing); `AssignedAnalyst`, the
texts of notes and reasons; names of the analysts.

### Rulesets, VelocityStore, RiskScoring and RiskEvaluation

`Rulesets` is the activation endpoint: `ReadActive`, `Stamp` (the clock is read for `CreatedAt`), `Save`.
Requests deactivate what they read, so two of them can leave two active versions; `Newest` is how
`GetActiveAsync` chooses. `VelocityStore` is one of the four sorted sets of an account, which are written
and trimmed alike, with two windows on it; `recorded` is what would be there without trimming, a history
variable for `WindowsComplete`. The commands of a record go out as one pipelined batch, which the model takes as
atomic; in Redis the commands of another worker could come between them. `RiskScoring` has no state: scores of the rules, their combination with the
model, cap, levels and thresholds, as operators.

`RiskEvaluation` EXTENDS the three and adds the worker: `QueryVersion` and `QueryRules` (two queries, with
anything between them), `RecordVelocity` (one batch), `CountOneMinute`, `CountFiveMinutes`, and `Evaluate`
with the save. It opens up what `TransactionProcessor` takes as the one step `Score`. The cache of the
provider is scoped to one message and so is never read a second time; it has no state in the model.

Abstracted: the trigger conditions of the rules other than velocity compare payload data and are left
open (`Findings` is any set of hits); the answer of the anomaly model is an input (`Models`); a confidence is
a number of hundredths, and scores are integers without the bound of the code's `int` (a ruleset would have to
configure scores near 2^31 to reach it).

### ReconnectModal

`class`, `dialog` and `listening` are what the script changes in the document, `call[c]` is the promise that
one of its running handlers awaits. A promise settles and its handler continues in one task of the
browser, so the answer and its consequences are one action; between call and answer everything else may
happen, other handlers included. `Show`, `Hide`, `Failed` and `Rejected` are `handleReconnectStateChanged`;
`RetryClick`, `TabReturns`, `Reconnected`, `ReconnectRefused` and `ReconnectThrows` are `retry` and the
listener that calls it; `ResumeClick`, `Resumed`, `ResumeRefused` and `ResumeThrows` are `resume`. Runtime
(`AutoReconnected`, `AutoRejected`, `AutoGivesUp`), circuit (`ConnectionLost`, `ServerPauses`,
`CircuitExpires`), server and user are the environment, modelled from how the script and its markup use
them and marked external in the map.

## What the runs check

| Run | Question | Result |
| --- | --- | --- |
| `transaction_processor` | safety of the group, and the refinement of `DecisionLedger` | holds |
| `transaction_processor_live` | does every partition drain, and is every valid event completed when nothing fails | holds |
| `no_silent_loss` | is a committed valid message scored or dead-lettered | violated |
| `alert_matches_decision` | does an alert agree with the stored decision | violated |
| `outbox` | trust in marks, order of first copies, bound on copies; is every committed row dispatched | holds |
| `decision_consumers` | effects at most once, one case per transaction, case before alert, both groups reach the end | holds |
| `review_opens_case` | does an alerting decision open a case | violated |
| `profile_follows_decisions` | does every decision the profile processor takes reach the profile | violated |
| `case_workflow` | history connected as it is read, status told by it unless moves overlap, verdicts backed by it, feedback of the API's verdicts | holds |
| `verdict_emits_feedback` | does every verdict emit its feedback | violated |
| `risk_evaluation` | scored with the rules of the recorded version, complete windows, served version never goes back, model only assists | holds |
| `reconnect_modal` | dialog, listener and reloads are right whatever overlaps, and the session comes back | holds |

**Silent loss.** The claim is committed before the work and is never given back. Any failure after it (a
crash, a transient error followed by the retry, a lost acknowledgement of the claim itself) turns every
later attempt into a duplicate, and the offset is committed with neither a decision nor a dead letter.
A refused claim loses the event without leaving even an inbox row. What the code does guarantee is
`LossNeedsFault`: a payload that is rejected before the claim is never committed without its dead letter, and a
fault (crash, revocation, failed call, lost acknowledgement, refused claim) loses one valid event at most,
however often it was delivered or resubmitted. So without a fault nothing is lost.

**Alert and decision.** Two events of one transaction can both pass `ExistsForTransactionAsync`. The
unique index keeps one decision (`DecisionImmutable`), but the loser announces its own evaluation.

**Shared inbox.** The inbox key is the EventId alone, so of the two groups that consume a decision event
only the first to claim it handles it: either the case and the live channels see it or the profile, never
both. `ReviewOpensCase` fails with no fault at all.

**Frozen profiles.** An account's profile accepts its first update only, and a seeded one none: every later
`ApplyTransactionAsync` throws on the category list, the retry meets the claim and is skipped as a
duplicate. `TopicDrains` still holds, and `FaultFreeCompletes` excepts exactly these events.

**Verdicts without feedback.** `docs/EVENT_FLOW.md:13` has analyst feedback on `sentinel.case.feedback.v1`.
The API publishes it; the web page moves the case in the database itself and publishes nothing. So
`FeedbackFollows` is about verdicts of the API, and `VerdictEmitsFeedback`, about all of them, fails.

**Stale writers.** No column of a case is protected, so two analysts can both "move" it from the same status.
`FromWasStatus` and `StatusIsLastUnlessOverlap` say what a reader of the history, in the order of `ChangedAt`, can
still rely on. Every row starts from a status that an earlier row leads to. The last row that names two
different statuses tells the status, unless two moves overlapped: r1 stamps, r2 stamps and saves, r1 saves, and the
status is that of r1 although the row of r2 is read last. TLC reaches that state; the property says that
nothing else makes the two disagree. The metric `CasesOpen` is modelled, but nothing in the repository says what it must equal, and
no property is stated about it.

**Activations that cross.** Two active versions are possible and harmless: `ServedNeverGoesBack` holds
because a request is dated after everything it deactivates. It is about `GetActiveAsync`, which takes the newest
active version; `GET /api/v1/rules` (`Program.cs:38` of the admin API) takes the first active one in no order, so
with two of them it may show either, and is outside the property. `ScoredWithRecordedRules` holds although version
and rules are read by two queries, because rows of a version are only ever inserted, with the version.

### Bounds

- Processor: two workers, two partitions, three messages on one and two on the other are the least that
  contain a redelivery to another worker, a resubmitted transaction racing its first event, and the two
  kinds of bad payload; `MaxAttempts` 2 has a retry and an exhausted retry. `MaxFaults` (2 in the safety run,
  1 in the live and counterexample runs) bounds crashes, revocations, failed calls and lost
  acknowledgements together: two faults reach a crash during the handling by a zombie. Raising it to 3
  gives 2.9 million states and the same result. Workers are symmetric in the safety run only.
- Outbox: writers of two rows and of one, two dispatchers, batches of two and two faults, so that batches
  overlap, end partly published and are repeated.
- Consumers: a log with one event twice, two events of one transaction, and an approval on a seeded account;
  both groups, two faults and two attempts.
- Case: two requests, one page, three moves and one fault: a third writer can hold a status two moves old.
- Evaluation: two admins with three proposals for three versions (one of them taken) and two posts; two
  workers and two starts on four events, with the account new or one transaction (at 10) recorded already. A
  record at 25 (`Retention` 13, windows 1 and 5) trims that one and keeps one at 14, whose one-minute window must
  then be complete and whose five-minute window need not; one of the events resubmits the first transaction with
  the later time. A velocity hit alone scores 30, and the model takes 65 to 80: both are edges of bands. Admins
  and workers are symmetric.
- Reconnect: two handlers in flight and three losses (a lost connection, a pause or a server stop), which
  is a pause during a retry and a server that stops under both.

No state constraint is used, and deadlock is checked everywhere: `Idle`, and `Done` in `CaseWorkflow` and
`RiskEvaluation`, are the only ways to stop.

### Fairness

`WF` on each worker's own steps (a thread that is running runs), on `Restart` (the operator or orchestrator
starts a stopped process again; neither compose file nor AppHost sets a restart policy, so this is an
assumption about operation), and on `Assign` (the group coordinator gives a free partition to a member).
Faults have no fairness, so they stop some time because they are bounded. Outbox writers have none.

In `CaseWorkflow` a request that was accepted is run to its end; nobody has to move a case or use a page. In
`ReconnectModal` promises settle, the runtime makes the attempts it has begun, a requested document loads, and
the user goes to another tab and comes back and presses Resume when the page offers it. Retry need not be
pressed and the server need not return: `SessionComesBack` assumes that it stays reachable from some time on.

## What is proved

Every theorem holds for all values of the constants (sets of workers, writers, requests and handlers, logs,
batch sizes, bounds on faults) that satisfy the named assumptions of the modules.

### TransactionProcessor_proofs

| Theorem | Statement |
| --- | --- |
| `TypeSafety`, `TypeCorrect` | `TypeOK`, and a busy worker has a message of the log |
| `ClaimSafety` | `ClaimExclusive` |
| `DecisionsImmutable` | `DecisionImmutable` |
| `RejectedSafety` | `RejectedIsDeadLettered`, the first half of `LossNeedsFault` |
| `PoisonSafety` | `PoisonNeverClaimed` |
| `CommitsInOrder` | `CommitInOrder` |

The inductive invariant is built in layers, each proved with the ones below as known. `TypeInv` adds to
the types that a worker past `consume` has a message. `ClaimInv` adds that only validated payloads are
claimed or handled: without it, exclusiveness would not survive `BeginAttempt`. `StoresGrow` is a fact about
steps (inbox rows and decisions are never taken back), from which dead letters are stable. `TraceInv` says that a
worker at the commit of a rejected message has dead-lettered it, and that the owner of a
partition handles exactly the message after its committed offset. The last is what makes a commit by the
owner advance by one, and it is why a zombie's commit has to be rejected.

### TransactionRows_proofs

The layer above the claims: what the decision and outbox tables hold, `RowsInvariant`.

| Theorem | Statement |
| --- | --- |
| `OutboxRowsSafety` | `OutboxPerEvent` |
| `AnnouncedSafety` | `AnnouncedIsPersisted` |
| `CompletedSafety` | `CompletedIsDone` |
| `ProvenanceSafety` | `DecisionHasProvenance` |
| `LedgerImplemented` | `ImplementsLedger`: the processor implements `DecisionLedger` |
| `LossSafety` | `LossNeedsFault` |

None of the four invariants is inductive: each speaks of tables, and what keeps a table right is how far the
handler that writes it has come. `HandlerRows` says which rows of its event a handler has left at each call;
it survives the steps of the others because only the holder of the claim adds rows for an event, and claims
are exclusive. `HandlerDecision` says what a handler knows after its evaluation and what is decided after its
save; `FinishedAtEnd`, that a handler about to complete its inbox row has what the completed row will promise.
`DecidedBy` needs the most care: a decision has behind it an event whose handler, if it still runs, is past
the save (`PastSave`). With "is claimed" alone, the completion of an event that found the decision stored
could not name the other event that stored it.

The refinement reads `inbox` as the ledger's claims, `decision` as the ledger and the events with a decision row in
the outbox as announced. `LedgerStep` maps a successful `Claim` to the ledger's `Claim`, the `SaveDecision` that
wins the unique index to `Decide`, `EnqueueDecision` to `Announce` and `Complete` to `Complete`, each also when its
acknowledgement is lost; every other step of the processor stutters. `RowsInvariant` provides that an
announced event is announced once and only when decided.

`LossSafety` is an account of what can no longer be saved, `LossInvariant`. `Lost` itself is not inductive: an event
is doomed before its offset is committed. `AtRisk` holds the undecided events that nobody is handling and that are
claimed, or have a message committed or at its commit without a dead letter. Only a fault can add an event to
it, and only the one the failing worker has in hand; the steps of the others, and a duplicate that is skipped,
add none, since an event that meets its own claim was at risk or is being handled.

### Outbox_proofs

`MarkSafety` (`MarkedIsDelivered`) and `OrderSafety` (`FirstCopiesInOrder`), from `OutboxInvariant`. Rows of
different writers are in no order, and a poll may miss one that commits late; what is invariant is about one
writer. Its rows carry `CreatedAt` in the order it wrote them, so a poll that takes one takes every earlier
unmarked one before it. Of a dispatcher's batch, what is not left to publish is on the topic together with
every earlier row of the same writer. That fact survives a repeated batch, and it makes both the marks and
the order of first copies true.

`CopiesSafety` (`CopiesBounded`) from `CopiesInvariant`, an account of who owes a copy. While a row is unmarked,
each of its copies belongs to a dispatcher that has published it in the batch it holds, or to a fault that made
a dispatcher forget its batch. Once it is marked no poll takes it, so its copies and the dispatchers that still
have it to publish together stay within the bound. `OutboxTypes` proves `TypeOK`.

### DecisionConsumers_proofs

`TypeSafety`, `EffectSafety` (`OncePerEvent`), `CaseSafety` (`CasePerTransaction`), `AlertSafety`
(`AlertAfterCase`) and `CompletionSafety` (`CompletedIsDone`), from `ConsumersInvariant`: past its claim a
handler works on an event whose claimant is its own group, and the counters of effects agree with the call
it is at. Since claims are never given back, a later attempt cannot get past the claim again.

### CaseWorkflow_proofs

`HistorySafety` (`FromWasStatus`) and `StatusSafety` (`StatusIsLastUnlessOverlap`), from `CaseInvariant`: whoever is
about to write, request or page, holds a status that the case had before the time its row will carry. The
invariant says nothing of how long before, which is why it holds for pages that are open for hours. It also
knows the order of the saves, which no reader sees: there the last effective row always gives the status. What
a reader sees follows, since a row that is read last and was not saved last has a row saved after it that was
stamped no later.

`VerdictSafety` (`VerdictIsRecorded`) and `CaseTypes` (`TypeOK`) from `CountInvariant`: every row of the history
with a verdict of the API pays for one record of feedback, the one sent or the one the request that saved it
is about to send. `WriterInv` says which columns a request saves, from which the analyst's decision is
traced to a row of history.

### RiskEvaluation_proofs and RiskScoring_proofs

`ServedSafety` (`ServedNeverGoesBack`) from `RulesetsInvariant`: a request about to save is dated after every
version it will deactivate, and a version in force has its rules. `RulesetSafety`
(`ScoredWithRecordedRules`) and `WindowSafety` (`WindowsComplete`) from `EvaluationInvariant`: a worker past
its two queries holds the rules of the version it read, stored rules never change, and the sorted set lacks
only what is at least `Retention` older than the latest time recorded.

`AssistSafety` (`ModelOnlyAssists`) and `EvaluationTypes` (`TypeOK`) from `ScoreInvariant` and `AccountInvariant`: what
is stored with a decision is what the engine computes from its hits and the model's answer, a transaction has
one decision, and the counts of the windows are bounded by the events of the account. The assumptions on
the constants say what the types of the code do: a rule has a Boolean `Enabled` and an integer `Score`, an
answer of the model two numbers, and the rules trigger finitely many hits.

`RiskScoring_proofs` is about the arithmetic, for every integer and every finite set of hits:

| Theorem | Statement |
| --- | --- |
| `HitsOnlyAdd` | no triggered rule takes points away |
| `RawNeverNegative` | the sum over any finite set of hits is a natural number |
| `RawAdds` | a hit adds exactly its own points, so the order of the rules is no matter |
| `RawMonotone` | more hits never lower the score |
| `DecisionMonotone` | a higher score never leads to a milder decision |
| `MoreHitsNeverMilder` | a rule that triggers in addition never makes a decision milder, with the same answer of the model |
| `ModelAssists` | the statement of `ModelOnlyAssists` for every raw score and every answer of the model |
| `VelocityScoreMonotone` | a burst scores no less than a plain velocity hit while the rule is configured with at most 50 points |
| `VelocityScoreDrops` | above 50 a burst scores less: `Math.Min(Score + 10, 50)` lowers such a score (the seeded rule has 30) |

The score is a fold over a set, which the library defines by a recursive function over its subsets. That such a
function exists, that its values are numbers and that the order does not matter is induction over data, for
which the provers cannot use the library's induction theorems. The proofs go around them: the sizes of the
subsets at which a claim fails form a set of natural numbers (`LeastMember`: not empty, it has a least member),
and one member less is a counterexample of a smaller size.

### ReconnectModal_proofs

`TypeSafety`, `DialogSafety` (`DialogShowsOutage`), `ListenerSafety` (`FailedKeepsListening`) and `ReloadSafety`
(`ReloadOnlyOnRefusal`). `FailedKeepsListening` is not inductive: a retry takes the listener away. The
strengthening `Attended` says that with the class `failed` either the listener is there or some
handler is in the part of `retry` whose `catch` puts it back.

### Only model-checked

Liveness: `PartitionsDrain`, `AllDispatched`, `TopicDrains`, both `FaultFreeCompletes`, `SessionComesBack` and
`FeedbackFollows`. The provers have no rules for fairness and `ENABLED`. Every invariant and every action property
that a run checks is proved, and so is the refinement.

## Not modelled

- **Statistics of a customer profile** (`ApplyTransactionAsync`): an account's profile takes its first update
  only, so averages, windows and lists never see a second value, and two updates of one account cannot both
  commit. `DecisionConsumers` models exactly that.
- **Live feed**: the page and the relay keep nothing that survives, and nothing in the repository says what
  the page shows after a gap; what is sent to the channels is in `DecisionConsumers`.
- **Startup**: seeding is one transaction guarded by unique keys; what it leaves is the initial state of
  `Rulesets` and of `DecisionConsumers`.
- **Anomaly model**: trained code; its score and confidence are an input.
- **Ingestion API**: stateless; its effect is the constant `Log`.
- Contracts, shared kernel, service defaults, sign-in, AppHost and the transaction generator have no behaviour of
  their own.

Inside the modelled parts: logging, metrics (but for `CasesOpen`) and tracing; a null message value, which
the host skips; a consume error, which it logs; payload contents; the in-memory velocity store, which is for
tests.
