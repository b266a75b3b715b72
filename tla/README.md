# DeployPulse in TLA+

DeployPulse takes signed webhooks of CI/CD providers, records them in a database, processes
them through a queue into a timeline of deployments, and notifies about failures and
recoveries. This directory holds TLA+ modules of that system, TLC configurations that check
them on small instances, and TLAPS proofs that hold for every instance. Paths below are
relative to the repository; `app/` stands for `backend/internal/app/`.

## The system

| component | state | operations | hard part |
| --- | --- | --- | --- |
| webhook ingestion (`app/http.go` `handleWebhook`) | `webhook_events` rows, unique per workspace, provider and event id | verify, record, publish, answer; look a duplicate up and publish it again while it is queued | database and queue have no common transaction: a request dies between the two, the provider retries |
| Redis queue and worker (`app/queue.go`, `app/service.go` `Process`) | stream, consumer group with pending entries and delivery counts, dead-letter stream | `XREADGROUP`, `XAUTOCLAIM`, process, `XPENDING`, dead letter, `XACK` | several workers hold one entry, a worker exits in the middle of a batch |
| SQS queue and Lambda worker (`app/sqs.go`, `infra/aws/deploypulse-lambda/template.yaml`) | messages with receive counts, redrive queue | `ProcessSQSBatch` with partial batch responses | timeouts, check and write in two transactions |
| dead letters (`app/store.go`, `app/http.go` `reprocessDeadLetter`) | `dead_letter_events`, one row per webhook | add, prepare, publish, complete | a reprocess request races the worker |
| retention (`PruneRetained`) | rows past 90 and 30 days | delete, with cascade | deletes what others work on |
| deployments (`saveDeployment`) | `deployments`, checks, excerpts, repositories | one transaction, first writer creates | unique key against redelivery |
| notifications (`DeliverNotifications`) | `notification_rules`, `notification_deliveries` | list rules, count failures, insert deliveries | statements outside the transaction, lost on a crash |
| normalization (`parse`, `NormalizeState`, redaction) | none | pure functions | provider variants, boundaries |
| list, detail, analytics (`ListDeployments`, `DeploymentAnalytics`) | none of its own | cursor pages, time windows | pages under inserts, text order of times |
| users and sessions (`app/auth.go`) | `users`, `sessions` | sign up, log in, log out, authorize | a session that ends within a request |
| connections and verification | `provider_connections` | upsert, verify a signature | cryptography |
| migrations, start-up (`Migrate`, `SeedDemo`, `cmd/deploypulse`) | `schema_migrations` | check, then apply | processes that start together |
| EventBridge relay (`infra/aws/eventbridge-relay`) | none | forward | none |
| frontend (`frontend/src`) | pages of the dashboard | load, load more, filter | responses out of order |

The API calls the store and the publisher; the worker is called by the queue and calls
`Service.Process`, which calls the store twice (`SaveProcessedDeployment`, then
`DeliverNotifications`). Requests and workers share nothing but the database and the queue.

### What makes each component correct

- Ingestion: an event whose provider was told 202 is never lost, and its deployment is created
  once.
- Worker: an entry is acknowledged only when its event is settled; every entry is settled in the
  end; the status and the deployment change together; one alert per deployment.
- Dead letters: what is given up on can be found and reprocessed; a row goes only after its event
  is in the queue again.
- Notifications: a delivery is justified by the stored deployments and a rule; a due one arrives
  unless an error cuts it off.
- Sessions: a request acts in the workspace of the session that authorized it, and in no other
  account's workspace whatever happens.
- Connections: what is recorded for a workspace was signed with a secret of that workspace.
- Lists: a reader that follows the cursors sees everything that was there when it began, and
  nothing twice, while rows are added; analytics count what the window holds.
- Normalization: the stored outcome is the one the provider reported, wherever it puts it; of a
  log the last lines are kept.
- Start-up: a process serves only on a migrated database, every process serves in the end, and
  demo deployments are added and alerted once.

## Modules

| module | what it is |
| --- | --- |
| `EventLedger` | abstract specification: events are queued, accepted, deployed or parked, and never fall out |
| `EventPipeline` | the Redis deployment: webhook handler, reprocess handler, workers, retention |
| `PipelineAttempts` | extends `EventPipeline` by a history of the calls of `Process` per entry |
| `SqsPipeline` | the AWS deployment |
| `Notifications` | rules, alerts and recoveries |
| `Access` | accounts, sessions, administration requests, connections and the verification of webhooks |
| `Startup` | migrations and demo seed by processes that start together |
| `Normalization` | from a payload to state, start time, event id and log lines, as operators |
| `Timeline` | the stored deployments as the API shows them: list, analytics, excerpt |
| `DemoSite` | composes `Startup` and `Timeline` |
| `MCEventPipeline`, `MCSqsPipeline`, `MCNotifications`, `MCAccess`, `MCDemoSite` | symmetry and inputs for TLC |
| `EventPipelineProofs`, `SqsProofs`, `NotificationsProofs`, `AccessProofs`, `StartupProofs`, `TimelineProofs`, `DemoSiteProofs`, `PipelineAttemptsProofs` | theorems |

Definitions named `\* Mutant: ...` are no part of any specification: each is a plausible bug
that one of the properties excludes, and documents what that property is there for.

### EventPipeline

One event stands for a row of `webhook_events` together with the deployment parsed from its
payload; both have the same unique key. `status`, `dlq`, `deployed` are the rows; `alerted` says
whose notifications were delivered; `stream`, `delivered`, `pending`, `deliveries`, `deadStream`
are what Redis keeps; `req`, `job` and `wrk` say where each webhook request, reprocess request
and worker stands between two calls to the database or to Redis. Every such call is one action,
because every other process may act between two calls.

- `RecordWebhook`, `LookupDuplicate`, `PublishWebhook`, `FailWebhook` are `handleWebhook`.
- `LookupDeadLetter`, `RequeueDeadLetter` are the two statements of `PrepareReprocess`,
  `PublishDeadLetter` and `CompleteReprocess` the rest of `reprocessDeadLetter`.
- `XReadGroup` and `XAutoClaim` are the two ways `Consume` takes entries; `Fetch`,
  `SaveDeployment`, `DeliverNotifications`, `Ack`, `Attempts`, `DeadLetter`, `Forward` are
  `process` with `Service.Process` and `Worker.deadLetter`. `XAutoClaim` may take any pending
  entry: an entry is idle when its worker is dead, when an attempt failed, or when its worker is
  slower than the idle time of 30 seconds, and the model does not tell these apart.
- `FailFetch`, `LoseCommit`, `Crash` and the failing requests are the faults. A failed publish
  and a failed commit may have taken effect.
- `PruneRetained` runs beside the consumer loop; `Old` are the events whose row comes to be 90
  days old.

Entries without an event id, which `process` acknowledges unseen, are never published by this
code and are left out. A pruned event that the provider sends once more would be a new row, so a
pruned event is not recorded again.

### SqsPipeline

The API is the same program, so that its two handlers are those of `EventPipeline`, call by call:
`RecordWebhook`, `LookupDuplicate` and `PublishWebhook` of a webhook request, `LookupDeadLetter`,
`RequeueDeadLetter`, `PublishDeadLetter` and `CompleteReprocess` of an administrator's; `Publish`
is `SendMessage`, and may come after the event was processed, given up on or pruned. `Receive`,
`Redrive` and `Return` are SQS and Lambda's poller: an invocation ends before the visibility
timeout (20 against 120 seconds in `template.yaml`), so that one message is in one invocation at a
time. `BatchSize` is 1 in `template.yaml`; the model checks 2, which `ProcessSQSBatch` is written
for. The rest of the module is `ProcessSQSBatch`, statement by statement.

Three history variables name what the properties exempt. `unlisted` are the messages whose last
receive ended before the dead-letter row was written (a time-out, or a failed write, which the
code only logs). `resent` are the events that an administrator sent again: the request deletes the
row and sends a new message, while the old one stays in SQS's dead letters, which the program
never reads. `refused` are the events that a failed request left behind since they were last
published; only another request for them, a redelivery for instance, puts them on their way.

### Notifications

An event carries what `DeliverNotifications` looks at; `started` is the rank of the text in
`deployments.started_at`, which is what the query compares. `ListRules`, `CountFailures` and
`Deliver` are its statements, `FailDelivery` an error in one of them or a crash, after which the
notification is not taken up again. A delivery is a row of `notification_deliveries`; the code
has no sender.

### Access

`account`, `owner`, `ended`, `rules`, `requeued`, `connection` are the rows of `users`, `sessions`,
`notification_rules`, `dead_letter_events` (those set back to queued) and `provider_connections`;
`saved` remembers the connections that were overwritten. An administration request takes three
steps: `Authorize` (`authorizeAdmin`, which looks the session up and drops its user),
`WorkspaceID` (which looks it up once more and answers any error with the empty workspace) and
the write, `CreateRule`, `SaveConnection` or `PrepareReprocess`. `EndSession` is a logout, or the
end of the eight hours, and may come between any two of them. A webhook takes two:
`VerifyWebhook` (`ConnectionSecret`, `DecryptSecret`, the environment's secret for the default
workspace, `VerifyWithSecret`) and `RecordWebhook`; `ChangeKey` is a restart with another
`ENCRYPTION_KEY`. Cryptography is symbolic: a signature fits the secret it was made with, a
cipher opens with the key it was made with. `Legacy` are accounts from before sign-up gave each
its own workspace; they share the default one. Fresh workspace ids are unique, as
`uuid.NewString` makes them.

### Startup

A process goes through `Migrate` one statement or transaction at a time (`CheckMigration`,
`ApplyMigration`), and an API process with `DEMO_DATA` through `SeedDemo` (`CountRules`,
`InsertRule`, then `SeedItem` and `NotifyItem` for each demo deployment). `NotifyItem` may stop
after some of the rules: `SeedDemo` ignores the error of `DeliverNotifications` and goes on. The
tables of a migration and its row in `schema_migrations` are one transaction, and the row's primary
key makes the second of two processes fail; that process ends (`log.Fatal`). `Crash` is any other
failure.

### Normalization and Timeline

A payload is the function from the JSON paths that hold a value to what `stringAt` reads there,
`Empty` unless that is a string or a number; `Base` is the deployment object if it has any member,
whatever its values are. `StatusPaths`, `StartPaths` and `Generic`
list the paths that `providerFields` and `parse` look at, in their order. Words are those that
`NormalizeState` knows, after its lower-casing and trimming. `Timeline` parses each event with
these operators. `Reports` is the other side, the providers' event formats: what outcome a payload
reports, as a set of fields and without any order among them. That a provider's own fields agree
(but for GitHub's status and conclusion) is an assumption about the providers. `FeedAssumption`
says that every event with a state comes from a supported provider and reports its `outcome`;
fields that report nothing (generic copies beside own ones, the status of a run that has a
conclusion) may hold anything. A time is a second and the digits of a fraction; `Text` is the
string that RFC3339Nano makes of it as far as its order matters (no trailing zeros, so that `Z`
and `.` come into play), because `started_at` and `created_at` are compared as text. Row ids are numbers, standing
for the order of their texts.

`Store` is the transaction of `saveDeployment`; `Process` leaves out an event whose key is taken
and one that does not parse. `OpenList` and `NextPage` are `listDeployments` for a client that
sends the cursor back; `since` and `shown` remember what there was and what it has been shown.
`Summary` and `LogLines` are the results of `DeploymentAnalytics` and `Deployment`, which change
nothing. Columns of the list that are compared for equality are represented by the status.
`PruneRetained` is the retention of `log_excerpts`: at a cut-off it deletes, of all excerpts, the
lines whose `created_at` is before it as text. Each line has a time of its own, from a clock that
does not go back (`LinesAssumption`); within a second a later line may sort before an earlier one
(`.123401Z` before `.1234Z`), so that a cut-off between them takes the later one and leaves a gap.

### DemoSite

Demo deployments are events of the timeline, and a step in which a starting process adds one
stores its row and lines. Everything else of `Timeline` happens once a process serves, while
other processes still start. The demo deployment's start time is that of its event, not of the
process that seeds it.

## Runs

| run | instance | result |
| --- | --- | --- |
| `pipeline_faults` | 2 events (one malformed, one that is pruned), 2 webhook requests, 2 workers, 2 attempts, 2 entries, 1 fault | all invariants, `OnlyRetentionEndsWorkers` and `LedgerSpec` hold; 363,500 states |
| `pipeline_reprocess` | 1 webhook request, 2 administrators, 1 worker, 3 entries, 1 fault | `ClearedAfterRepublish`, `MissingWasReprocessed` and `LedgerSpec` hold; 383,543 states |
| `pipeline_liveness` | 2 workers, 3 attempts, 2 entries, 1 fault | `TriesAreCounted` holds, and `EveryEntryFinishes` under `Fairness`; 188,898 states |
| `pipeline_reprocess_race` | 1 event, 1 administrator, 1 worker | `DeadLetterIsRecoverable` is violated |
| `pipeline_pruned` | 2 events (one is pruned after its last attempt), 1 worker, batches of 2 | `EveryKeptEntryFinishes` is violated under `FairSpec` |
| `sqs` | 1 event (it may be pruned), 1 webhook request and 1 administrator at a time, 2 invocations with batches of 2, 2 receives, 3 messages, 3 faults | all hold, `QueuedIsUnderWay`, `GivenUpIsListed` and `LedgerSpec` among them; 982,413 states |
| `notifications` | 4 events, 2 rules, 2 workers, 1 fault | types, `DeliveryIsJustified` and `NoneForgotten` hold; 35,995 states |
| `notifications_reused_id` | a running and a failed state under one id | `FailedEventIsAlerted` is violated |
| `notifications_recovery` | a failure and two successes | `RecoveryIsSentOnce` is violated |
| `access` | 2 accounts (one of the default workspace), 2 tokens, 2 administration requests, 1 webhook, 2 secrets, 2 keys, 1 fault | all hold, `LostWithSession` among them; 53,266 states |
| `access_workspace` | the same | `StoredInOwnWorkspace` is violated |
| `demo_site` | 2 processes, 2 migrations, 1 demo deployment, 1 crash, 6 events, 1 reader, pages of one row | all hold, `TimelineSpec` and `EveryProcessServes` among them; 166,075 states |

The bounds are small but let the hard cases happen: two entries of one event (a duplicate or a
republished dead letter), two workers with the same entry, an entry that uses up its attempts, a
fault in any step, a second reprocess request on the same row. `MaxAttempts` is 2 instead of 5,
because what matters is one attempt that is not the last and one that is; `pipeline_liveness` has
3, so that there is one in between. `MaxEntries`, `MaxMessages` and `MaxFaults` bound the model,
not the system; the proofs do without a value for them. `sqs` has one event, because what is hard
there is several messages of the same one: three are a first one, a duplicate's and a reprocessed
one, and three faults make an event fail at both receives and spoil one step more. In `demo_site` days have ten seconds and
pages one row, so that five rows fill the window, its edges and several pages; the events cover
five providers, a start in the first second of the window (with a fraction), one in the first
second after it, two in the same second, two states of one pipeline, one event without a state,
and a log of four lines of which three are kept, with two in one second that a cut-off divides
against their order. `access` has a second account with a workspace of
its own because every property compares two workspaces. Deadlock is not checked because a drained
system waits for the next request.

### What the violated runs show

- `pipeline_reprocess_race`: `reprocessDeadLetter` publishes, the worker processes the event and
  gives up again, `AddDeadLetter` updates the row in place, and `CompleteReprocess` deletes it.
  The event is in status `dead_letter` and no row offers it to an administrator. In practice the
  worker needs an entry with used-up attempts to be that quick: the entry of the first round,
  whose worker died between `AddDeadLetter` and `XACK`, and which another worker reclaims.
  `MissingWasReprocessed`, which is proved, bounds the damage: an event in status `dead_letter`
  that was published once has its row.
- `pipeline_pruned`: `AddDeadLetter` fails for an entry whose webhook row retention deleted, and
  `deadLetter` returns the error, which ends the worker (`log.Fatal`) before `XACK`. Every restart
  reclaims the entry together with a healthy one and may come to it first, for ever: the healthy
  one is neither processed nor dead-lettered. `OnlyRetentionEndsWorkers`, which is proved, says
  that there is no other cause: without a failed call a worker ends only at an entry whose row
  retention has deleted.
- `notifications_reused_id`: apart from GitHub, whose delivery id is used, the event id is the
  id of the pipeline or deployment. Its later states are dropped as duplicates with a 202, so a
  recorded `running` hides the failure that follows.
- `notifications_recovery`: the count includes failures that were recovered from before.
- `access_workspace`: `README.md` says that administration requests use the session's workspace.
  A session that ends between `authorizeAdmin` and `workspaceID` leaves an authorized request
  with the workspace `""`: its rule or connection is stored there and answered with 201, and no
  session lists it. Two proved properties bound the damage: `StoredInNoOtherWorkspace` (no other
  account's workspace is ever written) and `LostWithSession` (as long as none of a user's sessions
  ended and no call failed, nothing of that user goes astray).

### Fairness

`EventPipeline`: a worker that can go on does (`WF` of `Progress`), a worker process that ended is
started again (a supervisor's or an operator's part: `compose.yaml` gives the worker no restart
policy), and the claim timer gets to each entry that stays idle (`SF`, because other workers take
entries in between; `Consume` claims every five seconds and goes round the pending list with its
cursor). `pipeline_liveness` and `pipeline_pruned` assume all of it. Requests, administrators,
faults and retention have no fairness. `Notifications`: workers run and recorded events reach one
of them; only the violated `notifications_reused_id` uses it, so that the alert that never comes
is not one of a worker that stands still. `DemoSite`: a started process goes on, and one that ended is started again
(Lambda does so, `compose.yaml` leaves it to the operator, and lets the migrator finish before the
others start); readers, events and retention have no fairness. `SqsPipeline`, `Access` and
`Timeline` are safety only. That SQS gets rid of every message in the end is its redrive policy,
whatever `ProcessSQSBatch` does, and no property of this code.

### What the properties leave open

Some properties exempt, by name, what the code does not prevent. `AnalyticsCountWindow` exempts a
start in the first second of the window that has a fraction: as text it is before midnight.
`PagesGoBack` compares seconds, not instants, and `ExcerptIsTail` allows gaps within a second, for
the same reason. `ProcessedIsFinal` allows a processed event to become a dead letter in one race of
two messages of it: the status is looked up and the row written in two transactions.
`ClearedAfterRepublish` and `MissingWasReprocessed` ask for a second entry of the event in the
stream and do not ask who published it. `GivenUpIsListed` exempts unlisted and resent events,
`QueuedIsUnderWay` what failed requests left behind, `NoneForgotten` notifications that an error
cut off, and `LateStarterAddsNoRule` processes that start together. `DeliveryIsJustified` does not
ask for a recovery that is due when its failure is processed after the success.

## Proofs

`EventPipelineProofs` proves for all constants that satisfy `PipelineAssumption`:

- `TypeCorrect`, `AckSafety`, `AcceptSafety`, `StatusSafety`, `AlertSafety`: the invariants of
  `pipeline_faults`, from `Invariant`, which shows that `IInv` is inductive.
- `MissingSafety`, `ClearSafety`: the two of reprocessing, `MissingWasReprocessed` and
  `ClearedAfterRepublish`.
- `ExitSafety`: `OnlyRetentionEndsWorkers`.
- `Refinement`: `Spec => LedgerSpec`.

`IInv` adds to the checked invariants what they rest on. `WorkerInv`: a worker's entry and batch
are delivered entries, and one that is about to acknowledge has a settled event. `StatusInv` and
`AcceptedInv`: an event that is processed, dead-lettered or accepted was published. `AlertInv`:
an alerted event is deployed. `AcceptedIsKept` then follows from `AcceptedInv` and
`AckedIsSettled`: a published event has an entry that is undelivered, pending, or acknowledged
and hence settled. Requests only append to the stream, so that `RequestsPreserve` covers all of
them; within a message a worker's steps all fit `MessageStep`, which `MessageStepPreserves`
treats once. Reprocessing has an invariant of its own on top of `IInv`, `ReprocessInv`: a
dead-letter row is one of a published event, and a job that is about to delete its row has
published the event again, so that the stream holds two entries of it and keeps both.
`ExitSafety` needs one more, `RecordedInv`: what is in the stream, or with a request on its way
there, was recorded before. A row that `AddDeadLetter` does not find was therefore deleted, and
only retention deletes rows of `webhook_events`.

`PipelineAttemptsProofs` proves `TriesSafety` (`TriesAreCounted`) for every finite set of workers:
the delivery count that decides on the dead letter is never behind the calls of `Process`, so that
the fifth failure of an entry finds the limit reached. The count may be ahead, because a worker
that exits has used up a delivery of every entry of its batch: such an entry is given up on after
fewer attempts than the five of the repository's `README.md`.
Its invariant, `CountInv`, counts the workers that have an entry in their batch and did not come
to it yet (`Holders`): calls made and calls to come are together at most the deliveries, until the
count is at its limit. A read or a claim adds one delivery and at most one holder
(`HoldersChange`), a call takes one holder away, and a crash only loses holders.

`SqsProofs` proves the same for `SqsPipeline`: `TypeCorrect`, `FinalSafety` (`ProcessedIsFinal`)
and `Refinement`. The argument differs because the queue does: `BatchInv`, a message is in one
invocation's batch at a time, takes the place of the pending list, and `RecordInv`, a record of
the batch that is neither to come, nor failed, nor in work is deployed, takes the place of the
acknowledgement. A message is deleted only when its record was not reported as failed.
`ProcessedIsFinal` needs `ListInv` besides, because `AddDeadLetter` overwrites the status without
looking at it: an event can only be processed under an invocation that is about to list it as a
dead letter if another message of it was received, which is the race that the property describes.
The handlers' steps are covered by lemmas of their own (`QueuedApi`, `ApiImplements`): they change
no invocation, and to the ledger they are the recording, the acceptance or the republication of an
event.

`OutcomeInv`, on top of that invariant, is about what comes of a message (`OutcomeInvariant`).
`RowInv`: an event is processed only with its deployment, and one with a message was recorded.
`AlertInv`: alerts are of deployments that exist, and at most one invocation has one to send.
`GivenUpInv`: a message that failed at its last receive (`Exhausted`) has its event listed, deployed,
pruned or sent again, or is in `unlisted`. `QueuedInv`: an event in status queued has a message
that will still be worked on, or a request that is about to send one; the hard step is the UPDATE
of `PrepareReprocess`, which sets any event back to queued and is always followed by the publish
or counted as a failed request. From it follow `AlertSafety` (`OneAlertPerDeployment`),
`GivenUpSafety` (`GivenUpIsListed`), `QueuedSafety` (`QueuedIsUnderWay`) and `AcceptSafety`
(`AcceptedIsKept`).

`NotificationsProofs` proves `DeliverySafety` (and types) for every feed, set of rules and number
of workers: `IInv` says that what a worker has read remains true while it sends, because
deployments and rules are only added. `ForgottenSafety` is the converse: what is due when a deployment is created has been sent by the time no
worker is at it, unless an error cut it off. `Kept` says where a due delivery can be until then:
its deployment is not created yet, it is sent, cut off, or on its way with a worker whose rules,
once listed, hold the one that calls for it.

`AccessProofs` proves the four properties of `access` for every number of accounts, requests,
webhooks and faults. Its invariant says who a request acts for: a request past `Authorize` has a
token with an owner, one that is bound has the owner's workspace or the empty one, accounts never
move, and a connection that decrypts is among those an account of its workspace saved.
`LostSafety` adds that a request bound to the empty workspace has an excuse, an ended session of
its user or a failed call (`Excused`), and that no excuse is ever taken back.

`StartupProofs` proves `ServesMigrated`, `AlertedByOne` and `LateStarterAddsNoRule` for every
number of processes, migrations, items and crashes: a process at migration `n` has those below
`n` behind it, and one that is about to notify is the only one that created the deployment.

`TimelineProofs` proves `PagesGoBack`, `NothingSkipped` and types for any rows, readers, filters
and limits. They rest on `NewerIsOrder`: `started_at DESC, id DESC`, with times compared as text,
is a strict total order of the rows, and what comes first did not start in an earlier second. The
text of a time never is the beginning of another's, because `Z` ends it and is greater than any
digit, so that two texts that differ do so at a first place (`BeforeTotal`). `PageIsPrefix` is
the lemma about `ListDeployments`: what it returns is the upper part of what it found, at most
the limit long, and the cursor is its last row exactly if something was cut off; it rests on
ranks of rows (`RankOrder`) and the pigeonhole principle. `FreshIsLoaded` then carries the
invariant over a page, and rows that are added in between do not disturb it.

The other half of `TimelineProofs` is about what is stored and shown:

- `ExcerptSafety`: what is stored of a log of any length is its end, on arrival and after every
  cut-off of retention. A cut-off that deletes a line behind one it leaves finds it before that one
  as text (`CutBetween`), and as the seconds of the lines do not go back and text order respects
  them (`BeforeIsOrder`), both are in the same second. A stored end is never longer than `MaxLines`
  (`TailIsShort`), so that the limit of the detail's query cuts nothing off.
- `OwnStateDecides`: for any payload, the first of the provider's own paths that holds a
  state decides the stored one, whatever the generic paths behind it hold; `ConclusionDecides`,
  its corollary, is about GitHub's conclusion and status.
- `ParsedAsReported`: a payload that has a state is parsed to the outcome its provider reports, for
  every provider. Both sides are read differently, `parse` takes the first path of a list
  (`FirstIsFound`) and `Reports` quantifies over a set of fields; `PathsAreFields` connects them:
  `providerFields` lists each of a provider's own fields and no other before the generic ones, and
  the conclusion before the status. `OutcomeSafety` is `OutcomeIsReported`, for every feed that
  `FeedAssumption` admits.
- `AnalyticsSafety`: the counts are those of the days asked for, for any starts and fractions. It
  rests on the comparison of a start's text with the text of midnight (`BeforeFullSecond`), which
  is right but for a fraction in the first second, the case the property exempts. The number of
  succeeded ones is right by `OutcomeSafety`.

`DemoSiteProofs` proves that the composition implements both parts: `SiteSpec => StartupSpec` and
`SiteSpec => TimelineSpec`, the second by `SeededAreListed` (the demo rows in the list are the
ones seeded), so that the theorems of both hold of it (`SiteStartIsSound`, `SiteListIsSound`,
`SiteShowsWhatIsStored`). A process that seeds what is there already is a stutter of the
timeline.

Only model-checked: the liveness properties `EveryEntryFinishes` and `EveryProcessServes`, because
fairness is out of reach of the provers at hand. Every invariant and every action property of the passing runs has a theorem. What is
violated stays with TLC too: a counterexample is the proof.

The proofs assume of the constants what `PipelineAssumption`, `AttemptsAssumption`,
`SqsAssumption`, `FeedAssumption` (one of `Notifications`, one of `Timeline`), `AccessAssumption`,
`StartupAssumption`, `TimelineAssumption`, `LinesAssumption` and `DemoAssumption` state: which sets
are finite or not empty, which numbers are natural, that demo deployments have keys of their own,
that a payload reports one outcome, and that the clock does not go back while a log is written. TLC evaluates each of them in the runs. `""` is written `Empty` in
`Normalization`, because the provers do not take the empty string as a literal.

## Left to do

- The dashboard, if its pages are given a request identity.

## Not modelled

- The arithmetic of signatures, ciphers and password hashes, token generation, the limits on
  bodies and the check of the `Origin` header: one request, no state.
- `deployment_checks`, `repositories`, the descriptive fields of a deployment, the failure
  category, finish times and redaction by regular expressions: computed from one payload and read
  back; nothing depends on them.
- Email verification tokens: the store has the operations, no handler calls them.
- Health, readiness, CORS, listing of rules, connections and dead letters: they change nothing.
- A collation of PostgreSQL under which text order differs from the order of bytes, and the
  midnight that passes between two analytics requests.
- The dashboard (`DashboardPage.jsx`): overlapping loads may end in either order, and its pages
  keep no identity of a request. There is no statement in the documents to check it against.
- The relay (stateless; its retries are webhook deliveries), rendering in the frontend, scripts.
