# Dashmark: TLA+ models and proofs

Dashmark is a dashboard of Docker containers. A server process discovers the
containers of one or more Docker hosts, polls their metrics, recovers uptime
history its monitoring providers still have, keeps everything in SQLite and
streams it to browsers over WebSockets. One JavaScript thread runs all of it:
between two `await`s nothing else happens, and at every `await` anything may. The
models are about what can go wrong there: what was read before an `await` and is
used after it, two writes with a crash between them, messages and events that
arrive late or not at all, retries, and queues at their limit. The part of the program
that is not concurrent, from the configuration file to the message a browser
accepts, is modelled as functions whose laws are checked on every input one change
away from a complete one: there the hazards are two pieces of code that have to
agree and were written apart.

Contents: 1 how to run it; 2 the system; 3 the modules; 4 the runs; 5 fairness
and assumptions; 6 the proofs; 7 where the code and its documentation disagree;
8 what is not modelled.

## 1. How to run it

    tlc -config MetricRecovery.cfg MCMetricRecovery.tla     # any run of section 4
    tlapm MetricRecoveryProofs.tla                          # any module of section 6

The run `X` has the configuration `X.cfg`; the module of each run is in the table
of section 4. `PROJECT.json` maps every definition to the lines it models, lists
the hazards of the code with the properties that cover them, and names for every
property a plausible bug (an operator with a suffix, such as
`QueueSaved_AnySource`, marked "Wrong variant" in the module) that violates it.

## 2. The system

Paths are below `src/src/lib/` unless they say otherwise.

### Metric recovery queue — `metric-recovery.ts`, `uptime-recovery.ts`

*State*: `jobs`, a Map from (card, metric) to a job with its checkpoint, retry
time and failure count, whose insertion order is the rotation; the table
`metric_recovery` with the same data; `priorities`, predicates held by open views;
`running`. *Operations*: `savedMetricRecovery`, `enqueueMetricRecovery`,
`cancelMetricRecovery`, `pruneMetricRecoveryQueue`, `retainMetricRecoveryPriority`,
`nextMetricRecoveryAt`, `recoverNextMetric`. *Called by* metric collection (queues
after page one, then one step), discovery (prunes) and realtime metrics
(priorities). *Hard*: a job lives in memory and on disk and the two are written
one after the other; the page is saved and the checkpoint advanced in two
writes; discovery and the source configuration change while a page is in
flight; a failing provider must not hold up the others. *Correct when* a restart
never skips a batch, memory and disk agree, a late page of a cancelled job is
dropped, only failures delay, and every job ends.

### Paginated uptime recovery and bulk history — `paginated-uptime-recovery.ts`, `bulk-metric-history.ts`

*State*: a checkpoint (page, boundary, oldest, stalled pages) and the cache of
bulk pages shared by metrics of one source. *Operations*: detecting a gap when
page one does not reach the stored history, fetching the next batch, ending at
overlap, retention or the provider's last page. *Hard*: the provider publishes
during the walk, so newest-first pages shift; a second outage begins during the
recovery of the first; a cached page is older than the page before it. *Correct
when* nothing the provider published within the retention is forgotten, and the
walk ends.

### Container discovery — `docker.ts`, `docker-api.ts`, `discovery-coordinator.ts`

*State*: per host an event stream, `containerListCache` (30 s) and
`containerListRequests`; `discoveredMetricTargets`; the coordinator's cards,
error, `refreshing`, `refreshPending` and one debounce timer. *Operations*: stream
events and reconnections, list requests, builds of the cards by the coordinator
and by page requests, replacing targets and deleting history that is no longer
confirmed. *Hard*: events during a refresh; a list that was requested before an
event and answered after it; lost events; hosts that fail or hang. *Correct when*
no event is forgotten, no older list is kept, one host does not harm another, and
only removed cards lose their history.

### Realtime messages — `realtime-server.ts`, `realtime-client.ts`, `realtime-metrics-snapshot.ts`, `realtime-socket-lifecycle.ts`, `realtime-protocol.ts`

*State*: per client its subscriptions with the cursor of what was sent last,
snapshot queues, the outbound queue of a socket; `publishedUptimeBuckets`, shared
by all subscribers of a card; `visibleStatusCards` and the version of messages; in
the browser the copy of each history, the statuses and their
listeners. *Operations*: subscribe, snapshot, incremental delta, bucket delta,
status snapshot and status delta, unsubscribe, reconnect with back-off, closing a
socket whose queue is full.
*Hard*: a snapshot is read, then written asynchronously, while polls go on and
the view is left and opened again; samples at the very time of the cursor; lost
sockets; of statuses only changes are sent after one snapshot. *Correct when* each
retained sample is shown once, in order, in every view that stays open, and every
page shows the states its viewer may see and is told no other.

### Metric collection — `metrics.ts`, `metric-collection/`

*State*: `collectionInProgress`, the timer, `lastMetricCollection`,
`latestMetricUsage`, counter values for rates. *Operations*: collecting the due
targets, saving them in one transaction, publishing, one recovery step, planning
the next timer. *Hard*: single flight, with a second forced collection for
network rates; a card removed while its collection is in flight; a collection
that throws. *Correct when* collections never overlap, every card is collected
on its interval and a removed card leaves nothing behind.

### Metrics storage — `metrics-storage.ts`

*State*: the SQLite tables of samples, observations, recoveries and retentions.
*Operations*: save, deduplicate, expire, delete what is not retained, aggregate
uptime buckets. *Correct when* what is within a metric's retention is kept and
aggregates agree with the rows.

### Metric requests and jq — `custom-metric-http.ts`, `jq.ts`, `custom-metrics.ts`, `custom-metric-socketio.ts`, `custom-metric-result.ts`

*State*: two counting semaphores (four jq processes; two requests per origin,
removed when idle). *Hard*: slots handed from one holder to the next waiter,
timeouts and errors on the way. *Correct when* the limits hold, no slot is lost
and every waiter is served.

### Configuration — `config.ts`, `config-file.ts`, `config-file-metrics.ts`, `config-file-validation.ts`

*State*: `configCache`, the last result with the time and size of the file it
came from. *Operations*: loading, `parseYamlConfig` with the metric definitions,
their overrides and shared sources, `getConfig` with the environment. *Hard*: a
file is looked at by time and size only; one wrong entry of a service must not
cost the others; an override is laid over a metric that was valid; the check
contributors run is another program. *Correct when* a correction is noticed, an
error costs what is in error, and what the check accepts the program reads.

### Cards and access — `docker-card-resolution.ts`, `labels.ts`, `auth.ts`, card half of `docker.ts`, `metric-collection/details.ts`

A function of configuration, containers and headers. *Hard*: the same field comes
from four places, and the same question (who may see what, what is kept, what is
collected) is answered in several. *Correct when* the file wins over labels, no
entry disappears in silence, the answers agree and what is collected is kept.

### Metric sources and values — `metric-source-resolution.ts`, `custom-metric-references.ts`, `custom-metric-parsing.ts`, `metric-collection/target-plan.ts`, `status.ts`

From a metric to its request, and from the answer to the message of a viewer.
*Hard*: inputs and credentials may come from labels, file, environment or secret
files; numbers may overflow; the browser checks the message again by its own
lists. *Correct when* no request leaves unfilled, a label's credential wins, an
answer is a value, a state or an error, and the browser accepts the message.

### The rest

- **Uptime buckets** (`uptime-buckets.ts`, SQL of `metrics-storage.ts`): one
  aggregation written twice; correct when both agree.
- **Icons** (`icons.ts`, `selfhst*.ts`, `dashboard-icons.ts`, `icon-contrast.ts`):
  lookup and a download cache that prunes itself.
- **Browser state** (`error-toasts.ts`, `use-stable-loading.ts`,
  `src/src/components/use-*.ts`): small timer machines, React state derived from
  messages.
- **Server, pages and rendering** (`runtime.ts`, `src/src/pages/`,
  `src/src/components/`): wiring and rendering.
- **Build scripts and demo** (`src/scripts/`, `src/demo/`): outside the program,
  except that `scripts/validate-metrics.mjs` decides what the library holds.

### How the parts interact

    Docker hosts --events, lists--> container discovery --cards, targets--> pages
                                       |         \--onCardsChange--> metric collection
                                       |                               |   |      \
                         deletes unconfirmed history        page one, gap  one step  publish
                                       v                               v   v          v
                                    SQLite <----saves---- uptime recovery queue   realtime metrics
                                                                                      |
                                                                   snapshots, deltas  v
                                                                                   browsers

Calls are direct and synchronous except where a request, a timer or a socket
write is awaited; everything shared is module-level state of one process or
SQLite, which is synchronous. There are no locks: "single flight" is a promise or
a flag that is looked at.

## 3. The modules

| Module | Models | Builds on |
| --- | --- | --- |
| `MetricRecovery` | the recovery queue in memory and in SQLite | |
| `UptimeRecovery` | the walk over the pages of one source | |
| `ContainerDiscovery` | event streams, lists, refreshes | |
| `RealtimeMetrics` | subscriptions and their messages | |
| `RealtimeStatus` | container states from discovery to a page, and its socket | |
| `Semaphores` | what a limit on concurrent work promises (abstract) | |
| `MetricRequests` | the requests of one metric, the queues of origins and jq | |
| `MetricCollection` | timer, single flight, workers, targets | `MetricRequests`, implements `Semaphores` |
| `MetricHistory` | rows, retention and buckets of one card | |
| `Yaml` | values of documents and the classes of texts | |
| `MetricDefinitions` | how the program reads a metric definition | `Yaml` |
| `CatalogCheck` | how `npm run validate:metrics` reads the same | `MetricDefinitions` |
| `Configuration` | the file, its services, its cache, the settings | `MetricDefinitions` |
| `MetricSources` | from a metric to the request that is sent | `MetricDefinitions` |
| `Cards` | labels, cards, targets, access, views | `Configuration`, `MetricSources` |
| `MetricValues` | from an answer to the message a browser accepts | `Configuration` |
| `Dashboard` | composes `CatalogCheck`, `Cards`, `MetricValues`, `MetricHistory`, `RealtimeStatus` | |

Components with concurrency of their own have one module each, an `MC` module with
what only TLC needs, and a `Proofs` module (`DashboardProofs` for the pure modules
and their composition). They are connected by what one
guarantees to the next, not by one module that holds them all:

- `MetricRecovery` treats the content of a page as a batch number and proves that
  an undisturbed step belongs to the queued checkpoint (`StepMatchesJob`).
- `UptimeRecovery` relies on exactly that: its step works on `checkpoint`
  itself, and it models what a batch contains.
- `ContainerDiscovery` decides which cards exist; its effect is the action
  `Refresh` of `MetricRecovery` and `MetricCollection`, `DiscoveryRefreshes` of
  `MetricHistory` and `RealtimeStatus.Refresh`, and the actions `SetAccess` and
  `RemoveCard` of `RealtimeMetrics`. Page requests that build cards are `PageBuild`.
- A collection is modelled request by request in `MetricCollection` and as its start,
  the answer of uptime and its end in `MetricHistory` (`CollectionStarts`,
  `UptimeAnswered`, `CollectionEnds`). For the others its end is one action: it queues
  (`CollectKey`), saves page one (`PollAnswered`) and publishes (`Poll`).
- `Cards` says what a card, its targets and its retention are; the modules above
  treat them as given.

### MetricRecovery

| Model | Code |
| --- | --- |
| `jobs`, `before` | the Map `jobs` and its insertion order, as the relation "comes before" |
| `rows` | table `metric_recovery` |
| `fetched` | which batches of which source are in `uptime_observations` |
| `deleted` | those that were until discovery deleted them; not in the code |
| `viewers` | `priorities` |
| `collecting`, `plans`, `inflight` | `collectionInProgress` and what it awaits |
| `mode`, `source` | what discovery says of each metric (below), and the fingerprint of its source |

A checkpoint is the number of the next batch. `retry_at` is the time left until
it, lowered by `Tick` in memory and on disk, so the model needs no clock. The
delay grows as `2^failures` units up to `MaxDelay`. `inflight.live` is the result
of `jobs.get(key) !== job`, an identity comparison, kept up to date by every
action that deletes or replaces the entry.

A metric is one of uptime with or without `recover`, of numbers, of texts, on a
hidden card, or gone. The kinds differ in three places. `refreshMetricRetention`
(`RefreshRetention`) deletes the observations of what is no uptime metric, and the
recovery row only of what has no history at all: a metric that has become a
number loses its batches and keeps its row (metrics-storage.ts:315). A collection
of such a metric cancels the row only while its job is in memory
(`CancelQueued`, target-plan.ts:90), so after a restart the row stays. And when
the metric is one of recovered uptime again, the row is queued again: then a
checkpoint may be ahead of batches that are no longer in the database, which is the
exception in `SavedBefore`. The next page one that is answered restarts the walk,
because it finds no stored history; if page one fails and a page of the walk is answered, the
walk ends at its old boundary, and what was deleted is not asked for again.

Actions: `StartCollection`,
`CollectKey` (gap, saved checkpoint or another kind of metric), `CollectionFails`,
`NothingDue`, `StartStep`, `DropStep`, `AdvanceStep`, `CompleteStep`, `DeferStep`,
`CommitFails` (the save succeeded and the checkpoint's UPDATE or DELETE threw),
`Refresh`, `Retain`, `Release`, `Tick`, `Crash`, `CrashAfterSave`.

### UptimeRecovery

The provider publishes one observation per `Tick`; an observation is named by its
age, so a newest-first page of a request answered from a snapshot taken `d` ticks
ago is the ages `skip + d .. skip + d + PageSize - 1`. Ages move every
observation, the checkpoint's boundaries and the page cache at each tick, which
keeps the state finite without a clock. `request` is what the worker awaits; its
snapshot is any taken since it was sent, or that of the bulk cache. The second
write of a poll and of a step may be missing (`PollInterrupted`,
`StepInterrupted`): a crash, or an exception of SQLite.

### ContainerDiscovery

The list of a host is its version, the number of changes so far, and every change
sends an event on an open stream. `request[h]` is the version when the registered
list request was sent, the oldest its answer may hold; `got[b][h]` is what build
`b` knows of host `h`. An event removes the registered request but the builds
that await it go on awaiting it ("orphan"). A refresh calls the listeners and
`refreshMetricRetention` without an `await`, so it is one action,
`RefreshFinished`. `ListHangs` is what Node does when a connection closes after
the headers of an answer: neither `end` nor the request's `error` follows.

### RealtimeMetrics

| Model | Code |
| --- | --- |
| `sub` | `client.metrics`: queued in `snapshotQueues`, being sent, ready, or without access |
| `out`, `net` | messages given to `socket.send`, and those written but not received |
| `published` | `publishedUptimeBuckets` of the card |
| `samples`, `uptime` | the card's rows of `resource_metrics`, its uptime bucket |
| `access` | the history period discovery gives the card, `None` without the card |
| `shown`, `viewing`, `greeted` | the client's copy, its listeners, its knowledge of `incrementalHistory` |

`Poll` saves, expires and publishes, in one action because there is no `await`
between them. `Written` is the callback of a socket write, which makes a
subscription ready with the time its rows were read. `Receive` is the client's
message handler, `Applied` its effect on the copy, with `MergeHistory` replacing
everything from `replaceFrom` on. A socket that would queue more than `MaxEvents`
messages is closed, in the middle of a publication too.

### RealtimeStatus

| Model | Code |
| --- | --- |
| `found`, `statuses`, `failing` | `cards`, `statuses` and `error` of the coordinator |
| `sights`, `issued` | the socket's entry of `visibleStatusCards`, `version` |
| `greeted`, `transit` | its snapshot has been sent; messages that count as `pendingEvents` until received |
| `page`, `socket`, `timer`, `attempts`, `latest`, `display` | the page's visibility, and the fields of `RealtimeClient` |
| `untold` | nothing in the code: what it never tells, so that the exceptions of `StatusesFollow` are exact |

A status is a member of a set, with `NoStatus` for a card without container and for
no card, as the property of an absent key is `undefined`. `Refresh` compares,
forgets who sees what and sends in one action, because `refresh` does not await
after discovery has answered. `SendStatusSnapshot` comes some time after the socket
opened: it awaits the first refresh. Both sides of a socket close in one step; what
the server would still send to a socket the page has left is ignored by the page.

### MetricCollection and MetricRequests

| Model | Code |
| --- | --- |
| `current`, `chain` | `collectionInProgress`, and the `.then`s that hang on it |
| `timer`, `prime` | `collectionTimer`, the timeout of the forced second collection |
| `last` | `lastMetricCollection`, as the time until the card is due again |
| `discovered`, `scheduled` | `discoveredMetricTargets`, and those the timer was planned for |
| `pending`, `collecting`, `stats` | the due cards without a worker, with one, and waiting for Docker |
| `step[f]` | where the chain of awaits `f` stands: in a login, a request, a socket, a jq process |
| `active`, `waiting` | counter and waiting list of an origin and of jq |
| `running` | who really holds a slot, which the code does not record |

A *flow* is one chain of awaits: a metric's own, or that of a child of
`for_each`. `TakeTurn` enters the queue, `FlowNext` leaves it with an answer or a
failure and goes on. A collection that throws (`CollectThrows`, `SaveFails`) leaves
the other flows behind, which hold their slots beside the next collection: the
set `Runs` names the collections that overlap. `Setups` are the configurations a
run starts from, each with its own number of refreshes and failures.

### MetricHistory

| Model | Code |
| --- | --- |
| `selected`, `period` | what discovery last found on the card, and its `historyPeriodMs` |
| `flight` | the collection under way, with what it was planned with |
| `recoveryJob` | the queued job of `metric-recovery.ts`, whose step saves with the period of the collection that queued or renewed it |
| `counterRead` | the entry of `customMetricCounterCache` |
| `samples`, `observed` | rows of `resource_metrics` and `metric_samples`, and of `uptime_observations` |
| `retention`, `uptimeKept` | rows of `card_metric_retention` and `uptime_metric_retention` |
| `changes`, `since` | nothing in the code: after how many discoveries something was planned |

One card with a resource metric, a counter shown as a rate, and uptime. A
collection takes selection and period when it starts. Observations of uptime are
saved as soon as they are answered, in a transaction of their own whose retention is
written before it (`UptimeAnswered`). When all targets have answered
(`CollectionEnds`) the counter's value is remembered; then one transaction prunes by
the *stored* retention, saves what was answered except for a rate that is pending,
deletes by the collection's own period and stores that period (`Commit`), or is
rolled back. A step of the recovery queue saves after it (`RecoverySaves`).
`DiscoveryRefreshes` may come at any moment in between, and a restart, which loses
what is in memory (`Restarts`). SQLite's `GROUP BY` is `StoredBuckets`, the loop of
`uptime-buckets.ts` `AggregatedBuckets`.

### Yaml, MetricDefinitions, CatalogCheck, Configuration

Values of a document are tagged by their type; texts are members of the classes
the code tells apart (names, URLs, durations, blanks), which are constants. Parsers
that return the value they were given are predicates (`Accepted`); where the code
builds something else, so does the model (`LoadedDefinition`, `MergedMetric`,
`ParsedServiceMetrics`). `Loaded` is `loadYamlConfig` with its cache. `CatalogCheck`
is the script's own reading of the same files, kept apart as it is in the code.

### MetricSources, Cards, MetricValues

`Cards` goes from a container and its service to the card (`CardFromContainer`),
the targets of collection (`MetricTargets`), the targets of retention
(`RetentionTargets`) and the three ways a viewer is served: the page
(`CardsFor`), statuses (`StatusSnapshot`) and metrics (`MetricAccess`, `UsageFor`).
`MetricSources` fills in a request in the two moments the code does: labels and
inputs when cards are built, environment, files and tokens when it is sent.
`MetricValues` is a small machine: collections of one metric or of a container's
statistics over time, with the caches a rate needs; `SnapshotMessage` with
`AsJson` is what is sent, `IsServerMessage` what the browser accepts.

### Dashboard

Composes the pure modules with what changes: the contributor who publishes a metric, the
owner who edits the file, requests that load it, a card's history, a metric's values and
the states of containers. They share no variable; `follows` says which one a behaviour
is about, so that TLC does not multiply them. `MCDashboard` builds complete examples (a
metric of every kind, a configuration that uses every part, a container with every
label) and takes them with *every value one change away* (`Variants`): each field
removed, each replaced by values of every type, fields added that do not belong there.

## 4. The runs

| Run | Module | States | What it shows |
| --- | --- | --- | --- |
| MetricRecovery | MCMetricRecovery | 1,536,540 | `TypeOK`, `CheckpointBehindSaves`, `JobAgreesWithRow`, `StepMatchesJob`, `BackoffOnlyAfterFailure`, `BackoffSurvives`, `NoLateSave`, with discovery changes, gaps, failed writes and restarts at every point |
| MetricRecoveryLive | MCMetricRecovery | 38,328 | `RecoveryEnds`: every recovery ends if providers answer now and then, views that stay open included; a viewed provider that never answers is outside its premise. `NoProviderBlocks`: without views, one answering provider is enough for its own metric |
| UptimeRecovery | MCUptimeRecovery | 270,412 | `TypeOK`, `NoGapForgotten`: what is missing stays in the interval of the persisted checkpoint. `RecoveryStops`: every walk ends, also when every request fails |
| UptimeRecoveryBulk | MCUptimeRecovery | | violated: `NoGapLost`, with a bulk page that a recovery step of another metric cached |
| ContainerDiscovery | MCContainerDiscovery | 238,346 | `TypeOK`, `CacheFollowsEvents`, `EventNotForgotten`; `EventsReachCards`, when list requests settle |
| ContainerDiscoveryReconnect | MCContainerDiscovery | | violated: `ReconnectCatchesUp` |
| ContainerDiscoveryHistory | MCContainerDiscovery | | violated: `HistoryKept` |
| ContainerDiscoveryHang | MCContainerDiscovery | | violated: `HealthyHostsShown`, when a connection closes in the middle of an answer |
| RealtimeMetrics | MCRealtimeMetrics | 959,062 | `TypeOK`, `HistoryComplete`, `HistoryInOrder`, `SamplesShown` |
| RealtimeMetricsBuckets | MCRealtimeMetrics | | violated: `BucketsFollowPolling`, with two browsers |
| MetricCollection | MCMetricCollection | 176,563 | `TypeOK`; `QueuesKeepTheirLimit`: the queues of origins and jq implement `Semaphores`; `NoLostWakeUp`: a planned card never lacks its timer; `CollectedAgain`: every card that stays is collected again and again |
| Dashboard | MCDashboard | 535,032 | the sixteen properties below |

The properties of `Dashboard`, by the part they are about:

- *Library.* `LibraryLoads`: what passes the contributors' check the program
  reads, except for the forms of `LetThrough`. `OverridesReadable`: a metric stays
  readable when its label or its kind is overridden.
- *Configuration.* `ConfigFollowsFile`: a load goes by the file as it is.
  `BadEntryIsolated`: a metric in error costs itself and its chart group.
- *Cards.* `EntriesExplained`: no entry is dropped in silence. `ServiceOverLabels`:
  what the file says of a card is not what labels say. `ViewsAgree`: page,
  statuses and metrics show a viewer the same cards. `RetentionKeepsCollected`:
  what is collected is kept.
- *Requests.* `CredentialsPreferLabels`: a credential is the label's, the written
  one, or that of environment or file, and none is sent empty.
  `NothingSentUnfilled`: no input of a metric is left in what is asked for.
- *History.* `OnlyOldSamplesLost`: a step deletes only what the configured period
  does not cover, or what a discovery has overtaken. `EverySampleExpires`: no row is
  without the retention by which it will be deleted. `BucketsAgree`: database and
  program count the same.
- *Values.* `MessagesUnderstood`: whatever a provider answers, the browser accepts
  the message. `AnswersTold`: no answer is dropped in silence.
- *Statuses.* `StatusesFollow`: a page in view has a socket or will open one, and
  when it has received what it was sent it shows the state of every container.

### Exceptions that are part of the properties

They are places where the code does something else than the plain law says, each
named in the module:

- `LetThrough` lists what the check accepts and the program does not read: a
  `notes` field (the check knows it, config-file-validation.ts:798 does not, so the
  metric is dropped), sources over Socket.IO (validate-metrics.mjs:155 asks for
  what config-file-validation.ts:734 rejects), `null` for an optional field,
  `headers` or `query` that are no mapping beside a `url`, header names that are
  none, empty names, an empty form, a token header that is no name, `cheerio`
  without a selector or beside `jq`, a `cheerio` selector that is within 256
  characters only when trimmed (validate-metrics.mjs:346 trims,
  config-file-validation.ts:446 does not), `env` together with `file` where one is
  empty, and a bulk page size out of range.
- `OverridesReadable` leaves out metrics with `rate` or `state_labels`: an override
  of the kind drops the old kind's other fields and these not
  (config-file-validation.ts:625). It changes the kind of metrics that `jq` or `text`
  extracts and no recovery pages through; the others are bound to their kind.
- `CredentialsPreferLabels` lets a secret that the configuration writes out under
  `value` precede environment and file, as the code does (custom-metric-references.ts:33).
- `NothingSentUnfilled` is about the fields of a body. A body whose only field is
  `parameter`, with a text, is taken for no reference: its fields are resolved one by one
  (metric-source-resolution.ts:111).
- `OnlyOldSamplesLost` excepts what was planned before the last discovery
  (`Overtaken`): a collection or a recovery job that is under way when the period grows
  deletes by the shorter one and stores it, and by that row the next collection deletes
  again before it saves, also samples that both periods of the configuration cover
  (metrics.ts:63). A collection planned since, or the next discovery, ends this.
- `CheckpointBehindSaves` and `JobAgreesWithRow` except batches that discovery has deleted,
  and `RecoveryEnds` the row of a metric that has become a number (section 3).
- `ConfigFollowsFile` lets an edit pass unnoticed that keeps the size within the
  same tick of the file's clock.
- `EntriesExplained` counts an error that was logged as an explanation. On the
  card it never appears, see section 7.
- `ViewsAgree` is about viewers with an identity, or without access control; a
  viewer without one is shown a page that asks to log in.
- `MessagesUnderstood` leaves out sums of `for_each` and rates that overflow, see
  section 7.
- `StatusesFollow` leaves out what the server never tells, see section 7.

### Bounds

- *MetricRecovery*: one metric, because every safety property speaks of one metric at a
  time, and what another does to it is that the worker is busy, that the rotation
  selects the other, or that a step ends: moments at which nothing happens to this one.
  That leaves room for what does matter: two sources, so that a checkpoint can belong to
  the wrong one; walks of three batches, two of them before a checkpoint; three gaps, so
  that a walk is restarted twice; three discovery changes, so that a metric is one of
  uptime, something else and one of uptime again; two restarts; two failures and delays
  up to two units, which the code caps at ten failures and five minutes. Priorities only
  restrict which job is selected, so no viewer takes part. Sources are symmetric, and no
  liveness is checked in this run. The proofs of section 6 hold for any number of
  metrics and any bounds.
- *MetricRecoveryLive*: two metrics, one in flight while the other is due; one source, a
  viewer, walks of one batch, no discovery change (a job that discovery ends, ends). No
  symmetry.
- *UptimeRecovery*: pages of two observations and a retention of six give walks
  of three pages; two stalled pages, where the code has three: the walk counts
  them and ends, and the theorems hold for any number. Requests last up to two
  ticks, so a page shifts by up to a whole page while it is in flight. The
  provider keeps up to nine observations, all that a page, the retention and a
  request in flight can tell apart. UptimeRecoveryBulk takes the code's three.
- *ContainerDiscovery*: one host and a page request besides the coordinator, so
  that builds share requests; two changes, so that an event arrives while the
  refresh of another is under way; two lost streams and two failures. Hosts
  interact only in a build, which waits for all of them: the proofs cover any
  number, ContainerDiscoveryHang takes two.
- *RealtimeMetrics*: one browser that may leave, return and
  lose its socket without limit, one sample, one bucket change, one tick; the
  history period 0 is shorter than a tick, so that samples expire before they
  are sent. An outbound limit of two fills within one publication (delta and
  bucket). Browsers share `published` only, which the second run is about.
- *MetricCollection*: two cards with a metric each, one origin, and limits of one,
  so that every second request waits; three items for two children at a time
  give a full batch and one after it; two pages; two collections that overlap
  (`Runs`), the one that threw and the next. A third would only wait behind them,
  and the theorems hold for any number. `Setups` pairs each kind of source
  with the refreshes and failures that matter to it: two refreshes without
  metrics, a refresh and a failure with an uptime metric that is saved, a failure
  while another card's jq metric holds slots, and one setup for each of pages,
  Socket.IO and `for_each`, with and without a login.
- *Dashboard*: two edits between three contents (complete, in error, short), two
  sizes, two stamps; history of two ticks with two rows of uptime, four selections (none,
  uptime alone, samples alone, both), two periods, one discovery
  change or restart, buckets of two ticks and providers one tick ahead; two collections of each
  metric with every answer of `MCReplies`, up to two lines, items or
  observations each. Numbers beyond 100,000 stand for the infinite ones. Values are
  nested up to twelve deep (`MaxDepth`), which is more than any document of the run
  is: the functions over nested values have all their `Parts` for domain, and TLC would
  stop at one that is not in it. Two
  containers of which one may change and one may become visible, a queue of two
  messages, which a snapshot and two changes fill, and refreshes and sockets until
  three messages have been numbered; errors, restarts, lost sockets and visits of
  the page are not limited. The theorems hold for any number of all of these.
- `CHECK_DEADLOCK FALSE` stands in the configurations with `MayHang = TRUE`: once
  a list request hangs and the bounded changes are used up, nothing is left to
  do; and in `Dashboard.cfg`: after a metric is published, and after the last tick
  or collection, nothing happens that is modelled.

## 5. Fairness and assumptions

- *MetricRecovery, `Scheduling`.* Every poll interval makes a target due again
  (strong fairness of `StartCollection`, which is possible only while the worker
  is idle); answers are processed, requests settle by their timeout, time passes
  (weak fairness). Not every collection's transaction is rolled back (strong
  fairness of `StartStep`). That a provider answers is no part of it:
  `ProviderAnswers(k)` is a premise of the properties, for every metric in
  `RecoveryEnds` and for the one metric in `NoProviderBlocks`. The latter also
  needs that nobody watches in the end, as a viewed metric precedes all others by
  design, and that SQLite is writable in the end, since a job
  whose deferral cannot be written keeps its place in the Map.
- *UptimeRecovery, `FairSpec`.* Time passes, requests fail at the latest by their
  timeout, and a walk with nothing left is ended whenever the worker gets to it.
  No request need ever succeed. The property's premise is that gaps are not found
  for ever.
- *UptimeRecovery, `MaxLag`.* The provider answers history pages only if it
  answered page one recently. Without this assumption an outage in which only
  page one fails makes a walk save observations above the outage, and the gap is
  then never detected. The assumption is in the guard `Stepped`, and listed among
  the hazards.
- *ContainerDiscovery, `Fairness`.* Reconnect and debounce timers fire, streams
  deliver, list requests are answered or fail: the socket timeout of 10 seconds.
  A hung request has no timeout left and gets no fairness.
- *RealtimeMetrics, `Fairness`.* Polls go on, timers fire, open sockets carry
  their messages. `SamplesShown` has two premises: the card stays discovered, and
  sockets stay open from some time on.
- *MetricCollection, `Fairness`.* Requests and statistics settle, at the latest by
  their timeouts; the timer fires and time passes; a worker whose card is heard
  goes on, and a collection without workers saves. Nothing is assumed of
  failures, which are bounded by the setup. jq has *no* timeout
  (jq.ts:11): that every expression ends is an assumption, listed among the hazards.
- SQLite's writes are atomic and durable one by one, as its transactions are. In
  *MetricCollection* it throws where a card's custom metrics are read or saved and
  where the collection is saved, the only places where that matters to who is
  awaited; in which statement is left open.
- The clock does not step back.
- The classes of texts in `Yaml` are given, not computed: that `/plex` begins
  with a slash is a constant of the run.

## 6. The proofs

Each theorem holds for all values of the constants that satisfy the named
assumptions of its module: any number of metrics, sources, viewers, hosts,
pages, cards, requests and collections, any walk length, delay, limit, page
size, period and width of buckets. The assumptions say only that numbers are
numbers, limits that divide or index are positive, that `None` is none of the
values it stands beside, and that no two cards share a metric. Those of
`Dashboard` and the modules it composes:

- `NumbersAssumption`: durations and numerals are read as integers, which
  `parseDuration` and `Number` give.
- `PeriodsAssumption`: a number under a period's setting, in file or environment, is
  an integer; the rest of the file is any document.
- `IdsAssumption`: a container's id on its card is its own, and no service's; they are
  made of host and name, and of a prefix and the name of the service.
- `AskedAssumption`: metrics that are asked have been accepted (`Accepted`) and have
  the fields with defaults, which `Built` adds; labels of Prometheus lines are texts.
- `StatsAssumption`: no sum or percentage of Docker's counters, which have 64 bits, is
  infinite.
- `DepthAssumption`: values are followed at least eight levels deep, more than any
  message has.
- `LibraryAssumption`: the program reads every metric of its library, which
  `metrics/test-metric.ts` makes sure of before one is published.
- `ContainersAssumption`: containers have their fields, and their labels are texts.
- `LabelNamesAssumption`: no label of a source, an input or a restriction
  (`dashmark.metrics_source.plex`) has the name of a label that a field of a service
  stands for (`dashmark.title`, `homepage.name`).

TLC evaluates them all on the constants of the runs.

| Module | Theorem | Property |
| --- | --- | --- |
| MetricRecoveryProofs | `TypeCorrect` | `TypeOK` |
| | `NoHistorySkipped` | `CheckpointBehindSaves` |
| | `MemoryAgreesWithDatabase` | `JobAgreesWithRow` |
| | `DelayOnlyAfterFailure` | `BackoffOnlyAfterFailure` |
| | `BackoffNeverForgotten` | `BackoffSurvives`, an action property |
| | `StepBelongsToJob` | `StepMatchesJob` |
| | `LateSavesDropped` | `NoLateSave`, an action property |
| UptimeRecoveryProofs | `WalkTypeCorrect` | `TypeOK` |
| | `GapsRemembered` | `NoGapForgotten`, assuming `FreshAndClose` |
| ContainerDiscoveryProofs | `DiscoveryTypeCorrect` | `TypeOK` |
| | `CachesFollowEvents` | `CacheFollowsEvents` |
| | `NoEventForgotten` | `EventNotForgotten` |
| MetricCollectionProofs | `RequestsImplementSemaphores` | `QueuesKeepTheirLimit`, a refinement |
| | `WithinLimitsAlways` | the counters of the code are within their limits |
| | `NoLostWakeUpAlways` | `NoLostWakeUp` |
| | `TypesAlwaysOK` | `TypeOK` |
| MetricHistoryProofs | `OnlyOldSamplesAreLost` | `OnlyOldSamplesLost`, an action property |
| | `EveryRowExpires` | `EverySampleExpires` |
| | `BucketsAlwaysAgree` | `BucketsAgree` |
| RealtimeMetricsProofs | `TypesKept` | `TypeOK` |
| | `ShownInOrder` | `HistoryInOrder` |
| | `NoSampleLost` | `HistoryComplete` |
| DashboardProofs | `ConfigFollows` | `ConfigFollowsFile` |
| | `ErrorsIsolated` | `BadEntryIsolated` |
| | `NoEntryLost` | `EntriesExplained` |
| | `CollectedKept` | `RetentionKeepsCollected` |
| | `ViewersAgree` | `ViewsAgree` |
| | `AnswersShown` | `AnswersTold` |
| | `OverridesStayReadable` | `OverridesReadable` |
| | `CredentialsByLabels` | `CredentialsPreferLabels` |
| | `InputsFilled` | `NothingSentUnfilled` |
| | `MessagesAccepted` | `MessagesUnderstood` |
| | `ServiceDecides` | `ServiceOverLabels` |
| RealtimeStatusProofs | `StatusInvariant` | what is shown or last on its way is so; versions grow |
| | `StatusesAlwaysFollow` | `StatusesFollow` |
| | `OnlySeenIsSent` | no viewer is told the state of a container they may not see |

**MetricRecovery.** None of the properties is inductive by itself. The row
advances to the checkpoint the *job* has, so that the row skips nothing needs
that the job skips nothing (`JobAgreesWithRow`). The batch that is saved is the
one of the step's *snapshot*, taken before the `await`, so that the job's
advance is justified needs that the snapshot still is the job's
(`StepMatchesJob`). That one needs `OneAtATime`: nobody else queues while a step
is awaited, because collection and step are one single flight, and whatever
discovery does to the job meanwhile clears `live`. `IInv` is the conjunction of
these with `TypeOK` and `BackoffOnlyAfterFailure`; one lemma per action
preserves it. `LateSavesDropped` follows from `StepMatchesJob` and the lemma that
only four actions save (`OnlyStepsSave`). For `BackoffNeverForgotten` the row of a
source that stays is followed through every action: `Enqueue` compares the sources,
and only `Tick` and the end of a step lower what it remembers.

**UptimeRecovery.** `Shape` says that the pages join: the next page begins no
later than right after the oldest observation walked, at rest (`PagesJoin`) and
while a step has been in flight for a while (`FlightJoins`); that polls reuse
nothing, and that the newest observation of the last page one is stored
(`LastPollStored`). `Recovered` adds to `NoGapForgotten` that nothing is
reused from the bulk cache. The core is `StepNoGap`: a page of the walk is
requested after the page before it, the provider has only published since, so
the page begins at or above the oldest observation walked, and the interval that
remains missing shrinks from one side only. `GapQueued` shows that a new gap
takes the older of the two boundaries. `FreshAndClose == Bulk = FALSE /\ MaxLag <=
PageSize` is necessary: the run UptimeRecoveryBulk is the counterexample for the
first half.

**ContainerDiscovery.** To see that no event is forgotten, the refresh in
progress must be known to be new enough: `RefreshFresh` says that what a build
of the coordinator awaits or holds is not older than the last event, or a
further refresh is pending. It rests on `CacheFollowsEvents`, that neither the
cache nor the registered request is older than the last event, and on
`EventsInOrder`, that events follow changes.

**MetricCollection.** The code keeps a counter per queue and not who holds it. The
abstract semaphore speaks of holders, and `QueueInv` connects them: the
counter is the number of those at work, nobody is in a queue twice or waits while
at work. `NextQueues` reduces the next-state relation to steps of one queue
(`Joins`, `Quits`), `StepImplements` maps each to `Enter` or `Leave` of `Semaphores`
or a stutter; that a slot is *handed on* without touching the counter is what
makes `Leave` with a waiter keep `QueueInv`. `NoLostWakeUp` is inductive
together with the types of the planning variables (`TimerInv`): a plan covers every
planned card (`PlanCovers`, from the minimum of finitely many times,
`EarliestIsLeast`), and time lowers timer and due times alike. `TypeOK` is not
inductive: a flow that awaits a jq process stores a page when it comes back, so the
bound on pages needs that a flow reads pages only from a source that has them and
while fewer than the limit are taken. `FlowInv` adds that (`Fits`), and `WorkerInv`
has the types of cards and workers; `FlowNextKeeps` goes through the steps of a flow,
`TakeKeeps` and `BatchSize` through the sizes of batches.

**MetricHistory.** The theorems are about `HistorySpec`, the history part of
`Dashboard`, whose other parts leave these variables alone. What a step deletes it
deletes by a plan (of the collection, of the recovery job) or by a stored retention.
`HistoryInv` adds to the types that each of these four was planned before the last
discovery or has the period of the last discovery (`Current`): then whatever is deleted
by one that is not overtaken is out of the configured period. `EverySampleExpires` is
inductive because each statement that inserts is preceded by one that stores the
retention of that row's table, and discovery deletes a retention only together with the
rows. For the buckets, the two sums over observations are over the same sets
(`BucketTimes` gives the boundaries), and the database's -1 for "no response time"
changes no maximum (`SlowestOfNone`).

**RealtimeMetrics.** Neither property is inductive: they speak of what is shown, and
what will be shown is still on its way. `IInv` therefore describes every place a
history can be in. `OneRecord` says that all of them, the rows, the messages of
either queue and the copies of all browsers, are parts of one record: there is one
assignment of times to samples, rising with their number, that each agrees with. From
it follows that a merge, which cuts by time, cuts by number too, and so keeps order.
For `HistoryComplete` each subscription is followed through its states: what is
closed or not yet greeted carries nothing (`Quiet`); while a snapshot is being
written it is the last message of the queue, the only one with a cursor, and has
every row its cursor covers (`Sending`); when the write is confirmed it is ready,
and the copy as it will be once all messages on the way are applied covers the
cursor (`Ready`). The lemmas they need are about `Only`, the filter of rows, and
`After`, the effect of the messages in turn (`OnlyKeeps`, `FinalAppend`,
`FinalTail`). They are functions defined by recursion over the length
of a sequence, and the lemmas hold by induction over it: since no theorem with an
operator as a parameter can be used, the statement proved by induction is the set
of numbers for which it holds (`SetInduction`, `Recursion`, from the
well-foundedness of the natural numbers). `PollInv` has the longest part: a
poll saves, expires and publishes, and a publication may close some of the sockets
(`Overrun`) and leave the others with a delta from their cursor (`Updated`).

**RealtimeStatus.** The theorems are about `StatusSpec`, the status part of
`Dashboard`. That a page shows the right state once nothing is on its way says
nothing of the moments before, so `StatusInv` speaks of the way: for every
container that is owed, either some message on its way says its state and none after
it says otherwise (`Announced`), or the page shows it and no message says otherwise
(`Confirmed`). That messages are not dropped by the page needs `Rising`: versions
grow along the way and are above the last one received, which a restart of the
server, whose versions start anew, keeps only because the page forgets its own with
every socket. `SentRising` and `DeltasSent` are about what is appended;
`RefreshInv` splits on whether a container changed, `HandleInv` on whether its
message is the one received.

**Dashboard.** The properties are about what functions of the code make of one
another's results, for every document. Two invariants connect them to the
behaviours. `CacheInv` with `FileInv`: the cache is empty or the reading of one
version of the file, and no version carries the stamp of the empty cache; so a load
that keeps the cache (same stamp) goes by *a* version with that stamp, which is all
that the code promises (`ConfigFollows`). `WorldInv`: until the file is edited, file,
containers and environment are those of one world, so a configuration that is
not in error is the parse of an accepted file (`Accounted`). The rest is about
such a file.

- `CollectedKept` first shows that every period is a number, whichever of labels,
  service, file and environment says it (`PeriodOfContainer`, `PeriodOfService`,
  `PeriodOfSettings`), then that a target, which walks containers and services, has
  a card, which another function builds from the same resolved labels, with at
  least its metrics and its period (`RetentionCovers`).
- `NoEntryLost` follows one entry through parsing (`EntriesKept`) and through the
  merge of labels and service (`ResolvedWithMetrics`).
- `ViewersAgree` needs that the ids of cards are apart: the code looks a card up by
  its id in one place and by its container in another (`StatusesAgree`,
  `AccessImpliesCard`, `UsageImpliesCard`).
- `ErrorsIsolated` compares two parses, of the file and of the file without the
  entry. Own metrics are normalised one by one, so the only way one can touch another is
  the check of groups; `GroupOfOwn` shows that the group a flat metric has is the one
  written under `display`, which no field of another section can become, and
  `ConsistentWithout` that metrics of other groups pass or fail as before. That
  overrides are unchanged needs that an own entry is in no override.
- `AnswersShown` goes through the extractors: each gives a failure or a value of the
  metric's type (`ExtractedTyped`, from `ReducedNumber` and `LabelsAreTexts`), a transform
  keeps the type, since what is accepted with a transform is a number
  (`TypeOfAccepted`), and a value of its type is shown (`TypedShown`).

- `OverridesStayReadable` goes through the conditions of `Accepted` one by one: an
  override of the label touches none of them, one of the kind drops the fields that only
  the old kind may have, and the exceptions are the ones that are left.
- `CredentialsByLabels` follows a secret twice, through resolution, where a label becomes
  its `value` (`ReferenceOf`), and through sending, where a written value precedes
  environment and file (`SecretSent`). The headers of a request are among the fields
  that `Accepted` says are texts or secrets, so none is anything else.
- `InputsFilled` and `MessagesAccepted` are about values nested to any depth. The code
  recurses; the model builds the result from the deepest level up (`Rebuilt`), and a
  function on the numbers up to `MaxDepth` can be reasoned about by a plain
  induction on the level. For a body, the invariant of a level says that no value in it names
  an input (`JsonOfInside`, `JsonFilled`), and an input itself is a scalar or a list of
  texts, which has nothing inside that could (`LevelsOfPlain`). For a message, it says
  that the JSON of a part is the part itself where that is simple, and a map or list of
  the JSON of its parts otherwise (`PartsSent`); so each condition of the browser's guard
  carries over from what the server has to what is sent (`MessageSent`).
- `MessagesAccepted` also needs an invariant of the behaviours, `ValuesInv`: what is kept
  between two collections can be shown with whatever comes next. The counters of the
  network rate are finite (`TrafficInv`), saved samples have times and numbers
  (`SavedInv`), and the latest usage is a list of metrics, each of which the browser
  accepts once its history is put in (`UsageInv`), or tells one of the exceptions.
- `ServiceDecides` compares two containers that differ in the labels of one field of the
  service. Every other label is the same (`LabelsApart`), so that parsing differs in what
  the field decides alone (`ParsedBut`) and merging undoes that (`MergedBut`). The long
  part is that labels are also read where metrics are resolved, for secrets: whether a
  metric can be asked for does not depend on any of them (`MetricFails`), and what a card
  shows of a metric is its type, which no label decides (`TypeOfResolved`).

Where the guards of a CASE overlap, its value is not determined in TLA+, and nothing could
be proved of it; such definitions are IF chains in the order of the code.

**Only model-checked**: liveness and everything under fairness, which the prover
does not reach: `SamplesShown`, `CollectedAgain`, `EventsReachCards`, `RecoveryEnds`,
`NoProviderBlocks` and `RecoveryStops`. And one safety property, `LibraryLoads`: it compares
what two readers accept, field by field and over nested values, for forms that the
exceptions of section 4 leave; it is checked for the complete documents of the run and
every document one change away from them.

## 7. Where the code and its documentation disagree

Each of the first five is a run that ends in a counterexample; `PROJECT.json`
quotes the lines.

1. **UptimeRecoveryBulk** (`bulk-metric-history.ts:65`). The walk joins pages on the
   understanding that a later page is taken later. A bulk page is reused for up to a
   minute. A recovery step of another metric of the same source caches one in one run of
   the worker, the poll of a later run finds the gap, and the step after it takes its
   page two from the cache (collections and steps are one single flight, metrics.ts:84,
   so nothing is cached while a poll is on its way). Then page two is older than the
   page one that found the gap; what was published in between is on neither, and the
   walk passes over it.
2. **ContainerDiscoveryReconnect** (`docker.ts:134`). An event deletes the host's
   cached list; a reconnection, which stands for the events that were lost, does
   not. Within 30 seconds of the last listing its refresh reads the old list.
3. **ContainerDiscoveryHistory** (`discovery-coordinator.ts:56`). When one host of
   two answers, discovery reports no error, and the history of every card of the
   other host is deleted as unconfirmed.
4. **ContainerDiscoveryHang** (`docker-api.ts:143`). A connection that closes in
   the middle of an answer settles nothing, and the refresh of all hosts waits.
5. **RealtimeMetricsBuckets** (`realtime-server.ts:248`). `publishedUptimeBuckets`
   is one value per card, moved by a poll for the subscribers whose snapshot has
   been written. A second browser whose snapshot is being written keeps the
   buckets of before, or none.

Met while modelling, and kept as exceptions of properties that hold otherwise:

6. `configuration_invalid` never reaches a card. The parser takes entries in error
   out of a service's entries (config-file-validation.ts:1258); the card looks its
   errors up by the entries that are left (metric-collection/details.ts:24). Only
   the log tells (`EntriesExplained`).
7. A sum of `for_each` over finite values may be infinite, and is not checked where
   the metric has no transform (custom-metric-parsing.ts:155); nor is a rate, whose
   counter may leap by more than the largest number (metrics.ts:34). JSON makes it
   `null`, and the browser drops the card's whole message (status.ts:168,
   realtime-client.ts:42) (`MessagesUnderstood`).
8. A library metric with `notes`, which contributing.md:19 allows, or over Socket.IO
   passes the check and is dropped by the program (`LibraryLoads`).
9. `visible_to: []` is accepted for a resource or a metric of the library
   (config-file-validation.ts:1191, whose message asks for a non-empty list) and
   rejected for a metric of the owner's (line 1246); a service whose `metrics` has
   only `collection` or `sources` loses the default resource statistics
   (docker-card-resolution.ts:55).
10. A status snapshot that is taken while discovery is in error is empty
   (discovery-coordinator.ts:107). Discovery keeps the statuses of before, so when it
   recovers and finds nothing changed, no delta is sent (line 72), and a page that
   connected during the error shows no states until a container changes or its
   socket is renewed. The same holds for a container whose card becomes visible to
   a viewer without a change of state; and that a container is gone is never sent
   (line 71 goes over those that are there). CONTEXT.md:45 promises "an authorized
   status snapshot and deltas" (`untold`, `StatusesFollow`).

## 8. What is not modelled

- In *MetricRecovery*: switching the database path, `ENABLE_METRIC_BACKFILL` off
  (the queue is then not looked at, and gaps of that time are passed over), the
  text of checkpoints and its size limit beyond "invalid fails", and the status
  labels of running recoveries.
- In *UptimeRecovery*: that the metric is taken for another kind meanwhile, whose effect on the
  checkpoint is in *MetricRecovery*; the limit of four cached bulk sources and the halving of
  the page size after a response that is too large.
- In *ContainerDiscovery*: API version negotiation, the order of
  the first refresh and the first connection, and that `refreshMetricRetention`
  throws after the cards were replaced. A refresh that ends with an error is not
  repeated, by design: the error is shown (`EventNotForgotten` says so). Each host
  has one card in every version of its list.
- In *RealtimeMetrics*: full histories for pages of
  older releases and the snapshot cache those share, several cards per socket,
  byte limits, the roll of the bucket window at the hour, a subscription or a delta
  while its card is being removed.
- In *RealtimeStatus*: `show_status` off, viewers without identity (both are in
  `Cards`), the lengths of the back-off, that metrics and statuses share a socket
  and its queue, and `subscribe_status`, which pages no longer send.
- In *MetricCollection*: the forced second collection is lost when one is in
  progress (metrics.ts:84), which is modelled, but nothing is claimed of the first
  network rate; a collection in flight when its card is removed writes
  `latestMetricUsage` of a card nobody asks for. The login steps of a cookie
  session are one step, redirects and byte limits one more way to fail.
- In *MetricHistory*: several cards in one table, whose rows no statement mixes; the
  limit on the points that are shown; the values of rates, which are one formula
  (metrics.ts:34): nothing says what a rate should cover after a transaction that was rolled
  back, when its counter has moved and nothing was saved; targets that a failed
  collection left behind and that save their observations later (the abandoned flows are in
  *MetricCollection*); and a refresh of the retention whose transaction is rolled back.
- In *Configuration* and *Cards*: messages, icons, descriptions, colours and
  suggested categories; the case of names; the settings that only word or style a
  page are texts like any other.
- In *MetricValues*: what a jq program, a selector or a line of Prometheus text
  means, which is part of the answer; and the text `__proto__` as the answer of a state
  metric, for which JavaScript's lookup of its label finds an object.
- In the run of *Dashboard*: secrets that the file writes out, that come from a file, or
  that are missing. `CredentialsByLabels` covers them, for every metric and environment.
- Icons, the browser's own timers (toasts, loading indicators) and rendering:
  lookups by text, libraries' callbacks and layout, better served by the
  repository's tests.
