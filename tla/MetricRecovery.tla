--------------------------- MODULE MetricRecovery ---------------------------
(***************************************************************************)
(* The history recovery queue of src/src/lib/metric-recovery.ts, with the  *)
(* two parties that act on it: the background worker of metrics.ts, which  *)
(* collects the due cards and then takes one recovery step, and discovery, *)
(* which replaces the cards at any moment, also while a page is in flight. *)
(*                                                                         *)
(* A job lives twice: as an object in the Map `jobs`, lost in a restart,   *)
(* and as a row of the SQLite table metric_recovery.  A checkpoint is the  *)
(* number of the batch to fetch next on the adapter's walk through the     *)
(* missing history; batches are numbered 1..MaxPage in walking order.      *)
(* `retryAt` is kept as the time left until it, which Tick reduces in both *)
(* places, so no clock is needed.                                          *)
(***************************************************************************)
EXTENDS Naturals

CONSTANTS
    Keys,         \* the (card, metric) pairs
    Sources,      \* fingerprints of a metric's source configuration
    Viewers,      \* subscriptions that may hold a priority
    MaxPage,      \* the last batch of a walk
    MaxFailures,  \* METRIC_RECOVERY failure count is capped (10 in the code)
    MaxDelay,     \* METRIC_RECOVERY_MAX_RETRY_MS in units of the base delay
    MaxRefreshes, \* bound: discovery changes in a behaviour
    MaxGaps,      \* bound: gaps that collections find
    MaxCrashes,   \* bound: restarts
    None          \* no object, no row, no plan, nothing in flight

Pages == 1..MaxPage
Entry == [source: Sources, checkpoint: Pages, retryIn: 0..MaxDelay, failures: 0..MaxFailures]
Flight == [key: Keys, source: Sources, checkpoint: Pages, live: BOOLEAN]

\* What the last successful discovery says of a metric.
\*   recover  a selected uptime metric whose pagination has `recover`
\*   uptime   a selected uptime metric without it
\*   number   a selected metric of numbers, which has rows in metric_samples
\*   text     a selected metric of strings or states, which has no history
\*   hidden   on a card with show_status false: labelled, neither collected nor retained
\*   gone     no such metric
Uptime == {"recover", "uptime"}
Retained == Uptime \cup {"number"}
Collected == Retained \cup {"text"}
Modes == Collected \cup {"hidden", "gone"}

Plan == [mode: Collected, source: Sources]

ASSUME BoundsAssumption ==
    /\ MaxPage \in Nat \ {0}
    /\ MaxFailures \in Nat \ {0}
    /\ MaxDelay \in Nat \ {0}
    /\ MaxRefreshes \in Nat
    /\ MaxGaps \in Nat
    /\ MaxCrashes \in Nat
ASSUME NoneAssumption == None \notin Entry \cup Flight \cup Plan

VARIABLES
    mode, source,   \* the discovered metrics and their source fingerprints
    jobs,           \* the Map of queued jobs ...
    before,         \* ... and its insertion order: <<j, k>> when j comes before k
    rows,           \* the table metric_recovery
    fetched,        \* batches of the present walk whose observations are in SQLite
    deleted,        \* history: those that were, until discovery deleted them
    viewers,        \* the predicates held in `priorities`
    collecting,     \* collectAndSave is running ...
    plans,          \* ... with these targets still to answer
    inflight,       \* the step recoverNextMetric awaits
    refreshes, gaps, crashes  \* how much of the bounds is used

vars == <<mode, source, jobs, before, rows, fetched, deleted, viewers, collecting, plans,
          inflight, refreshes, gaps, crashes>>
budget == <<refreshes, gaps, crashes>>
discovery == <<mode, source>>
worker == <<collecting, plans, inflight>>

-----------------------------------------------------------------------------
(* The queue's data. *)

Idle == ~collecting /\ inflight = None

Due(k) == jobs[k] # None /\ jobs[k].retryIn = 0

Prioritized(k) == viewers[k] # {}

\* k is the first key of S in the Map's order.
FirstOf(k, S) == k \in S /\ \A j \in S : <<j, k>> \notin before

\* The entry the selection loop leaves in `entry`: the first due job, unless
\* some due job is prioritized, and then the first of those.
Selected(k) ==
    LET due == {d \in Keys : Due(d)}
        viewed == {d \in due : Prioritized(d)}
    IN  FirstOf(k, IF viewed = {} THEN due ELSE viewed)

\* METRIC_RECOVERY_RETRY_BASE_MS * 2 ** failures, at most the maximum.
RetryDelay(f) == IF 2^f \in 0..MaxDelay THEN 2^f ELSE MaxDelay

\* Variants of Failed that are wrong: the count grows without its cap, and the
\* walk starts again in memory only.
Failed_Uncapped(e) == [source |-> e.source, checkpoint |-> e.checkpoint,
                       retryIn |-> RetryDelay(e.failures + 1), failures |-> e.failures + 1]
Failed_Restarts(e) == [source |-> e.source, checkpoint |-> 1,
                       retryIn |-> MaxDelay, failures |-> MaxFailures]

Failed(e) ==
    LET f == IF e.failures + 1 <= MaxFailures THEN e.failures + 1 ELSE MaxFailures
    IN  [source |-> e.source, checkpoint |-> e.checkpoint, retryIn |-> RetryDelay(f), failures |-> f]

Advanced(e) == [source |-> e.source, checkpoint |-> e.checkpoint + 1, retryIn |-> 0, failures |-> 0]

\* One unit of time less until the entry may be retried.
Closer(e) ==
    IF e = None \/ e.retryIn = 0 THEN e
    ELSE [source |-> e.source, checkpoint |-> e.checkpoint, retryIn |-> e.retryIn - 1,
          failures |-> e.failures]

\* The Map's order without the keys in S.
Without(S) == {p \in before : p[1] \notin S /\ p[2] \notin S}

\* Wrong variant: setting an existing key again leaves it where it is.
MovedToEnd_Stays(k) ==
    IF jobs[k] # None THEN before
    ELSE before \cup {<<j, k>> : j \in {q \in Keys \ {k} : jobs[q] # None}}

\* jobs.delete(key) and jobs.set(key, job): k is last from then on.
MovedToEnd(k) == Without({k}) \cup {<<j, k>> : j \in {q \in Keys \ {k} : jobs[q] # None}}

\* Wrong variant: the identity of the job is not compared.
Detached_Ignored(S) == inflight

\* The step in flight after the entry of the keys in S was deleted or replaced:
\* `jobs.get(key) !== job` from now on.
Detached(S) ==
    IF inflight # None /\ inflight.key \in S
    THEN [inflight EXCEPT !.live = FALSE] ELSE inflight

-----------------------------------------------------------------------------
Init ==
    /\ mode \in [Keys -> {"recover"}]
    /\ source \in [Keys -> Sources]
    /\ jobs = [k \in Keys |-> None]
    /\ before = {}
    /\ rows = [k \in Keys |-> None]
    /\ fetched = [k \in Keys |-> {}]
    /\ deleted = [k \in Keys |-> {}]
    /\ viewers = [k \in Keys |-> {}]
    /\ collecting = FALSE
    /\ plans = [k \in Keys |-> None]
    /\ inflight = None
    /\ refreshes = 0 /\ gaps = 0 /\ crashes = 0

\* collectInBackground: single flight; collectAndSave takes the targets that
\* are due, with the configuration discovery has for them now.
StartCollection(due) ==
    /\ Idle
    /\ \A k \in due : mode[k] \in Collected
    /\ collecting' = TRUE
    /\ plans' = [k \in Keys |->
                    IF k \in due THEN [mode |-> mode[k], source |-> source[k]] ELSE None]
    /\ UNCHANGED <<discovery, jobs, before, rows, fetched, deleted, viewers, inflight, budget>>

\* cancelMetricRecovery.
Cancel(k) ==
    /\ jobs' = [jobs EXCEPT ![k] = None]
    /\ before' = Without({k})
    /\ rows' = [rows EXCEPT ![k] = None]

\* Wrong variant of Enqueue: a kept retry time, but a failure count of zero.
Enqueue_ForgetsFailures(k, s, c, cancelled) ==
    LET e == [source |-> s, checkpoint |-> c, failures |-> 0,
              retryIn |-> IF rows[k] # None THEN rows[k].retryIn ELSE 0]
    IN  /\ rows' = [rows EXCEPT ![k] = e]
        /\ jobs' = [jobs EXCEPT ![k] = e]
        /\ before' = IF jobs[k] = None \/ cancelled THEN MovedToEnd(k) ELSE before

\* Wrong variant: the back-off of the row is not kept.
Enqueue_Afresh(k, s, c, cancelled) ==
    LET e == [source |-> s, checkpoint |-> c, failures |-> 0, retryIn |-> 0]
    IN  /\ rows' = [rows EXCEPT ![k] = e]
        /\ jobs' = [jobs EXCEPT ![k] = e]
        /\ before' = IF jobs[k] = None \/ cancelled THEN MovedToEnd(k) ELSE before

\* enqueueMetricRecovery with a checkpoint the Map does not hold: the row keeps
\* its back-off when the source is the same, and the Map gets a new object, at
\* its key's old place unless that was given up.
Enqueue(k, s, c, cancelled) ==
    LET kept == rows[k] # None /\ rows[k].source = s
        e == [source |-> s, checkpoint |-> c,
              retryIn |-> IF kept THEN rows[k].retryIn ELSE 0,
              failures |-> IF kept THEN rows[k].failures ELSE 0]
    IN  /\ rows' = [rows EXCEPT ![k] = e]
        /\ jobs' = [jobs EXCEPT ![k] = e]
        /\ before' = IF jobs[k] = None \/ cancelled THEN MovedToEnd(k) ELSE before

\* queuePaginatedUptimeRecovery when page one does not reach the stored
\* history: the walk starts again.  savedMetricRecovery has cancelled a job of
\* another source by then, which also gives up its place in the Map.  (A page one
\* that was queued and could not be saved gives the same checkpoint once more,
\* which enqueueMetricRecovery leaves as it is: that is QueueSaved.)
QueueGap(k, s) ==
    /\ gaps < MaxGaps
    /\ gaps' = gaps + 1
    /\ fetched' = [fetched EXCEPT ![k] = {}]
    /\ deleted' = [deleted EXCEPT ![k] = {}]
    /\ Enqueue(k, s, 1, rows[k] # None /\ rows[k].source # s)

\* Wrong variants of QueueSaved: the checkpoint of another source is resumed,
\* and a row that no job in memory stands for is not queued again.
QueueSaved_AnySource(k, s) ==
    /\ UNCHANGED <<fetched, deleted, gaps>>
    /\ \/ rows[k] = None /\ UNCHANGED <<jobs, before, rows>>
       \/ rows[k] # None /\ Enqueue(k, s, rows[k].checkpoint, FALSE)
QueueSaved_NotResumed(k, s) == UNCHANGED <<fetched, deleted, gaps, jobs, before, rows>>

\* queuePaginatedUptimeRecovery without a gap: the saved checkpoint, if the
\* source still is the one it was saved for, is queued again.
QueueSaved(k, s) ==
    /\ UNCHANGED <<fetched, deleted, gaps>>
    /\ \/ rows[k] = None /\ UNCHANGED <<jobs, before, rows>>
       \/ rows[k] # None /\ rows[k].source # s /\ Cancel(k)
       \/ /\ rows[k] # None /\ rows[k].source = s
          /\ IF /\ jobs[k] # None
                /\ jobs[k].source = s
                /\ jobs[k].checkpoint = rows[k].checkpoint
             THEN UNCHANGED <<jobs, before, rows>>
             ELSE Enqueue(k, s, rows[k].checkpoint, FALSE)

\* A metric that is no uptime metric is cancelled while its job is in memory; a
\* row that no restart has queued again stays.
CancelQueued(k) ==
    IF jobs[k] # None THEN Cancel(k) ELSE UNCHANGED <<jobs, before, rows>>

\* The answer for one target of the collection, or its error, is processed.
\* The target may have left discovery since the collection began.
CollectKey(k) ==
    /\ collecting /\ plans[k] # None
    /\ plans' = [plans EXCEPT ![k] = None]
    /\ \/ plans[k].mode = "recover" /\ QueueGap(k, plans[k].source)
       \/ plans[k].mode = "recover" /\ QueueSaved(k, plans[k].source)
       \/ plans[k].mode = "uptime" /\ Cancel(k) /\ UNCHANGED <<fetched, deleted, gaps>>
       \/ plans[k].mode \notin Uptime /\ CancelQueued(k) /\ UNCHANGED <<fetched, deleted, gaps>>
    /\ UNCHANGED <<discovery, viewers, collecting, inflight, refreshes, crashes>>

AllCollected == collecting /\ \A k \in Keys : plans[k] = None

\* recoverNextMetric finds nothing to do.
NothingDue ==
    /\ AllCollected
    /\ \A k \in Keys : ~Due(k)
    /\ collecting' = FALSE
    /\ UNCHANGED <<discovery, jobs, before, rows, fetched, deleted, viewers, plans, inflight, budget>>

\* The transaction that saves the collection throws and is rolled back: what was
\* queued stays queued, and this run of the worker takes no recovery step.
CollectionFails ==
    /\ AllCollected
    /\ collecting' = FALSE
    /\ UNCHANGED <<discovery, jobs, before, rows, fetched, deleted, viewers, plans, inflight, budget>>

\* recoverNextMetric selects a job and awaits job.recover(job.checkpoint).
StartStep(k) ==
    /\ AllCollected
    /\ Selected(k)
    /\ collecting' = FALSE
    /\ inflight' = [key |-> k, source |-> jobs[k].source,
                    checkpoint |-> jobs[k].checkpoint, live |-> TRUE]
    /\ UNCHANGED <<discovery, jobs, before, rows, fetched, deleted, viewers, plans, budget>>

\* The step settles after its job was cancelled or replaced: nothing is applied.
DropStep ==
    /\ inflight # None /\ ~inflight.live
    /\ inflight' = None
    /\ UNCHANGED <<discovery, jobs, before, rows, fetched, deleted, viewers, collecting, plans, budget>>

StepOf(k) == inflight # None /\ inflight.live /\ inflight.key = k

Saved(k) == [fetched EXCEPT ![k] = @ \cup {<<inflight.source, inflight.checkpoint>>}]

\* An UPDATE of metric_recovery, which may find no row: the source stays, the
\* failures and the retry are those of the job.
Stored(k, c, job) ==
    IF rows[k] = None THEN rows
    ELSE [rows EXCEPT ![k] = [source |-> rows[k].source, checkpoint |-> c,
                              retryIn |-> job.retryIn, failures |-> job.failures]]

\* result.save(), then the new checkpoint in memory and in the row.
AdvanceStep(k) ==
    /\ StepOf(k)
    /\ inflight.checkpoint < MaxPage
    /\ fetched' = Saved(k)
    /\ jobs' = [jobs EXCEPT ![k] = Advanced(@)]
    /\ rows' = Stored(k, jobs'[k].checkpoint, jobs'[k])
    /\ before' = MovedToEnd(k)
    /\ inflight' = None
    /\ UNCHANGED <<discovery, deleted, viewers, collecting, plans, budget>>

\* Wrong variant of CompleteStep: a cancelled job's page is saved as well.
CompleteStep_Unchecked(k) ==
    /\ inflight # None /\ inflight.key = k
    /\ fetched' = Saved(k)
    /\ jobs' = [jobs EXCEPT ![k] = None]
    /\ rows' = [rows EXCEPT ![k] = None]
    /\ before' = Without({k})
    /\ inflight' = None
    /\ UNCHANGED <<discovery, deleted, viewers, collecting, plans, budget>>

\* result.save(), then the job is done: overlap, retention or the last page.
CompleteStep(k) ==
    /\ StepOf(k)
    /\ fetched' = Saved(k)
    /\ jobs' = [jobs EXCEPT ![k] = None]
    /\ rows' = [rows EXCEPT ![k] = None]
    /\ before' = Without({k})
    /\ inflight' = None
    /\ UNCHANGED <<discovery, deleted, viewers, collecting, plans, budget>>

\* The step rejects, returns an invalid checkpoint, or result.save() throws.
DeferStep(k) ==
    /\ StepOf(k)
    /\ jobs' = [jobs EXCEPT ![k] = Failed(@)]
    /\ rows' = Stored(k, rows[k].checkpoint, jobs'[k])
    /\ before' = MovedToEnd(k)
    /\ inflight' = None
    /\ UNCHANGED <<discovery, fetched, deleted, viewers, collecting, plans, budget>>

\* result.save() succeeds and the UPDATE or DELETE of the row throws.  The
\* checkpoint in memory has advanced by then; the catch clause defers the job,
\* and its own UPDATE may throw as well, before the job is moved to the end.
CommitFails(k) ==
    /\ StepOf(k)
    /\ rows[k] # None
    /\ fetched' = Saved(k)
    /\ \/ inflight.checkpoint < MaxPage /\ jobs' = [jobs EXCEPT ![k] = Failed(Advanced(@))]
       \/ jobs' = [jobs EXCEPT ![k] = Failed(@)]
    /\ \/ /\ rows' = Stored(k, rows[k].checkpoint, jobs'[k])
          /\ before' = MovedToEnd(k)
       \/ UNCHANGED <<rows, before>>
    /\ inflight' = None
    /\ UNCHANGED <<discovery, deleted, viewers, collecting, plans, budget>>

-----------------------------------------------------------------------------
(* Everything around the worker. *)

\* refreshMetricRetention, given the observations saved until then: those of
\* metrics that are no uptime metrics go, and the recovery rows of metrics that
\* have no history of any kind.  A metric that has become a number loses its
\* observations and keeps its row.
RefreshRetention(m, saved) ==
    /\ rows' = [k \in Keys |-> IF m[k] \in Retained THEN rows[k] ELSE None]
    /\ fetched' = [k \in Keys |-> IF m[k] \in Uptime THEN saved[k] ELSE {}]
    /\ deleted' = [k \in Keys |-> IF m[k] \in Uptime THEN deleted[k] ELSE deleted[k] \cup saved[k]]

\* refresh() of the discovery coordinator with new cards: the card listeners
\* prune the queue of unlabelled metrics, then the retention is refreshed.
Refresh(m, s) ==
    LET gone == {k \in Keys : m[k] = "gone"}
    IN  /\ refreshes < MaxRefreshes
        /\ refreshes' = refreshes + 1
        /\ mode' = m
        /\ source' = s
        /\ jobs' = [k \in Keys |-> IF k \in gone THEN None ELSE jobs[k]]
        /\ before' = Without(gone)
        /\ inflight' = Detached(gone)
        /\ RefreshRetention(m, fetched)
        /\ UNCHANGED <<viewers, collecting, plans, gaps, crashes>>

\* retainMetricRecoveryPriority and the release it returns.
Retain(v, k) ==
    /\ v \notin viewers[k]
    /\ viewers' = [viewers EXCEPT ![k] = @ \cup {v}]
    /\ UNCHANGED <<discovery, jobs, before, rows, fetched, deleted, worker, budget>>

Release(v, k) ==
    /\ v \in viewers[k]
    /\ viewers' = [viewers EXCEPT ![k] = @ \ {v}]
    /\ UNCHANGED <<discovery, jobs, before, rows, fetched, deleted, worker, budget>>

Tick ==
    /\ \E k \in Keys : Closer(jobs[k]) # jobs[k] \/ Closer(rows[k]) # rows[k]
    /\ jobs' = [k \in Keys |-> Closer(jobs[k])]
    /\ rows' = [k \in Keys |-> Closer(rows[k])]
    /\ UNCHANGED <<discovery, before, fetched, deleted, viewers, worker, budget>>

\* The process ends and starts again: SQLite is all that is left, and the first
\* discovery, which finds the same cards, refreshes the retention.
Restart(saved) ==
    /\ crashes < MaxCrashes
    /\ crashes' = crashes + 1
    /\ jobs' = [k \in Keys |-> None]
    /\ before' = {}
    /\ viewers' = [k \in Keys |-> {}]
    /\ collecting' = FALSE
    /\ plans' = [k \in Keys |-> None]
    /\ inflight' = None
    /\ RefreshRetention(mode, saved)
    /\ UNCHANGED <<discovery, refreshes, gaps>>

Crash == Restart(fetched)

\* The process ends between result.save(), a transaction of its own, and the
\* UPDATE of the checkpoint.
CrashAfterSave(k) == StepOf(k) /\ Restart(Saved(k))

Next ==
    \/ \E due \in SUBSET Keys : StartCollection(due)
    \/ \E k \in Keys : CollectKey(k) \/ StartStep(k)
    \/ NothingDue
    \/ CollectionFails
    \/ DropStep
    \/ \E k \in Keys : AdvanceStep(k) \/ CompleteStep(k) \/ DeferStep(k) \/ CommitFails(k)
    \/ \E m \in [Keys -> Modes], s \in [Keys -> Sources] : Refresh(m, s)
    \/ \E v \in Viewers, k \in Keys : Retain(v, k) \/ Release(v, k)
    \/ Tick
    \/ Crash
    \/ \E k \in Keys : CrashAfterSave(k)

Spec == Init /\ [][Next]_vars

\* Timers fire: the worker runs whenever something is due, and a target is due
\* again after its poll interval.  A request is answered or times out.  Not
\* every collection is rolled back.
Scheduling ==
    /\ \A k \in Keys :
        /\ SF_vars(\E due \in SUBSET Keys : k \in due /\ StartCollection(due))
        /\ WF_vars(CollectKey(k))
    /\ SF_vars(\E k \in Keys : StartStep(k))
    /\ WF_vars(\E k \in Keys : AdvanceStep(k) \/ CompleteStep(k) \/ DeferStep(k) \/ CommitFails(k))
    /\ WF_vars(NothingDue)
    /\ WF_vars(DropStep)
    /\ WF_vars(Tick)

\* The provider of k does not fail for ever.
ProviderAnswers(k) == SF_vars(AdvanceStep(k) \/ CompleteStep(k))

ScheduledSpec == Spec /\ Scheduling

-----------------------------------------------------------------------------
(* Properties. *)

\* Every variable has its type.
TypeOK ==
    /\ mode \in [Keys -> Modes]
    /\ source \in [Keys -> Sources]
    /\ jobs \in [Keys -> Entry \cup {None}]
    /\ before \in SUBSET (Keys \X Keys)
    /\ rows \in [Keys -> Entry \cup {None}]
    /\ fetched \in [Keys -> SUBSET (Sources \X Pages)]
    /\ deleted \in [Keys -> SUBSET (Sources \X Pages)]
    /\ viewers \in [Keys -> SUBSET Viewers]
    /\ collecting \in BOOLEAN
    /\ plans \in [Keys -> Plan \cup {None}]
    /\ inflight \in Flight \cup {None}
    /\ refreshes \in 0..MaxRefreshes
    /\ gaps \in 0..MaxGaps
    /\ crashes \in 0..MaxCrashes

\* All batches before the checkpoint were fetched from its source and saved, and
\* are in the database, unless discovery has deleted them since.
SavedBefore(k, e) ==
    \A p \in 1..(e.checkpoint - 1) : <<e.source, p>> \in fetched[k] \cup deleted[k]

\* What a restart resumes from never skips history: all batches before the
\* checkpoint in the database were fetched from the source the checkpoint
\* belongs to and are saved.  The save and the checkpoint are two writes, so
\* their order, a crash between them, an error between them and a changed source
\* all matter.  The one way a batch may be missing is that the metric was taken
\* for a number after the batch was saved.
CheckpointBehindSaves == \A k \in Keys : rows[k] # None => SavedBefore(k, rows[k])

\* The job in memory and its row are for the same source, the row is never
\* ahead of the job, and the job skips no history either.  A failed write may
\* leave the row behind the job; collection, restart and refresh write both.
JobAgreesWithRow ==
    \A k \in Keys : jobs[k] # None /\ rows[k] # None =>
        /\ rows[k].source = jobs[k].source
        /\ rows[k].checkpoint <= jobs[k].checkpoint
        /\ SavedBefore(k, jobs[k])

\* While a step is in flight and its job has not been cancelled, the job is
\* still the one the step was started for, at the checkpoint it was given.
StepMatchesJob ==
    inflight # None /\ inflight.live =>
        /\ jobs[inflight.key] # None
        /\ jobs[inflight.key].source = inflight.source
        /\ jobs[inflight.key].checkpoint = inflight.checkpoint

\* Only failures delay a job, in memory or in the database, and the delay
\* never exceeds the one its failure count gives: "no fixed delay after
\* successful pages", also across replaced checkpoints and restarts.
BackoffOnlyAfterFailure ==
    \A k \in Keys : \A e \in {jobs[k], rows[k]} \ {None} :
        /\ e.failures = 0 => e.retryIn = 0
        /\ e.retryIn <= RetryDelay(e.failures)

\* A failing provider is not asked sooner because its job is queued again, for a
\* new gap, after a restart or after other cards were discovered: of a source that
\* stays, the failures and the delay in the database shrink only as time passes
\* or when a step of the job settles.
BackoffSurvives ==
    [][\A k \in Keys :
            rows[k] # None /\ rows'[k] # None /\ rows'[k].source = rows[k].source =>
                \/ rows'[k].failures >= rows[k].failures /\ rows'[k].retryIn >= rows[k].retryIn
                \/ rows'[k] = Closer(rows[k])
                \/ StepOf(k) /\ inflight' = None]_vars

\* A page is saved only for a job that is queued, from that job's source and at
\* its checkpoint: a page in flight for a removed metric is dropped.
NoLateSave ==
    [][\A k \in Keys : fetched'[k] \ fetched[k] # {} =>
            /\ jobs[k] # None
            /\ fetched'[k] \ fetched[k] = {<<jobs[k].source, jobs[k].checkpoint>>}]_vars

\* From some time on there is a metric to collect: without one no timer runs.
WorkerRuns == <>[](\E k \in Keys : mode[k] \in Collected)

\* The walk is over.  The row of a metric that has become a number is no walk any
\* more: nothing queues it, and after a restart nothing deletes it.
Over(k) == rows[k] = None \/ mode[k] = "number"

\* Recovery ends: when every provider answers now and then, a row is completed
\* or cancelled, whatever the viewers, the other jobs, the failures and the
\* restarts do.
RecoveryEnds ==
    WorkerRuns /\ (\A k \in Keys : ProviderAnswers(k)) =>
        \A k \in Keys : rows[k] # None ~> Over(k)

\* "Rotates providers fairly": once nobody watches, one provider that answers
\* is enough for its own metric to be recovered, even when the jobs queued
\* before it fail on every retry.  SQLite must be writable again at some point:
\* a job whose deferral cannot be written keeps its place in the Map.
NoProviderBlocks ==
    /\ WorkerRuns
    /\ <>[](\A k \in Keys : viewers[k] = {})
    /\ <>[][\A k \in Keys : ~CommitFails(k)]_vars
    =>
        \A k \in Keys : ProviderAnswers(k) => (rows[k] # None ~> Over(k))
=============================================================================
