--------------------------- MODULE MetricHistory ----------------------------
(***************************************************************************)
(* The stored history of metrics (metrics-storage.ts) with what fills it:  *)
(* a collection starts with the selection of metrics of its time and ends  *)
(* later (metrics.ts).  Observations of uptime are saved as soon as they   *)
(* are answered; the samples of all other metrics are saved in one         *)
(* transaction, which first deletes what is too old.  Discovery refreshes  *)
(* the selection and the retention meanwhile.  Uptime is shown in buckets, *)
(* counterRead by the database or by uptime-buckets.ts.  One card; its metrics *)
(* are resources, a counter shown as a rate, and uptime.                   *)
(***************************************************************************)
EXTENDS Integers, FiniteSets, TLC

StoredKeys == {"resource", "rate", "uptime"}
SampleKeys == StoredKeys \ {"uptime"}

CONSTANTS
    Selections,    \* sets of metrics a card may have; empty without the card
    Periods,       \* periods a card's history may be configured to cover
    UptimePeriod,  \* what uptime covers at least
    Statuses,      \* "up", "down", "unknown"
    Responses,     \* response times; the database holds -1 for none
    BucketMs, BucketCount,
    MaxTime, MaxChanges, MaxRows, MaxAhead

ASSUME HistoryAssumption ==
    /\ Selections \subseteq SUBSET StoredKeys
    /\ Periods \subseteq Nat \ {0} /\ UptimePeriod \in Nat \ {0}
    /\ Responses \subseteq Nat
    /\ BucketMs \in Nat \ {0} /\ BucketCount \in Nat \ {0}
    /\ MaxTime \in Nat /\ MaxAhead \in Nat

VARIABLES
    now,
    changes,     \* how many discoveries there were after the first
    selected,    \* the metrics discovery last found on the card; empty without the card
    period,      \* and the period of its history
    flight,      \* the collection under way: what was planned, after how many discoveries
    recoveryJob, \* the queued job that saves older observations, with the plan it was queued for
    counterRead, \* when the counter's last value was read, if there is one
    samples,     \* rows of resource_metrics and metric_samples
    observed,    \* rows of uptime_observations
    retention,   \* the row of card_metric_retention, with the discoveries its period was planned after
    uptimeKept   \* the row of uptime_metric_retention, likewise

historyVars == <<now, changes, selected, period, flight, recoveryJob, counterRead, samples, observed, retention, uptimeKept>>

Nothing == [none |-> TRUE]
MaxOf(a, b) == IF a > b THEN a ELSE b

-----------------------------------------------------------------------------
(* Saving and deleting.                                                    *)

\* counterRates: the first value, and one of the same time, is pending.
Pending == counterRead = Nothing \/ now <= counterRead.timestamp

\* Wrong variant: a sample as old as the period goes.
Saved_Exclusive(rows, keys, p) ==
    {r \in rows \cup [key : keys, timestamp : {now}] : r.key \in keys => r.timestamp > now - p}

\* saveResourceMetric and saveMetricSample, whose deletions cover their own metric.
Saved(rows, keys, p) ==
    {r \in rows \cup [key : keys, timestamp : {now}] : r.key \in keys => r.timestamp >= now - p}

UptimeRetention(p) == MaxOf(p, UptimePeriod)

\* saveUptimeObservationHistory: the same observation again is ignored.
SavedObservations(rows, observations, p) ==
    {r \in rows \cup observations : r.timestamp >= now - UptimeRetention(p)}

\* pruneMetricHistory, by the retention the database holds.
Pruned(rows, kept) == IF kept = Nothing THEN rows ELSE {r \in rows : r.timestamp >= now - kept.period}

\* A period, with the discoveries it was planned after.
Planned(p, since) == [period |-> p, since |-> since]

\* The rows refreshMetricRetention leaves for a selection.
Retention(found, p, since) == IF found \cap SampleKeys # {} THEN Planned(p, since) ELSE Nothing
UptimeKept(found, p, since) == IF "uptime" \in found THEN Planned(UptimeRetention(p), since) ELSE Nothing

-----------------------------------------------------------------------------
(* Actions.                                                                *)

HistoryInit ==
    /\ now = 0 /\ changes = 0
    /\ selected \in Selections /\ period \in Periods
    /\ flight = Nothing /\ recoveryJob = Nothing /\ counterRead = Nothing
    /\ samples = {} /\ observed = {}
    /\ retention = Retention(selected, period, 0) /\ uptimeKept = UptimeKept(selected, period, 0)

\* A collection plans with the selection of the moment.
CollectionStarts ==
    /\ flight = Nothing /\ selected # {}
    /\ flight' = [selected |-> selected, period |-> period, since |-> changes, unanswered |-> "uptime" \in selected]
    /\ UNCHANGED <<now, changes, selected, period, recoveryJob, counterRead, samples, observed, retention, uptimeKept>>

Observations(last) == [timestamp : 0..last, status : Statuses, response : Responses \cup {-1}]

\* What a provider answers: one observation or none, while there is room.
Answers(last) == {{}} \cup {{o} : o \in {p \in Observations(last) : Cardinality(observed \cup {p}) <= MaxRows}}

\* saveUptimeObservationHistory of what was planned: the retention is saved, then the
\* observations in a transaction, which may fail.
ObservationsSaved(plan, last) ==
    /\ uptimeKept' = Planned(UptimeRetention(plan.period), plan.since)
    /\ \E answer \in Answers(last) : observed' = SavedObservations(observed, answer, plan.period)
ObservationsFail(plan) ==
    /\ uptimeKept' = Planned(UptimeRetention(plan.period), plan.since)
    /\ UNCHANGED observed

\* The provider of uptime fails, or answers a collection: then the observations, which
\* may be ahead of the clock, are saved.  A job of recovery is queued or renewed before,
\* or there is none.
UptimeAnswered ==
    /\ flight # Nothing /\ flight.unanswered
    /\ recoveryJob' \in {Nothing, Planned(flight.period, flight.since)}
    /\ \/ flight' = [flight EXCEPT !.unanswered = FALSE] /\ UNCHANGED <<observed, uptimeKept>>
       \/ flight' = [flight EXCEPT !.unanswered = FALSE] /\ ObservationsSaved(flight, now + MaxAhead)
       \/ flight' = Nothing /\ ObservationsFail(flight)
    /\ UNCHANGED <<now, changes, selected, period, counterRead, samples, retention>>

\* A step of the queued job saves older observations, once the collection has ended.
RecoverySaves ==
    /\ flight = Nothing /\ recoveryJob # Nothing
    /\ \/ recoveryJob' \in {Nothing, recoveryJob} /\ ObservationsSaved(recoveryJob, now)
       \/ recoveryJob' = recoveryJob /\ ObservationsFail(recoveryJob)
    /\ UNCHANGED <<now, changes, selected, period, flight, counterRead, samples, retention>>

\* Wrong variant: only discovery saves the retention.
Commit_Unretained(saved) ==
    /\ samples' = Saved(Pruned(samples, retention), saved, flight.period)
    /\ observed' = Pruned(observed, uptimeKept)
    /\ retention' = retention

\* The answers to a collection are saved: a rate only when it is not pending.
\* What is too old by the stored retention goes first.
Commit(saved) ==
    /\ samples' = Saved(Pruned(samples, retention), saved, flight.period)
    /\ observed' = Pruned(observed, uptimeKept)
    /\ retention' = IF saved = {} THEN retention ELSE Planned(flight.period, flight.since)

\* collectAndSave once all targets have answered or failed.  The counter is read
\* before the transaction, which may be rolled back.
CollectionEnds ==
    \E answered \in SUBSET (flight.selected \cap SampleKeys) :
        /\ counterRead' = IF "rate" \in answered THEN [timestamp |-> now] ELSE counterRead
        /\ \/ Commit(IF Pending THEN answered \ {"rate"} ELSE answered)
           \/ UNCHANGED <<samples, observed, retention>>
        /\ flight' = Nothing
        /\ UNCHANGED <<now, changes, selected, period, recoveryJob, uptimeKept>>

KeptFor(rows, found) == {r \in rows : r.key \in found}

\* refreshMetricRetention after a discovery that found these metrics on the card.
RefreshRetention(found, p) ==
    /\ changes < MaxChanges
    /\ changes' = changes + 1
    /\ selected' = found /\ period' = p
    /\ retention' = Retention(found, p, changes') /\ uptimeKept' = UptimeKept(found, p, changes')
    /\ samples' = Pruned(KeptFor(samples, found), retention')
    /\ observed' = Pruned(IF "uptime" \in found THEN observed ELSE {}, uptimeKept')
    /\ UNCHANGED now

\* discardRemovedMetricState drops the counter and the job of a metric that is gone;
\* a hidden card has no retention and keeps them, and a metric that is no longer
\* one of uptime keeps the job.
DiscoveryRefreshes(found, p) ==
    /\ RefreshRetention(found, p)
    /\ \/ counterRead' = counterRead /\ ("rate" \in found \/ found = {})
       \/ counterRead' = Nothing /\ "rate" \notin found
    /\ \/ recoveryJob' = recoveryJob
       \/ recoveryJob' = Nothing /\ "uptime" \notin found
    /\ UNCHANGED flight

\* The process ends and starts again, with a discovery of what the card is by then.
Restarts(found, p) ==
    /\ RefreshRetention(found, p)
    /\ flight' = Nothing /\ recoveryJob' = Nothing /\ counterRead' = Nothing

Tick ==
    /\ now < MaxTime
    /\ now' = now + 1
    /\ UNCHANGED <<changes, selected, period, flight, recoveryJob, counterRead, samples, observed, retention, uptimeKept>>

HistoryNext ==
    \/ CollectionStarts
    \/ UptimeAnswered \/ RecoverySaves
    \/ flight # Nothing /\ ~flight.unanswered /\ CollectionEnds
    \/ \E found \in Selections, p \in Periods : DiscoveryRefreshes(found, p) \/ Restarts(found, p)
    \/ Tick

HistorySpec == HistoryInit /\ [][HistoryNext]_historyVars

-----------------------------------------------------------------------------
(* What is shown.                                                          *)

BucketStatus(successes, failures) ==
    CASE failures > 0 /\ successes > 0 -> "mixed"
      [] failures > 0 /\ successes = 0 -> "down"
      [] failures = 0 /\ successes > 0 -> "up"
      [] OTHER -> "unknown"

Slowest(responses) == IF responses = {} THEN -1 ELSE CHOOSE r \in responses : \A s \in responses : r >= s

\* The end of the buckets is that of the current one, or its start while it is left out and empty.
BucketsEnd(observations, includeCurrent) ==
    LET current == (now \div BucketMs) * BucketMs
        seen == \E o \in observations : o.timestamp \in current..now
    IN  IF includeCurrent \/ seen THEN current + BucketMs ELSE current

\* Wrong variant: an observation at the start of a bucket is of the one before.
InBucket_Late(o, start, i) == (o.timestamp - start - 1) \div BucketMs = i

InBucket(o, start, i) == (o.timestamp - start) \div BucketMs = i

Bucket(start, i, successes, failures, slowest) ==
    [start |-> start + i * BucketMs, end |-> start + (i + 1) * BucketMs, successes |-> successes, failures |-> failures,
     status |-> BucketStatus(successes, failures), slowest |-> slowest]

\* aggregateUptimeBuckets goes through the observations.
AggregatedBuckets(observations, includeCurrent) ==
    LET end == BucketsEnd(observations, includeCurrent)
        start == end - BucketMs * BucketCount
        in(i) == {o \in observations : o.timestamp \in start..end - 1 /\ InBucket(o, start, i)}
        count(i, status) == Cardinality({o \in in(i) : o.status = status})
    IN  [i \in 0..BucketCount - 1 |->
            Bucket(start, i, count(i, "up"), count(i, "down"), Slowest({o.response : o \in in(i)} \ {-1}))]

\* getUptimeBucketHistory lets the database group them; a bucket with no row stays as it was.
StoredBuckets ==
    LET empty == AggregatedBuckets({}, TRUE)
        start == empty[0].start
        rows(i) == {o \in observed : o.timestamp \in start..empty[BucketCount - 1].end - 1 /\ (o.timestamp - start) \div BucketMs = i}
        count(i, status) == Cardinality({o \in rows(i) : o.status = status})
    IN  [i \in 0..BucketCount - 1 |->
            IF rows(i) = {} THEN empty[i]
            ELSE Bucket(start, i, count(i, "up"), count(i, "down"), Slowest({o.response : o \in rows(i)}))]

-----------------------------------------------------------------------------
(* Properties.                                                             *)

(* The buckets counted by the database are those that uptime-buckets.ts     *)
(* counts from the same observations, whatever their times, statuses and   *)
(* response times; a snapshot is sent one or the other                     *)
(* (realtime-metrics-snapshot.ts:50, metrics-storage.ts:206).              *)
BucketsAgree == StoredBuckets = AggregatedBuckets(observed, TRUE)

\* What was planned before the last discovery.
Overtaken(plan) == plan # Nothing /\ plan.since # changes

OutOf(row, p) == row.timestamp < now - p

(* Of metrics that stay selected, a step loses only what the period        *)
(* configured now does not cover.  The exception is what a discovery has   *)
(* overtaken: a collection or a recovery job deletes by the period it was  *)
(* planned with and stores that as the retention, by which every           *)
(* collection deletes until one planned since has saved or discovery comes *)
(* again (metrics-storage.ts:128, 161, 261).                               *)
OnlyOldSamplesLost ==
    [][/\ \A r \in samples \ samples' :
            \/ r.key \notin selected' \/ OutOf(r, period')
            \/ changes' = changes /\ \E plan \in {flight, retention} : Overtaken(plan) /\ OutOf(r, plan.period)
       /\ \A r \in observed \ observed' :
            \/ "uptime" \notin selected' \/ OutOf(r, UptimeRetention(period'))
            \/ changes' = changes /\ \E plan \in {flight, recoveryJob, uptimeKept} :
                                      Overtaken(plan) /\ OutOf(r, UptimeRetention(plan.period))]_historyVars

(* No row stays for ever: as long as the database holds samples or          *)
(* observations of a card, it holds the retention by which they are deleted *)
(* later, also for those that a collection saves after a discovery has      *)
(* found their metric gone and deleted its retention                        *)
(* (metrics-storage.ts:125, 238, 301).                                      *)
EverySampleExpires ==
    /\ samples # {} => retention # Nothing
    /\ observed # {} => uptimeKept # Nothing
=============================================================================
