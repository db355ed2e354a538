------------------------ MODULE MetricHistoryProofs -------------------------
(***************************************************************************)
(* Proofs about the stored history: what a step may lose, that every row   *)
(* expires, and that the two ways of counting uptime buckets agree, for    *)
(* any periods, bucket widths and numbers of buckets.                      *)
(***************************************************************************)
EXTENDS MetricHistory, TLAPS

UptimePeriods == {UptimeRetention(p) : p \in Periods}
Plans == [selected : SUBSET StoredKeys, period : Periods, since : Int, unanswered : BOOLEAN]
Rows(periods) == [period : periods, since : Int]

\* What was planned after the last discovery has the period of the last discovery.
Current(plan, p) ==
    plan # Nothing => plan.since <= changes /\ (plan.since = changes => plan.period = p)

TypesOK ==
    /\ now \in Int /\ changes \in Int
    /\ selected \subseteq StoredKeys /\ period \in Periods
    /\ flight \in Plans \cup {Nothing}
    /\ recoveryJob \in Rows(Periods) \cup {Nothing}
    /\ samples \subseteq [key : SampleKeys, timestamp : Int]
    /\ observed \subseteq [timestamp : Int, status : Statuses, response : Responses \cup {-1}]
    /\ retention \in Rows(Periods) \cup {Nothing}
    /\ uptimeKept \in Rows(UptimePeriods) \cup {Nothing}

\* The inductive invariant.  A step deletes by a plan or by a stored row; that
\* loses only what is old enough when each of these either has the period of the
\* last discovery or is older than that discovery.
HistoryInv ==
    /\ TypesOK
    /\ Current(flight, period) /\ Current(recoveryJob, period)
    /\ Current(retention, period) /\ Current(uptimeKept, UptimeRetention(period))
    /\ EverySampleExpires

\* A plan or a row is not the value that stands for none.
LEMMA NotNothing ==
    /\ \A f \in Plans : f # Nothing
    /\ \A p, since : Planned(p, since) # Nothing
BY DEF Plans, Planned, Nothing

LEMMA Retained ==
    /\ \A p \in Periods : p \in Int /\ UptimeRetention(p) \in UptimePeriods /\ UptimeRetention(p) \in Int
    /\ \A p \in UptimePeriods : p \in Int /\ UptimeRetention(p) = p
BY HistoryAssumption DEF UptimePeriods, UptimeRetention, MaxOf

LEMMA AnswersObserve ==
    ASSUME NEW last \in Int, NEW answer \in Answers(last)
    PROVE  answer \subseteq [timestamp : Int, status : Statuses, response : Responses \cup {-1}]
<1>1. Observations(last) \subseteq [timestamp : Int, status : Statuses, response : Responses \cup {-1}]
  <2>1. 0..last \subseteq Int
    OBVIOUS
  <2> QED
    BY <2>1 DEF Observations
<1>2. answer \subseteq Observations(last)
  BY DEF Answers
<1> QED
  BY <1>1, <1>2

LEMMA PrunedRows == ASSUME NEW rows, NEW kept PROVE Pruned(rows, kept) \subseteq rows
BY DEF Pruned

\* The row of a plan is as current as the plan.
LEMMA KeptCurrent ==
    ASSUME TypesOK, NEW plan, plan \in Plans \/ plan \in Rows(Periods), Current(plan, period), plan # Nothing
    PROVE  /\ Planned(plan.period, plan.since) \in Rows(Periods)
           /\ Current(Planned(plan.period, plan.since), period)
           /\ Planned(UptimeRetention(plan.period), plan.since) \in Rows(UptimePeriods)
           /\ Current(Planned(UptimeRetention(plan.period), plan.since), UptimeRetention(period))
<1>1. plan.period \in Periods /\ plan.since \in Int
  BY DEF Plans, Rows
<1>2. plan.since <= changes /\ (plan.since = changes => plan.period = period)
  BY DEF Current
<1> QED
  BY <1>1, <1>2, Retained DEF Planned, Rows, Current

LEMMA InitInv == HistoryInit => HistoryInv
<1> SUFFICES ASSUME HistoryInit PROVE HistoryInv
  OBVIOUS
<1>1. selected \subseteq StoredKeys /\ period \in Periods
  BY HistoryAssumption DEF HistoryInit
<1>2. /\ retention \in Rows(Periods) \cup {Nothing} /\ Current(retention, period)
      /\ uptimeKept \in Rows(UptimePeriods) \cup {Nothing} /\ Current(uptimeKept, UptimeRetention(period))
  BY <1>1, Retained DEF HistoryInit, Retention, UptimeKept, Planned, Rows, Current
<1> QED
  BY <1>1, <1>2 DEF HistoryInit, HistoryInv, TypesOK, Current, EverySampleExpires

\* What a save of observations leaves.
LEMMA ObservationsInv ==
    ASSUME HistoryInv, NEW plan, plan \in Plans \/ plan \in Rows(Periods), plan # Nothing, Current(plan, period),
           (\E last \in Int : ObservationsSaved(plan, last)) \/ ObservationsFail(plan),
           UNCHANGED <<now, changes, period>>
    PROVE  /\ uptimeKept' \in Rows(UptimePeriods) \cup {Nothing} /\ uptimeKept' # Nothing
           /\ Current(uptimeKept, UptimeRetention(period))'
           /\ observed' \subseteq [timestamp : Int, status : Statuses, response : Responses \cup {-1}]
<1>1. uptimeKept' = Planned(UptimeRetention(plan.period), plan.since)
  BY DEF ObservationsSaved, ObservationsFail
<1>2. uptimeKept' \in Rows(UptimePeriods) /\ Current(uptimeKept', UptimeRetention(period))
  BY <1>1, KeptCurrent DEF HistoryInv
<1>3. Current(uptimeKept, UptimeRetention(period))'
  BY <1>2 DEF Current
<1>4. ASSUME ObservationsFail(plan)
      PROVE  observed' \subseteq [timestamp : Int, status : Statuses, response : Responses \cup {-1}]
  BY <1>4 DEF ObservationsFail, HistoryInv, TypesOK
<1>5. ASSUME NEW last \in Int, ObservationsSaved(plan, last)
      PROVE  observed' \subseteq [timestamp : Int, status : Statuses, response : Responses \cup {-1}]
  BY <1>5, AnswersObserve DEF ObservationsSaved, SavedObservations, HistoryInv, TypesOK
<1>6. observed' \subseteq [timestamp : Int, status : Statuses, response : Responses \cup {-1}]
  BY <1>4, <1>5 DEF HistoryInv, TypesOK
<1> QED
  BY <1>1, <1>2, <1>3, <1>6, NotNothing

LEMMA AnsweredInv ==
    ASSUME HistoryInv, UptimeAnswered
    PROVE  HistoryInv'
<1>1. flight \in Plans /\ flight # Nothing /\ Current(flight, period)
  BY NotNothing DEF UptimeAnswered, HistoryInv, TypesOK
<1>2. UNCHANGED <<now, changes, selected, period, counterRead, samples, retention>>
  BY DEF UptimeAnswered
<1>3. flight' \in Plans \cup {Nothing} /\ Current(flight, period)'
  <2>1. flight' = [flight EXCEPT !.unanswered = FALSE] \/ flight' = Nothing
    BY DEF UptimeAnswered
  <2> QED
    BY <1>1, <1>2, <2>1 DEF Plans, Current
<1>4. recoveryJob' \in Rows(Periods) \cup {Nothing} /\ Current(recoveryJob, period)'
  <2>1. recoveryJob' \in {Nothing, Planned(flight.period, flight.since)}
    BY DEF UptimeAnswered
  <2>2. recoveryJob' \in Rows(Periods) \cup {Nothing} /\ Current(recoveryJob', period)
    BY <1>1, <2>1, KeptCurrent DEF HistoryInv, Current
  <2> QED
    BY <1>2, <2>2 DEF Current
<1>5. /\ observed' \subseteq [timestamp : Int, status : Statuses, response : Responses \cup {-1}]
      /\ uptimeKept' \in Rows(UptimePeriods) \cup {Nothing} /\ Current(uptimeKept, UptimeRetention(period))'
      /\ observed' # {} => uptimeKept' # Nothing
  <2>1. CASE UNCHANGED <<observed, uptimeKept>>
    BY <1>2, <2>1 DEF HistoryInv, TypesOK, Current, EverySampleExpires
  <2>2. CASE ObservationsSaved(flight, now + MaxAhead) \/ ObservationsFail(flight)
    <3>1. now + MaxAhead \in Int
      BY HistoryAssumption DEF HistoryInv, TypesOK
    <3> QED
      BY <1>1, <1>2, <2>2, <3>1, ObservationsInv
  <2> QED
    BY <2>1, <2>2 DEF UptimeAnswered
<1>6. Current(retention, period)' /\ (samples' # {} => retention' # Nothing)
  BY <1>2 DEF HistoryInv, Current, EverySampleExpires
<1> QED
  BY <1>2, <1>3, <1>4, <1>5, <1>6 DEF HistoryInv, TypesOK, EverySampleExpires

LEMMA RecoveryInv ==
    ASSUME HistoryInv, RecoverySaves
    PROVE  HistoryInv'
<1>1. recoveryJob \in Rows(Periods) /\ recoveryJob # Nothing /\ Current(recoveryJob, period)
  BY DEF RecoverySaves, HistoryInv, TypesOK
<1>2. UNCHANGED <<now, changes, selected, period, flight, counterRead, samples, retention>>
  BY DEF RecoverySaves
<1>3. recoveryJob' \in Rows(Periods) \cup {Nothing} /\ Current(recoveryJob, period)'
  BY <1>1, <1>2 DEF RecoverySaves, Current
<1>4. /\ observed' \subseteq [timestamp : Int, status : Statuses, response : Responses \cup {-1}]
      /\ uptimeKept' \in Rows(UptimePeriods) \cup {Nothing} /\ Current(uptimeKept, UptimeRetention(period))'
      /\ uptimeKept' # Nothing
  <2>1. ObservationsSaved(recoveryJob, now) \/ ObservationsFail(recoveryJob)
    BY DEF RecoverySaves
  <2>2. now \in Int
    BY DEF HistoryInv, TypesOK
  <2> QED
    BY <1>1, <1>2, <2>1, <2>2, ObservationsInv
<1>5. Current(flight, period)' /\ Current(retention, period)' /\ (samples' # {} => retention' # Nothing)
  BY <1>2 DEF HistoryInv, Current, EverySampleExpires
<1> QED
  BY <1>2, <1>3, <1>4, <1>5 DEF HistoryInv, TypesOK, EverySampleExpires

LEMMA EndsInv ==
    ASSUME HistoryInv, flight # Nothing, CollectionEnds
    PROVE  HistoryInv'
<1>1. flight \in Plans /\ flight' = Nothing /\ UNCHANGED <<now, changes, selected, period, recoveryJob, uptimeKept>>
  BY DEF CollectionEnds, HistoryInv, TypesOK
<1>2. PICK answered \in SUBSET (flight.selected \cap SampleKeys) :
          \/ Commit(IF Pending THEN answered \ {"rate"} ELSE answered)
          \/ UNCHANGED <<samples, observed, retention>>
  BY DEF CollectionEnds
<1>3. /\ samples' \subseteq [key : SampleKeys, timestamp : Int]
      /\ observed' \subseteq observed
      /\ retention' \in Rows(Periods) \cup {Nothing} /\ Current(retention', period)
      /\ samples' # {} => retention' # Nothing
  <2>1. CASE UNCHANGED <<samples, observed, retention>>
    BY <2>1 DEF HistoryInv, TypesOK, EverySampleExpires
  <2>2. ASSUME NEW saved \in SUBSET SampleKeys, Commit(saved)
        PROVE  /\ samples' \subseteq [key : SampleKeys, timestamp : Int]
               /\ observed' \subseteq observed
               /\ retention' \in Rows(Periods) \cup {Nothing} /\ Current(retention', period)
               /\ samples' # {} => retention' # Nothing
    <3>1. Pruned(samples, retention) \subseteq samples /\ Pruned(observed, uptimeKept) \subseteq observed
      BY PrunedRows
    <3>2. samples' \subseteq samples \cup [key : saved, timestamp : {now}]
      BY <2>2, <3>1 DEF Commit, Saved
    <3>3. samples' \subseteq [key : SampleKeys, timestamp : Int]
      BY <3>2 DEF HistoryInv, TypesOK
    <3>4. CASE saved = {}
      <4>1. [key : saved, timestamp : {now}] = {}
        BY <3>4
      <4> QED
        BY <2>2, <3>1, <3>2, <3>3, <3>4, <4>1 DEF Commit, HistoryInv, TypesOK, EverySampleExpires
    <3>5. CASE saved # {}
      <4>1. retention' = Planned(flight.period, flight.since)
        BY <2>2, <3>5 DEF Commit
      <4> QED
        BY <1>1, <2>2, <3>1, <3>3, <4>1, KeptCurrent, NotNothing DEF Commit, HistoryInv
    <3> QED
      BY <3>4, <3>5
  <2> QED
    BY <1>2, <2>1, <2>2
<1>4. Current(flight, period)' /\ Current(recoveryJob, period)' /\ Current(retention, period)'
      /\ Current(uptimeKept, UptimeRetention(period))'
  BY <1>1, <1>3 DEF HistoryInv, Current
<1> QED
  BY <1>1, <1>3, <1>4 DEF HistoryInv, TypesOK, EverySampleExpires

LEMMA RefreshInv ==
    ASSUME HistoryInv, NEW found \in Selections, NEW p \in Periods, RefreshRetention(found, p),
           flight' \in {flight, Nothing}, recoveryJob' \in {recoveryJob, Nothing}
    PROVE  HistoryInv'
<1>1. /\ changes' = changes + 1 /\ now' = now /\ selected' = found /\ period' = p
      /\ retention' = Retention(found, p, changes') /\ uptimeKept' = UptimeKept(found, p, changes')
  BY DEF RefreshRetention
<1>2. found \subseteq StoredKeys
  BY HistoryAssumption
<1>3. samples' \subseteq KeptFor(samples, found) /\ observed' \subseteq (IF "uptime" \in found THEN observed ELSE {})
  BY PrunedRows DEF RefreshRetention
<1>4. samples' \subseteq samples /\ observed' \subseteq observed
  BY <1>3 DEF KeptFor
<1>5. /\ retention' \in Rows(Periods) \cup {Nothing} /\ Current(retention, period)'
      /\ uptimeKept' \in Rows(UptimePeriods) \cup {Nothing} /\ Current(uptimeKept, UptimeRetention(period))'
  BY <1>1, Retained DEF Retention, UptimeKept, Planned, Rows, Current, HistoryInv, TypesOK
<1>6. Current(flight, period)' /\ Current(recoveryJob, period)'
  BY <1>1 DEF HistoryInv, TypesOK, Current, Plans, Rows
<1>7. EverySampleExpires'
  <2>1. ASSUME NEW r \in samples' PROVE retention' # Nothing
    <3>1. r.key \in found \cap SampleKeys
      BY <1>3, <1>4, <2>1 DEF KeptFor, HistoryInv, TypesOK
    <3> QED
      BY <1>1, <3>1, NotNothing DEF Retention
  <2>2. observed' # {} => uptimeKept' # Nothing
    BY <1>1, <1>3, NotNothing DEF UptimeKept
  <2> QED
    BY <2>1, <2>2 DEF EverySampleExpires
<1>8. TypesOK'
  BY <1>1, <1>2, <1>4, <1>5 DEF HistoryInv, TypesOK
<1> QED
  BY <1>5, <1>6, <1>7, <1>8 DEF HistoryInv

LEMMA StartsInv ==
    ASSUME HistoryInv, CollectionStarts
    PROVE  HistoryInv'
<1>1. flight' \in Plans /\ flight'.since = changes /\ flight'.period = period
  BY DEF CollectionStarts, Plans, HistoryInv, TypesOK
<1>2. UNCHANGED <<now, changes, selected, period, recoveryJob, samples, observed, retention, uptimeKept>>
  BY DEF CollectionStarts
<1>3. Current(flight, period)'
  BY <1>1, <1>2 DEF Current, HistoryInv, TypesOK
<1> QED
  BY <1>1, <1>2, <1>3 DEF HistoryInv, TypesOK, Current, EverySampleExpires

LEMMA NextInv == HistoryInv /\ [HistoryNext]_historyVars => HistoryInv'
<1> SUFFICES ASSUME HistoryInv, [HistoryNext]_historyVars PROVE HistoryInv'
  OBVIOUS
<1>1. CASE CollectionStarts
  BY <1>1, StartsInv
<1>2. CASE flight # Nothing /\ CollectionEnds
  BY <1>2, EndsInv
<1>3. CASE UptimeAnswered
  BY <1>3, AnsweredInv
<1>4. CASE RecoverySaves
  BY <1>4, RecoveryInv
<1>5. ASSUME NEW found \in Selections, NEW p \in Periods, DiscoveryRefreshes(found, p) \/ Restarts(found, p)
      PROVE  HistoryInv'
  BY <1>5, RefreshInv DEF DiscoveryRefreshes, Restarts
<1>6. CASE Tick
  BY <1>6 DEF HistoryInv, TypesOK, Tick, Current, EverySampleExpires
<1>7. CASE UNCHANGED historyVars
  BY <1>7 DEF HistoryInv, TypesOK, historyVars, Current, EverySampleExpires
<1> QED
  BY <1>1, <1>2, <1>3, <1>4, <1>5, <1>6, <1>7 DEF HistoryNext

LEMMA HistoryInvariant == HistorySpec => []HistoryInv
BY InitInv, NextInv, PTL DEF HistorySpec

-----------------------------------------------------------------------------
(* Retention.                                                              *)

(* No row stays for ever: whatever a collection or a recovery job saves    *)
(* after a discovery has found its metric gone has a retention by which it *)
(* is deleted later (metrics-storage.ts:125, 238, 301).                    *)
THEOREM EveryRowExpires == HistorySpec => []EverySampleExpires
BY HistoryInvariant, PTL DEF HistoryInv

\* What the deletions leave of a row is out of the retention they use.
LEMMA PrunedOut ==
    ASSUME NEW rows, NEW kept, NEW r \in rows, r.timestamp \in Int, now \in Int,
           kept # Nothing => kept.period \in Int, r \notin Pruned(rows, kept)
    PROVE  kept # Nothing /\ OutOf(r, kept.period)
BY DEF Pruned, OutOf

(* What a save of observations deletes is out of the period it was planned *)
(* with.                                                                   *)
LEMMA ObservationsLost ==
    ASSUME HistoryInv, NEW plan, plan.period \in Periods,
           (\E last : ObservationsSaved(plan, last)) \/ ObservationsFail(plan),
           NEW r \in observed \ observed'
    PROVE  OutOf(r, UptimeRetention(plan.period))
<1>1. r.timestamp \in Int /\ now \in Int
  BY DEF HistoryInv, TypesOK
<1>2. UptimeRetention(plan.period) \in Int
  BY Retained
<1>3. PICK answer : observed' = SavedObservations(observed, answer, plan.period)
  BY DEF ObservationsSaved, ObservationsFail
<1> QED
  BY <1>1, <1>2, <1>3 DEF SavedObservations, OutOf

(* Of metrics that stay selected, a step loses only what the configured    *)
(* period does not cover, or what a plan or a retention that a discovery   *)
(* overtook does not cover, for any periods and any interleaving           *)
(* (metrics-storage.ts:128, 161, 261, 278).                                *)
THEOREM OnlyOldSamplesAreLost == HistorySpec => OnlyOldSamplesLost
<1> DEFINE SampleLost(r) ==
               \/ r.key \notin selected' \/ OutOf(r, period')
               \/ changes' = changes /\ \E plan \in {flight, retention} : Overtaken(plan) /\ OutOf(r, plan.period)
           ObservationLost(r) ==
               \/ "uptime" \notin selected' \/ OutOf(r, UptimeRetention(period'))
               \/ changes' = changes /\ \E plan \in {flight, recoveryJob, uptimeKept} :
                                         Overtaken(plan) /\ OutOf(r, UptimeRetention(plan.period))
<1>1. ASSUME HistoryInv, [HistoryNext]_historyVars, NEW r \in samples \ samples'
      PROVE  SampleLost(r)
  <2>0. r.key \in SampleKeys /\ r.timestamp \in Int /\ now \in Int /\ r \in samples
    BY <1>1 DEF HistoryInv, TypesOK
  <2>1. CASE flight # Nothing /\ CollectionEnds
    <3>1. flight \in Plans /\ flight.period \in Int /\ UNCHANGED <<changes, period>>
      BY <1>1, <2>1, Retained DEF CollectionEnds, HistoryInv, TypesOK, Plans
    <3>2. PICK saved : Commit(saved)
      BY <1>1, <2>1 DEF CollectionEnds
    <3>3. retention # Nothing => retention.period \in Int
      BY <1>1, Retained DEF HistoryInv, TypesOK, Rows
    <3>4. CASE r \notin Pruned(samples, retention)
      <4>1. retention # Nothing /\ OutOf(r, retention.period)
        BY <2>0, <3>3, <3>4, PrunedOut
      <4>2. retention.since # changes \/ retention.period = period
        BY <1>1, <4>1 DEF HistoryInv, Current
      <4> QED
        BY <3>1, <4>1, <4>2 DEF Overtaken
    <3>5. CASE r \in Pruned(samples, retention)
      <4>1. OutOf(r, flight.period)
        BY <1>1, <2>0, <3>1, <3>2, <3>5 DEF Commit, Saved, OutOf
      <4>2. flight.since # changes \/ flight.period = period
        BY <1>1, <2>1 DEF HistoryInv, Current
      <4> QED
        BY <2>1, <3>1, <4>1, <4>2 DEF Overtaken
    <3> QED
      BY <3>4, <3>5
  <2>2. ASSUME NEW found \in Selections, NEW p \in Periods, RefreshRetention(found, p)
        PROVE  r.key \notin selected' \/ OutOf(r, period')
    <3>1. selected' = found /\ period' = p /\ p \in Int
      BY <2>2, Retained DEF RefreshRetention
    <3>2. ASSUME r.key \in found PROVE OutOf(r, p)
      <4>1. r \in KeptFor(samples, found)
        BY <2>0, <3>2 DEF KeptFor
      <4>2. samples' = Pruned(KeptFor(samples, found), Planned(p, changes'))
        BY <2>0, <2>2, <3>2 DEF RefreshRetention, Retention
      <4>3. Planned(p, changes').period = p
        BY DEF Planned
      <4>4. r \notin Pruned(KeptFor(samples, found), Planned(p, changes'))
        BY <1>1, <4>2
      <4> QED
        BY <2>0, <3>1, <4>1, <4>3, <4>4, PrunedOut
    <3> QED
      BY <3>1, <3>2
  <2>3. CASE UNCHANGED samples
    BY <1>1, <2>3
  <2> QED
    BY <1>1, <2>1, <2>2, <2>3
    DEF HistoryNext, CollectionStarts, UptimeAnswered, RecoverySaves, DiscoveryRefreshes, Restarts, Tick, historyVars
<1>2. ASSUME HistoryInv, [HistoryNext]_historyVars, NEW r \in observed \ observed'
      PROVE  ObservationLost(r)
  <2>0. r.timestamp \in Int /\ now \in Int /\ r \in observed
    BY <1>2 DEF HistoryInv, TypesOK
  <2>1. CASE flight # Nothing /\ CollectionEnds
    <3>1. PICK saved : Commit(saved)
      BY <1>2, <2>1 DEF CollectionEnds
    <3>2. uptimeKept # Nothing => uptimeKept.period \in UptimePeriods
      BY <1>2 DEF HistoryInv, TypesOK, Rows
    <3>3. uptimeKept # Nothing /\ OutOf(r, uptimeKept.period)
      BY <1>2, <2>0, <3>1, <3>2, Retained, PrunedOut DEF Commit
    <3>4. uptimeKept.since # changes \/ uptimeKept.period = UptimeRetention(period)
      BY <1>2, <3>3 DEF HistoryInv, Current
    <3>5. UptimeRetention(uptimeKept.period) = uptimeKept.period
      BY <3>2, <3>3, Retained
    <3>6. UNCHANGED <<changes, period>>
      BY <2>1 DEF CollectionEnds
    <3> QED
      BY <3>3, <3>4, <3>5, <3>6 DEF Overtaken
  <2>2. CASE UptimeAnswered
    <3>1. flight \in Plans /\ flight # Nothing /\ flight.period \in Periods
      BY <1>2, <2>2 DEF UptimeAnswered, HistoryInv, TypesOK, Plans
    <3>2. OutOf(r, UptimeRetention(flight.period))
      BY <1>2, <2>2, <3>1, ObservationsLost DEF UptimeAnswered
    <3>3. flight.since # changes \/ flight.period = period
      BY <1>2, <3>1 DEF HistoryInv, Current
    <3>4. UNCHANGED <<changes, period>>
      BY <2>2 DEF UptimeAnswered
    <3> QED
      BY <3>1, <3>2, <3>3, <3>4 DEF Overtaken
  <2>3. CASE RecoverySaves
    <3>1. recoveryJob # Nothing /\ recoveryJob.period \in Periods
      BY <1>2, <2>3 DEF RecoverySaves, HistoryInv, TypesOK, Rows
    <3>2. OutOf(r, UptimeRetention(recoveryJob.period))
      BY <1>2, <2>3, <3>1, ObservationsLost DEF RecoverySaves
    <3>3. recoveryJob.since # changes \/ recoveryJob.period = period
      BY <1>2, <3>1 DEF HistoryInv, Current
    <3>4. UNCHANGED <<changes, period>>
      BY <2>3 DEF RecoverySaves
    <3> QED
      BY <3>1, <3>2, <3>3, <3>4 DEF Overtaken
  <2>4. ASSUME NEW found \in Selections, NEW p \in Periods, RefreshRetention(found, p)
        PROVE  "uptime" \notin selected' \/ OutOf(r, UptimeRetention(period'))
    <3>1. selected' = found /\ period' = p /\ UptimeRetention(p) \in Int
      BY <2>4, Retained DEF RefreshRetention
    <3>2. ASSUME "uptime" \in found PROVE OutOf(r, UptimeRetention(p))
      <4>1. observed' = Pruned(observed, Planned(UptimeRetention(p), changes'))
        BY <2>4, <3>2 DEF RefreshRetention, UptimeKept
      <4>2. Planned(UptimeRetention(p), changes').period = UptimeRetention(p)
        BY DEF Planned
      <4>3. r \notin Pruned(observed, Planned(UptimeRetention(p), changes'))
        BY <1>2, <4>1
      <4> QED
        BY <2>0, <3>1, <4>2, <4>3, PrunedOut
    <3> QED
      BY <3>1, <3>2
  <2>5. CASE UNCHANGED observed
    BY <1>2, <2>5
  <2> QED
    BY <1>2, <2>1, <2>2, <2>3, <2>4, <2>5
    DEF HistoryNext, CollectionStarts, DiscoveryRefreshes, Restarts, Tick, historyVars
<1>3. HistoryInv /\ [HistoryNext]_historyVars
      => [/\ \A r \in samples \ samples' : SampleLost(r)
          /\ \A r \in observed \ observed' : ObservationLost(r)]_historyVars
  BY <1>1, <1>2
<1> QED
  BY <1>3, HistoryInvariant, PTL DEF HistorySpec, OnlyOldSamplesLost

-----------------------------------------------------------------------------
(* Buckets.                                                                *)

LEMMA Division ==
    ASSUME NEW a \in Int, NEW b \in Nat \ {0}
    PROVE  /\ a \div b \in Int
           /\ (a \div b) * b <= a /\ a < ((a \div b) + 1) * b
OBVIOUS

\* The slowest response is the same with and without those that have none.
LEMMA SlowestOfNone ==
    ASSUME NEW S, S \subseteq Nat \cup {-1}, S # {}
    PROVE  Slowest(S) = Slowest(S \ {-1})
<1> DEFINE Greatest(T, r) == r \in T /\ \A s \in T : r >= s
<1>1. ASSUME NEW T, T # {} PROVE Slowest(T) = CHOOSE r : Greatest(T, r)
  BY <1>1 DEF Slowest
<1>2. CASE S \ {-1} = {}
  <2>1. S = {-1}
    BY <1>2
  <2>2. \A r : Greatest(S, r) <=> r = -1
    BY <2>1
  <2>3. Slowest(S) = CHOOSE r : r = -1
    BY <1>1, <2>2
  <2>4. Slowest({}) = -1
    BY DEF Slowest
  <2> QED
    BY <1>2, <2>3, <2>4
<1>3. CASE S \ {-1} # {}
  <2>1. ASSUME NEW r PROVE Greatest(S, r) <=> Greatest(S \ {-1}, r)
    <3>1. PICK t \in S \ {-1} : t \in Nat
      BY <1>3
    <3>2. ASSUME Greatest(S, r) PROVE r # -1
      BY <3>1, <3>2
    <3>3. ASSUME r \in S \ {-1} PROVE r \in Nat /\ r >= -1
      BY <3>3
    <3> QED
      BY <3>2, <3>3
  <2>2. (CHOOSE r : Greatest(S, r)) = CHOOSE r : Greatest(S \ {-1}, r)
    <3> HIDE DEF Greatest
    <3> QED
      BY <2>1
  <2> QED
    BY <1>1, <1>3, <2>2
<1> QED
  BY <1>2, <1>3

LEMMA BucketTimes ==
    ASSUME NEW start, NEW i, NEW a, NEW b, NEW slowest
    PROVE  /\ Bucket(start, i, a, b, slowest).start = start + i * BucketMs
           /\ Bucket(start, i, a, b, slowest).end = start + (i + 1) * BucketMs
BY DEF Bucket

(* The database counts the buckets that uptime-buckets.ts counts from the  *)
(* same observations, for any width and number of buckets                  *)
(* (metrics-storage.ts:206, uptime-buckets.ts:12).                         *)
THEOREM BucketsAlwaysAgree == HistorySpec => []BucketsAgree
<1>1. HistoryInv => BucketsAgree
  <2> SUFFICES ASSUME HistoryInv PROVE StoredBuckets = AggregatedBuckets(observed, TRUE)
    BY DEF BucketsAgree
  <2> DEFINE end == (now \div BucketMs) * BucketMs + BucketMs
             start == end - BucketMs * BucketCount
             in(o, i) == {x \in o : x.timestamp \in start..end - 1 /\ (x.timestamp - start) \div BucketMs = i}
             count(o, i, s) == Cardinality({x \in in(o, i) : x.status = s})
             bucket(o, i) == Bucket(start, i, count(o, i, "up"), count(o, i, "down"), Slowest({x.response : x \in in(o, i)} \ {-1}))
  <2>1. ASSUME NEW o PROVE AggregatedBuckets(o, TRUE) = [i \in 0..BucketCount - 1 |-> bucket(o, i)]
    BY DEF AggregatedBuckets, BucketsEnd, InBucket
  <2>2. 0 \in 0..BucketCount - 1 /\ BucketCount - 1 \in 0..BucketCount - 1
    BY HistoryAssumption
  <2> DEFINE empty == AggregatedBuckets({}, TRUE)
  <2>3. empty[0].start = start /\ empty[BucketCount - 1].end = end
    <3>1. now \in Int /\ BucketMs \in Nat \ {0} /\ BucketCount \in Nat \ {0}
      BY HistoryAssumption DEF HistoryInv, TypesOK
    <3>2. end \in Int
      BY <3>1, Division
    <3>3. ASSUME NEW i \in 0..BucketCount - 1
          PROVE  empty[i].start = start + i * BucketMs /\ empty[i].end = start + (i + 1) * BucketMs
      <4>1. empty[i] = bucket({}, i)
        BY <2>1
      <4>2. bucket({}, i).start = start + i * BucketMs /\ bucket({}, i).end = start + (i + 1) * BucketMs
        <5> HIDE DEF start, count, in
        <5> QED
          BY BucketTimes
      <4> HIDE DEF empty, bucket, start
      <4> QED
        BY <4>1, <4>2
    <3> HIDE DEF empty, end
    <3>4. start + 0 * BucketMs = start /\ start + ((BucketCount - 1) + 1) * BucketMs = end
      BY <3>1, <3>2
    <3> QED
      BY <2>2, <3>3, <3>4
  <2> DEFINE stored(i) == IF in(observed, i) = {} THEN empty[i]
                          ELSE Bucket(start, i, count(observed, i, "up"), count(observed, i, "down"),
                                      Slowest({x.response : x \in in(observed, i)}))
  <2>5. StoredBuckets = [i \in 0..BucketCount - 1 |-> stored(i)]
    BY <2>3 DEF StoredBuckets
  <2>6. ASSUME NEW i \in 0..BucketCount - 1 PROVE stored(i) = bucket(observed, i)
    <3>1. empty[i] = bucket({}, i)
      BY <2>1
    <3>2. CASE in(observed, i) = {}
      <4>1. in({}, i) = {}
        OBVIOUS
      <4> QED
        BY <3>1, <3>2, <4>1
    <3>3. CASE in(observed, i) # {}
      <4> DEFINE responses == {x.response : x \in in(observed, i)}
      <4>1. responses \subseteq Nat \cup {-1} /\ responses # {}
        BY <3>3, HistoryAssumption DEF HistoryInv, TypesOK
      <4>2. Slowest(responses) = Slowest(responses \ {-1})
        BY <4>1, SlowestOfNone
      <4> QED
        BY <3>3, <4>2
    <3> QED
      BY <3>2, <3>3
  <2> HIDE DEF stored, bucket
  <2> QED
    BY <2>1, <2>5, <2>6
<1> QED
  BY <1>1, HistoryInvariant, PTL
=============================================================================
