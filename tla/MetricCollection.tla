-------------------------- MODULE MetricCollection --------------------------
(***************************************************************************)
(* Metric collection, metrics.ts with metric-collection/target-plan.ts and *)
(* the collecting half of docker.ts: one timer, at most one collection in  *)
(* progress that everybody else joins, workers that take the due cards one *)
(* after the other, and the requests of MetricRequests underneath.         *)
(*                                                                         *)
(* The targets may be replaced at any time: by the discovery coordinator,  *)
(* whose listeners plan the timer again, and by a page request, whose do   *)
(* not.  A collection that ends with an error leaves its other workers     *)
(* and its requests behind; they go on beside the next collection.         *)
(***************************************************************************)
EXTENDS MetricRequests

CONSTANTS
    Cards,         \* cards that may have metrics
    Stats,         \* the cards of Docker containers with resource statistics
    UptimeCards,   \* the cards whose metrics are read from and saved to SQLite
    WorkerLimit,   \* MAX_DUE_CARD_COLLECTIONS
    Interval,      \* metricsPollIntervalMs
    PrimeDelay,    \* NETWORK_RATE_PRIME_DELAY_MS
    RecoveryDelays,\* how far in the future nextMetricRecoveryAt may be
    Setups,        \* the configurations that are looked at, each with its bounds
    None

\* The metrics of each card and their sources, the cards that are discovered first, and
\* the bounds: how often the targets are replaced, and how often SQLite fails.
SetupTypes == [
    metrics : [Cards -> SUBSET Metrics], source : [Metrics -> SourceTypes],
    discovered : SUBSET Cards, changes : Nat, failures : Nat]

ASSUME CollectionAssumption ==
    /\ Setups \subseteq SetupTypes
    /\ \A s \in Setups : \A c, d \in Cards : c # d => s.metrics[c] \cap s.metrics[d] = {}
    /\ Stats \subseteq Cards /\ UptimeCards \subseteq Cards
    /\ WorkerLimit \in Nat \ {0} /\ Interval \in Nat \ {0} /\ PrimeDelay \in Nat
    /\ RecoveryDelays \subseteq Nat
    /\ None \notin Nat \cup Runs

VARIABLES
    discovered,  \* discoveredMetricTargets
    scheduled,   \* the targets when the timer was planned last
    last,        \* lastMetricCollection as the time until the card is due, None if never collected
    timer,       \* time until collectionTimer fires, or None
    prime,       \* the same for the timer of the forced second collection
    current,     \* collectionInProgress: the name of the collection, or None
    chain,       \* what follows it: "schedule" and, after the first, "first"
    recovering,  \* it awaits recoverNextMetric
    due,         \* [Runs -> SUBSET Cards], the due cards of a collection,
    pending,     \* those no worker has taken,
    collecting,  \* those that are being collected
    stats,       \* and those of them whose resource statistics are awaited
    metricsOf,   \* the metrics of each card, which never change
    changes, failures  \* what is left of the bounds

targets == <<discovered, scheduled>>
planning == <<last, timer, prime>>
collection == <<current, chain, recovering>>
workers == <<due, pending, collecting, stats>>
bounds == <<metricsOf, changes, failures>>
vars == <<flows, queues, targets, planning, collection, workers, bounds>>

Delays == 0..Interval
Times == Nat \cup {None}

-----------------------------------------------------------------------------
(* Planning the timer: scheduleCollection.                                 *)

\* Until a card is due.
DueIn(c, l) == IF l[c] = None THEN 0 ELSE l[c]

Earliest(times) == IF times = {} THEN None ELSE CHOOSE t \in times : \A u \in times : t <= u

\* Plans for the targets d, whose last collections are l, and for the next recovery.
Schedule(d, l) ==
    /\ \E r \in RecoveryDelays \cup {None} :
        timer' = Earliest({DueIn(c, l) : c \in d} \cup ({r} \ {None}))
    /\ scheduled' = d

-----------------------------------------------------------------------------
(* A collection.                                                           *)

FlowsOf(r, cards) == {f \in Flows : f[1] = r /\ \E c \in cards : f[2] \in metricsOf[c]}
Busy(f) == step[f] \notin {"none", "value", "error"}
Idle(r) == collecting[r] = {} /\ \A f \in Flows : f[1] = r => ~Busy(f)

\* Workers take the cards `taken` for the collection r; the flows of those in `gone`
\* have been heard.
Take(r, taken, gone) ==
    /\ step' = [f \in Flows |->
                  CASE f \in FlowsOf(r, taken) /\ f[3] = 0 -> Opening(f[2])
                    [] f \in FlowsOf(r, gone) /\ f[3] = 0 -> "none"
                    [] OTHER -> step[f]]
    /\ pages' = [f \in Flows |-> IF f \in FlowsOf(r, taken) THEN 0 ELSE pages[f]]
    /\ items' = [f \in Flows |-> IF f \in FlowsOf(r, taken) THEN 0 ELSE items[f]]
    /\ opened' = [f \in Flows |-> IF f \in FlowsOf(r, taken) THEN 0 ELSE opened[f]]
    /\ stats' = [stats EXCEPT ![r] = @ \cup (taken \cap Stats)]
    /\ collecting' = [collecting EXCEPT ![r] = (@ \ gone) \cup taken]
    /\ UNCHANGED <<source, queues>>

\* collectInBackground when nothing is in progress, collectAndSave, and the workers of
\* collectDiscoveredMetricUsage up to their first await.
Begin(r, force) ==
    LET now == {c \in discovered : force \/ DueIn(c, last) = 0} IN
    /\ current = None /\ Idle(r)
    /\ current' = r
    /\ due' = [due EXCEPT ![r] = now]
    /\ recovering' = (now = {})
    /\ \E taken \in SUBSET now :
        /\ Cardinality(taken) = IF Cardinality(now) < WorkerLimit THEN Cardinality(now) ELSE WorkerLimit
        /\ pending' = [pending EXCEPT ![r] = now \ taken]
        /\ Take(r, taken, {})

\* Wrong variant: who joins does not plan again.
TimerFires_Joined ==
    /\ timer = 0
    /\ timer' = None
    /\ IF current # None THEN UNCHANGED <<flows, queues, collection, workers>>
       ELSE chain' = {"schedule"} /\ \E r \in Runs : Begin(r, FALSE)
    /\ UNCHANGED <<targets, last, prime, bounds>>

\* A planned collection, which joins the one in progress.
TimerFires ==
    /\ timer = 0
    /\ timer' = None
    /\ chain' = chain \cup {"schedule"}
    /\ IF current # None THEN UNCHANGED <<flows, queues, current, recovering, workers>>
       ELSE \E r \in Runs : Begin(r, FALSE)
    /\ UNCHANGED <<targets, last, prime, bounds>>

\* The forced collection for the first network rates; nothing follows it.
PrimeFires ==
    /\ prime = 0
    /\ prime' = None
    /\ IF current # None THEN UNCHANGED <<flows, queues, current, recovering, workers>>
       ELSE \E r \in Runs : Begin(r, TRUE)
    /\ UNCHANGED <<targets, last, timer, chain, bounds>>

\* Docker answers the request for a container's statistics, or it fails.
StatsAnswered(r, c) ==
    /\ c \in stats[r]
    /\ stats' = [stats EXCEPT ![r] = @ \ {c}]
    /\ UNCHANGED <<flows, queues, targets, planning, collection, due, pending, collecting, bounds>>

Heard(r, c) ==
    /\ c \in collecting[r] \ stats[r]
    /\ \A f \in FlowsOf(r, {c}) : f[3] = 0 => step[f] \in {"value", "error"}

\* A card's requests are all heard, and the worker takes the next card.
CardCollected(r, c) ==
    /\ Heard(r, c)
    /\ \E taken \in SUBSET pending[r] :
        /\ Cardinality(taken) = IF pending[r] = {} THEN 0 ELSE 1
        /\ pending' = [pending EXCEPT ![r] = @ \ taken]
        /\ Take(r, taken, {c})
    /\ UNCHANGED <<targets, planning, collection, due, bounds>>

\* What follows a collection that has ended, with the last collections l.
Followed(l) ==
    /\ current' = None /\ chain' = {} /\ recovering' = FALSE
    /\ prime' = IF "first" \in chain THEN PrimeDelay ELSE prime
    /\ last' = l
    /\ IF chain = {} THEN UNCHANGED <<timer, scheduled>> ELSE Schedule(discovered, l)

\* SQLite throws in collectCustomMetrics.  The collection ends; its other workers do not.
CollectThrows(r, c) ==
    /\ failures > 0 /\ failures' = failures - 1
    /\ Heard(r, c) /\ c \in UptimeCards
    /\ Take(r, {}, {c})
    /\ IF current = r THEN Followed(last) ELSE UNCHANGED <<scheduled, planning, collection>>
    /\ UNCHANGED <<discovered, due, pending, metricsOf, changes>>

Collected(r) == current = r /\ ~recovering /\ pending[r] = {} /\ collecting[r] = {}

\* collectAndSave saves and publishes what was collected; then it takes a recovery step.
Save(r) ==
    /\ Collected(r)
    /\ recovering' = TRUE
    /\ last' = [c \in Cards |-> IF c \in due[r] THEN Interval ELSE last[c]]
    /\ UNCHANGED <<flows, queues, targets, timer, prime, current, chain, workers, bounds>>

\* The transaction is rolled back.
SaveFails(r) ==
    /\ failures > 0 /\ failures' = failures - 1
    /\ Collected(r)
    /\ Followed(last)
    /\ UNCHANGED <<flows, queues, discovered, workers, metricsOf, changes>>

\* The recovery step has ended, or none was due.
RecoveryEnds ==
    /\ recovering
    /\ Followed(last)
    /\ UNCHANGED <<flows, queues, discovered, workers, bounds>>

-----------------------------------------------------------------------------
(* Discovery and time.                                                     *)

\* The coordinator has built the cards `kept`, of which d have metrics, and calls the
\* listeners of startMetricsCollection.
Refresh(d, kept) ==
    /\ changes > 0 /\ changes' = changes - 1
    /\ d \subseteq kept
    /\ discovered' = d
    /\ last' = [c \in Cards |-> IF c \in kept THEN last[c] ELSE None]
    /\ Schedule(d, last')
    /\ UNCHANGED <<flows, queues, prime, collection, workers, metricsOf, failures>>

\* A page request has built the cards.
PageBuild(d) ==
    /\ changes > 0 /\ changes' = changes - 1
    /\ discovered' = d
    /\ UNCHANGED <<flows, queues, scheduled, planning, collection, workers, metricsOf, failures>>

Later(t) == IF t = None THEN None ELSE IF t = 0 THEN 0 ELSE t - 1

Tick ==
    /\ last' = [c \in Cards |-> Later(last[c])]
    /\ timer' = Later(timer)
    /\ prime' = Later(prime)
    /\ UNCHANGED <<flows, queues, targets, collection, workers, bounds>>

\* The coordinator has found the first cards and planned for them; the first collection
\* begins as soon as it is ready, before the timer of 0 ms fires.
Init ==
    /\ \E s \in Setups :
        /\ metricsOf = s.metrics /\ source = s.source /\ discovered = s.discovered
        /\ changes = s.changes /\ failures = s.failures
    /\ scheduled = discovered
    /\ last = [c \in Cards |-> None]
    /\ timer = Earliest({0 : c \in discovered})
    /\ prime = None
    /\ chain = {"first"}
    /\ active = [q \in Queues |-> 0]
    /\ waiting = [q \in Queues |-> <<>>]
    /\ running = [q \in Queues |-> {}]
    /\ pages = [f \in Flows |-> 0] /\ items = pages /\ opened = pages
    /\ recovering = (discovered = {})
    /\ \E r \in Runs, taken \in SUBSET discovered :
        /\ Cardinality(taken) = IF Cardinality(discovered) < WorkerLimit THEN Cardinality(discovered) ELSE WorkerLimit
        /\ current = r
        /\ due = [s \in Runs |-> IF s = r THEN discovered ELSE {}]
        /\ pending = [s \in Runs |-> IF s = r THEN discovered \ taken ELSE {}]
        /\ collecting = [s \in Runs |-> IF s = r THEN taken ELSE {}]
        /\ stats = [s \in Runs |-> IF s = r THEN taken \cap Stats ELSE {}]
        /\ step = [f \in Flows |-> IF f \in FlowsOf(r, taken) /\ f[3] = 0 THEN Opening(f[2]) ELSE "none"]

CollectionNext ==
    \/ TimerFires \/ PrimeFires \/ RecoveryEnds \/ Tick
    \/ \E r \in Runs : Save(r) \/ SaveFails(r)
    \/ \E r \in Runs, c \in Cards : StatsAnswered(r, c) \/ CardCollected(r, c) \/ CollectThrows(r, c)
    \/ \E d \in SUBSET Cards : PageBuild(d) \/ \E kept \in SUBSET Cards : Refresh(d, kept)

RequestNext ==
    /\ \E f \in Flows : TakeTurn(f) \/ FlowNext(f)
    /\ UNCHANGED <<targets, planning, collection, workers, bounds>>

Next == CollectionNext \/ RequestNext

Spec == Init /\ [][Next]_vars

\* Requests settle at the latest by their timeouts, statistics by the timeout of the
\* Docker client, timers fire and time passes.  A jq process has no timeout: that every
\* expression ends is an assumption.
Fairness ==
    /\ WF_vars(RequestNext)
    /\ WF_vars(\E r \in Runs, c \in Cards : StatsAnswered(r, c))
    /\ WF_vars(\E r \in Runs, c \in Cards : CardCollected(r, c))
    /\ WF_vars(\E r \in Runs : Save(r))
    /\ WF_vars(RecoveryEnds)
    /\ WF_vars(TimerFires)
    /\ WF_vars(Tick)

FairSpec == Spec /\ Fairness

-----------------------------------------------------------------------------
(* Properties                                                              *)

TypeOK ==
    /\ source \in [Metrics -> SourceTypes] /\ metricsOf \in [Cards -> SUBSET Metrics]
    /\ step \in [Flows -> Steps]
    /\ pages \in [Flows -> 0..MaxPages]
    /\ items \in [Flows -> 0..MaxItems] /\ opened \in [Flows -> 0..MaxItems]
    /\ active \in [Queues -> Nat]
    /\ waiting \in [Queues -> Seq(Flows)]
    /\ running \in [Queues -> SUBSET Flows]
    /\ discovered \subseteq Cards /\ scheduled \subseteq Cards
    /\ last \in [Cards -> Delays \cup {None}]
    /\ timer \in Times /\ prime \in Times
    /\ current \in Runs \cup {None}
    /\ chain \subseteq {"schedule", "first"}
    /\ recovering \in BOOLEAN
    /\ due \in [Runs -> SUBSET Cards] /\ pending \in [Runs -> SUBSET Cards]
    /\ collecting \in [Runs -> SUBSET Cards] /\ stats \in [Runs -> SUBSET Cards]
    /\ changes \in Nat /\ failures \in Nat

\* queueRequest and runJq keep what a limit on concurrent work promises, whatever the
\* requests of overlapping collections do: never more at work than allowed, nobody
\* waits beside a free slot, and who waited longest is served next.
HasRoom(q, atWork) == Cardinality(atWork) < Limit[q]

Limits == INSTANCE Semaphores WITH
    Tasks <- Flows, Resources <- Queues, holders <- running, queue <- waiting

QueuesKeepTheirLimit == Limits!Spec

\* A card that has been planned for is never left without a timer: whenever nothing is
\* in progress that will plan again, the timer fires by the time the card is due.  The
\* cards a page request discovers are planned for with the next plan only.
NoLostWakeUp ==
    (current = None \/ chain = {}) =>
        \A c \in scheduled : timer # None /\ timer <= DueIn(c, last)

\* A card that stays discovered and planned for is collected again and again: no failed
\* child, lost collection, full queue or failed write ends its polling.
CollectedAgain ==
    \A c \in Cards : <>[](c \in discovered \cap scheduled) => []<>(last[c] = Interval)
=============================================================================
