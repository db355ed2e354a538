---------------------------- MODULE MetricValues ----------------------------
(***************************************************************************)
(* From what a provider answers to what a browser accepts: the answer is   *)
(* extracted and transformed (custom-metric-parsing.ts), becomes a metric  *)
(* of the card or an error (target-plan.ts), is sent as JSON with what the *)
(* viewer may see (realtime-metrics-snapshot.ts), and is checked again by  *)
(* the browser (status.ts, realtime-client.ts), which drops a message that *)
(* does not pass.  One card, with a custom metric or the resources of a    *)
(* container.  Numbers beyond MaxNumber are the infinite ones of the code; *)
(* what jq and parsing of a line return is part of the answer.             *)
(***************************************************************************)
EXTENDS Configuration

Seqs == INSTANCE SequencesExt
Sets == INSTANCE FiniteSetsExt

CONSTANTS
    AskedMetrics,   \* accepted metrics of which a card may have one
    Replies,        \* what a provider may answer, by the metric asked
    StatsReplies,   \* what the Docker API may answer for statistics
    MaxNumber,      \* the greatest number
    SecondsBelow,   \* smaller timestamps are in seconds
    Dates,          \* what Date.parse reads, for the texts it can read
    MaxCollections

\* Cards have metrics as parseMetricCatalog leaves them, with its defaults and no field that
\* is undefined; the labels of a series are texts.
ASSUME AskedAssumption ==
    \A m \in AskedMetrics :
        /\ Accepted(m) /\ Has(m, "value_type") /\ Absent \notin Inside(m)
        /\ m.map["value_type"].text = "number" => {"unit", "chart"} \subseteq Keys(m)
        /\ \A reply \in Replies[m] \ {Failed} : \A i \in DOMAIN reply.lines :
                \A n \in Keys(reply.lines[i].labels) : IsText(reply.lines[i].labels.map[n])

VARIABLES
    asked,      \* the card's metric; Absent for a container's card
    selection,  \* resourceStats of a container's card
    clock, collections,
    latestUsage,  \* latestMetricUsage of the card, Absent before the first collection
    counts,     \* customMetricCounterCache, Absent before the first value
    traffic,    \* networkUsageCache, Absent before the first counters
    lastSeen,   \* the latest uptime observation, Absent before the first
    saved       \* metric_samples of the card's metric, or resource_metrics

valueVars == <<asked, selection, clock, collections, latestUsage, counts, traffic, lastSeen, saved>>

Key == "key"

-----------------------------------------------------------------------------
(* Numbers.                                                                *)

Finite(n) == IF n \in -MaxNumber..MaxNumber THEN Num(n) ELSE Infinite
Quotient(a, b) == IF b = 0 THEN Infinite ELSE Finite(a \div b)

SumOf(values) == Finite(Seqs!FoldLeft(LAMBDA a, b : a + b, 0, values))

\* reduce, of numbers; without a reduction there has to be one value.
Reduced(values, reduction) ==
    LET total == SumOf(values) IN
    IF values = <<>> THEN Failed
    ELSE CASE reduction = Absent -> IF Len(values) = 1 THEN Num(values[1]) ELSE Failed
           [] reduction = Text("count") -> Num(Len(values))
           [] reduction = Text("sum") -> total
           [] reduction = Text("average") -> IF total = Infinite THEN Infinite ELSE Quotient(total.num, Len(values))
           [] reduction = Text("minimum") -> Num(Sets!Min(Seqs!Range(values)))
           [] OTHER -> Num(Sets!Max(Seqs!Range(values)))

-----------------------------------------------------------------------------
(* Extraction.                                                             *)

Textual(m) == OneOf(Get(m, "value_type"), {"string", "state"})

\* Wrong variant: texts are no error.
JqValue_AnyType(m, produced) == IF IsText(produced) \/ IsNum(produced) THEN produced ELSE Failed

JqValue(m, produced) ==
    IF IF Textual(m) THEN IsText(produced) ELSE IsNum(produced) THEN produced ELSE Failed

\* The text without the blanks around it; Number() reads an empty one as 0.
TextValue(m, text) ==
    IF Textual(m) THEN IF text = "" THEN Failed ELSE Text(text)
    ELSE IF text = "" THEN Num(0)
    ELSE IF text \in DOMAIN Numerals THEN Num(Numerals[text]) ELSE Failed

\* Lines of the series with the labels asked for; others, and what is no line, are skipped.
PrometheusValue(m, lines) ==
    LET extractor == Get(m, "prometheus")
        required == Get(extractor, "labels")
        value(l) == IF Textual(m) THEN Get(l.labels, extractor.map["value_label"].text) ELSE l.value
        counted(l) ==
            /\ l.name = extractor.map["name"].text
            /\ \A n \in Keys(required) : Get(l.labels, n) = required.map[n]
            /\ value(l) \notin {Absent, Infinite}
        found == {i \in DOMAIN lines : counted(lines[i])}
        numbers == LET kept == SelectSeq(lines, counted) IN [i \in DOMAIN kept |-> value(kept[i]).num]
        result == Reduced(numbers, Get(extractor, "reduce"))
    IN  IF Textual(m) THEN IF Cardinality(found) = 1 THEN value(lines[CHOOSE i \in found : TRUE]) ELSE Failed
        ELSE IF result = Infinite THEN Failed ELSE result

\* The values of the items, or of one that fails; that their sum is a number is not asked.
ForEachValue(m, items) ==
    IF \E i \in DOMAIN items : ~IsNum(items[i]) THEN Failed
    ELSE Reduced([i \in DOMAIN items |-> items[i].num], Get(m.map["for_each"], "reduce"))

UptimeTimestamp(v) ==
    CASE IsNum(v) -> IF v.num < SecondsBelow THEN Finite(v.num * 1000) ELSE v
      [] OneOf(v, DOMAIN Dates) -> Num(Dates[v.text])
      [] OTHER -> Failed

UptimeStatus(v) ==
    CASE v \in {Flag(TRUE), Text("up")} -> Text("up")
      [] v \in {Flag(FALSE), Text("down")} -> Text("down")
      [] v = Text("unknown") -> v
      [] OTHER -> Failed

\* One observation that is in error is the error of all; null is no response time.
ParsedObservations(items) ==
    LET observation(v) == [timestamp |-> UptimeTimestamp(Get(v, "timestamp")), status |-> UptimeStatus(Get(v, "status")),
                           responseTimeMs |-> Get(v, "responseTimeMs")]
        usable(o) == o.timestamp # Failed /\ o.status # Failed /\ (o.responseTimeMs = Absent \/ IsNum(o.responseTimeMs))
        all == {observation(items.list[i]) : i \in 1..Len(items.list)}
    IN  IF IsList(items) /\ \A i \in 1..Len(items.list) : IsMap(items.list[i]) /\ usable(observation(items.list[i]))
        THEN [observations |-> all] ELSE Failed

\* What a metric's extractor makes of the answer; items of all pages are one answer.
ExtractedValue(m, reply) ==
    IF Has(m, "for_each") THEN ForEachValue(m, reply.items)
    ELSE IF OneOf(Get(m, "value_type"), {"uptime"}) THEN ParsedObservations(reply.jq)
    ELSE IF Get(m, "text") = Flag(TRUE) THEN TextValue(m, reply.text)
    ELSE IF Has(m, "jq") THEN JqValue(m, reply.jq) ELSE PrometheusValue(m, reply.lines)

\* Wrong variant: what a transform makes of a number may be infinite.
Transformed_Unchecked(m, value) ==
    LET by(field, default) == IF Has(m.map["transform"], field) THEN m.map["transform"].map[field].num ELSE default
    IN  IF IsNum(value) /\ Has(m, "transform") THEN Finite(value.num * by("multiply", 1) + by("add", 0)) ELSE value

\* transformMetricResult: without a transform an infinite sum stays one.
Transformed(m, value) ==
    LET by(field, default) == IF Has(m.map["transform"], field) THEN m.map["transform"].map[field].num ELSE default
        number == IF value = Infinite THEN value ELSE Finite(value.num * by("multiply", 1) + by("add", 0))
    IN  IF (IsNum(value) \/ value = Infinite) /\ Has(m, "transform")
        THEN IF number = Infinite THEN Failed ELSE number
        ELSE value

-----------------------------------------------------------------------------
(* Statistics of a container.                                              *)

Counted(v) == IF IsNum(v) /\ v.num >= 0 THEN v ELSE Absent

\* The sum over the networks, if all of them count.
NetworkBytes(networks, field) ==
    LET bytes == [n \in Keys(networks) |-> Counted(Get(networks.map[n], field))] IN
    IF bytes = <<>> \/ \E n \in DOMAIN bytes : bytes[n] = Absent THEN Absent
    ELSE Finite(Sets!MapThenSumSet(LAMBDA n : bytes[n].num, DOMAIN bytes))

\* parseDockerStats, with onlineCpus before cpuCount where it is not 0.
ParsedStats(reply) ==
    LET cpu == Get(reply, "cpu_stats")
        previous == Get(reply, "precpu_stats")
        total(v) == Counted(Get(Get(v, "cpu_usage"), "total_usage"))
        system(v) == Counted(Get(v, "system_cpu_usage"))
        perCpu == Get(Get(cpu, "cpu_usage"), "percpu_usage")
        online == Counted(Get(cpu, "online_cpus"))
    IN  IF {total(cpu), total(previous), system(cpu), system(previous)} \cap {Absent} # {} THEN Failed
        ELSE [cpuDelta |-> total(cpu).num - total(previous).num, systemDelta |-> system(cpu).num - system(previous).num,
              cpus |-> IF online \notin {Absent, Num(0)} THEN online.num ELSE IF IsList(perCpu) THEN Len(perCpu.list) ELSE 1,
              memoryUsage |-> Counted(Get(Get(reply, "memory_stats"), "usage")),
              memoryLimit |-> Counted(Get(Get(reply, "memory_stats"), "limit")),
              received |-> NetworkBytes(Get(reply, "networks"), "rx_bytes"),
              sent |-> NetworkBytes(Get(reply, "networks"), "tx_bytes")]

CpuPercent(stats) ==
    IF stats.systemDelta > 0 /\ stats.cpuDelta >= 0
    THEN Quotient(stats.cpuDelta * stats.cpus * 100, stats.systemDelta) ELSE Absent

\* The counters of the Docker API have 64 bits: no sum or percentage of them is too great.
ASSUME StatsAssumption ==
    MaxNumber \in Nat /\ \A reply \in StatsReplies :
        LET stats == ParsedStats(reply) IN
        stats # Failed => /\ Infinite \notin {stats.received, stats.sent, CpuPercent(stats)}
                          /\ Counted(stats.received) = stats.received /\ Counted(stats.sent) = stats.sent

\* networkRates, in bytes per tick.
NetworkRate(bytes, before, at) ==
    IF traffic = Absent \/ at <= traffic.timestamp \/ bytes = Absent THEN Absent
    ELSE IF Infinite \in {bytes, before} THEN Infinite
    ELSE LET grown == bytes.num - before.num IN Finite((IF grown > 0 THEN grown ELSE 0) \div (at - traffic.timestamp))

HasCounters(stats) == stats.received # Absent /\ stats.sent # Absent

\* collectDockerResources of what was answered at that time, for the selected resources.
CollectedResources(stats, at) ==
    LET for(r, v) == IF r \in selection THEN v ELSE Absent
        before(field) == IF traffic = Absent THEN Absent ELSE traffic[field]
    IN  Map([cpuPercent |-> for("cpu", CpuPercent(stats)),
             memoryUsage |-> for("memory", stats.memoryUsage), memoryLimit |-> for("memory", stats.memoryLimit),
             receivedBytesPerSecond |-> for("network", NetworkRate(stats.received, before("received"), at)),
             sentBytesPerSecond |-> for("network", NetworkRate(stats.sent, before("sent"), at)),
             networkRatePending |-> Flag("network" \in selection /\ HasCounters(stats) /\ traffic = Absent)])

-----------------------------------------------------------------------------
(* The card's metric.                                                      *)

\* normalizeCustomMetric; a value of another type is left out in silence.
NormalizedValue(m, value) ==
    LET named == [key |-> Text(Key), label |-> Get(m, "label"), value |-> value]
        of(field) == IF IsText(value) THEN Get(Get(m, field), value.text) ELSE Absent
        type == m.map["value_type"].text
    IN  CASE type = "string" /\ IsText(value) -> Map(named)
          [] type = "state" /\ IsText(value) ->
                Map(Spread(named, [valueLabel |-> of("state_labels"), color |-> Else(of("state_colors"), Get(m, "color"))]))
          [] type = "number" /\ (IsNum(value) \/ value = Infinite) ->
                Map(Spread(named, [unit |-> Get(m, "unit"), chart |-> Get(m, "chart"), chartGroup |-> Get(m, "chart_group"),
                                   rate |-> Get(m, "rate")]))
          [] OTHER -> Absent

\* counterRates of one metric: what it gives out for the counter at that time.
RateMetric(metric, at) ==
    LET value == metric.map["value"]
        pending == Map(Spread(metric.map, [value |-> Num(0), pending |-> Flag(TRUE)]))
        grown == value.num - counts.value.num
    IN  IF Get(metric, "rate") = Absent THEN metric
        ELSE IF counts = Absent THEN pending
        ELSE IF at <= counts.timestamp THEN pending
        ELSE Map([metric.map EXCEPT !["value"] =
                    IF Infinite \in {value, counts.value} THEN Infinite
                    ELSE Quotient(IF grown > 0 THEN grown ELSE 0, at - counts.timestamp)])

StatusRank == [s \in {"up", "unknown", "down"} |-> CASE s = "up" -> 2 [] s = "unknown" -> 1 [] OTHER -> 0]

Before(a, b) ==
    \/ a.timestamp = Infinite
    \/ b.timestamp # Infinite /\ (a.timestamp.num < b.timestamp.num
          \/ (a.timestamp = b.timestamp /\ StatusRank[a.status.text] <= StatusRank[b.status.text]))

\* getLatestUptimeObservation after these are saved; one with an infinite time is pruned at once.
LatestOf(observations) ==
    LET rows == {o \in observations \cup ({lastSeen} \ {Absent}) : o.timestamp # Infinite} IN
    IF rows = {} THEN Absent ELSE CHOOSE o \in rows : \A p \in rows : Before(p, o)

-----------------------------------------------------------------------------
(* Collection.                                                             *)

ValuesInit ==
    /\ asked \in AskedMetrics \cup {Absent}
    /\ selection \in IF asked = Absent THEN SUBSET Resources \ {{}} ELSE {{}}
    /\ clock = 0 /\ collections = 0 /\ latestUsage = Absent /\ counts = Absent /\ traffic = Absent /\ lastSeen = Absent /\ saved = <<>>

Told(metrics, uptime, errors) == [resource |-> Absent, metrics |-> metrics, uptime |-> uptime, errors |-> errors]

\* The card has a value; saveMetricSample leaves out what is pending or not finite.
ValueTold(normal, metric) ==
    /\ counts' = IF Get(normal, "rate") # Absent THEN [value |-> normal.map["value"], timestamp |-> clock] ELSE counts
    /\ latestUsage' = Told(<<metric>>, <<>>, <<>>)
    /\ saved' = IF IsNum(Get(metric, "value")) /\ ~Has(metric, "pending")
                THEN Append(saved, Map([timestamp |-> Num(clock), value |-> metric.map["value"]])) ELSE saved
    /\ UNCHANGED lastSeen

\* Observations are saved, and the latest of all is the state now.
ObservationsTold(latest) ==
    /\ lastSeen' = latest
    /\ latestUsage' = Told(<<>>, <<IF latest = Absent THEN Text("unknown") ELSE latest.status>>, <<>>)
    /\ UNCHANGED <<counts, saved>>

\* After a failure the state of an uptime is the last one known.
ErrorTold ==
    /\ latestUsage' = Told(<<>>, IF lastSeen = Absent THEN <<>> ELSE <<lastSeen.status>>, <<Text("collection_failed")>>)
    /\ UNCHANGED <<counts, saved, lastSeen>>

\* A sample with nothing in it is none.
NothingTold == UNCHANGED <<latestUsage, counts, saved, lastSeen>>

AnswerTold(value) ==
    CASE value = Failed -> ErrorTold
      [] "observations" \in DOMAIN value -> ObservationsTold(LatestOf(value.observations))
      [] OTHER -> LET normal == NormalizedValue(asked, value) IN
                  IF normal = Absent THEN NothingTold ELSE ValueTold(normal, RateMetric(normal, clock))

\* A metric is answered, or the request has failed.
MetricCollected(reply) ==
    /\ asked # Absent /\ collections < MaxCollections /\ collections' = collections + 1
    /\ AnswerTold(IF reply = Failed THEN Failed ELSE Transformed(asked, ExtractedValue(asked, reply)))
    /\ UNCHANGED <<asked, selection, clock, traffic>>

\* Statistics are answered; those in error are none, and no sample.
StatsCollected(reply) ==
    /\ asked = Absent /\ collections < MaxCollections /\ collections' = collections + 1
    /\ LET stats == ParsedStats(reply) IN
        IF stats = Failed THEN UNCHANGED <<asked, selection, clock, latestUsage, counts, traffic, lastSeen, saved>>
        ELSE /\ traffic' = IF HasCounters(stats) THEN [received |-> stats.received, sent |-> stats.sent, timestamp |-> clock] ELSE traffic
             /\ LET resource == CollectedResources(stats, clock) IN
                /\ latestUsage' = [resource |-> resource, metrics |-> <<>>, uptime |-> <<>>, errors |-> <<>>]
                /\ saved' = Append(saved, Map(Spread([timestamp |-> Num(clock)], Without(resource, {"networkRatePending"}).map)))
             /\ UNCHANGED <<asked, selection, clock, counts, lastSeen>>

Waits ==
    /\ collections > clock /\ clock' = clock + 1
    /\ UNCHANGED <<asked, selection, collections, latestUsage, counts, traffic, lastSeen, saved>>

ValuesNext ==
    \/ \E reply \in Replies[asked] : MetricCollected(reply)
    \/ \E reply \in StatsReplies : StatsCollected(reply)
    \/ Waits

-----------------------------------------------------------------------------
(* The message for a viewer who may see these.                             *)

ResourceOf == [cpuPercent |-> "cpu", memoryUsage |-> "memory", memoryLimit |-> "memory",
               receivedBytesPerSecond |-> "network", sentBytesPerSecond |-> "network", networkRatePending |-> "network"]

VisibleResource(resource, visible) ==
    Map([f \in Keys(resource) |->
            IF f \in DOMAIN ResourceOf THEN IF ResourceOf[f] \in visible THEN resource.map[f] ELSE Absent ELSE resource.map[f]])

\* metricsSnapshot; the buckets of uptime are those of MetricHistory.
MetricsSnapshot(visible, recovering) ==
    LET latest == IF latestUsage = Absent THEN [resource |-> Absent, metrics |-> <<>>, uptime |-> <<>>, errors |-> <<>>] ELSE latestUsage
        may(s) == IF Key \in visible THEN s ELSE <<>>
        each(s, of(_)) == List([i \in DOMAIN s |-> of(s[i])])
        charted(m) == IF Has(m, "unit") THEN Map(Spread([history |-> List(saved), historyPeriodMs |-> Num(1)], m.map)) ELSE m
        history == IF asked = Absent THEN saved ELSE <<>>
    IN  Map([resource |-> IF latest.resource = Absent THEN Null ELSE VisibleResource(latest.resource, visible),
             history |-> each(history, LAMBDA r : VisibleResource(r, visible)),
             historyPeriodMs |-> Num(1), pending |-> Flag(latestUsage = Absent),
             customMetrics |-> each(may(latest.metrics), charted),
             metricRecovery |-> Map([k \in IF recovering # Absent /\ Key \in visible THEN {Key} ELSE {} |-> recovering]),
             uptimeMetrics |-> each(may(latest.uptime), LAMBDA s : Map([key |-> Text(Key), label |-> Get(asked, "label"), current |-> s])),
             metricErrors |-> each(may(latest.errors), LAMBDA e : Map([key |-> Text(Key), code |-> e]))])

SnapshotMessage(visible, recovering) ==
    Map([type |-> Text("metrics_snapshot"), version |-> Num(1), cardId |-> Text("card"), metrics |-> MetricsSnapshot(visible, recovering)])

\* JSON has no undefined, and no infinite numbers.
JsonText(p, inside) ==
    IF p = Infinite THEN Null
    ELSE IF IsList(p) THEN List([i \in DOMAIN p.list |-> inside[p.list[i]]])
    ELSE IF IsMap(p) THEN Map([k \in {f \in Keys(p) : p.map[f] # Absent} |-> inside[p.map[k]]])
    ELSE p

AsJson(v) == Rebuilt(v, JsonText)

-----------------------------------------------------------------------------
(* What the browser accepts.                                               *)

EveryIn(v, P(_)) == IsList(v) /\ \A i \in DOMAIN v.list : P(v.list[i])

IsContainerResources(v) ==
    /\ IsMap(v)
    /\ \A f \in {"cpuPercent", "memoryUsage", "memoryLimit", "receivedBytesPerSecond", "sentBytesPerSecond"} : Opt(v, f, IsNum)
    /\ Opt(v, "networkRatePending", IsFlag)

IsCustomMetricState(v) ==
    IsText(Get(v, "value")) /\ Opt(v, "color", LAMBDA c : OneOf(c, Colors)) /\ Opt(v, "valueLabel", IsText)

\* The units are listed here once more.
IsCustomMetricUnit(v) ==
    \/ OneOf(v, {"number", "count", "percent", "ratio", "bytes", "bytes_per_second", "bits", "bits_per_second", "seconds",
                 "milliseconds", "microseconds", "duration", "hertz", "watts", "volts", "amperes", "celsius", "fahrenheit", "boolean"})
    \/ IsText(Get(v, "suffix"))

IsCustomMetricSample(v) == IsNum(Get(v, "timestamp")) /\ IsNum(Get(v, "value"))

IsCustomMetricNumber(v) ==
    /\ IsNum(Get(v, "value")) /\ IsCustomMetricUnit(Get(v, "unit")) /\ OneOf(Get(v, "chart"), Charts)
    /\ Opt(v, "chartGroup", IsText) /\ OptTrue(v, "pending")
    /\ EveryIn(Get(v, "history"), IsCustomMetricSample)
    /\ IsNum(Get(v, "historyPeriodMs")) /\ Get(v, "historyPeriodMs").num > 0

IsCustomMetric(v) ==
    IsMap(v) /\ IsText(Get(v, "key")) /\ IsText(Get(v, "label")) /\ (IsCustomMetricState(v) \/ IsCustomMetricNumber(v))

IsMetricError(v) == IsText(Get(v, "key")) /\ OneOf(Get(v, "code"), {"collection_failed", "configuration_invalid"})

IsResourceMetricSample(v) == IsNum(Get(v, "timestamp")) /\ IsContainerResources(v)

\* The uptime metrics are not checked: realtime-client.ts leaves them out.
IsMetricsResponse(v) ==
    /\ Has(v, "resource") /\ (Get(v, "resource") = Null \/ IsContainerResources(Get(v, "resource")))
    /\ Opt(v, "history", LAMBDA h : EveryIn(h, IsResourceMetricSample))
    /\ Opt(v, "historyPeriodMs", LAMBDA p : IsNum(p) /\ p.num > 0)
    /\ Opt(v, "pending", IsFlag)
    /\ Opt(v, "metricRecovery", LAMBDA r : IsMap(r) /\ \A k \in Keys(r) : OneOf(r.map[k], {"recovering", "retrying"}))
    /\ EveryIn(Get(v, "customMetrics"), IsCustomMetric)
    /\ EveryIn(Get(v, "metricErrors"), IsMetricError)

IsServerMessage(v) ==
    /\ IsText(Get(v, "type")) /\ IsNum(Get(v, "version"))
    /\ IsText(Get(v, "cardId")) /\ IsMetricsResponse(Get(v, "metrics"))

-----------------------------------------------------------------------------
(* Properties.                                                             *)

\* Numbers that no check follows: sums over items without a transform, and rates.
Unchecked == Has(asked, "rate") \/ (Has(asked, "for_each") /\ ~Has(asked, "transform"))

(* Whatever a provider answers, the browser accepts the message that tells *)
(* of it: a metric whose answer cannot be shown is an error on the card,   *)
(* and never the reason that the browser drops the whole message, with     *)
(* the card's other metrics (realtime-client.ts:42, status.ts:168).  Only  *)
(* sums over items, and rates of counters that leap across all numbers,    *)
(* have no check of their own (custom-metric-parsing.ts:155, metrics.ts:34). *)
MessagesUnderstood ==
    latestUsage # Absent \/ asked # Absent => \A visible \in {Resources \cup {Key}, {}}, recovering \in {Absent, Text("recovering"), Text("retrying")} :
        \/ IsServerMessage(AsJson(SnapshotMessage(visible, recovering)))
        \/ Unchecked /\ \E i \in DOMAIN latestUsage.metrics : latestUsage.metrics[i].map["value"] = Infinite

(* No answer is dropped in silence: what is extracted for a metric is of    *)
(* the type that the metric has, so that the card shows a value, the state *)
(* of an uptime, or an error (target-plan.ts:68, 117).                     *)
AnswersTold ==
    asked # Absent => \A reply \in Replies[asked] \ {Failed} :
        LET value == Transformed(asked, ExtractedValue(asked, reply)) IN
        \/ value = Failed
        \/ "observations" \in DOMAIN value
        \/ NormalizedValue(asked, value) # Absent
=============================================================================
