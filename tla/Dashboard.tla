----------------------------- MODULE Dashboard ------------------------------
(***************************************************************************)
(* The dashboard from its inputs to what a viewer is shown: contributors   *)
(* publish metrics, the owner edits the configuration file, containers     *)
(* with labels run, and requests build cards from all of it.  Beside it    *)
(* the stored history of one of its cards, what becomes of a provider's    *)
(* answers, and the states of containers on their way to a browser.  The   *)
(* five share no variable, so that a behaviour follows one of them.        *)
(***************************************************************************)
EXTENDS CatalogCheck, Cards, MetricHistory, MetricValues, RealtimeStatus

CONSTANTS
    Definitions,    \* metrics with their providers, as contributors write them,
    LibraryFiles,   \* and those that are in the library, by their keys
    Worlds,         \* contents of the file, containers of all hosts and settings of the environment
    Rewrites,       \* the contents that may be replaced by one another
    Viewers,        \* headers of requests
    MaxStamp, MaxEdits

\* The periods of the file and of the environment are integers where they are numbers.
ASSUME PeriodsAssumption ==
    \A w \in Worlds, k \in PeriodSettings :
        \A v \in {Get(Get(w.content, "settings"), k), Get(w.env, k)} : IsNum(v) => v.num \in Int

\* Labels are texts; one that lists names is the list of them.
ASSUME ContainersAssumption ==
    \A w \in Worlds : \A c \in w.containers :
        /\ {"id", "host", "name", "compose", "labels", "state", "health", "current"} \subseteq DOMAIN c
        /\ IsMap(c.labels) /\ \A l \in Keys(c.labels) : IsStringList(c.labels.map[l])

\* The ids of cards tell them apart.
ASSUME IdsAssumption ==
    \A w \in Worlds :
        /\ \A c, d \in w.containers : DockerId(c) = DockerId(d) => c = d
        /\ \A m, n \in Services(w.content) : YamlId(m) = YamlId(n) => m = n
        /\ \A c \in w.containers, n \in Services(w.content) : DockerId(c) # YamlId(n)

VARIABLES
    follows,    \* "library", "dashboard", "history", "values" or "statuses"
    published,  \* the metric a contributor publishes
    file,       \* the file: its content and stamp, or Absent, or Failed when it cannot be looked at
    cache,      \* configCache
    config,     \* what the last loadYamlConfig returned
    world,      \* the containers and the environment
    edits,
    versions    \* every content the file has had, with its stamp

dashboardVars == <<published, file, cache, config, world, edits, versions>>
besides == <<historyVars, valueVars, statusVars>>
vars == <<follows, dashboardVars, besides>>

\* loadMetricDefinitions, and loadMetricCatalog of the same files.
Library == [k \in DOMAIN LibraryFiles |-> LoadedDefinition(LibraryFiles[k].file, LibraryFiles[k].provider)]
Catalog == AcceptedOnly(Library)

\* metrics/test-metric.ts, which contributors run, refuses what the program does not read.
ASSUME LibraryAssumption == \A k \in DOMAIN LibraryFiles : Readable(Library[k])

-----------------------------------------------------------------------------
(* Behaviour.                                                              *)

Nowhere == [containers |-> {}, env |-> Map(<<>>)]
FirstStamp == <<1, 1>>

Init ==
    /\ follows \in {"library", "dashboard", "history", "values", "statuses"}
    /\ published = Absent /\ cache = NoCache /\ config = EmptyConfig(FALSE) /\ edits = 0
    /\ IF follows = "dashboard"
       THEN \E w \in Worlds :
                /\ file = IF w.content \in {Absent, Failed} THEN w.content ELSE [content |-> w.content, stamp |-> FirstStamp]
                /\ world = [containers |-> w.containers, env |-> w.env]
       ELSE file = Absent /\ world = Nowhere
    /\ versions = {file} \ {Absent, Failed}
    /\ HistoryInit
    /\ follows # "history" => /\ period = CHOOSE p \in Periods : TRUE
                              /\ selected = CHOOSE s \in Selections : TRUE
    /\ ValuesInit
    /\ follows # "values" => asked = Absent /\ selection = Resources
    /\ StatusInit

Publish(d) ==
    /\ published' = d
    /\ UNCHANGED <<follows, file, cache, config, world, edits, versions, besides>>

\* Bound: edits are followed where no container runs, between contents of Rewrites.
Editable == follows = "dashboard" /\ edits < MaxEdits /\ world.containers = {} /\ file \notin {Absent, Failed}

\* An edit may leave the size, and within a tick of the clock the time of the file.
EditFile(content, time, size) ==
    /\ Editable /\ file.content \in Rewrites \ {content}
    /\ time >= file.stamp[1]
    /\ edits' = edits + 1
    /\ file' = [content |-> content, stamp |-> <<time, size>>]
    /\ versions' = versions \cup {file'}
    /\ UNCHANGED <<follows, published, cache, config, world, besides>>

RemoveFile ==
    /\ Editable /\ file.content \in Rewrites
    /\ edits' = edits + 1
    /\ file' = Absent
    /\ UNCHANGED <<follows, published, cache, config, world, versions, besides>>

\* loadYamlConfig, with which every page and every discovery begins.
Load ==
    /\ follows = "dashboard"
    /\ cache' = IF file \in {Absent, Failed} THEN cache ELSE Loaded(file, cache, Library)
    /\ config' = CASE file = Absent -> EmptyConfig(FALSE)
                   [] file = Failed -> EmptyConfig(TRUE)
                   [] OTHER -> cache'.config
    /\ UNCHANGED <<follows, published, file, world, edits, versions, besides>>

Next ==
    \/ follows = "library" /\ published = Absent /\ \E d \in Definitions : Publish(d)
    \/ \E content \in Rewrites, time \in 1..MaxStamp, size \in 1..2 : EditFile(content, time, size)
    \/ RemoveFile
    \/ Load
    \/ follows = "history" /\ HistoryNext /\ UNCHANGED <<follows, dashboardVars, valueVars, statusVars>>
    \/ follows = "values" /\ ValuesNext /\ UNCHANGED <<follows, dashboardVars, historyVars, statusVars>>
    \/ follows = "statuses" /\ StatusNext /\ UNCHANGED <<follows, dashboardVars, historyVars, valueVars>>

Spec == Init /\ [][Next]_vars

-----------------------------------------------------------------------------
(* The library.                                                            *)

\* What the check lets through and the program does not read.
LetThrough(v) ==
    \/ Has(v, "notes") \/ IsSocketSource(Get(v, "source"))
    \/ \E k \in {"value", "kind", "unit", "method"} : Get(v, k) = Null
    \/ Has(v, "url") /\ \E k \in {"headers", "query"} : Has(v, k) /\ ~IsMap(v.map[k])
    \/ ~(Keys(Get(v, "headers")) \subseteq HeaderNames)
    \/ \E k \in {"query", "form", "json"} : Has(Get(v, k), "")
    \/ Get(v, "form") = Map(<<>>)
    \/ IsText(Get(v, "header")) /\ ~OneOf(Get(v, "header"), HeaderNames)
    \/ Has(v, "cheerio") /\ (Has(v, "jq") \/ ~Filled(Get(v.map["cheerio"], "selector")))
    \/ Has(v, "cheerio") /\ OneOf(Get(v.map["cheerio"], "selector"), PaddedTexts)
    \/ IsText(Get(v, "env")) /\ IsText(Get(v, "file"))
    \/ LET bulk == Get(Get(Get(v, "extract"), "pagination"), "bulk")
           size == Get(Get(Get(v, "source"), "query"), Get(bulk, "page_size_parameter").text)
       IN  IsMap(bulk) /\ ~(IsNum(size) /\ size.num \in 1..MaxObservations)

(* A metric that passes `npm run validate:metrics` is one the program      *)
(* reads, except for the forms of LetThrough: the check is written         *)
(* apart from the parsers and the two must not drift                       *)
(* (scripts/validate-metrics.mjs:428, config-file-validation.ts:785).      *)
LibraryLoads ==
    published # Absent /\ Checked(published.file, published.provider) =>
        \/ InLibrary(published.file, published.provider)
        \/ \E v \in Parts(published.file) \cup Parts(Get(published.provider, "source")) : LetThrough(v)

StaysReadable(metric) ==
    LET kinds == {Map([value_type |-> Text("string")]), Map([value_type |-> Text("number")]),
                  Map([value_type |-> Text("state"), color |-> Text("info")])}
        left == Keys(metric) \cap {"rate", "state_labels"}
    IN  /\ Accepted(MergedMetric(metric, Map([label |-> Text("other")])))
        /\ Extractors(metric) \subseteq {"jq", "text"} /\ left = {} /\ ~Has(Get(metric, "pagination"), "recover") =>
            \A v \in kinds : Accepted(MergedMetric(metric, v))

(* A metric of the library that jq or a text extracts stays readable when  *)
(* its owner overrides its label, or its kind with what the other kind     *)
(* needs: the fields of the old kind are dropped, except for `rate` and    *)
(* the labels of states (config-file-validation.ts:625).                   *)
OverridesReadable ==
    published # Absent /\ InLibrary(published.file, published.provider) =>
        StaysReadable(LoadedDefinition(published.file, published.provider))

-----------------------------------------------------------------------------
(* The configuration.                                                      *)

(* A load goes by a version of the file that had the time and size         *)
(* the file has now: one in error replaces what was read before it, and    *)
(* only an edit within a tick of the clock that keeps the size goes        *)
(* unnoticed (config-file.ts:28).                                          *)
ConfigFollowsFile ==
    file \notin {Absent, Failed} =>
        LET followed(loaded) == \E v \in versions : v.stamp = file.stamp /\ loaded = Read(v.content, v.stamp, Library)
        IN  followed(Loaded(file, cache, Library))

\* The services of an accepted file that configure metrics in detail.
Configured ==
    IF file \in {Absent, Failed} \/ config.error \/ cache.stamp # file.stamp THEN {}
    ELSE {n \in DOMAIN config.services : IsMap(Get(Get(file.content, n), "metrics"))}

EntriesOf(name) == LET e == Get(Get(Get(file.content, name), "metrics"), "entries") IN IF e = Absent THEN Map(<<>>) ELSE e

(* An own metric that is in error costs nothing but itself and those of    *)
(* its chart group: without it the service's other metrics are what they   *)
(* were (config-file-validation.ts:1093).                                  *)
BadEntryIsolated ==
    edits = 0 => \A n \in Configured :
        LET metrics == Get(Get(file.content, n), "metrics")
            parsed == config.services[n]["metrics"].some
            group(e) == Get(Get(EntriesOf(n).map[e], "display"), "chart")
            rest(e) == Merged(metrics, Map([entries |-> Without(EntriesOf(n), {e})]))
            without(e) == ParsedServiceMetrics(rest(e), Library, ParsedSharedSources(Get(file.content, "shared_metric_sources")))
        IN  \A e \in parsed.errors : \A k \in (DOMAIN parsed.metrics) \cup DOMAIN without(e).metrics :
                \/ /\ k \in (DOMAIN parsed.metrics) \cap DOMAIN without(e).metrics
                   /\ parsed.metrics[k] = without(e).metrics[k]
                \/ group(e) # Absent /\ group(k) = group(e)

-----------------------------------------------------------------------------
(* Cards.                                                                  *)

\* What requests build cards from; nothing is shown while the file is in error.
Settings == Config(config.settings, world.env)
Inputs == WorldOf(config.services, world.containers, Catalog, Settings)
\* What is resolved and shown of a container by settings.
ResolvedAs(c, settings) == ResolveContainer(config.services, c, settings.homepageLabelFallback, Catalog)
CardAs(c, settings) == CardFromContainer(settings, c, ResolvedAs(c, settings), FALSE)
Ready == follows = "dashboard" /\ ~config.error /\ edits = 0 /\ cache # NoCache

(* Every entry of a service's metrics is on its card, as a resource or as  *)
(* a metric, or is one of the errors that parsing has logged: none is      *)
(* dropped in silence (config-file-validation.ts:1258,                     *)
(* metric-collection/details.ts:8).                                        *)
EntriesExplained ==
    Ready => \A c \in world.containers :
        LET n == LookupYamlService(config.services, c)
            card == CardAs(c, Settings)
        IN  n # Absent => (n.text \in Configured =>
                Keys(EntriesOf(n.text)) \subseteq
                    card.resourceStats \cup card.metrics.metricLabels \cup config.services[n.text]["metrics"].some.errors)

\* The label of a container that says what a service's field says.
LabelsOf(field) ==
    CASE field = "title" -> {"title", "homepage.name"}
      [] field = "url" -> {"url", "homepage.href"}
      [] field = "category" -> {"category", "homepage.group"}
      [] field = "order" -> {"order", "homepage.weight"}
      [] OTHER -> {field}

\* No label of a source, an input or a restriction has the name of one of these.
ASSUME LabelNamesAssumption ==
    \A f \in ServiceFields : \A l \in LabelsOf(f) :
        /\ \A p \in Names : SourceLabel(p) # l
        /\ \A m \in MetricKeys : AccessLabel(m) # l
        /\ \A key \in Names \cup DOMAIN LibraryFiles, n \in ParameterNames : InputLabel(key, n) # l

(* What a service says of a container's card is not what its labels say:   *)
(* taking those labels away changes no card                                *)
(* (docker-card-resolution.ts:41).                                         *)
ServiceOverLabels ==
    Ready => \A c \in world.containers :
        LET n == LookupYamlService(config.services, c)
            given == {f \in DOMAIN config.services[n.text] : config.services[n.text][f] # Absent}
            bare(f) == [c EXCEPT !.labels = Without(@, LabelsOf(f))]
            shown(r, settings) == <<Hidden(r), CardFromContainer(settings, c, r, FALSE)>>
            seen(d, settings) == shown(ResolvedAs(d, settings), settings)
        IN  n # Absent => \A f \in given : seen(bare(f), Settings) = seen(c, Settings)

\* What a viewer is sent of a card, in the two ways there are, and the cards shown to the viewer.
ViewsOf(c, access, usage, shown, default) ==
    LET card == CHOOSE d \in shown : d.id = c.id IN
    /\ access # NoTarget \/ usage # NoTarget => c.id \in {d.id : d \in shown}
    /\ access # NoTarget => /\ access.errors \subseteq card.metrics.errors
                            /\ card.resourceStats \cup card.metrics.metricLabels \cup access.errors # {}
    /\ usage # NoTarget => usage.historyPeriodMs = Else(c.metrics.historyPeriodMs, Num(default)).num

ViewsIn(inputs, headers) ==
    /\ StatusesFor(inputs, headers) = StatusSnapshot(inputs, headers)
    /\ \A c \in AllCards(inputs) :
            ViewsOf(c, MetricAccess(inputs, headers, c), UsageFor(inputs, headers, c.id), CardsFor(inputs, headers),
                    inputs.config.metricsHistoryPeriodMs)

(* The three ways to a viewer's data agree: states of containers are those *)
(* of the cards shown, and the metrics sent for a card are those of a card *)
(* that is shown and shows them, unless the page tells a viewer without    *)
(* identity to log in (docker.ts:395, 429, 596, discovery-coordinator.ts:110). *)
ViewsAgree ==
    Ready => \A headers \in Viewers :
        ~Settings.enableAccessControl \/ Identities(Settings, headers) # {} => ViewsIn(Inputs, headers)

Kept(targets, retained) ==
    \A t \in targets : \E kept \in retained :
        /\ kept.cardId = t.cardId /\ kept.historyPeriodMs >= t.details.historyPeriodMs
        /\ t.details.resourceStats # {} => kept.hasResourceMetrics
        /\ t.numeric \subseteq kept.customMetricKeys /\ t.uptime \subseteq kept.uptimeMetricKeys

(* Whatever is collected for a card is kept: retention, which discovery    *)
(* derives from cards, covers the metrics and the period that collection   *)
(* derives from targets (docker.ts:538, discovery-coordinator.ts:59).      *)
RetentionKeepsCollected ==
    Ready => LET all(inputs) == Kept(MetricTargets(inputs), RetentionTargets(inputs)) IN all(Inputs)

-----------------------------------------------------------------------------
(* Requests.                                                               *)

\* The metrics of the cards that can be asked for.
AskableOf(r, labels) == {[key |-> k, metric |-> r.custom[k], labels |-> labels] : k \in DOMAIN r.custom}
Askable ==
    UNION {AskableOf(ResolvedAs(c, Settings), c.labels) : c \in world.containers}

SentAsLabelled(source, labels, sent) ==
    LET stored(place, name) == IF Has(place, name.text) THEN place.map[name.text] ELSE Failed
        expected(v) == IF OneOf(Get(v, "label"), Keys(labels)) THEN labels.map[v.map["label"].text]
                       ELSE IF Has(v, "value") THEN v.map["value"]
                       ELSE IF Has(v, "env") THEN stored(Variables, v.map["env"])
                       ELSE IF Has(v, "file") THEN stored(Files, v.map["file"]) ELSE Failed
    IN  \A n \in {m \in Keys(Get(source, "headers")) : IsSecret(source.map["headers"].map[m])} :
            LET value == expected(source.map["headers"].map[n]) IN
            IF value \in {Failed, Text("")} THEN sent = Failed
            ELSE sent # Failed => sent.map["headers"].map[n] = value

(* A credential is the one of the container's label where it has one, else *)
(* what the configuration writes, the environment or the file, and a       *)
(* request that lacks one is not sent (custom-metric-references.ts:33).    *)
CredentialsPreferLabels ==
    Ready => \A a \in Askable :
        LET source == a.metric.map["source"] IN
        SentAsLabelled(source, a.labels, SentRequest(source, Variables, Files, Map(<<>>)))

(* A metric is asked for with all of its inputs, from whichever of labels  *)
(* and configuration they come: no name in braces of its own is left in a  *)
(* URL, and none in a field of a body, however deep                        *)
(* (metric-source-resolution.ts:86, 116).                                  *)
NothingSentUnfilled ==
    Ready => \A a \in Askable :
        LET source == a.metric.map["source"]
            body == Get(source, "json")
            typed == {n \in Keys(Get(a.metric, "parameters")) : Get(a.metric.map["parameters"].map[n], "type") = Text("json_value")}
        IN  /\ \A n \in (DOMAIN source.map["url"].filling) \cap Keys(Get(a.metric, "parameters")) :
                    source.map["url"].filling[n] # [left |-> n]
            /\ \A f \in Keys(body) : \A v \in Parts(body.map[f]) : Keys(v) = {"parameter"} => ~OneOf(v.map["parameter"], typed)
=============================================================================
