------------------------- MODULE MetricDefinitions --------------------------
(***************************************************************************)
(* How the running program reads metric definitions, the metric half of    *)
(* config-file-validation.ts with config-file-metrics.ts: a definition in  *)
(* sections is normalised to flat fields with the defaults of its provider *)
(* or service, an override is laid over the library's metric, and what is  *)
(* left is accepted or rejected.  What a parser returns is the value it    *)
(* was given, so parsers are predicates here.  Messages are left out.      *)
(***************************************************************************)
EXTENDS Yaml

Units == {"number", "count", "percent", "ratio", "bytes", "bytes_per_second", "bits",
          "bits_per_second", "seconds", "milliseconds", "microseconds", "duration", "hertz",
          "watts", "volts", "amperes", "celsius", "fahrenheit", "boolean"}
Reductions == {"count", "sum", "average", "minimum", "maximum"}
Charts == {"step", "line", "area", "none"}
Colors == {"success", "info", "warning", "error", "disabled"}

MaxAuthSteps == 5
MaxExtractedTokens == 16
MaxObservations == 500

-----------------------------------------------------------------------------
(* Texts and references.                                                   *)

OneOf(v, texts) == IsText(v) /\ v.text \in texts

IsUnit(v) == OneOf(v, Units) \/ NonEmptyText(Get(v, "suffix"))
IsChart(v) == OneOf(v, Charts)
IsReduction(v) == OneOf(v, Reductions)
IsColor(v) == OneOf(v, Colors)
IsMetricUrl(v) == OneOf(v, HttpUrls \cup BaseUrls)

StateColors(v) == NonEmptyMap(v) /\ \A n \in Keys(v) : n # "" /\ IsColor(v.map[n])

StateLabels(v) ==
    NonEmptyMap(v) /\ \A n \in Keys(v) : n # "" /\ Filled(v.map[n]) /\ v.map[n].text \notin LongTexts

\* Of env and file one, or a container's label alone; other fields do not matter.
SecretReference(v) ==
    LET env == IsText(Get(v, "env"))
        file == IsText(Get(v, "file"))
    IN  ~(env /\ file) /\ (env \/ file \/ IsText(Get(v, "label")))

TokenReference(v) ==
    Known(v, {"token", "prefix"}) /\ OneOf(Get(v, "token"), Names) /\ Opt(v, "prefix", IsText)

RequestValue(v) == SecretReference(v) \/ TokenReference(v) \/ Scalar(v)

JsonValue(v) ==
    LET json[p \in Parts(v)] ==
            \/ RequestValue(p) \/ p = Null
            \/ IsList(p) /\ \A i \in 1..Len(p.list) : json[p.list[i]]
            \/ IsMap(p) /\ \A n \in Keys(p) : json[p.map[n]]
    IN  json[v]

-----------------------------------------------------------------------------
(* Parameters and extractors.                                              *)

UrlTransform(v) ==
    /\ Known(v, {"trim", "lowercase", "replace"}) /\ NonEmptyMap(v)
    /\ OptTrue(v, "trim") /\ OptTrue(v, "lowercase")
    /\ Opt(v, "replace", LAMBDA r : IsMap(r) /\ \A n \in Keys(r) : n # "" /\ IsText(r.map[n]))

\* A parameter's transform may name one of its provider.
TransformOf(p, transforms) ==
    LET t == Get(p, "transform") IN IF IsText(t) /\ IsMap(transforms) THEN Get(transforms, t.text) ELSE t

Parameter(p, transforms) ==
    /\ Known(p, {"label", "type", "transform"})
    /\ NonEmptyText(Get(p, "label"))
    /\ OneOf(Get(p, "type"), {"url_component", "json_value"})
    /\ Has(p, "transform") => /\ Get(p, "type") = Text("url_component")
                              /\ UrlTransform(TransformOf(p, transforms))

Parameters(v, transforms) ==
    NonEmptyMap(v) /\ \A n \in Keys(v) : n \in ParameterNames /\ Parameter(v.map[n], transforms)

\* The parameters with their transforms in place.
ResolvedParameters(v, transforms) ==
    Map([n \in Keys(v) |-> Map([k \in Keys(v.map[n]) |->
            IF k = "transform" THEN TransformOf(v.map[n], transforms) ELSE v.map[n].map[k]])])

Prometheus(v) ==
    /\ IsMap(v)
    /\ OneOf(Get(v, "name"), SeriesNames)
    /\ Opt(v, "labels", LAMBDA l : IsMap(l) /\ \A n \in Keys(l) : IsText(l.map[n]))
    /\ Opt(v, "reduce", IsReduction)
    /\ Opt(v, "value_label", NonEmptyText)

BulkHistory(v) ==
    /\ Known(v, {"url", "key", "jq", "page_size_parameter"})
    /\ IsMetricUrl(Get(v, "url"))
    /\ NonEmptyText(Get(v, "key")) /\ Get(v, "key").text \notin OversizedTexts
    /\ Filled(Get(v, "jq")) /\ NonEmptyText(Get(v, "page_size_parameter"))

PageParameter(v) == IF Has(v, "page_parameter") THEN Get(v, "page_parameter") ELSE Text("page")

Pagination(v) ==
    /\ Known(v, {"items", "next", "initial_only", "recover", "page_parameter", "bulk"})
    /\ Filled(Get(v, "items")) /\ Filled(Get(v, "next"))
    /\ OptTrue(v, "initial_only") /\ OptTrue(v, "recover")
    /\ ~(Has(v, "recover") /\ Has(v, "initial_only"))
    /\ Opt(v, "page_parameter", Filled)
    /\ Opt(v, "bulk", LAMBDA b : /\ BulkHistory(b) /\ Has(v, "recover")
                                 /\ Get(b, "page_size_parameter") # PageParameter(v))

ForEach(v) ==
    /\ Known(v, {"items", "request", "value", "reduce"})
    /\ Known(Get(v, "request"), {"url"})
    /\ Filled(Get(v, "items")) /\ Filled(Get(v, "value")) /\ IsReduction(Get(v, "reduce"))
    /\ LET url == Get(Get(v, "request"), "url") IN IsMetricUrl(url) /\ url.text \in ItemUrls

Transform(v) ==
    /\ IsMap(v) /\ (Has(v, "multiply") \/ Has(v, "add"))
    /\ Opt(v, "multiply", IsNum) /\ Opt(v, "add", IsNum)

-----------------------------------------------------------------------------
(* Requests, authentication and Socket.IO.                                 *)

Headers(v) == IsMap(v) /\ \A n \in Keys(v) : n \in HeaderNames /\ RequestValue(v.map[n])
Query(v) == IsMap(v) /\ \A n \in Keys(v) : n # "" /\ RequestValue(v.map[n])
Form(v) == NonEmptyMap(v) /\ Query(v)
Json(v) == NonEmptyMap(v) /\ \A n \in Keys(v) : n # "" /\ JsonValue(v.map[n])

TokenExtractor(v) ==
    /\ IsMap(v) /\ Cardinality(Keys(v)) = 1
    /\ \/ Filled(Get(v, "jq"))
       \/ LET cheerio == Get(v, "cheerio")
              selector == Get(cheerio, "selector")
          IN  Filled(selector) /\ selector.text \notin OversizedTexts /\ Opt(cheerio, "attribute", IsText)

TokenExtractors(v) ==
    /\ NonEmptyMap(v) /\ Cardinality(Keys(v)) <= MaxExtractedTokens
    /\ \A n \in Keys(v) : n \in Names /\ TokenExtractor(v.map[n])

Request(v) ==
    /\ Known(v, {"url", "method", "headers", "query", "form", "json", "extract"})
    /\ IsMetricUrl(Get(v, "url"))
    /\ Opt(v, "method", LAMBDA m : OneOf(m, {"GET", "POST"}))
    /\ Get(v, "method") # Text("POST") => ~Has(v, "form") /\ ~Has(v, "json")
    /\ ~(Has(v, "form") /\ Has(v, "json"))
    /\ Opt(v, "headers", Headers) /\ Opt(v, "query", Query)
    /\ Opt(v, "form", Form) /\ Opt(v, "json", Json)
    /\ Opt(v, "extract", TokenExtractors)

BasicAuth(v) == SecretReference(Get(v, "username")) /\ SecretReference(Get(v, "password"))

TokenAuth(v) ==
    /\ OneOf(Get(v, "header"), HeaderNames) # NonEmptyText(Get(v, "query"))
    /\ Opt(v, "prefix", IsText) /\ Opt(v, "suffix", IsText)
    /\ SecretReference(Get(v, "value"))

CookieSession(v) ==
    LET steps == Get(v, "requests") IN
    /\ IsList(steps) /\ Len(steps.list) \in 1..MaxAuthSteps
    /\ \A i \in 1..Len(steps.list) : Request(steps.list[i])

\* normalizeLegacyMetricAuthentication drops the fields of other kinds, then
\* parseMetricHttpAuth reads what is left.
Authentication(v) ==
    /\ Known(v, {"kind", "optional", "username", "password", "header", "query", "prefix",
                 "suffix", "value", "requests"})
    /\ Opt(v, "optional", IsFlag)
    /\ \/ Get(v, "kind") = Text("basic") /\ BasicAuth(v)
       \/ Get(v, "kind") = Text("token") /\ TokenAuth(v)
       \/ Get(v, "kind") = Text("cookie_session") /\ CookieSession(v)

SocketArgument(v) == Scalar(v) \/ SecretReference(v)

SocketEvent(v) ==
    /\ Known(v, {"event", "args"}) /\ NonEmptyText(Get(v, "event"))
    /\ Opt(v, "args", LAMBDA a : IsList(a) /\ \A i \in 1..Len(a.list) : SocketArgument(a.list[i]))

Socket(v) ==
    /\ Known(v, {"path", "auth", "login", "request"})
    /\ Opt(v, "path", LAMBDA p : OneOf(p, Paths))
    /\ Opt(v, "auth", Headers) /\ Opt(v, "login", SocketEvent)
    /\ SocketEvent(Get(v, "request"))

-----------------------------------------------------------------------------
(* Normalisation.                                                          *)

Failed == [failed |-> TRUE]

\* headers or query of a source over those of its profile or provider.
MergedField(defaults, source, field) ==
    IF IsMap(Get(defaults, field)) \/ IsMap(Get(source, field))
    THEN field :> Map(Spread([n \in Keys(Get(defaults, field)) |-> defaults.map[field].map[n]],
                             [n \in Keys(Get(source, field)) |-> source.map[field].map[n]]))
    ELSE <<>>

MergedSource(defaults, source) ==
    Map(MergedField(defaults, source, "headers") @@ MergedField(defaults, source, "query")
        @@ Spread(defaults.map, source.map))

\* A source that uses one of shared_metric_sources.  Its URL is that of the profile and
\* a path, of which only the kind matters.
SharedSource(v, shared) ==
    LET profile == Get(shared, Get(v, "use").text)
        own == {k \in Keys(v) \ {"use", "path"} : k \in {"headers", "query"} => IsMap(v.map[k])}
    IN  IF /\ Known(v, {"use", "path", "method", "headers", "query", "initial", "form", "json"})
           /\ IsMap(profile) /\ OneOf(Get(v, "path"), Paths)
        THEN MergedSource(profile, Map([k \in own |-> v.map[k]]))
        ELSE Failed

OwnSource(v) ==
    IF /\ Known(v, {"url", "method", "headers", "query", "initial", "form", "json",
                    "authentication", "type", "socket"})
       /\ Opt(v, "authentication", Authentication)
       /\ Opt(v, "type", LAMBDA t : t = Text("socket_io"))
       /\ Has(v, "type") => IsMap(Get(v, "socket"))
    THEN IF Has(v, "type") THEN v ELSE Without(v, {"socket"})
    ELSE Failed

NormalSource(v, shared) ==
    CASE ~IsMap(v) -> v
      [] NonEmptyText(Get(v, "use")) -> SharedSource(v, shared)
      [] OTHER -> OwnSource(v)

\* The sections of a definition and the flat fields their fields become.
Sections == [display |-> {"label", "chart"},
             value |-> {"kind", "unit", "rate", "transform", "default_color", "colors", "labels"},
             extract |-> {"jq", "prometheus", "text", "for_each", "pagination"}]

FlatName(field) ==
    CASE field = "kind" -> "value_type"
      [] field = "default_color" -> "color"
      [] field = "colors" -> "state_colors"
      [] field = "labels" -> "state_labels"
      [] OTHER -> field

Sectioned(v, partial) ==
    /\ Known(v, {"display", "value", "source", "extract", "parameters"})
    /\ \A s \in DOMAIN Sections : Opt(v, s, LAMBDA w : Known(w, Sections[s]))
    /\ partial \/ (Has(v, "display") /\ Has(v, "extract"))

Flat(v) ==
    LET fields == UNION {{<<s, f>> : f \in Keys(Get(v, s)) \ {"chart"}} : s \in DOMAIN Sections} IN
    [name \in {FlatName(f[2]) : f \in fields} |->
        LET f == CHOOSE g \in fields : FlatName(g[2]) = name IN v.map[f[1]].map[f[2]]]

\* A chart group's style, given as such or with a unit.
StyleOf(group) == IF IsChart(group) THEN group ELSE Get(group, "chart")

\* The flat fields of a definition, given the name of its chart, the chart group of that
\* name with its style, and its source.
Flattened(v, partial, transforms, name, group, style, source) ==
    LET parameters == Get(v, "parameters")
        unit == IF Has(group, "unit") THEN [unit |-> group.map["unit"]] ELSE <<>>
        from == IF source = Absent THEN <<>> ELSE [source |-> source]
        taking == IF parameters = Absent THEN <<>> ELSE [parameters |-> ResolvedParameters(parameters, transforms)]
        drawn == IF IsChart(style) THEN [chart |-> style, chart_group |-> name]
                 ELSE IF name # Absent THEN [chart |-> name] ELSE <<>>
    IN  IF /\ Sectioned(v, partial)
           /\ parameters = Absent \/ Parameters(parameters, transforms)
           /\ source # Failed
           /\ name = Absent \/ IsChart(style) \/ IsChart(name)
        THEN Map(Spread(drawn, Spread(taking, Spread(from, Spread(unit, Flat(v))))))
        ELSE Failed

\* normalizeMetricDefinition: the flat fields of a definition, or Failed.
Normalized(v, charts, partial, shared, transforms) ==
    LET named == Get(Get(v, "display"), "chart")
        name == IF IsText(named) THEN named ELSE Absent
        group == IF IsText(named) THEN Get(charts, named.text) ELSE Absent
    IN  Flattened(v, partial, transforms, name, group, StyleOf(group), NormalSource(Get(v, "source"), shared))

-----------------------------------------------------------------------------
(* Acceptance of the flat fields.                                          *)

ValueType(m) == IF Has(m, "value_type") THEN Get(m, "value_type") ELSE Text("number")
IsSocketIo(m) == Get(Get(m, "source"), "type") = Text("socket_io")
Jq(m) == Filled(Get(m, "jq"))

\* The extractors that hold something usable.
Extractors(m) ==
    (IF Jq(m) THEN {"jq"} ELSE {}) \cup (IF Has(m, "prometheus") THEN {"prometheus"} ELSE {})
    \cup (IF Get(m, "text") = Flag(TRUE) THEN {"text"} ELSE {}) \cup (IF Has(m, "for_each") THEN {"for_each"} ELSE {})

ExtractorAccepted(m) ==
    /\ Opt(m, "prometheus", Prometheus) /\ Opt(m, "for_each", ForEach)
    /\ Opt(m, "pagination", LAMBDA p : Pagination(p) /\ Jq(m))
    /\ Cardinality(Extractors(m)) = 1

\* A literal size of the pages that bulk history asks for; no text of the model is a number.
BulkAccepted(m) ==
    LET bulk == Get(Get(m, "pagination"), "bulk")
        size == Get(Get(Get(m, "source"), "query"), Get(bulk, "page_size_parameter").text)
    IN  bulk # Absent => IsNum(size) /\ size.num \in 1..MaxObservations

FormattingAccepted(m) ==
    /\ Opt(m, "chart", IsChart) /\ Opt(m, "transform", Transform)
    /\ Opt(m, "color", IsColor) /\ Opt(m, "state_colors", StateColors)
    /\ Opt(m, "state_labels", StateLabels)
    /\ Opt(m, "parameters", LAMBDA p : Parameters(p, Absent))
    /\ Opt(m, "chart_group", LAMBDA g : OneOf(g, Names))

NumericFields == {"unit", "chart", "chart_group", "transform"}
StateFields == {"color", "state_colors", "state_labels"}

\* What goes with each type of value.
TypeAccepted(m) ==
    LET type == ValueType(m).text IN
    CASE type = "number" ->
            /\ Opt(m, "unit", IsUnit) /\ Keys(m) \cap StateFields = {}
            /\ ~Has(Get(m, "prometheus"), "value_label")
            /\ ~(Has(m, "chart_group") /\ Get(m, "chart") = Text("none"))
            /\ Has(m, "for_each") => ~IsSocketIo(m)
      [] type \in {"string", "state"} ->
            /\ Keys(m) \cap NumericFields = {} /\ ~Has(m, "rate") /\ ~Has(m, "for_each")
            /\ Has(m, "prometheus") => /\ ~Has(m.map["prometheus"], "reduce")
                                       /\ Has(m.map["prometheus"], "value_label")
            /\ IF type = "state" THEN Has(m, "color") ELSE Keys(m) \cap StateFields = {}
      [] type = "uptime" -> Jq(m) /\ Keys(m) \cap (NumericFields \cup StateFields \cup {"rate"}) = {}

\* Pages are walked over HTTP, and recovered when they hold observations.
PagesAccepted(m) ==
    Has(m, "pagination") => /\ ~IsSocketIo(m)
                            /\ Has(m.map["pagination"], "recover") => ValueType(m) = Text("uptime")

HttpSource(s) ==
    /\ Opt(s, "initial", LAMBDA i : Known(i, {"query"}) /\ Opt(i, "query", Query))
    /\ Request(Without(s, {"initial", "authentication"}))

SocketSource(s) ==
    /\ Known(s, {"url", "type", "socket", "headers", "authentication"})
    /\ Socket(Get(s, "socket")) /\ Opt(s, "headers", Headers)
    /\ Get(Get(s, "authentication"), "optional") # Flag(TRUE)

SourceAccepted(m) ==
    LET s == Get(m, "source") IN
    /\ IsMap(s) /\ IsMetricUrl(Get(s, "url"))
    /\ IF IsSocketIo(m) THEN SocketSource(s) /\ ~Has(m, "prometheus") ELSE HttpSource(s)

Accepted(m) ==
    /\ NonEmptyText(Get(m, "label"))
    /\ OneOf(ValueType(m), {"number", "string", "state", "uptime"})
    /\ OptTrue(m, "rate")
    /\ ExtractorAccepted(m) /\ SourceAccepted(m) /\ BulkAccepted(m)
    /\ FormattingAccepted(m) /\ TypeAccepted(m) /\ PagesAccepted(m)

\* A definition that could be normalised and is accepted.
Readable(definition) == definition # Failed /\ Accepted(definition)

-----------------------------------------------------------------------------
(* Overrides, groups and the library.                                      *)

\* Wrong variant: the fields of the other type stay.
MergedMetric_Kept(library, v) == IF library = Absent \/ v = Failed THEN v ELSE Merged(library, v)

\* An override laid over the library's metric loses what its other type does not allow.
MergedMetric(library, v) ==
    LET merged == Merged(library, v)
        type == Get(v, "value_type")
        dropped == (IF type = Text("state") THEN {} ELSE {"color", "state_colors"})
                   \cup (IF type = Text("number") THEN {} ELSE NumericFields)
    IN  IF library = Absent \/ v = Failed THEN v
        ELSE IF type \in {Absent, Get(library, "value_type")} THEN merged
        ELSE Without(merged, dropped)

\* What cards and collection see of an accepted metric.
Built(m) ==
    LET defaults == IF ValueType(m) = Text("number")
                    THEN [value_type |-> Text("number"), unit |-> Text("number"), chart |-> Text("step")] ELSE <<>>
    IN  Map(Spread(defaults, m.map))

\* The metrics whose chart group does not agree on unit and chart.
Inconsistent(metrics) ==
    LET grouped == {k \in DOMAIN metrics : Has(metrics[k], "chart_group")}
        look(k) == <<Get(metrics[k], "chart"), Get(metrics[k], "unit")>>
        same(k, o) == Get(metrics[k], "chart_group") = Get(metrics[o], "chart_group")
    IN  {k \in grouped : \E o \in grouped : same(k, o) /\ look(k) # look(o)}

Consistent(metrics) == [k \in (DOMAIN metrics) \ Inconsistent(metrics) |-> metrics[k]]

\* Wrong variant: one error is the error of all.
AcceptedOnly_AllOrNothing(metrics) ==
    IF \A k \in DOMAIN metrics : Readable(metrics[k])
    THEN [k \in DOMAIN metrics |-> Built(metrics[k])] ELSE <<>>

AcceptedOnly(metrics) ==
    [k \in {n \in DOMAIN metrics : Readable(metrics[n])} |-> Built(metrics[k])]

\* parseMetricOverrides: the metrics of `values` that are accepted; the others are errors.
ParsedMetrics(values, library, charts, partial, shared) ==
    LET of(k) == IF k \in DOMAIN library THEN library[k] ELSE Absent
        merged(k) == MergedMetric(of(k), Normalized(values[k], charts, partial, shared, Absent))
    IN  Consistent(AcceptedOnly([k \in DOMAIN values |-> merged(k)]))

\* loadMetricDefinitions: a file of the library with the source of its provider.
LoadedDefinition(file, provider) ==
    LET default == Get(provider, "source")
        own == Get(file, "source")
        source == IF ~IsMap(default) THEN own ELSE IF ~IsMap(own) THEN default ELSE MergedSource(default, own)
        sourced == IF source = Absent THEN file ELSE Map(("source" :> source) @@ file.map)
    IN  IF ~IsMap(file) \/ ~IsMap(provider) THEN Failed
        ELSE Normalized(sourced, Get(provider, "charts"), FALSE, Absent, Get(provider, "transforms"))

\* parseMetricCatalog, which a metric of the library has to pass as well.
InLibrary(file, provider) == Readable(LoadedDefinition(file, provider))
=============================================================================
