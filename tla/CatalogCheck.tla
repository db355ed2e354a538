---------------------------- MODULE CatalogCheck ----------------------------
(***************************************************************************)
(* What `npm run validate:metrics` asks of the files of the metric         *)
(* library before they are published: scripts/validate-metrics.mjs and     *)
(* sourceWithDefaults of scripts/metric-utils.mjs.  It is written apart    *)
(* from the parsers of the running program, which read the same files.     *)
(***************************************************************************)
EXTENDS MetricDefinitions

-----------------------------------------------------------------------------
(* References.                                                             *)

\* A secret may be left empty, as long as env and file are not both given.
CheckedSecret(v) ==
    LET env == NonEmptyText(Get(v, "env"))
        file == NonEmptyText(Get(v, "file"))
    IN  /\ Known(v, {"env", "file", "label"})
        /\ ~(env /\ file) /\ (env \/ file \/ NonEmptyText(Get(v, "label")))

CheckedValue(v, allowToken) == Scalar(v) \/ (allowToken /\ TokenReference(v)) \/ CheckedSecret(v)

\* Names are looked at only where a secret is referred to.
CheckedMapping(v, allowToken) ==
    IsMap(v) /\ \A n \in Keys(v) : CheckedValue(v.map[n], allowToken) /\ (n = "" => ~CheckedSecret(v.map[n]))

CheckedJson(v) ==
    LET json[p \in Parts(v)] ==
            \/ p = Null \/ Scalar(p)
            \/ IsList(p) /\ \A i \in 1..Len(p.list) : json[p.list[i]]
            \/ /\ IsMap(p) /\ "" \notin Keys(p)
               /\ IF Keys(p) \cap {"env", "file", "label", "token"} # {} THEN CheckedValue(p, TRUE)
                  ELSE \A n \in Keys(p) : json[p.map[n]]
    IN  json[v]

-----------------------------------------------------------------------------
(* Requests and sources.                                                   *)

IsBaseUrl(v) == OneOf(v, BaseUrls)

\* The limit is on what trim() leaves of the selector.
CheckedExtractor(v) ==
    LET cheerio == Get(v, "cheerio")
        selector == Get(cheerio, "selector")
        hasCheerio == /\ Known(cheerio, {"selector", "attribute"})
                      /\ IsText(selector) /\ selector.text \notin OversizedTexts \ PaddedTexts
                      /\ Opt(cheerio, "attribute", IsText)
    IN  Known(v, {"jq", "cheerio"}) /\ Filled(Get(v, "jq")) # hasCheerio

\* A method left empty is the default one.
CheckedRequest(v, allowToken) ==
    LET method == IF Get(v, "method") \in {Absent, Null} THEN Text("GET") ELSE Get(v, "method") IN
    /\ Known(v, {"url", "method", "form", "json", "headers", "query", "extract"})
    /\ IsBaseUrl(Get(v, "url"))
    /\ OneOf(method, {"GET", "POST"})
    /\ method = Text("GET") => ~Has(v, "form") /\ ~Has(v, "json")
    /\ ~(Has(v, "form") /\ Has(v, "json"))
    /\ \A kind \in {"headers", "query", "form"} : Opt(v, kind, LAMBDA m : CheckedMapping(m, allowToken))
    /\ Opt(v, "json", LAMBDA j : NonEmptyMap(j) /\ \A n \in Keys(j) : CheckedJson(j.map[n]))
    /\ Opt(v, "extract", LAMBDA e :
            /\ NonEmptyMap(e) /\ Cardinality(Keys(e)) <= MaxExtractedTokens
            /\ \A n \in Keys(e) : n \in Names /\ CheckedExtractor(e.map[n]))

CheckedAuthentication(v) ==
    /\ IsMap(v) /\ Opt(v, "optional", IsFlag)
    /\ \/ /\ Get(v, "kind") = Text("basic")
          /\ Known(v, {"kind", "optional", "username", "password"})
          /\ CheckedSecret(Get(v, "username")) /\ CheckedSecret(Get(v, "password"))
       \/ /\ Get(v, "kind") = Text("token")
          /\ Known(v, {"kind", "optional", "header", "query", "prefix", "suffix", "value"})
          /\ NonEmptyText(Get(v, "header")) # NonEmptyText(Get(v, "query"))
          /\ Opt(v, "prefix", IsText) /\ Opt(v, "suffix", IsText)
          /\ CheckedSecret(Get(v, "value"))
       \/ /\ Get(v, "kind") = Text("cookie_session")
          /\ Known(v, {"kind", "optional", "requests"})
          /\ LET steps == Get(v, "requests") IN
             /\ IsList(steps) /\ Len(steps.list) \in 1..MaxAuthSteps
             /\ \A i \in 1..Len(steps.list) : CheckedRequest(steps.list[i], TRUE)

CheckedArguments(v) ==
    IsList(v) /\ \A i \in 1..Len(v.list) : Scalar(v.list[i]) \/ CheckedSecret(v.list[i])

CheckedEvent(v) ==
    Known(v, {"event", "args"}) /\ NonEmptyText(Get(v, "event")) /\ Opt(v, "args", CheckedArguments)

CheckedSocketSource(v) ==
    LET socket == Get(v, "socketio") IN
    /\ Known(v, {"url", "transport", "headers", "authentication", "socketio"})
    /\ IsBaseUrl(Get(v, "url"))
    /\ Opt(v, "headers", LAMBDA m : CheckedMapping(m, FALSE))
    /\ Opt(v, "authentication", CheckedAuthentication)
    /\ Get(Get(v, "authentication"), "optional") # Flag(TRUE)
    /\ Known(socket, {"path", "auth", "login", "request"})
    /\ Opt(socket, "path", LAMBDA p : OneOf(p, Paths))
    /\ Opt(socket, "auth", LAMBDA m : CheckedMapping(m, FALSE))
    /\ Opt(socket, "login", CheckedEvent) /\ CheckedEvent(Get(socket, "request"))

IsSocketSource(v) == Get(v, "transport") = Text("socketio")

CheckedHttpSource(v) ==
    /\ Known(v, {"url", "method", "form", "json", "headers", "query", "initial", "authentication"})
    /\ CheckedRequest(Without(v, {"initial", "authentication"}),
                      Get(Get(v, "authentication"), "kind") = Text("cookie_session"))
    /\ Opt(v, "initial", LAMBDA i :
            Known(i, {"query"}) /\ Opt(i, "query", LAMBDA m : CheckedMapping(m, FALSE)))
    /\ Opt(v, "authentication", CheckedAuthentication)

\* What {...v} holds: the elements of a list and the characters of a text become entries.
Entries(v) ==
    CASE IsMap(v) -> v.map
      [] NonEmptyText(v) -> ("0" :> v)
      [] IsList(v) /\ v.list # <<>> -> ("0" :> Head(v.list))
      [] OTHER -> <<>>

Falsy(v) == v \in {Absent, Null, Text(""), Flag(FALSE), Num(0)}

SourceWithDefaults(provider, file) ==
    LET defaults == Get(provider, "source")
        own == Map(Entries(Get(file, "source")))
        both(field) == IF Falsy(Get(defaults, field)) /\ Falsy(Get(own, field)) THEN <<>>
                       ELSE field :> Map(Spread(Entries(Get(defaults, field)), Entries(Get(own, field))))
    IN  Map(both("headers") @@ both("query") @@ Spread(Entries(defaults), own.map))

-----------------------------------------------------------------------------
(* Providers and metrics.                                                  *)

CheckedUrlTransform(v) ==
    /\ Known(v, {"trim", "lowercase", "replace"}) /\ Keys(v) # {}
    /\ \A k \in Keys(v) : IF k = "replace" THEN IsMap(v.map[k]) /\ "" \notin Keys(v.map[k]) /\ \A n \in Keys(v.map[k]) : IsText(v.map[k].map[n])
                         ELSE v.map[k] = Flag(TRUE)

CheckedProvider(v) ==
    /\ Known(v, {"source", "charts", "notes", "transforms"})
    /\ Opt(v, "transforms", LAMBDA t : IsMap(t) /\ \A n \in Keys(t) : n \in Names /\ CheckedUrlTransform(t.map[n]))
    /\ Opt(v, "notes", Filled)
    /\ Opt(v, "source", LAMBDA s :
            /\ Known(s, {"headers", "query", "authentication"})
            /\ \A kind \in {"headers", "query"} : Opt(s, kind, LAMBDA m : CheckedMapping(m, FALSE))
            /\ Opt(s, "authentication", CheckedAuthentication))
    /\ Opt(v, "charts", LAMBDA c : IsMap(c) /\ \A n \in Keys(c) : n \in Names /\ OneOf(c.map[n], Charts \ {"none"}))

\* A parameter's transform has to be one of the provider.
CheckedParameters(v, transforms) ==
    /\ NonEmptyMap(v)
    /\ \A n \in Keys(v) :
        /\ n \in ParameterNames /\ Known(v.map[n], {"label", "type", "transform"})
        /\ NonEmptyText(Get(v.map[n], "label"))
        /\ OneOf(Get(v.map[n], "type"), {"url_component", "json_value"})
        /\ Opt(v.map[n], "transform", LAMBDA t :
                /\ Get(v.map[n], "type") = Text("url_component")
                /\ IsText(t) /\ Has(transforms, t.text))

CheckedForEach(v) ==
    /\ Known(v, {"items", "request", "value", "reduce"}) /\ Known(Get(v, "request"), {"url"})
    /\ Filled(Get(v, "items")) /\ Filled(Get(v, "value")) /\ IsReduction(Get(v, "reduce"))
    /\ LET url == Get(Get(v, "request"), "url") IN IsBaseUrl(url) /\ url.text \in ItemUrls

CheckedPagination(v) ==
    /\ Known(v, {"items", "next", "initial_only", "recover", "page_parameter", "bulk"})
    /\ Filled(Get(v, "items")) /\ Filled(Get(v, "next"))
    /\ OptTrue(v, "initial_only") /\ OptTrue(v, "recover")
    /\ ~(Has(v, "recover") /\ Has(v, "initial_only"))
    /\ Opt(v, "page_parameter", Filled)
    /\ Opt(v, "bulk", LAMBDA b :
            /\ Has(v, "recover")
            /\ Known(b, {"url", "key", "jq", "page_size_parameter"}) /\ IsBaseUrl(Get(b, "url"))
            /\ \A k \in {"key", "jq", "page_size_parameter"} : Filled(Get(b, k))
            /\ Get(b, "key").text \notin OversizedTexts
            /\ Get(b, "page_size_parameter") # PageParameter(v))

CheckedPrometheus(v, numeric) ==
    /\ Known(v, {"name", "labels", "reduce", "value_label"})
    /\ OneOf(Get(v, "name"), SeriesNames)
    /\ Opt(v, "labels", LAMBDA l : IsMap(l) /\ \A n \in Keys(l) : IsText(l.map[n]))
    /\ Opt(v, "reduce", IsReduction)
    /\ IF numeric THEN ~Has(v, "value_label") ELSE NonEmptyText(Get(v, "value_label")) /\ ~Has(v, "reduce")

CheckedUnit(v) == OneOf(v, Units) \/ (Known(v, {"suffix"}) /\ IsUnit(v))

\* Wrong variant: a transform that says nothing.
CheckedTransform_Empty(v) == Known(v, {"multiply", "add"}) /\ \A k \in Keys(v) : IsNum(v.map[k])

CheckedTransform(v) == Known(v, {"multiply", "add"}) /\ NonEmptyMap(v) /\ \A k \in Keys(v) : IsNum(v.map[k])

CheckedDisplay(v, provider) ==
    /\ Known(v, {"label", "chart"}) /\ Filled(Get(v, "label"))
    /\ Opt(v, "chart", LAMBDA c : IsChart(c) \/ (IsText(c) /\ Has(Get(provider, "charts"), c.text)))

CheckedStateColors(v) == NonEmptyMap(v) /\ "" \notin Keys(v) /\ \A n \in Keys(v) : OneOf(v.map[n], Colors)

CheckedStateLabels(v) ==
    NonEmptyMap(v) /\ "" \notin Keys(v) /\ \A n \in Keys(v) : Filled(v.map[n]) /\ v.map[n].text \notin LongTexts

\* Fields of the value section by its kind; what is left empty is the default.
CheckedValueRules(value, kind, display, extract) ==
    LET states == {"default_color", "colors", "labels"} IN
    CASE kind = "number" ->
            /\ Get(value, "unit") \in {Absent, Null} \/ CheckedUnit(Get(value, "unit"))
            /\ OptTrue(value, "rate") /\ Opt(value, "transform", CheckedTransform)
            /\ Keys(value) \cap states = {}
      [] kind = "uptime" ->
            Has(extract, "jq") /\ ~Has(display, "chart") /\ Keys(value) \subseteq {"kind"}
      [] kind = "string" -> ~Has(display, "chart") /\ Keys(value) \subseteq {"kind"}
      [] kind = "state" ->
            /\ ~Has(display, "chart") /\ Keys(value) \subseteq states \cup {"kind"}
            /\ OneOf(Get(value, "default_color"), Colors)
            /\ Opt(value, "colors", CheckedStateColors) /\ Opt(value, "labels", CheckedStateLabels)
      [] OTHER -> FALSE

CheckedExtract(v, kind, socket) ==
    /\ Known(v, {"jq", "prometheus", "text", "for_each", "pagination"})
    /\ OptTrue(v, "text") /\ Cardinality(Keys(v) \ {"pagination"}) = 1
    /\ Opt(v, "jq", Filled)
    /\ Opt(v, "pagination", LAMBDA p :
            /\ Has(v, "jq") /\ ~socket /\ CheckedPagination(p)
            /\ Has(p, "recover") => kind = "uptime")
    /\ Opt(v, "prometheus", LAMBDA p : CheckedPrometheus(p, kind = "number"))
    /\ Opt(v, "for_each", LAMBDA f : kind = "number" /\ ~socket /\ CheckedForEach(f))

CheckedMetric(v, provider) ==
    LET value == IF Get(v, "value") \in {Absent, Null} THEN Map(<<>>) ELSE Get(v, "value")
        kind == IF Get(value, "kind") \in {Absent, Null} THEN Text("number") ELSE Get(value, "kind")
        source == SourceWithDefaults(provider, v)
    IN  /\ Known(v, {"display", "value", "source", "extract", "parameters", "notes"})
        /\ Opt(v, "notes", Filled)
        /\ CheckedDisplay(Get(v, "display"), provider)
        /\ Known(value, Sections.value) /\ IsText(kind)
        /\ CheckedValueRules(value, kind.text, Get(v, "display"), Get(v, "extract"))
        /\ CheckedExtract(Get(v, "extract"), kind.text, IsSocketSource(Get(v, "source")))
        /\ Opt(v, "parameters", LAMBDA p : CheckedParameters(p, Get(provider, "transforms")))
        /\ Has(v, "source")
        /\ IF IsSocketSource(source) THEN CheckedSocketSource(source) ELSE CheckedHttpSource(source)

Checked(file, provider) == CheckedProvider(provider) /\ CheckedMetric(file, provider)
=============================================================================
