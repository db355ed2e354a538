--------------------------- MODULE MetricSources ----------------------------
(***************************************************************************)
(* From a metric of a card to the request that is sent for it: the card's  *)
(* URLs, inputs and labels are put in when cards are built                 *)
(* (metric-source-resolution.ts), environment, files and tokens when the   *)
(* request is made (custom-metric-references.ts).  A URL with its          *)
(* placeholders is a text; resolved, it is a record of the base, the text  *)
(* and what its placeholders became.                                       *)
(***************************************************************************)
EXTENDS MetricDefinitions

CONSTANTS
    SourceUrls,     \* the texts of BaseUrls that begin with {metric_source}
    Placeholders,   \* the names in braces of a text, for the texts that have some
    Providers       \* the provider a metric's key begins with

IsSecret(v) ==
    Known(v, {"env", "file", "label", "value"}) /\ \E k \in Keys(v) : IsText(v.map[k])

-----------------------------------------------------------------------------
(* Resolution for a card: `labels` are the container's, `values` the       *)
(* inputs of the metric.                                                   *)

\* The value of the container's label that a secret refers to, kept beside the reference.
LabelValue(v, labels) ==
    IF IsSecret(v) /\ OneOf(Get(v, "label"), Keys(labels)) THEN [value |-> labels.map[v.map["label"].text]] ELSE <<>>

\* resolveReference of a value, given what becomes of those inside.
ReferenceOf(p, inside, labels) ==
    IF ~IsMap(p) \/ (Keys(p) = {"token"} /\ IsText(p.map["token"])) THEN p
    ELSE IF IsSecret(p) THEN Map(Spread(p.map, LabelValue(p, labels)))
    ELSE Map([n \in Keys(p) |-> inside[p.map[n]]])

ResolvedReference(v, labels) == Rebuilt(v, LAMBDA p, inside : ReferenceOf(p, inside, labels))

References(v, labels) == [n \in Keys(v) |-> ResolvedReference(v.map[n], labels)]

InputLabel(key, n) == "metrics_input." \o key \o "." \o n

\* Wrong variant: inputs that are missing are not missed.
ParameterValues_Some(key, metric, labels, inputs) == inputs

\* Inputs of the container's labels over those of the configuration; all have to be given.
ParameterValues(key, metric, labels, inputs) ==
    LET declared == Keys(Get(metric, "parameters"))
        labelled == {n \in declared : Has(labels, InputLabel(key, n))}
        values == Spread(inputs, [n \in labelled |-> labels.map[InputLabel(key, n)]])
    IN  IF declared \subseteq DOMAIN values THEN values ELSE Failed

\* An input in the place of its name, after the parameter's transform.
Formatted(metric, n, values) ==
    IF Has(Get(metric, "parameters"), n) /\ n \in DOMAIN values
    THEN [input |-> values[n], transform |-> Get(metric.map["parameters"].map[n], "transform")]
    ELSE [left |-> n]

Filling(text, metric, values) ==
    [n \in IF text \in DOMAIN Placeholders THEN Placeholders[text] ELSE {} |-> Formatted(metric, n, values)]

ResolvedUrl(url, metric, card) ==
    LET api == card.sources
        base == IF url.text \in SourceUrls /\ card.provider \in DOMAIN api THEN api[card.provider]
                ELSE IF url.text \in SourceUrls \cup BaseUrls THEN card.url ELSE url
    IN  IF base = Absent THEN Failed
        ELSE [base |-> base, url |-> url, filling |-> Filling(url.text, metric, card.values)]

\* References at any depth of a body, and the inputs it names.
JsonOf(p, inside, metric, card) ==
    LET name == p.map["parameter"].text
        typed == Get(Get(Get(metric, "parameters"), name), "type") = Text("json_value")
    IN  IF IsList(p) THEN List([i \in DOMAIN p.list |-> inside[p.list[i]]])
        ELSE IF ~IsMap(p) THEN p
        ELSE IF Keys(p) = {"parameter"} /\ IsText(p.map["parameter"])
        THEN IF typed /\ name \in DOMAIN card.values THEN Map([__dashmarkParameterValue |-> card.values[name]]) ELSE p
        ELSE Map(Spread([n \in Keys(p) |-> inside[p.map[n]]], LabelValue(p, card.labels)))

ResolvedJson(v, metric, card) == Rebuilt(v, LAMBDA p, inside : JsonOf(p, inside, metric, card))

\* A request's references that resolve to nothing leave it as it was.
ResolvedRequest(request, metric, card) ==
    LET url == ResolvedUrl(Get(request, "url"), metric, card)
        json == Get(request, "json")
        references == [f \in {g \in {"headers", "query", "form"} : Keys(Get(request, g)) # {}} |->
                            Map(References(Get(request, f), card.labels))]
        body == IF IsMap(json) THEN [json |-> Map([n \in Keys(json) |-> ResolvedJson(json.map[n], metric, card)])] ELSE <<>>
    IN  IF url = Failed THEN Failed ELSE Map(Spread(request.map, Spread(body, Spread(references, [url |-> url]))))

StepsWith(v, steps) ==
    IF \E i \in DOMAIN steps : steps[i] = Failed THEN Failed ELSE Map(Spread(v.map, [requests |-> List(steps)]))

ResolvedAuthentication(v, metric, card) ==
    LET secrets == IF Get(v, "kind") = Text("basic") THEN {"username", "password"}
                   ELSE IF Get(v, "kind") = Text("token") THEN {"value"} ELSE {}
    IN
    IF v = Absent THEN v
    ELSE IF secrets # {} THEN Map(Spread(v.map, [k \in secrets |-> ResolvedReference(Get(v, k), card.labels)]))
    ELSE StepsWith(v, [i \in 1..Len(v.map["requests"].list) |-> ResolvedRequest(v.map["requests"].list[i], metric, card)])

ResolvedArguments(event, labels) ==
    LET args == Get(event, "args") IN
    IF args = Absent THEN event
    ELSE Merged(event, Map([args |-> List([i \in 1..Len(args.list) |-> ResolvedReference(args.list[i], labels)])]))

ResolvedSocket(socket, labels) ==
    LET auth == References(Get(socket, "auth"), labels)
        authenticated == IF DOMAIN auth = {} THEN <<>> ELSE [auth |-> Map(auth)]
        login == IF Has(socket, "login") THEN [login |-> ResolvedArguments(socket.map["login"], labels)] ELSE <<>>
    IN  Map(Spread(socket.map, Spread([request |-> ResolvedArguments(socket.map["request"], labels)], Spread(login, authenticated))))

\* A source whose request and authentication are resolved to these.
SourceWith(source, labels, request, auth) ==
    LET query == References(Get(Get(source, "initial"), "query"), labels)
        authentication == IF auth = Absent THEN <<>> ELSE [authentication |-> auth]
        initial == IF DOMAIN query = {} THEN <<>> ELSE [initial |-> Map([query |-> Map(query)])]
        socket == IF Has(source, "socket") THEN [socket |-> ResolvedSocket(source.map["socket"], labels)] ELSE <<>>
    IN  IF request = Failed \/ auth = Failed THEN Failed
        ELSE Map(Spread(request.map, Spread(socket, Spread(initial, authentication))))

ResolvedSource(metric, card) ==
    LET source == Get(metric, "source") IN
    SourceWith(source, card.labels, ResolvedRequest(source, metric, card),
               ResolvedAuthentication(Get(source, "authentication"), metric, card))

\* Requests for items and bulk history have URLs of their own.
ResolvedItems(metric, card) ==
    LET each == metric.map["for_each"]
        url == ResolvedUrl(each.map["request"].map["url"], metric, card)
        item == Merged(each.map["request"], Map([url |-> url]))
    IN  IF ~Has(metric, "for_each") THEN metric
        ELSE IF url = Failed THEN Failed
        ELSE Merged(metric, Map([for_each |-> Merged(each, Map([request |-> item]))]))

ResolvedPages(metric, card) ==
    LET pages == metric.map["pagination"]
        bulk == pages.map["bulk"]
        url == ResolvedUrl(bulk.map["url"], metric, card)
        key == Filling(bulk.map["key"].text, metric, card.values)
        history == Merged(bulk, Map([url |-> url, key |-> key]))
    IN  IF ~Has(Get(metric, "pagination"), "bulk") THEN metric
        ELSE IF url = Failed \/ \E n \in DOMAIN key : key[n] = [left |-> n] THEN Failed
        ELSE Merged(metric, Map([pagination |-> Merged(pages, Map([bulk |-> history]))]))

\* A metric whose items and source are resolved to these.
MetricWith(card, items, source) ==
    IF items = Failed \/ source = Failed THEN Failed
    ELSE ResolvedPages(Merged(items, Map([source |-> source])), card)

ResolvedMetric(key, metric, url, sources, labels, inputs) ==
    LET values == ParameterValues(key, metric, labels, inputs)
        card == [url |-> url, sources |-> sources, labels |-> labels, values |-> values, provider |-> Providers[key]]
    IN  IF values = Failed THEN Failed ELSE MetricWith(card, ResolvedItems(metric, card), ResolvedSource(metric, card))

Resolvable(metrics) == [k \in {m \in DOMAIN metrics : metrics[m] # Failed} |-> metrics[k]]

\* resolveMetricSources: the metrics that can be asked for.
ResolvedMetrics(metrics, url, sources, labels, inputs) ==
    LET of(k) == ResolvedMetric(k, metrics[k], url, sources, labels, IF k \in DOMAIN inputs THEN inputs[k].map ELSE <<>>) IN
    Resolvable([k \in DOMAIN metrics |-> of(k)])

-----------------------------------------------------------------------------
(* Values of a request: `env` and `files` are those of the process, tokens *)
(* those of the login.  A value that is empty or missing is an error.      *)

\* Wrong variant: the environment before the container's label.
SentValue_EnvironmentFirst(v, env, files, tokens) ==
    IF IsSecret(v) /\ OneOf(Get(v, "env"), Keys(env)) THEN Get(env, v.map["env"].text)
    ELSE IF Has(v, "value") THEN v.map["value"] ELSE Absent

SentValue(v, env, files, tokens) ==
    LET token == Get(tokens, Get(v, "token").text)
        of(place, name) == IF Has(place, name.text) THEN place.map[name.text] ELSE Failed
        secret == IF Has(v, "value") THEN v.map["value"]
                  ELSE IF Has(v, "env") THEN of(env, v.map["env"])
                  ELSE IF Has(v, "file") THEN of(files, v.map["file"]) ELSE Failed
        value == CASE TokenReference(v) -> IF token \in {Absent, Text("")} THEN Failed ELSE [token |-> token, prefix |-> Get(v, "prefix")]
                   [] IsSecret(v) -> secret
                   [] OTHER -> v
    IN  IF value = Text("") THEN Failed ELSE value

\* All of the parts, unless one of them is an error.
Whole(parts) == IF \E p \in DOMAIN parts : parts[p] = Failed THEN Failed ELSE Map(parts)

SentValues(v, env, files, tokens) == Whole([n \in Keys(v) |-> SentValue(v.map[n], env, files, tokens)])

SentJson(v, env, files, tokens) ==
    LET sent[p \in Parts(v)] ==
            CASE IsList(p) -> LET items == Whole([i \in DOMAIN p.list |-> sent[p.list[i]]]) IN
                              IF items = Failed THEN Failed ELSE List(items.map)
              [] ~IsMap(p) -> p
              [] IsMap(p) /\ Keys(p) = {"__dashmarkParameterValue"} -> p.map["__dashmarkParameterValue"]
              [] TokenReference(p) \/ IsSecret(p) -> SentValue(p, env, files, tokens)
              [] OTHER -> Whole([n \in Keys(p) |-> sent[p.map[n]]])
    IN  sent[v]

\* prepareMetricRequest after the login: what is sent, or Failed before anything is.
SentRequest(source, env, files, tokens) ==
    LET sent(v) == SentValues(v, env, files, tokens)
        auth == Get(source, "authentication")
        secrets == CASE Get(auth, "kind") = Text("basic") -> {"username", "password"}
                     [] Get(auth, "kind") = Text("token") -> {"value"}
                     [] OTHER -> {}
    IN  Whole([headers |-> sent(Get(source, "headers")), query |-> sent(Get(source, "query")), form |-> sent(Get(source, "form")),
               json |-> SentJson(Get(source, "json"), env, files, tokens),
               credentials |-> sent(Map([k \in secrets |-> Get(auth, k)])), url |-> Get(source, "url")])

\* The arguments of a Socket.IO event.
SentArguments(event, env, files) ==
    LET args == IF Has(event, "args") THEN event.map["args"].list ELSE <<>>
        sent == [i \in DOMAIN args |-> IF IsMap(args[i]) THEN SentValue(args[i], env, files, Map(<<>>)) ELSE args[i]]
    IN  IF \E i \in DOMAIN sent : sent[i] = Failed THEN Failed ELSE List(sent)
=============================================================================
