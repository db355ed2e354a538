---------------------------- MODULE MCDashboard -----------------------------
(***************************************************************************)
(* Small classes of texts; a metric of every kind and all that are one     *)
(* change away from one; a configuration that uses every part, those one   *)
(* change away, and containers whose labels differ in one from a full set. *)
(***************************************************************************)
EXTENDS Dashboard

MCNames == {"plex", "own", "other", "last", "group", "shared", "token", "size", "key"}
MCParameterNames == {"size", "key"}
MCHeaderNames == {"Accept", "Remote-Groups", "plex", "token", "size", "key", "0", "env", "text", "jq"}
MCSeriesNames == {"up"}
MCHttpUrls == {"http://host", "http://other"}
MCSourceUrls == {"{metric_source}/{key}"}
MCBaseUrls == {"{url}/", "{url}/{item}", "{metric_source}/{key}"}
MCItemUrls == {"{url}/{item}"}
MCPlaceholders == ("{url}/{item}" :> {"item"}) @@ ("{metric_source}/{key}" :> {"key"})
MCPaths == {"/path"}
MCBlanks == {"", " "}
MCPaddedTexts == {"a padded text"}
MCOversizedTexts == {"an oversized text"} \cup MCPaddedTexts
MCLongTexts == {"a long text"} \cup MCOversizedTexts
MCDurations == [s \in {"5s", "10s"} |-> IF s = "5s" THEN 5000 ELSE 10000]
MCNumerals == [s \in {"5"} |-> 5]
MCTrueTexts == {"true"}
MCFalseTexts == {"false"}
MCForeignLabels == {"homepage.href", "homepage.name", "homepage.icon", "traefik"}
MCHomepageIcons == {"plex.png"}
MCMetricKeys == {"plex/streams", "cpu"}
MCProviders == [k \in {"plex/streams", "own", "other", "last"} |-> IF k = "plex/streams" THEN "plex" ELSE k]
MCGroupsIn == [s \in {"admins", "word"} |-> {s}]

Word == Text("word")
Base == Text("{url}/")
Secret == Map([env |-> Word])
MCVariables == Map([word |-> Text("of the environment")])
MCFiles == Map([word |-> Text("of the file")])

-----------------------------------------------------------------------------
(* Values one change away.                                                 *)

Changed(v, k, w) == IF w = Absent THEN Without(v, {k}) ELSE Map((k :> w) @@ v.map)

RECURSIVE Variants(_, _, _)
Variants(v, values, gained) ==
    IF IsMap(v) THEN
        {Changed(v, k, w) : k \in Keys(v) \cup gained, w \in values}
        \cup UNION {{Changed(v, k, w) : w \in Variants(v.map[k], values, gained)} : k \in Keys(v)}
    ELSE IF IsList(v) /\ v.list # <<>> THEN {List(<<w>>) : w \in Variants(v.list[1], values, gained)}
    ELSE {}

-----------------------------------------------------------------------------
(* Metrics of the library.                                                 *)

Metric(value, source, extract) ==
    Map([display |-> Map([label |-> Word]), value |-> Map(value), source |-> Map(source), extract |-> Map(extract)])

Steps == List(<<Map([url |-> Base, method |-> Text("POST"), json |-> Map([key |-> Secret]),
                     extract |-> Map([token |-> Map([cheerio |-> Map([selector |-> Word])])])])>>)

Numeric == Metric([unit |-> Text("count"), transform |-> Map([add |-> Num(1)])],
                  [url |-> Base, headers |-> Map([Accept |-> Word])], [jq |-> Word])
Grouped == Map([Numeric.map EXCEPT !["display"] = Map([label |-> Word, chart |-> Text("plex")]),
                                   !["value"] = Map([rate |-> Flag(TRUE)])])
Series == Metric([unit |-> Map([suffix |-> Word])], [url |-> Base, query |-> Map([key |-> Num(1)])],
                 [prometheus |-> Map([name |-> Text("up"), reduce |-> Text("sum"), labels |-> Map([key |-> Word])])])
State == Metric([kind |-> Text("state"), default_color |-> Text("info"), colors |-> Map([up |-> Text("info")]),
                 labels |-> Map([up |-> Word])],
                [url |-> Base, authentication |-> Map([kind |-> Text("cookie_session"), requests |-> Steps])],
                [text |-> Flag(TRUE)])
Strings == Metric([kind |-> Text("string")],
                 [url |-> Base, authentication |-> Map([kind |-> Text("token"), query |-> Text("key"), value |-> Secret])],
                 [prometheus |-> Map([name |-> Text("up"), value_label |-> Word])])
Uptime == Metric([kind |-> Text("uptime")],
                 [url |-> Base, query |-> Map([size |-> Num(1)]), initial |-> Map([query |-> Map([size |-> Num(1)])])],
                 [jq |-> Word, pagination |-> Map([items |-> Word, next |-> Word, recover |-> Flag(TRUE),
                    bulk |-> Map([url |-> Base, key |-> Word, jq |-> Word, page_size_parameter |-> Text("size")])])])
Each == Metric([unit |-> Text("count")],
               [url |-> Base, method |-> Text("POST"), form |-> Map([key |-> Secret]),
                authentication |-> Map([kind |-> Text("basic"), username |-> Secret, password |-> Secret])],
               [for_each |-> Map([items |-> Word, request |-> Map([url |-> Text("{url}/{item}")]), value |-> Word,
                                  reduce |-> Text("sum")])])
DeclaredInputs == [parameters |-> Map([key |-> Map([label |-> Word, type |-> Text("url_component"), transform |-> Text("key")]),
                                size |-> Map([label |-> Word, type |-> Text("json_value")])])]
Parametrised == Map(DeclaredInputs @@ Numeric.map)
SocketIo == Metric([kind |-> Text("string")],
                   [url |-> Base, transport |-> Text("socketio"), socketio |-> Map([request |-> Map([event |-> Word])])],
                   [jq |-> Word])

Provider == Map([charts |-> Map([plex |-> Text("step")]),
                 transforms |-> Map([key |-> Map([trim |-> Flag(TRUE)])]),
                 source |-> Map([headers |-> Map([Accept |-> Word])])])

Values == {Absent, Null, Text(""), Word, Text("plex"), Num(501), Flag(TRUE), Map(<<>>), Map([word |-> Word]),
           Map([token |-> Text("plex")]), Map([env |-> Word, file |-> Text("")])}
Gained == {"", "notes", "chart", "rate", "jq"}
LongValues == {Text(t) : t \in MCLongTexts}

MCDefinitions ==
    {[file |-> d, provider |-> Provider] :
        d \in UNION {Variants(b, Values, Gained) : b \in {Numeric, Grouped, Series, State, Strings, Uptime, Each, Parametrised, SocketIo}}}
    \cup {[file |-> d, provider |-> Provider] : d \in UNION {Variants(b, LongValues, {}) : b \in {State, Uptime}}}
    \cup {[file |-> d, provider |-> p] : d \in {Numeric, Grouped}, p \in {v \in Variants(Provider, Values, Gained) : IsMap(v)}}

-----------------------------------------------------------------------------
(* Answers: of each kind a usable one and those that are not.              *)

With(m, section, fields) == Map([m.map EXCEPT ![section] = Map(fields @@ @.map)])
Summed(reduction) == Map([reduce |-> Text(reduction)] @@ Each.map["extract"].map["for_each"].map)
Asked ==
    {Numeric, Grouped, Series, State, Strings, Uptime, Parametrised,
     Metric([unit |-> Text("count")], [url |-> Base], [text |-> Flag(TRUE)]),
     Metric([kind |-> Text("string")], [url |-> Base], [jq |-> Word]),
     Metric([unit |-> Text("count")], [url |-> Base], [prometheus |-> Map([name |-> Text("up")])])}
    \cup {With(Each, "extract", [for_each |-> Summed(r)]) : r \in Reductions}
    \cup {With(Each, "value", f) : f \in {[transform |-> Map([multiply |-> Num(2)])], [rate |-> Flag(TRUE)]}}
MCAskedMetrics == {Built(LoadedDefinition(d, Provider)) : d \in {a \in Asked : InLibrary(a, Provider)}}

Greatest == 100000
NoReply == [jq |-> Failed, text |-> "word", lines |-> <<>>, items |-> <<>>]
UpTo2(S) == {<<>>} \cup {<<x>> : x \in S} \cup {<<x, y>> : x, y \in S}

Seen(time, status, response) == Map([timestamp |-> time, status |-> status, responseTimeMs |-> response])
Items == {Seen(Num(1), Flag(TRUE), Absent), Seen(Num(1000), Text("down"), Num(5)), Seen(Text("date"), Text("unknown"), Num(5)),
          Seen(Num(-Greatest), Text("up"), Absent), Seen(Infinite, Text("up"), Absent), Seen(Num(1), Word, Absent),
          Seen(Num(1), Text("up"), Null), Null}
Line(name, labels, value) == [name |-> name, labels |-> labels, value |-> value]
Labelling == Map(("key" :> Word) @@ ("word" :> Text("up")))
Lines == {Line("up", Labelling, Num(3)), Line("up", Labelling, Num(Greatest)), Line("up", Labelling, Infinite), Line("up", Map(<<>>), Num(3)),
          Line("up", Failed, Num(3)), Line("other", Labelling, Num(3))}

RepliesTo(m) ==
    {Failed} \cup
    IF Has(m, "for_each") THEN {[NoReply EXCEPT !.items = s] : s \in UpTo2({Num(3), Num(Greatest), Infinite, Word}) \ {<<>>}}
    ELSE IF Has(m, "prometheus") THEN {[NoReply EXCEPT !.lines = s] : s \in UpTo2(Lines)}
    ELSE IF Has(m, "text") THEN {[NoReply EXCEPT !.text = t] : t \in {"", "up", "5"}}
    ELSE IF Get(m, "value_type") = Text("uptime") THEN {[NoReply EXCEPT !.jq = v] : v \in {List(s) : s \in UpTo2(Items)} \cup {Null}}
    ELSE {[NoReply EXCEPT !.jq = v] : v \in {Failed, Null, Text(""), Text("up"), Num(0), Num(3), Num(Greatest), Num(-Greatest), Infinite, List(<<>>)}}
MCReplies == [m \in MCAskedMetrics \cup {Absent} |-> IF m = Absent THEN {} ELSE RepliesTo(m)]
MCDates == [t \in {"date"} |-> 2000]

Cpu(total, system) == Map([cpu_usage |-> Map([total_usage |-> total, percpu_usage |-> List(<<total>>)]), system_cpu_usage |-> system])
Stats == Map([cpu_stats |-> Cpu(Num(8), Num(20)), precpu_stats |-> Cpu(Num(5), Num(10)),
              memory_stats |-> Map([usage |-> Num(5), limit |-> Num(8)]),
              networks |-> Map([eth0 |-> Map([rx_bytes |-> Num(8), tx_bytes |-> Num(3)])])])
\* The counters of the Docker API have 64 bits, far from the greatest number.
MCStatsReplies ==
    {Stats} \cup Variants(Stats, {Absent, Null, Num(0), Num(5), Num(10), Num(20), Num(-1), Infinite, List(<<>>)}, {"online_cpus"})

-----------------------------------------------------------------------------
(* The configuration, with a metric of the library and three of its own.   *)

Streams == Map(DeclaredInputs @@
    Metric([unit |-> Text("count")],
           [url |-> Text("{metric_source}/{key}"), method |-> Text("POST"),
            headers |-> Map([token |-> Map([env |-> Word, label |-> Text("token")])]),
            json |-> Map([size |-> Map([parameter |-> Text("size")])])], [jq |-> Word]).map)
MCLibraryFiles == [k \in {"plex/streams"} |-> [file |-> Streams, provider |-> Provider]]

Charted(value) == Map(("display" :> Map([label |-> Word, chart |-> Text("group")])) @@ ("value" :> Map(value)) @@ Numeric.map)
Shared == Map([Uptime.map EXCEPT !["source"] = Map([use |-> Text("shared"), path |-> Text("/path")]),
                                 !["extract"] = Map([jq |-> Word])])

Admins == List(<<Text("admins")>>)
PlexEntries ==
    Map(("cpu" :> Map([visible_to |-> Admins])) @@ ("own" :> Charted(<<>>)) @@ ("other" :> Charted([unit |-> Text("count")])) @@ ("last" :> Shared)
        @@ ("plex/streams" :> Map([inputs |-> Map([key |-> Word, size |-> Num(5)]), visible_to |-> Admins,
                                   overrides |-> Map([display |-> Map([label |-> Word])])])))
Plex == Map([title |-> Word, url |-> Text("http://host"), category |-> Word, order |-> Num(5), access |-> Admins,
             hidden |-> Flag(FALSE), icon |-> Map([light |-> Word]),
             metrics |-> Map([sources |-> Map([plex |-> Text("http://other")]),
                              collection |-> Map([interval |-> Text("5s"), retention |-> Text("10s")]),
                              charts |-> Map([group |-> Map([unit |-> Text("count"), style |-> Text("line")])]),
                              entries |-> PlexEntries])])
Content(service) ==
    Map([plex |-> service,
         settings |-> Map([enable_access_control |-> Flag(TRUE), show_status |-> Flag(TRUE), metrics_access |-> Admins,
                           metrics_poll_interval |-> Num(5), access_groups_header |-> Text("Remote-Groups"),
                           auth_token |-> Secret]),
         shared_metric_sources |-> Map([shared |-> Map([base_url |-> Text("http://host"), headers |-> Map([Accept |-> Word])])])])
Titled == Map([title |-> Word])
Invalid == Map([plex |-> Num(501)])

ContentValues == {Absent, Null, Text("plex"), Text("number"), Num(501), Flag(TRUE), Flag(FALSE), Map(<<>>)}

-----------------------------------------------------------------------------
(* Containers.                                                             *)

Labels == Map(("title" :> Text("plex")) @@ ("url" :> Text("http://other")) @@ ("homepage.href" :> Text("http://host"))
              @@ ("token" :> Text("of the label")) @@ ("metrics" :> List(<<Text("cpu"), Text("plex/streams")>>))
              @@ ("metrics_input.plex/streams.key" :> Text("plex")) @@ ("metrics_input.plex/streams.size" :> Word)
              @@ ("metrics_history_period" :> Text("5")) @@ ("access" :> Text("admins")))
MoreLabels == {"hidden", "show_status", "homepage.icon", "homepage.name", "metrics_source.plex", "metrics_access.cpu", "traefik",
               "order", "category"}
LabelTexts == {Absent, Text(""), Text("none"), Text("false"), Text("true"), Text("5"), Text("http://host"), Text("plex.png")}

Container(name, host, labels, state) ==
    [id |-> name, host |-> host, name |-> name, compose |-> Absent, labels |-> labels, state |-> state,
     health |-> "healthy", current |-> FALSE]
PlexContainer == Container("plex", "default", Labels, "running")

Labelled == {l \in Variants(Labels, LabelTexts, MoreLabels) : \A k \in Keys(l) : k = "metrics" \/ IsText(l.map[k])}
Fleets ==
    {{Container("plex", "default", l, "running")} : l \in Labelled}
    \cup {{}, {Container("plex", "default", Labels, "exited")}, {[PlexContainer EXCEPT !.current = TRUE]},
          {[Container("web", "default", Labels, "running") EXCEPT !.compose = Text("plex")]},
          {PlexContainer, Container("web", "nas", Map(<<>>), "running")}}

Fallback == Map(("homepage_label_fallback" :> Text("true")) @@ ("metrics_poll_interval" :> Text("word")))
MCWorlds ==
    {[content |-> c, containers |-> {PlexContainer}, env |-> Map(<<>>)] :
        c \in Variants(Content(Plex), ContentValues, {"hidden", "notes"})}
    \cup {[content |-> Content(Plex), containers |-> f, env |-> Map(<<>>)] : f \in Fleets}
    \cup {[content |-> Content(Titled), containers |-> f, env |-> Fallback] : f \in Fleets}
    \cup {[content |-> c, containers |-> f, env |-> e] :
            c \in {Absent, Failed, Map(<<>>)}, f \in {{}, {PlexContainer}}, e \in {Map(<<>>), Fallback}}
MCRewrites == {Content(Plex), Invalid, Content(Titled)}
MCViewers == {Map(<<>>), Map("Remote-Groups" :> Text("admins")), Map("Remote-Groups" :> Word), Map("Remote-User" :> Word)}

-----------------------------------------------------------------------------
(* What is found: both containers or one, and the viewer sees both or one. *)

MCDiscoveries ==
    {[status |-> ("plex" :> plex) @@ ("web" :> web), viewable |-> v] :
        plex \in {"up", "none"}, web \in {"up", "down", "none"}, v \in {{"plex"}, {"plex", "web"}}}
=============================================================================
