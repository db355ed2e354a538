--------------------------- MODULE Configuration ----------------------------
(***************************************************************************)
(* The configuration file: which files parseYamlConfig accepts, what it    *)
(* makes of the services in them, the cache that keeps the last result,    *)
(* and the settings that getConfig draws from the file, the environment    *)
(* and the defaults.  A list of names is the set of its names, and lists   *)
(* in one text are left out.                                               *)
(***************************************************************************)
EXTENDS MetricDefinitions

CONSTANTS
    DurationMs,       \* milliseconds of the texts parseDuration reads
    Numerals,         \* the texts that Number() reads as an integer, with that integer
    TrueTexts,        \* the texts that are "true" in lower case,
    Variables,        \* the process's environment: the texts of its variables
    Files             \* and of the files it can read

ASSUME NumbersAssumption ==
    /\ \A t \in DOMAIN DurationMs : DurationMs[t] \in Int
    /\ \A t \in DOMAIN Numerals : Numerals[t] \in Int

Resources == {"cpu", "memory", "network"}
MaxPort == 65535

-----------------------------------------------------------------------------
(* Lists of names and secrets.                                             *)

IsStringList(v) == IsText(v) \/ (IsList(v) /\ \A i \in DOMAIN v.list : IsText(v.list[i]))

StringList(v) ==
    (IF IsText(v) THEN {v.text} ELSE {v.list[i].text : i \in 1..Len(v.list)}) \ Blanks

NamesSomebody(v) == IsStringList(v) /\ StringList(v) # {}

ListOf(v) == IF v = Absent THEN Absent ELSE Some(StringList(v))

ReadableSecret(v) ==
    /\ SecretReference(v)
    /\ NonEmptyText(Get(v, "env")) => Get(v, "env").text \in Keys(Variables)
    /\ NonEmptyText(Get(v, "file")) => Get(v, "file").text \in Keys(Files)

-----------------------------------------------------------------------------
(* The metrics of a service.                                               *)

SourcesAccepted(v) == IsMap(v) /\ \A n \in Keys(v) : n \in Names /\ OneOf(v.map[n], HttpUrls)

CollectionAccepted(v) ==
    Known(v, {"interval", "retention"}) /\ \A k \in Keys(v) : OneOf(v.map[k], DOMAIN DurationMs)

ChartAccepted(v) ==
    /\ Known(v, {"label", "unit", "style"})
    /\ IsUnit(Get(v, "unit")) /\ IsChart(Get(v, "style")) /\ Get(v, "style") # Text("none")

ChartsAccepted(v) == IsMap(v) /\ \A n \in Keys(v) : n \in Names /\ ChartAccepted(v.map[n])

ParsedCharts(v) ==
    IF v = Absent THEN Absent
    ELSE Map([n \in Keys(v) |-> Map([unit |-> Get(v.map[n], "unit"), chart |-> Get(v.map[n], "style")])])

\* An entry is a resource of the container, a metric of the library, or the service's own.
OwnEntries(entries, library) == Keys(entries) \ (Resources \cup DOMAIN library)

LibraryEntry(v, definition) ==
    /\ Known(v, {"inputs", "overrides", "visible_to"})
    /\ Opt(v, "inputs", LAMBDA i : /\ IsMap(i) /\ Keys(i) \subseteq Keys(Get(definition, "parameters"))
                                   /\ \A n \in Keys(i) : Scalar(i.map[n]))
    /\ Opt(v, "visible_to", IsStringList)

EntryAccepted(name, v, library) ==
    CASE name \in Resources ->
            v = Null \/ (Known(v, {"visible_to"}) /\ Opt(v, "visible_to", IsStringList))
      [] name \in (DOMAIN library) \ Resources -> v = Null \/ LibraryEntry(v, library[name])
      [] OTHER -> name \in Names /\ IsMap(v) /\ Opt(v, "visible_to", NamesSomebody)

Overridden(entries, library) ==
    {n \in (Keys(entries) \cap DOMAIN library) \ Resources : Has(entries.map[n], "overrides")}

ParsedOverrides(entries, library, charts) ==
    ParsedMetrics([n \in Overridden(entries, library) |-> Get(entries.map[n], "overrides")],
                  library, charts, TRUE, Absent)

ParsedOwn(entries, library, charts, shared) ==
    ParsedMetrics([n \in OwnEntries(entries, library) |-> Without(entries.map[n], {"visible_to"})],
                  library, charts, FALSE, shared)

\* An override that is not accepted rejects the whole file, an own entry only itself.
EntriesAccepted(v, library, charts) ==
    /\ IsMap(v)
    /\ \A n \in Keys(v) : EntryAccepted(n, v.map[n], library)
    /\ Overridden(v, library) \subseteq DOMAIN ParsedOverrides(v, library, charts)

MetricsAccepted(v, library) ==
    \/ v = Text("none")
    \/ /\ Known(v, {"sources", "collection", "charts", "entries"})
       /\ Opt(v, "sources", SourcesAccepted) /\ Opt(v, "collection", CollectionAccepted)
       /\ Opt(v, "charts", ChartsAccepted)
       /\ Opt(v, "entries", LAMBDA e : EntriesAccepted(e, library, ParsedCharts(Get(v, "charts"))))

\* What is kept of metrics whose own entries and overrides were accepted as these.
\* entries is undefined when none are written down, and those in error are left out of it.
KeptMetrics(v, entries, library, own, overrides) ==
    LET errors == OwnEntries(entries, library) \ DOMAIN own
        with(field) == {n \in Keys(entries) : Get(entries.map[n], field) # Absent}
        ms(field) == LET d == Get(Get(v, "collection"), field) IN IF d = Absent THEN Absent ELSE Num(DurationMs[d.text])
    IN  [sources |-> Get(v, "sources"), interval |-> ms("interval"), retention |-> ms("retention"),
         entries |-> IF v # Text("none") /\ Keys(entries) = {} THEN Absent ELSE Some(Keys(entries) \ errors),
         access |-> [n \in with("visible_to") |-> StringList(entries.map[n].map["visible_to"])],
         metrics |-> Spread(overrides, own), errors |-> errors,
         inputs |-> [n \in with("inputs") \cap DOMAIN library |-> entries.map[n].map["inputs"]]]

ParsedServiceMetrics(v, library, shared) ==
    LET entries == IF v = Text("none") THEN Map(<<>>) ELSE Get(v, "entries")
        charts == ParsedCharts(Get(v, "charts"))
    IN  KeptMetrics(v, entries, library,
                    IF IsMap(entries) THEN ParsedOwn(entries, library, charts, shared) ELSE <<>>,
                    IF IsMap(entries) THEN ParsedOverrides(entries, library, charts) ELSE <<>>)

-----------------------------------------------------------------------------
(* Services and the file.                                                  *)

IconAccepted(v) ==
    \/ IsText(v)
    \/ Known(v, {"light", "dark"}) /\ NonEmptyMap(v) /\ \A k \in Keys(v) : Filled(v.map[k])

ServiceTexts == {"title", "description", "url", "category", "host"}
ServiceFlags == {"hidden", "show_status"}
ServiceLists == {"access", "search_aliases"}
ServiceFields == ServiceTexts \cup ServiceFlags \cup ServiceLists \cup {"icon", "order", "metrics"}

ServiceAccepted(v, library) ==
    /\ Known(v, ServiceFields)
    /\ \A k \in ServiceTexts : Opt(v, k, IsText)
    /\ \A k \in ServiceFlags : Opt(v, k, IsFlag)
    /\ \A k \in ServiceLists : Opt(v, k, NamesSomebody)
    /\ Opt(v, "order", IsNum) /\ Opt(v, "icon", IconAccepted)
    /\ Opt(v, "metrics", LAMBDA m : MetricsAccepted(m, library))

ParsedService(v, library, shared) ==
    LET plain == ServiceTexts \cup ServiceFlags \cup {"icon", "order"}
        metrics == IF Has(v, "metrics") THEN Some(ParsedServiceMetrics(Get(v, "metrics"), library, shared)) ELSE Absent
    IN  [k \in plain \cup ServiceLists \cup {"metrics"} |->
            IF k = "metrics" THEN metrics ELSE IF k \in plain THEN Get(v, k) ELSE ListOf(Get(v, k))]

SharedSourceOf(v) == OwnSource(Map(("url" :> Get(v, "base_url")) @@ Without(v, {"base_url"}).map))

SharedSourceAccepted(v) ==
    /\ Known(v, {"base_url", "headers", "query", "authentication"})
    /\ OneOf(Get(v, "base_url"), HttpUrls)
    /\ SharedSourceOf(v) # Failed /\ Request(Without(SharedSourceOf(v), {"authentication"}))

SharedSourcesAccepted(v) == IsMap(v) /\ \A n \in Keys(v) : n \in Names /\ SharedSourceAccepted(v.map[n])

ParsedSharedSources(v) == IF v = Absent THEN Absent ELSE Map([n \in Keys(v) |-> SharedSourceOf(v.map[n])])

TextSettings == {"icons_dir", "custom_stylesheet", "access_groups_header", "user_name_header",
                 "user_username_header", "user_email_header", "user_first_name_header",
                 "user_last_name_header", "metrics_database_path", "custom_header",
                 "greeting_morning", "greeting_afternoon", "greeting_evening"}
FlagSettings == {"enable_access_control", "show_search", "show_status", "show_metrics",
                 "enable_automatic_descriptions", "enable_automatic_icons", "show_branding",
                 "show_header", "show_group_tags", "show_theme_toggle", "new_tab"}
PeriodSettings == {"metrics_poll_interval", "metrics_history_period"}
ListSettings == {"docker_hosts", "status_badge_access", "metrics_access", "category_order"}

SettingsAccepted(v) ==
    /\ Known(v, TextSettings \cup FlagSettings \cup PeriodSettings \cup ListSettings \cup {"port", "auth_token"})
    /\ \A k \in TextSettings : Opt(v, k, IsText)
    /\ \A k \in FlagSettings : Opt(v, k, IsFlag)
    /\ \A k \in PeriodSettings : Opt(v, k, LAMBDA n : IsNum(n) /\ n.num > 0)
    /\ \A k \in ListSettings : Opt(v, k, NamesSomebody)
    /\ Opt(v, "port", LAMBDA n : IsNum(n) /\ n.num \in 1..MaxPort)
    /\ Opt(v, "auth_token", ReadableSecret)

Services(v) == Keys(v) \ {"settings", "shared_metric_sources"}

FileAccepted(v, library) ==
    /\ IsMap(v)
    /\ Opt(v, "shared_metric_sources", SharedSourcesAccepted)
    /\ \A n \in Services(v) : ServiceAccepted(v.map[n], library)
    /\ Opt(v, "settings", SettingsAccepted)

ParsedFile(v, library) ==
    LET shared == ParsedSharedSources(Get(v, "shared_metric_sources")) IN
    [settings |-> IF Has(v, "settings") THEN v.map["settings"] ELSE Map(<<>>), error |-> FALSE,
     services |-> [n \in Services(v) |-> ParsedService(v.map[n], library, shared)]]

EmptyConfig(error) == [settings |-> Map(<<>>), error |-> error, services |-> <<>>]

-----------------------------------------------------------------------------
(* loadYamlConfig: the cache is that of the path, and empty at first.      *)

NoCache == [stamp |-> <<0, 0>>, config |-> EmptyConfig(FALSE)]

\* What a file of these contents, of this time and size, is kept as.
Read(content, stamp, library) ==
    [stamp |-> stamp,
     config |-> IF FileAccepted(content, library) THEN ParsedFile(content, library) ELSE EmptyConfig(TRUE)]

\* Wrong variant: an edit that keeps the size is never noticed.
Loaded_BySize(file, cache, library) ==
    IF file.stamp[2] = cache.stamp[2] THEN cache ELSE Read(file.content, file.stamp, library)

\* The cache after a call, which returns its config; a missing file leaves the cache alone.
Loaded(file, cache, library) ==
    IF file.stamp = cache.stamp THEN cache ELSE Read(file.content, file.stamp, library)

-----------------------------------------------------------------------------
(* getConfig: a setting of the file, else the environment's, else the      *)
(* default.  The environment's names are those of the settings.            *)

Setting(settings, env, name) == Else(Get(settings, name), Get(env, name))

\* A text that holds nothing counts as none, and does not fall back on the environment.
TextSetting(settings, env, name) ==
    LET v == Setting(settings, env, name) IN IF v # Absent /\ Filled(v) THEN v ELSE Absent

FlagSetting(settings, env, name, default) ==
    LET v == Setting(settings, env, name) IN
    CASE v = Absent -> default [] IsFlag(v) -> v.flag [] OTHER -> v.text \in TrueTexts

NumberSetting(settings, env, name) ==
    LET v == Setting(settings, env, name) IN
    CASE IsNum(v) -> v [] OneOf(v, DOMAIN Numerals) -> Num(Numerals[v.text]) [] OTHER -> Absent

PeriodSetting(settings, env, name, default) ==
    LET v == NumberSetting(settings, env, name) IN IF v # Absent /\ v.num > 0 THEN v.num * 1000 ELSE default

PortSetting(settings, env, default) ==
    LET v == NumberSetting(settings, env, "port") IN IF v # Absent /\ v.num \in 1..MaxPort THEN v.num ELSE default

ListSetting(settings, env, name) ==
    LET v == Setting(settings, env, name) IN IF v = Absent THEN {} ELSE StringList(v)

HeaderSetting(settings, env, name, default) ==
    LET v == TextSetting(settings, env, name) IN
    IF v # Absent /\ v.text \in HeaderNames THEN v.text ELSE default

FlagDefaults == [k \in FlagSettings |-> k \notin {"enable_access_control", "new_tab"}]
HeaderSettings == {k \in TextSettings : k \in {"user_name_header", "user_username_header", "user_email_header",
                                               "user_first_name_header", "user_last_name_header"}}

Config(settings, env) ==
    LET flag(k) == FlagSetting(settings, env, k, FlagDefaults[k])
        header(k) == HeaderSetting(settings, env, k, "")
    IN  [enableAccessControl |-> flag("enable_access_control"),
         showStatus |-> flag("show_status"), showMetrics |-> flag("show_metrics"),
         metricsAccess |-> ListSetting(settings, env, "metrics_access"),
         accessGroupsHeader |-> HeaderSetting(settings, env, "access_groups_header", "auto"),
         userUsernameHeader |-> header("user_username_header"), userEmailHeader |-> header("user_email_header"),
         metricsPollIntervalMs |-> PeriodSetting(settings, env, "metrics_poll_interval", 10000),
         metricsHistoryPeriodMs |-> PeriodSetting(settings, env, "metrics_history_period", 300000),
         homepageLabelFallback |-> FlagSetting(Map(<<>>), env, "homepage_label_fallback", FALSE),
         port |-> PortSetting(settings, env, 4321),
         flags |-> [k \in FlagSettings |-> flag(k)],
         headers |-> [k \in HeaderSettings |-> header(k)],
         texts |-> [k \in (TextSettings \ HeaderSettings) \ {"access_groups_header"} |-> TextSetting(settings, env, k)],
         lists |-> [k \in ListSettings |-> ListSetting(settings, env, k)]]
=============================================================================
