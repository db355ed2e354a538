------------------------------- MODULE Cards --------------------------------
(***************************************************************************)
(* Cards out of services, containers and their labels, and what of them a  *)
(* viewer is shown: labels.ts, docker-card-resolution.ts, auth.ts,         *)
(* details.ts and target-plan.ts of metric-collection, and the card half   *)
(* of docker.ts.  Labels are named without the prefix of the program; the  *)
(* case of names, icons, descriptions and colours are left out.            *)
(***************************************************************************)
EXTENDS Configuration, MetricSources

CONSTANTS
    ForeignLabels,    \* labels without the prefix of the program
    FalseTexts,       \* the texts that are "false" in lower case
    HomepageIcons,    \* the icon labels of Homepage that Dashmark can show
    MetricKeys,       \* the keys a container's label may restrict
    GroupsIn          \* the groups a header's text lists

HomepageLabels == {"homepage.href", "homepage.name", "homepage.description", "homepage.group", "homepage.weight"}

-----------------------------------------------------------------------------
(* Labels.                                                                 *)

FlagLabel(v) ==
    CASE IsText(v) /\ v.text \in TrueTexts -> Flag(TRUE)
      [] IsText(v) /\ v.text \in FalseTexts -> Flag(FALSE)
      [] OTHER -> Absent

NumberLabel(v) == IF OneOf(v, DOMAIN Numerals) THEN Num(Numerals[v.text]) ELSE Absent

PeriodLabel(v) == LET n == NumberLabel(v) IN IF n # Absent /\ n.num > 0 THEN Num(n.num * 1000) ELSE Absent

NamesLabel(v) == IF v = Absent THEN {} ELSE StringList(v)

SourceLabel(p) == "metrics_source." \o p
AccessLabel(m) == "metrics_access." \o m

\* A restriction to nobody shows the metric to everybody.
ParsedLabels(labels, fallback) ==
    LET label(key) == Get(labels, key)
        or(key, homepage) == Else(label(key), IF fallback THEN label(homepage) ELSE Absent)
        requested == NamesLabel(label("metrics"))
        metrics == IF "none" \in requested THEN {} ELSE requested
        sources == {p \in Names : OneOf(label(SourceLabel(p)), HttpUrls)}
        restricted == {m \in MetricKeys : Has(labels, AccessLabel(m))}
        icon == label("homepage.icon")
    IN  [hidden |-> Flag(FlagLabel(label("hidden")) = Flag(TRUE)), url |-> or("url", "homepage.href"),
         sources |-> [p \in sources |-> label(SourceLabel(p))],
         title |-> or("title", "homepage.name"), description |-> or("description", "homepage.description"),
         icon |-> Else(label("icon"), IF fallback /\ OneOf(icon, HomepageIcons) THEN icon ELSE Absent),
         category |-> or("category", "homepage.group"), order |-> NumberLabel(or("order", "homepage.weight")),
         show_status |-> FlagLabel(label("show_status")),
         resourceStats |-> IF metrics # {} \/ "none" \in requested THEN Some(metrics \cap Resources) ELSE Absent,
         metrics |-> IF metrics # {} THEN Some(metrics) ELSE Absent,
         interval |-> PeriodLabel(label("metrics_poll_interval")),
         retention |-> PeriodLabel(label("metrics_history_period")),
         metricsAccess |-> [m \in restricted |-> NamesLabel(label(AccessLabel(m)))],
         access |-> NamesLabel(label("access")), search_aliases |-> NamesLabel(label("search_aliases"))]

HasCardLabels(labels, fallback) ==
    \/ Keys(labels) \ ForeignLabels # {}
    \/ fallback /\ (Keys(labels) \cap HomepageLabels # {} \/ OneOf(Get(labels, "homepage.icon"), HomepageIcons))

-----------------------------------------------------------------------------
(* A container with its service.                                           *)

\* The key of the service a container belongs to: the most specific one there is.
LookupYamlService(services, c) ==
    LET hit(key) == IF key \in DOMAIN services THEN Text(key) ELSE Absent
        composed(prefix) == IF c.compose = Absent THEN Absent ELSE hit(prefix \o c.compose.text)
        host == c.host \o "/"
    IN  Else(hit(host \o c.name), Else(composed(host), Else(hit(c.name), composed(""))))

\* Wrong variant: the label's, else the service's.
Overlaid_LabelFirst(service, labels, k) == Else(labels[k], service[k])

Overlaid(service, labels, k) == Else(service[k], labels[k])

\* A field of the service, else the label's.  Metrics of the service replace the label's selection.
MergeWithYaml(labels, service) ==
    LET plain == {"hidden", "url", "title", "description", "icon", "category", "order", "show_status"}
        listed(k) == IF service[k] = Absent THEN labels[k] ELSE service[k].some
        metrics == service["metrics"].some
        merged == [k \in DOMAIN labels |->
                    CASE k \in plain -> Overlaid(service, labels, k)
                      [] k \in ServiceLists -> listed(k)
                      [] OTHER -> labels[k]]
    IN  IF service["metrics"] = Absent THEN merged
        ELSE [merged EXCEPT
                !.sources = Spread(labels.sources, IF metrics.sources = Absent THEN <<>> ELSE metrics.sources.map),
                !.resourceStats = IF metrics.entries = Absent THEN Some({}) ELSE Some(metrics.entries.some \cap Resources),
                !.metrics = metrics.entries,
                !.interval = Else(metrics.interval, labels.interval),
                !.retention = Else(metrics.retention, labels.retention),
                !.metricsAccess = IF DOMAIN metrics.access # {} THEN metrics.access ELSE labels.metricsAccess]

\* A URL that is not valid is one that Traefik may replace, on a container meant to be shown.
CardUrl(url, labels, meant) ==
    LET traefik == Get(labels, "traefik") IN
    CASE OneOf(url, HttpUrls) -> url
      [] meant /\ ~OneOf(url, HttpUrls) /\ OneOf(traefik, HttpUrls) -> traefik
      [] OTHER -> Absent

ServiceMetrics(service) == IF service = Absent THEN Absent ELSE service["metrics"]

\* The definitions of a card and those of them that can be asked for.
WithMetrics(labels, service, url, raw, catalog) ==
    LET own == ServiceMetrics(service)
        selected == IF labels.metrics = Absent THEN {} ELSE labels.metrics.some \cap DOMAIN catalog
        definitions == Spread([k \in selected |-> catalog[k]], IF own = Absent THEN <<>> ELSE own.some.metrics)
    IN  [labels |-> labels, url |-> url, definitions |-> definitions,
         custom |-> ResolvedMetrics(definitions, url, labels.sources, raw, IF own = Absent THEN <<>> ELSE own.some.inputs),
         errors |-> IF own = Absent THEN {} ELSE own.some.errors]

\* The program's own container has no card.
ResolveContainer(services, c, fallback, catalog) ==
    LET key == LookupYamlService(services, c)
        service == IF key = Absent THEN Absent ELSE services[key.text]
        homepage == fallback /\ ~c.current
        parsed == ParsedLabels(c.labels, homepage)
        merged == IF service = Absent THEN parsed ELSE MergeWithYaml(parsed, service)
        labels == IF c.current THEN [merged EXCEPT !.hidden = Flag(TRUE)] ELSE merged
        url == CardUrl(labels.url, c.labels, service # Absent \/ HasCardLabels(c.labels, homepage))
    IN  WithMetrics(labels, service, url, c.labels, catalog)

ResolveYamlMetrics(service, catalog) ==
    WithMetrics(MergeWithYaml(ParsedLabels(Map(<<>>), FALSE), service), service, service["url"], Map(<<>>), catalog)

Hidden(r) == r.labels.hidden = Flag(TRUE)
Unlisted(service) == service["hidden"] = Flag(TRUE) \/ ~OneOf(service["url"], HttpUrls)
StatusOff(v) == v = Flag(FALSE)

-----------------------------------------------------------------------------
(* Metrics of a card.                                                      *)

Shown(r) == IF r.labels.metrics = Absent THEN {} ELSE r.labels.metrics.some

\* Wrong variant: metrics that lack an input go without a word.
SelectedLabels_Resolved(r) == Shown(r) \cap DOMAIN r.custom

SelectedLabels(r) == Shown(r) \cap DOMAIN r.definitions
SelectedMetrics(r) == SelectedLabels(r) \cap DOMAIN r.custom
SelectedErrors(r) == Shown(r) \cap r.errors

Details(r, config, hasContainer) ==
    [resourceStats |-> IF ~hasContainer THEN {} ELSE IF r.labels.resourceStats = Absent THEN Resources ELSE r.labels.resourceStats.some,
     selected |-> SelectedMetrics(r), errors |-> SelectedErrors(r),
     metricsAccess |-> r.labels.metricsAccess,
     historyPeriodMs |-> IF r.labels.retention = Absent THEN config.metricsHistoryPeriodMs ELSE r.labels.retention.num,
     pollIntervalMs |-> IF r.labels.interval = Absent THEN config.metricsPollIntervalMs ELSE r.labels.interval.num]

OfType(r, type) == {k \in SelectedMetrics(r) : Get(r.custom[k], "value_type") = Text(type)}

\* A target of collection, where there is something to collect.
NoTarget == [target |-> FALSE]

\* Wrong variant: cards whose status is turned off are collected for.
DockerMetricTarget_AnyStatus(config, c, r) ==
    IF c.state # "running" \/ Hidden(r) \/ r.url = Absent THEN NoTarget ELSE Details(r, config, TRUE)

DockerMetricTarget(config, c, r) ==
    LET details == Details(r, config, TRUE) IN
    IF \/ c.state # "running" \/ Hidden(r) \/ r.url = Absent \/ StatusOff(r.labels.show_status)
       \/ details.resourceStats \cup details.selected \cup details.errors = {}
    THEN NoTarget ELSE details

YamlMetricTarget(config, service, r) ==
    LET details == Details(r, config, FALSE) IN
    IF Unlisted(service) \/ StatusOff(service["show_status"]) \/ details.selected \cup details.errors = {}
    THEN NoTarget ELSE details

-----------------------------------------------------------------------------
(* Viewers.                                                                *)

AutoGroupHeaders == <<"X-Authentik-Groups", "Remote-Groups", "X-Auth-Request-Groups", "X-Forwarded-Groups", "X-Auth-Groups">>
AutoUsernameHeaders == <<"X-Authentik-Username", "Remote-User", "X-Auth-Request-User", "X-Forwarded-User", "X-Auth-Username">>
AutoEmailHeaders == <<"X-Authentik-Email", "Remote-Email", "X-Auth-Request-Email", "X-Forwarded-Email", "X-Auth-Email">>

FirstHeader(headers, names) ==
    LET given == SelectSeq(names, LAMBDA n : Filled(Get(headers, n))) IN
    IF given = <<>> THEN Absent ELSE headers.map[given[1]]

Overriding(name, names) == IF name = "" THEN names ELSE <<name>>

\* The names a viewer goes by: groups, user name and e-mail address.
Identities(config, headers) ==
    LET groups == FirstHeader(headers, IF config.accessGroupsHeader = "auto" THEN AutoGroupHeaders ELSE <<config.accessGroupsHeader>>)
        username == FirstHeader(headers, Overriding(config.userUsernameHeader, AutoUsernameHeaders))
        email == FirstHeader(headers, Overriding(config.userEmailHeader, AutoEmailHeaders))
    IN  (IF groups = Absent THEN {} ELSE GroupsIn[groups.text]) \cup {v.text : v \in {username, email} \ {Absent}}

HasAllowedAccess(identities, allowed) == allowed = {} \/ identities \cap allowed # {}

CanAccess(config, headers, access) ==
    ~config.enableAccessControl \/ HasAllowedAccess(Identities(config, headers), access)

CanViewMetric(config, headers, access, metric) ==
    /\ config.showMetrics
    /\ HasAllowedAccess(Identities(config, headers), config.metricsAccess)
    /\ metric \in DOMAIN access => HasAllowedAccess(Identities(config, headers), access[metric])

MissingAccessIdentity(config, headers, restricted) ==
    config.enableAccessControl /\ restricted /\ Identities(config, headers) = {}

-----------------------------------------------------------------------------
(* The dashboard of a world: its services, containers and catalog.         *)

MetricFields(r, config) ==
    [metricLabels |-> SelectedLabels(r), numeric |-> OfType(r, "number"), uptime |-> OfType(r, "uptime"),
     errors |-> SelectedErrors(r), metricsAccess |-> r.labels.metricsAccess,
     historyPeriodMs |-> r.labels.retention, pollIntervalMs |-> Details(r, config, TRUE).pollIntervalMs]

DockerId(c) == c.host \o ":" \o c.id
YamlId(name) == "yaml-" \o name

CardFromContainer(config, c, r, showHost) ==
    [id |-> DockerId(c), title |-> IF NonEmptyText(r.labels.title) THEN r.labels.title.text ELSE c.name,
     url |-> r.url, category |-> r.labels.category, order |-> r.labels.order, access |-> r.labels.access,
     show_status |-> r.labels.show_status, status |-> <<c.state, c.health>>,
     host |-> IF showHost THEN Text(IF c.host = "default" THEN "host" ELSE c.host) ELSE Absent,
     resourceStats |-> IF r.labels.resourceStats = Absent THEN Resources ELSE r.labels.resourceStats.some,
     metrics |-> MetricFields(r, config)]

CardFromYaml(config, name, service, r) ==
    [id |-> YamlId(name), title |-> IF NonEmptyText(service["title"]) THEN service["title"].text ELSE name,
     url |-> service["url"], category |-> service["category"], order |-> service["order"],
     access |-> IF service["access"] = Absent THEN {} ELSE service["access"].some,
     show_status |-> service["show_status"], status |-> <<>>, host |-> service["host"],
     resourceStats |-> {}, metrics |-> MetricFields(r, config)]

MatchedKeys(world) == {LookupYamlService(world.services, c).text : c \in {d \in world.containers : LookupYamlService(world.services, d) # Absent}}
Standalone(world) == (DOMAIN world.services) \ MatchedKeys(world)

\* Every container and every service is resolved the same way wherever it is looked at.
WorldOf(services, containers, catalog, config) ==
    [services |-> services, containers |-> containers, config |-> config,
     resolved |-> [c \in containers |-> ResolveContainer(services, c, config.homepageLabelFallback, catalog)],
     listed |-> [n \in DOMAIN services |-> ResolveYamlMetrics(services[n], catalog)]]

Resolved(world, c) == world.resolved[c]

ShowHost(world) ==
    \/ Cardinality({c.host : c \in world.containers}) > 1
    \/ \E n \in Standalone(world) : NonEmptyText(world.services[n]["host"])

\* buildAllCards: the cards, and the targets that collection goes by.
AllCards(world) ==
    LET shown == {c \in world.containers : ~Hidden(Resolved(world, c)) /\ Resolved(world, c).url # Absent}
        listed == {n \in Standalone(world) : ~Unlisted(world.services[n])}
    IN  {CardFromContainer(world.config, c, Resolved(world, c), ShowHost(world)) : c \in shown}
        \cup {CardFromYaml(world.config, n, world.services[n], world.listed[n]) : n \in listed}

MetricTargets(world) ==
    LET docker(c) == DockerMetricTarget(world.config, c, Resolved(world, c))
        linked == {n \in Standalone(world) : NonEmptyText(world.services[n]["url"])}
        yaml(n) == YamlMetricTarget(world.config, world.services[n], world.listed[n])
    IN  {[cardId |-> DockerId(c), numeric |-> OfType(Resolved(world, c), "number"), details |-> docker(c),
          uptime |-> OfType(Resolved(world, c), "uptime")] : c \in {d \in world.containers : docker(d) # NoTarget}}
        \cup {[cardId |-> YamlId(n), numeric |-> OfType(world.listed[n], "number"), details |-> yaml(n),
                uptime |-> OfType(world.listed[n], "uptime")] : n \in {m \in linked : yaml(m) # NoTarget}}

FilteredCard(card, config, headers) ==
    LET visible(keys) == {k \in keys : CanViewMetric(config, headers, card.metrics.metricsAccess, k)} IN
    [card EXCEPT !.resourceStats = visible(@), !.metrics.metricLabels = visible(@), !.metrics.errors = visible(@)]

\* getCards: the cards of a viewer, or the error that the viewer is not known.
CardsFor(world, headers) ==
    LET cards == AllCards(world) IN
    IF MissingAccessIdentity(world.config, headers, \E c \in cards : c.access # {}) THEN {}
    ELSE {FilteredCard(c, world.config, headers) : c \in {d \in cards : CanAccess(world.config, headers, d.access)}}

\* Wrong variant: containers without a URL count as shown.
VisibleContainer_AnyUrl(world, headers, c) ==
    ~Hidden(Resolved(world, c)) /\ CanAccess(world.config, headers, Resolved(world, c).labels.access)

VisibleContainer(world, headers, c) ==
    LET r == Resolved(world, c) IN
    ~Hidden(r) /\ r.url # Absent /\ CanAccess(world.config, headers, r.labels.access)

\* What the discovery coordinator answers from the cards it keeps.
StatusSnapshot(world, headers) ==
    LET shown == {c \in CardsFor(world, headers) : c.status # <<>>} IN
    IF ~world.config.showStatus THEN <<>>
    ELSE [id \in {c.id : c \in shown} |-> (CHOOSE c \in shown : c.id = id).status]

MetricAccess(world, headers, card) ==
    LET filtered == FilteredCard(card, world.config, headers)
        fields == filtered.metrics
    IN  IF \/ ~CanViewMetric(world.config, headers, <<>>, "")
           \/ ~CanAccess(world.config, headers, card.access) \/ StatusOff(card.show_status)
           \/ filtered.resourceStats \cup fields.metricLabels \cup fields.errors = {}
        THEN NoTarget
        ELSE [historyPeriodMs |-> IF fields.historyPeriodMs = Absent THEN world.config.metricsHistoryPeriodMs ELSE fields.historyPeriodMs.num,
              metricsAccess |-> fields.metricsAccess, errors |-> fields.errors, pollIntervalMs |-> fields.pollIntervalMs]

\* What refreshMetricRetention is told to keep.
RetentionTargets(world) ==
    {[cardId |-> c.id, hasResourceMetrics |-> c.resourceStats # {},
      historyPeriodMs |-> IF c.metrics.historyPeriodMs = Absent THEN world.config.metricsHistoryPeriodMs ELSE c.metrics.historyPeriodMs.num,
      customMetricKeys |-> c.metrics.numeric, uptimeMetricKeys |-> c.metrics.uptime] :
        c \in {d \in AllCards(world) : ~StatusOff(d.show_status)}}

\* getContainerStatuses, which looks at containers alone.
StatusesFor(world, headers) ==
    LET visible == {c \in world.containers : VisibleContainer(world, headers, c)}
        restricted == \E c \in world.containers : LET r == Resolved(world, c) IN ~Hidden(r) /\ r.url # Absent /\ r.labels.access # {}
    IN  IF ~world.config.showStatus \/ MissingAccessIdentity(world.config, headers, restricted) THEN <<>>
        ELSE [id \in {DockerId(c) : c \in visible} |-> LET c == CHOOSE d \in visible : DockerId(d) = id IN <<c.state, c.health>>]

\* getContainerMetricUsage: whether the metrics of a card are sent, and which.
UsageOfContainer(world, headers, c) ==
    LET r == Resolved(world, c) IN
    IF c.state # "running" \/ ~VisibleContainer(world, headers, c) \/ StatusOff(r.labels.show_status) THEN NoTarget
    ELSE DockerMetricTarget(world.config, c, r)

UsageOfService(world, headers, name) ==
    LET service == world.services[name] IN
    IF \/ Unlisted(service) \/ StatusOff(service["show_status"])
       \/ ~CanAccess(world.config, headers, IF service["access"] = Absent THEN {} ELSE service["access"].some)
       \/ name \in MatchedKeys(world)
    THEN NoTarget ELSE YamlMetricTarget(world.config, service, world.listed[name])

UsageFor(world, headers, id) ==
    LET c == {d \in world.containers : DockerId(d) = id}
        n == {m \in DOMAIN world.services : YamlId(m) = id}
    IN  IF ~world.config.showMetrics \/ ~HasAllowedAccess(Identities(world.config, headers), world.config.metricsAccess) THEN NoTarget
        ELSE IF c # {} THEN UsageOfContainer(world, headers, CHOOSE d \in c : TRUE)
        ELSE IF n # {} THEN UsageOfService(world, headers, CHOOSE m \in n : TRUE) ELSE NoTarget
=============================================================================
