-------------------------- MODULE DashboardProofs --------------------------
(***************************************************************************)
(* Proofs about Dashboard, for every file, its edits, every containers and *)
(* their labels, environment and viewer: what a load goes by is a version  *)
(* of the file, retention keeps what is collected, no entry of a service   *)
(* is lost, one in error costs only its chart group, a service decides     *)
(* over labels, overrides leave metrics readable, and whatever a viewer is *)
(* sent agrees.  For every metric that is asked: its inputs are filled,    *)
(* its credentials are those of the labels, what is extracted of any reply *)
(* is of the metric's type, and the browser accepts the message about it.  *)
(***************************************************************************)
EXTENDS Dashboard, FiniteSetTheorems, WellFoundedInduction, TLAPS

-----------------------------------------------------------------------------
(* The file and the cache.                                                 *)

ReadFrom(v) == cache = Read(v.content, v.stamp, Library)

FileInv == file \notin {Absent, Failed} => file \in versions /\ file.stamp # NoCache.stamp
CacheInv == cache = NoCache \/ \E v \in versions : ReadFrom(v)

LEMMA StampOfRead ==
    ASSUME NEW content, NEW stamp, NEW library
    PROVE  Read(content, stamp, library).stamp = stamp
BY DEF Read

LEMMA FileRecords ==
    ASSUME NEW content, NEW stamp
    PROVE  [content |-> content, stamp |-> stamp] \notin {Absent, Failed}
BY DEF Absent, Failed

(* The cache is empty or what one version of the file was read as, and no  *)
(* version has the time and size of the empty cache (config-file.ts:28).   *)
THEOREM FileFollowed == Spec => [](FileInv /\ CacheInv)
<1>1. Init => FileInv /\ CacheInv
  <2> SUFFICES ASSUME Init PROVE FileInv /\ CacheInv
    OBVIOUS
  <2>1. cache = NoCache /\ versions = {file} \ {Absent, Failed}
    BY DEF Init
  <2>2. CASE follows = "dashboard"
    <3>1. PICK w \in Worlds : file = IF w.content \in {Absent, Failed} THEN w.content ELSE [content |-> w.content, stamp |-> FirstStamp]
      BY <2>2 DEF Init
    <3> QED  BY <2>1, <3>1 DEF FileInv, CacheInv, NoCache, FirstStamp
  <2>3. CASE follows # "dashboard"
    BY <2>1, <2>3 DEF Init, FileInv, CacheInv
  <2> QED  BY <2>2, <2>3
<1>2. FileInv /\ CacheInv /\ [Next]_vars => FileInv' /\ CacheInv'
  <2> SUFFICES ASSUME FileInv, CacheInv, [Next]_vars PROVE FileInv' /\ CacheInv'
    OBVIOUS
  <2>1. ASSUME NEW content \in Rewrites, NEW time \in 1..MaxStamp, NEW size \in 1..2, EditFile(content, time, size)
        PROVE FileInv' /\ CacheInv'
    <3>1. file' = [content |-> content, stamp |-> <<time, size>>] /\ versions' = versions \cup {file'} /\ cache' = cache
      BY <2>1 DEF EditFile
    <3>2. <<time, size>> # <<0, 0>>
      OBVIOUS
    <3>3. FileInv'
      BY <3>1, <3>2 DEF FileInv, NoCache
    <3>4. CacheInv'
      BY <3>1 DEF CacheInv, ReadFrom, Library
    <3> QED  BY <3>3, <3>4
  <2>2. CASE RemoveFile
    BY <2>2 DEF RemoveFile, FileInv, CacheInv, ReadFrom, Library
  <2>3. CASE Load
    <3>1. UNCHANGED <<file, versions>>
      BY <2>3 DEF Load
    <3>2. FileInv'
      BY <3>1 DEF FileInv
    <3>3. CASE file \in {Absent, Failed} \/ file.stamp = cache.stamp
      <4>1. cache' = cache
        BY <2>3, <3>3 DEF Load, Loaded
      <4> QED  BY <3>1, <3>2, <4>1 DEF CacheInv, ReadFrom, Library
    <3>4. CASE file \notin {Absent, Failed} /\ file.stamp # cache.stamp
      <4>1. cache' = Read(file.content, file.stamp, Library)
        BY <2>3, <3>4 DEF Load, Loaded
      <4> QED  BY <3>1, <3>2, <3>4, <4>1 DEF FileInv, CacheInv, ReadFrom, Library
    <3> QED  BY <3>3, <3>4
  <2>4. CASE UNCHANGED <<file, cache, versions>>
    BY <2>4 DEF FileInv, CacheInv, ReadFrom, Library
  <2> QED  BY <2>1, <2>2, <2>3, <2>4 DEF Next, vars, dashboardVars, Publish
<1> QED  BY <1>1, <1>2, PTL DEF Spec

(* What a load goes by is always a version that the file has had, with the *)
(* time and size that the file has now (config-file.ts:28).                *)
THEOREM ConfigFollows == Spec => []ConfigFollowsFile
<1>1. FileInv /\ CacheInv => ConfigFollowsFile
  <2> SUFFICES ASSUME FileInv, CacheInv, file \notin {Absent, Failed}
      PROVE \E v \in versions : v.stamp = file.stamp /\ Loaded(file, cache, Library) = Read(v.content, v.stamp, Library)
    BY DEF ConfigFollowsFile
  <2>1. CASE file.stamp # cache.stamp
    BY <2>1 DEF FileInv, Loaded
  <2>2. CASE file.stamp = cache.stamp
    <3>1. PICK v \in versions : ReadFrom(v)
      BY <2>2 DEF FileInv, CacheInv
    <3>2. v.stamp = file.stamp
      BY <2>2, <3>1, StampOfRead DEF ReadFrom
    <3> QED  BY <2>2, <3>1, <3>2 DEF Loaded, ReadFrom
  <2> QED  BY <2>1, <2>2
<1> QED  BY <1>1, FileFollowed, PTL

-----------------------------------------------------------------------------
(* Whatever is collected for a card is kept.                               *)

PeriodKnown(v) == v = Absent \/ v.num \in Int

LEMMA DockerCardKept ==
    ASSUME NEW W, NEW c \in W.containers, NEW r, r = Resolved(W, c),
           DockerMetricTarget(W.config, c, r) # NoTarget
    PROVE  \E card \in AllCards(W) :
               /\ ~StatusOff(card.show_status) /\ card.id = DockerId(c)
               /\ card.resourceStats = Details(r, W.config, TRUE).resourceStats
               /\ card.metrics = MetricFields(r, W.config)
<1>1. c.state = "running" /\ ~Hidden(r) /\ r.url # Absent /\ ~StatusOff(r.labels.show_status)
  BY DEF DockerMetricTarget
<1> DEFINE card == CardFromContainer(W.config, c, r, ShowHost(W))
<1>2. card \in AllCards(W)
  BY <1>1 DEF AllCards
<1>3. /\ card.id = DockerId(c) /\ card.show_status = r.labels.show_status /\ card.metrics = MetricFields(r, W.config)
      /\ card.resourceStats = Details(r, W.config, TRUE).resourceStats
  BY DEF CardFromContainer, Details
<1> QED  BY <1>1, <1>2, <1>3

LEMMA YamlCardKept ==
    ASSUME NEW W, NEW n \in Standalone(W), NEW r, r = W.listed[n],
           YamlMetricTarget(W.config, W.services[n], r) # NoTarget
    PROVE  \E card \in AllCards(W) :
               /\ ~StatusOff(card.show_status) /\ card.id = YamlId(n)
               /\ card.metrics = MetricFields(r, W.config)
<1>1. ~Unlisted(W.services[n]) /\ ~StatusOff(W.services[n]["show_status"])
  BY DEF YamlMetricTarget
<1> DEFINE card == CardFromYaml(W.config, n, W.services[n], r)
<1>2. card \in AllCards(W)
  BY <1>1 DEF AllCards
<1>3. card.id = YamlId(n) /\ card.show_status = W.services[n]["show_status"] /\ card.metrics = MetricFields(r, W.config)
  BY DEF CardFromYaml
<1> QED  BY <1>1, <1>2, <1>3

\* What retention is told to keep of a card.
RetentionOf(card, cfg) ==
    [cardId |-> card.id, hasResourceMetrics |-> card.resourceStats # {},
     historyPeriodMs |-> IF card.metrics.historyPeriodMs = Absent THEN cfg.metricsHistoryPeriodMs ELSE card.metrics.historyPeriodMs.num,
     customMetricKeys |-> card.metrics.numeric, uptimeMetricKeys |-> card.metrics.uptime]

KeptBy(t, kept) ==
    /\ kept.cardId = t.cardId /\ kept.historyPeriodMs >= t.details.historyPeriodMs
    /\ t.details.resourceStats # {} => kept.hasResourceMetrics
    /\ t.numeric \subseteq kept.customMetricKeys /\ t.uptime \subseteq kept.uptimeMetricKeys

LEMMA PeriodOfDetails ==
    ASSUME NEW r, NEW cfg, NEW hasContainer, cfg.metricsHistoryPeriodMs \in Int, PeriodKnown(r.labels.retention)
    PROVE  /\ Details(r, cfg, hasContainer).historyPeriodMs \in Int
           /\ Details(r, cfg, hasContainer).historyPeriodMs
                = IF MetricFields(r, cfg).historyPeriodMs = Absent THEN cfg.metricsHistoryPeriodMs
                  ELSE MetricFields(r, cfg).historyPeriodMs.num
<1>1. MetricFields(r, cfg).historyPeriodMs = r.labels.retention
  BY DEF MetricFields
<1>2. Details(r, cfg, hasContainer).historyPeriodMs
        = IF r.labels.retention = Absent THEN cfg.metricsHistoryPeriodMs ELSE r.labels.retention.num
  BY DEF Details
<1> QED  BY <1>1, <1>2 DEF PeriodKnown

\* Retention covers collection in every world whose periods are numbers.
LEMMA RetentionCovers ==
    ASSUME NEW W, W.config.metricsHistoryPeriodMs \in Int,
           \A c \in W.containers : PeriodKnown(Resolved(W, c).labels.retention),
           \A n \in DOMAIN W.services : PeriodKnown(W.listed[n].labels.retention)
    PROVE  Kept(MetricTargets(W), RetentionTargets(W))
<1>1. \A card \in AllCards(W) : ~StatusOff(card.show_status) => RetentionOf(card, W.config) \in RetentionTargets(W)
  BY DEF RetentionTargets, RetentionOf
<1>2. ASSUME NEW t \in MetricTargets(W) PROVE \E kept \in RetentionTargets(W) : KeptBy(t, kept)
  <2>1. CASE \E c \in W.containers : /\ DockerMetricTarget(W.config, c, Resolved(W, c)) # NoTarget
                                    /\ t = [cardId |-> DockerId(c), numeric |-> OfType(Resolved(W, c), "number"),
                                            details |-> DockerMetricTarget(W.config, c, Resolved(W, c)),
                                            uptime |-> OfType(Resolved(W, c), "uptime")]
    <3>1. PICK c \in W.containers :
              /\ DockerMetricTarget(W.config, c, Resolved(W, c)) # NoTarget
              /\ t.cardId = DockerId(c) /\ t.numeric = OfType(Resolved(W, c), "number")
              /\ t.details = DockerMetricTarget(W.config, c, Resolved(W, c)) /\ t.uptime = OfType(Resolved(W, c), "uptime")
      BY <2>1
    <3>2. PICK r : r = Resolved(W, c)
      OBVIOUS
    <3>3. t.details = Details(r, W.config, TRUE)
      BY <3>1, <3>2 DEF DockerMetricTarget
    <3>4. PICK card \in AllCards(W) :
              /\ ~StatusOff(card.show_status) /\ card.id = DockerId(c)
              /\ card.resourceStats = Details(r, W.config, TRUE).resourceStats
              /\ card.metrics = MetricFields(r, W.config)
      BY <3>1, <3>2, DockerCardKept
    <3>5. card.metrics.numeric = t.numeric /\ card.metrics.uptime = t.uptime
      BY <3>1, <3>2, <3>4 DEF MetricFields
    <3>6. /\ t.details.historyPeriodMs \in Int
          /\ t.details.historyPeriodMs = RetentionOf(card, W.config).historyPeriodMs
      <4>1. PeriodKnown(r.labels.retention)
        BY <3>2
      <4>2. RetentionOf(card, W.config).historyPeriodMs
              = IF card.metrics.historyPeriodMs = Absent THEN W.config.metricsHistoryPeriodMs ELSE card.metrics.historyPeriodMs.num
        BY DEF RetentionOf
      <4>3. /\ Details(r, W.config, TRUE).historyPeriodMs \in Int
            /\ Details(r, W.config, TRUE).historyPeriodMs
                  = IF MetricFields(r, W.config).historyPeriodMs = Absent THEN W.config.metricsHistoryPeriodMs
                    ELSE MetricFields(r, W.config).historyPeriodMs.num
        BY <4>1, PeriodOfDetails
      <4> QED  BY <3>3, <3>4, <4>2, <4>3
    <3>7. KeptBy(t, RetentionOf(card, W.config))
      <4>1. RetentionOf(card, W.config).historyPeriodMs >= t.details.historyPeriodMs
        BY <3>6
      <4> QED  BY <3>1, <3>3, <3>4, <3>5, <4>1 DEF KeptBy, RetentionOf
    <3> QED  BY <1>1, <3>4, <3>7
  <2>2. CASE \E n \in Standalone(W) : /\ YamlMetricTarget(W.config, W.services[n], W.listed[n]) # NoTarget
                                     /\ t = [cardId |-> YamlId(n), numeric |-> OfType(W.listed[n], "number"),
                                             details |-> YamlMetricTarget(W.config, W.services[n], W.listed[n]),
                                             uptime |-> OfType(W.listed[n], "uptime")]
    <3>1. PICK n \in Standalone(W) :
              /\ YamlMetricTarget(W.config, W.services[n], W.listed[n]) # NoTarget
              /\ t.cardId = YamlId(n) /\ t.numeric = OfType(W.listed[n], "number")
              /\ t.details = YamlMetricTarget(W.config, W.services[n], W.listed[n]) /\ t.uptime = OfType(W.listed[n], "uptime")
      BY <2>2
    <3>2. PICK r : r = W.listed[n]
      OBVIOUS
    <3>3. t.details = Details(r, W.config, FALSE)
      BY <3>1, <3>2 DEF YamlMetricTarget
    <3>4. PICK card \in AllCards(W) :
              /\ ~StatusOff(card.show_status) /\ card.id = YamlId(n)
              /\ card.metrics = MetricFields(r, W.config)
      BY <3>1, <3>2, YamlCardKept
    <3>5. card.metrics.numeric = t.numeric /\ card.metrics.uptime = t.uptime
      BY <3>1, <3>2, <3>4 DEF MetricFields
    <3>6. /\ t.details.historyPeriodMs \in Int
          /\ t.details.historyPeriodMs = RetentionOf(card, W.config).historyPeriodMs
      <4>1. PeriodKnown(r.labels.retention)
        BY <3>2 DEF Standalone
      <4>2. RetentionOf(card, W.config).historyPeriodMs
              = IF card.metrics.historyPeriodMs = Absent THEN W.config.metricsHistoryPeriodMs ELSE card.metrics.historyPeriodMs.num
        BY DEF RetentionOf
      <4>3. /\ Details(r, W.config, FALSE).historyPeriodMs \in Int
            /\ Details(r, W.config, FALSE).historyPeriodMs
                  = IF MetricFields(r, W.config).historyPeriodMs = Absent THEN W.config.metricsHistoryPeriodMs
                    ELSE MetricFields(r, W.config).historyPeriodMs.num
        BY <4>1, PeriodOfDetails
      <4> QED  BY <3>3, <3>4, <4>2, <4>3
    <3>7. t.details.resourceStats = {}
      BY <3>3 DEF Details
    <3>8. KeptBy(t, RetentionOf(card, W.config))
      <4>1. RetentionOf(card, W.config).historyPeriodMs >= t.details.historyPeriodMs
        BY <3>6
      <4> QED  BY <3>1, <3>4, <3>5, <3>7, <4>1 DEF KeptBy, RetentionOf
    <3> QED  BY <1>1, <3>4, <3>8
  <2> QED  BY <2>1, <2>2 DEF MetricTargets
<1> QED  BY <1>2 DEF Kept, KeptBy

-----------------------------------------------------------------------------
(* The world that a behaviour starts from, until the file is edited.       *)

StartsFrom(w) ==
    /\ world = [containers |-> w.containers, env |-> w.env]
    /\ \/ w.content \in {Absent, Failed} /\ file = w.content /\ cache = NoCache
       \/ /\ file = [content |-> w.content, stamp |-> FirstStamp]
          /\ cache \in {NoCache, Read(w.content, FirstStamp, Library)}
    /\ cache # NoCache => config = cache.config

WorldInv ==
    /\ edits \in Nat
    /\ follows # "dashboard" => file = Absent
    /\ follows = "dashboard" /\ edits = 0 => \E w \in Worlds : StartsFrom(w)

(* Until the file is edited the file, the containers and the environment   *)
(* are those of one world, and a filled cache holds what its file says     *)
(* (config-file.ts:28).                                                    *)
THEOREM WorldKept == Spec => []WorldInv
<1>1. Init => WorldInv
  <2> SUFFICES ASSUME Init PROVE WorldInv
    OBVIOUS
  <2>1. edits = 0 /\ cache = NoCache /\ (follows # "dashboard" => file = Absent)
    BY DEF Init
  <2>2. CASE follows = "dashboard"
    <3>1. PICK w \in Worlds : /\ file = IF w.content \in {Absent, Failed} THEN w.content ELSE [content |-> w.content, stamp |-> FirstStamp]
                             /\ world = [containers |-> w.containers, env |-> w.env]
      BY <2>2 DEF Init
    <3>2. StartsFrom(w)
      BY <2>1, <3>1 DEF StartsFrom
    <3> QED  BY <2>1, <3>2 DEF WorldInv
  <2> QED  BY <2>1, <2>2 DEF WorldInv
<1>2. WorldInv /\ [Next]_vars => WorldInv'
  <2> SUFFICES ASSUME WorldInv, [Next]_vars PROVE WorldInv'
    OBVIOUS
  <2>1. CASE \/ \E content \in Rewrites, time \in 1..MaxStamp, size \in 1..2 : EditFile(content, time, size)
             \/ RemoveFile
    BY <2>1 DEF WorldInv, EditFile, RemoveFile, Editable
  <2>2. CASE Load
    <3>1. UNCHANGED <<file, world, edits, follows>>
      BY <2>2 DEF Load
    <3>2. ASSUME NEW w \in Worlds, StartsFrom(w) PROVE StartsFrom(w)'
      <4>1. CASE w.content \in {Absent, Failed} /\ file = w.content /\ cache = NoCache
        <5>1. cache' = NoCache
          BY <2>2, <4>1 DEF Load
        <5> QED  BY <3>1, <3>2, <4>1, <5>1 DEF StartsFrom
      <4>2. CASE /\ file = [content |-> w.content, stamp |-> FirstStamp]
                 /\ cache \in {NoCache, Read(w.content, FirstStamp, Library)}
        <5>1. file \notin {Absent, Failed}
          BY <4>2, FileRecords
        <5>2. cache' = Loaded(file, cache, Library) /\ config' = cache'.config
          BY <2>2, <5>1 DEF Load
        <5>3. cache' \in {NoCache, Read(w.content, FirstStamp, Library)}
          BY <4>2, <5>2 DEF Loaded
        <5> QED  BY <3>1, <3>2, <4>2, <5>2, <5>3 DEF StartsFrom, Library
      <4> QED  BY <3>2, <4>1, <4>2 DEF StartsFrom
    <3> QED  BY <3>1, <3>2 DEF WorldInv
  <2>3. CASE UNCHANGED <<follows, file, cache, config, world, edits>>
    BY <2>3 DEF WorldInv, StartsFrom, Library
  <2> QED  BY <2>1, <2>2, <2>3 DEF Next, vars, dashboardVars, Publish
<1> QED  BY <1>1, <1>2, PTL DEF Spec

\* A file that cards are built from has been accepted, and is that of the world.
Accounted(w) ==
    /\ world = [containers |-> w.containers, env |-> w.env]
    /\ file = [content |-> w.content, stamp |-> FirstStamp]
    /\ FileAccepted(w.content, Library) /\ config = ParsedFile(w.content, Library)

LEMMA ReadyAccounted ==
    ASSUME WorldInv, Ready
    PROVE  \E w \in Worlds : Accounted(w)
<1>1. PICK w \in Worlds : StartsFrom(w)
  BY DEF WorldInv, Ready
<1>2. cache = Read(w.content, FirstStamp, Library) /\ config = cache.config
  BY <1>1 DEF StartsFrom, Ready
<1>3. config = IF FileAccepted(w.content, Library) THEN ParsedFile(w.content, Library) ELSE EmptyConfig(TRUE)
  BY <1>2 DEF Read
<1>4. FileAccepted(w.content, Library)
  BY <1>3 DEF EmptyConfig, Ready
<1> QED  BY <1>1, <1>3, <1>4 DEF StartsFrom, Ready, Accounted

LEMMA ServicesOfFile ==
    ASSUME NEW content, FileAccepted(content, Library)
    PROVE  LET parsed == ParsedFile(content, Library) IN
           /\ DOMAIN parsed.services = Services(content)
           /\ \A n \in Services(content) :
                /\ ServiceAccepted(content.map[n], Library)
                /\ parsed.services[n]
                      = ParsedService(content.map[n], Library, ParsedSharedSources(Get(content, "shared_metric_sources")))
           /\ parsed.settings = IF Has(content, "settings") THEN content.map["settings"] ELSE Map(<<>>)
BY DEF ParsedFile, FileAccepted

-----------------------------------------------------------------------------
(* Periods are numbers, whichever of labels, file and environment say them. *)

LEMMA Tags ==
    /\ \A n : IsNum(Num(n)) /\ Num(n).num = n /\ Num(n) # Absent
    /\ \A x : Some(x).some = x /\ Some(x) # Absent
    /\ \A f : IsMap(Map(f)) /\ Map(f).map = f /\ Keys(Map(f)) = DOMAIN f
    /\ ~IsNum(Absent) /\ ~IsMap(Absent) /\ ~IsText(Absent) /\ Keys(Absent) = {}
    /\ Text("none") # Absent /\ ~IsMap(Text("none"))
BY DEF Num, IsNum, Absent, Some, Map, IsMap, Keys, Text, IsText

LEMMA PeriodOfSetting ==
    ASSUME NEW settings, NEW env, NEW name, NEW default \in Int,
           \A v \in {Get(settings, name), Get(env, name)} : IsNum(v) => v.num \in Int
    PROVE  PeriodSetting(settings, env, name, default) \in Int
<1> DEFINE v == NumberSetting(settings, env, name)
<1>1. v = Absent \/ v.num \in Int
  <2>1. Setting(settings, env, name) \in {Get(settings, name), Get(env, name)}
    BY DEF Setting, Else
  <2>2. CASE IsNum(Setting(settings, env, name))
    BY <2>1, <2>2, NumbersAssumption, Tags DEF NumberSetting, OneOf
  <2>3. CASE ~IsNum(Setting(settings, env, name))
    BY <2>3, NumbersAssumption, Tags DEF NumberSetting, OneOf
  <2> QED  BY <2>2, <2>3
<1> HIDE DEF v
<1>2. PeriodSetting(settings, env, name, default) = IF v # Absent /\ v.num > 0 THEN v.num * 1000 ELSE default
  BY DEF PeriodSetting, v
<1> QED  BY <1>1, <1>2

LEMMA PeriodOfLabels ==
    ASSUME NEW labels, NEW fallback
    PROVE  PeriodKnown(ParsedLabels(labels, fallback).retention)
<1>1. ParsedLabels(labels, fallback).retention = PeriodLabel(Get(labels, "metrics_history_period"))
  BY DEF ParsedLabels
<1>2. \A v : NumberLabel(v) = Absent \/ NumberLabel(v).num \in Int
  BY NumbersAssumption, Tags DEF NumberLabel, OneOf
<1>3. \A v : PeriodKnown(PeriodLabel(v))
  <2> TAKE v
  <2>1. PICK n : n = NumberLabel(v)
    OBVIOUS
  <2>2. PeriodLabel(v) = IF n # Absent /\ n.num > 0 THEN Num(n.num * 1000) ELSE Absent
    BY <2>1 DEF PeriodLabel
  <2>3. n = Absent \/ n.num \in Int
    BY <2>1, <1>2
  <2> QED  BY <2>2, <2>3, Tags DEF PeriodKnown
<1> QED  BY <1>1, <1>3

LEMMA PeriodOfMetrics ==
    ASSUME NEW v, NEW library, NEW shared, MetricsAccepted(v, library)
    PROVE  PeriodKnown(ParsedServiceMetrics(v, library, shared).retention)
<1>1. PICK d : d = Get(Get(v, "collection"), "retention")
  OBVIOUS
<1>2. ParsedServiceMetrics(v, library, shared).retention = IF d = Absent THEN Absent ELSE Num(DurationMs[d.text])
  BY <1>1 DEF ParsedServiceMetrics, KeptMetrics
<1>3. d # Absent => d.text \in DOMAIN DurationMs
  <2> SUFFICES ASSUME d # Absent PROVE d.text \in DOMAIN DurationMs
    OBVIOUS
  <2>1. PICK c : c = Get(v, "collection")
    OBVIOUS
  <2>2. IsMap(c) /\ "retention" \in Keys(c) /\ d = c.map["retention"]
    BY <1>1, <2>1 DEF Get, Keys
  <2>3. v # Text("none") /\ c # Absent
    BY <2>1, <2>2, Tags DEF Get
  <2>4. CollectionAccepted(c)
    BY <2>1, <2>3 DEF MetricsAccepted, Opt
  <2> QED  BY <2>2, <2>4 DEF CollectionAccepted, OneOf
<1> QED  BY <1>2, <1>3, NumbersAssumption, Tags DEF PeriodKnown

LEMMA FieldsOfService ==
    ASSUME NEW v, NEW library, NEW shared
    PROVE  LET service == ParsedService(v, library, shared) IN
           /\ DOMAIN service = ServiceFields
           /\ service["metrics"] = IF Has(v, "metrics") THEN Some(ParsedServiceMetrics(Get(v, "metrics"), library, shared)) ELSE Absent
BY DEF ParsedService, ServiceFields, ServiceTexts, ServiceFlags, ServiceLists

LabelFields ==
    {"hidden", "url", "sources", "title", "description", "icon", "category", "order", "show_status", "resourceStats",
     "metrics", "interval", "retention", "metricsAccess", "access", "search_aliases"}

LEMMA FieldsOfLabels ==
    ASSUME NEW labels, NEW fallback
    PROVE  DOMAIN ParsedLabels(labels, fallback) = LabelFields
BY DEF ParsedLabels, LabelFields

LEMMA MergedMetricsOf ==
    ASSUME NEW parsed, NEW service, DOMAIN parsed = LabelFields
    PROVE  LET merged == MergeWithYaml(parsed, service)
               metrics == service["metrics"].some
           IN  IF service["metrics"] = Absent THEN merged.retention = parsed.retention
               ELSE /\ merged.retention = Else(metrics.retention, parsed.retention)
                    /\ merged.metrics = metrics.entries
                    /\ merged.resourceStats = IF metrics.entries = Absent THEN Some({}) ELSE Some(metrics.entries.some \cap Resources)
BY DEF MergeWithYaml, ServiceLists, LabelFields

LEMMA ServiceFound ==
    ASSUME NEW services, NEW c, LookupYamlService(services, c) # Absent
    PROVE  LookupYamlService(services, c).text \in DOMAIN services
BY DEF LookupYamlService, Else, Text

\* What configuration says of a service's metrics has periods that are numbers.
PeriodsOf(services) ==
    \A n \in DOMAIN services : services[n]["metrics"] = Absent \/ PeriodKnown(services[n]["metrics"].some.retention)

LEMMA LabelsResolved ==
    \A labels, service, url, raw, catalog : WithMetrics(labels, service, url, raw, catalog).labels = labels
BY DEF WithMetrics

LEMMA PeriodOfContainer ==
    ASSUME NEW services, NEW c, NEW fallback, NEW catalog, PeriodsOf(services)
    PROVE  PeriodKnown(ResolveContainer(services, c, fallback, catalog).labels.retention)
<1>1. PICK key : key = LookupYamlService(services, c)
  OBVIOUS
<1>2. PICK service : service = IF key = Absent THEN Absent ELSE services[key.text]
  OBVIOUS
<1>3. PICK parsed : parsed = ParsedLabels(c.labels, fallback /\ ~c.current)
  OBVIOUS
<1>4. PICK merged : merged = IF service = Absent THEN parsed ELSE MergeWithYaml(parsed, service)
  OBVIOUS
<1>5. ResolveContainer(services, c, fallback, catalog).labels = IF c.current THEN [merged EXCEPT !.hidden = Flag(TRUE)] ELSE merged
  BY <1>1, <1>2, <1>3, <1>4, LabelsResolved DEF ResolveContainer
<1>6. ResolveContainer(services, c, fallback, catalog).labels.retention = merged.retention
  BY <1>5
<1>7. DOMAIN parsed = LabelFields /\ PeriodKnown(parsed.retention)
  BY <1>3, FieldsOfLabels, PeriodOfLabels
<1>8. PeriodKnown(merged.retention)
  <2>1. CASE service = Absent
    BY <1>4, <1>7, <2>1
  <2>2. CASE service # Absent
    <3>1. service["metrics"] = Absent \/ PeriodKnown(service["metrics"].some.retention)
      BY <1>1, <1>2, <2>2, ServiceFound DEF PeriodsOf
    <3>2. CASE service["metrics"] = Absent
      BY <1>4, <1>7, <2>2, <3>2, MergedMetricsOf
    <3>3. CASE service["metrics"] # Absent
      <4>1. merged.retention = Else(service["metrics"].some.retention, parsed.retention)
        BY <1>4, <1>7, <2>2, <3>3, MergedMetricsOf
      <4> QED  BY <1>7, <3>1, <3>3, <4>1 DEF Else
    <3> QED  BY <3>2, <3>3
  <2> QED  BY <2>1, <2>2
<1> QED  BY <1>6, <1>8 DEF PeriodKnown

LEMMA PeriodOfService ==
    ASSUME NEW services, NEW n \in DOMAIN services, NEW catalog, PeriodsOf(services)
    PROVE  PeriodKnown(ResolveYamlMetrics(services[n], catalog).labels.retention)
<1>1. PICK parsed : parsed = ParsedLabels(Map(<<>>), FALSE)
  OBVIOUS
<1>2. PICK service : service = services[n]
  OBVIOUS
<1>3. PICK merged : merged = MergeWithYaml(parsed, service)
  OBVIOUS
<1>4. ResolveYamlMetrics(service, catalog).labels = merged
  BY <1>1, <1>3 DEF ResolveYamlMetrics, WithMetrics
<1>5. DOMAIN parsed = LabelFields /\ PeriodKnown(parsed.retention)
  BY <1>1, FieldsOfLabels, PeriodOfLabels
<1>6. service["metrics"] = Absent \/ PeriodKnown(service["metrics"].some.retention)
  BY <1>2 DEF PeriodsOf
<1>7. PeriodKnown(merged.retention)
  <2>1. CASE service["metrics"] = Absent
    BY <1>3, <1>5, <2>1, MergedMetricsOf
  <2>2. CASE service["metrics"] # Absent
    <3>1. merged.retention = Else(service["metrics"].some.retention, parsed.retention)
      BY <1>3, <1>5, <2>2, MergedMetricsOf
    <3> QED  BY <1>5, <1>6, <2>2, <3>1 DEF Else
  <2> QED  BY <2>1, <2>2
<1> QED  BY <1>2, <1>4, <1>7

LEMMA PeriodsOfFile ==
    ASSUME NEW content, FileAccepted(content, Library)
    PROVE  PeriodsOf(ParsedFile(content, Library).services)
<1>1. PICK services : services = ParsedFile(content, Library).services
  OBVIOUS
<1>2. PICK shared : shared = ParsedSharedSources(Get(content, "shared_metric_sources"))
  OBVIOUS
<1>3. ASSUME NEW n \in DOMAIN services
      PROVE services[n]["metrics"] = Absent \/ PeriodKnown(services[n]["metrics"].some.retention)
  <2>1. PICK v : v = content.map[n]
    OBVIOUS
  <2>2. ServiceAccepted(v, Library) /\ services[n] = ParsedService(v, Library, shared)
    BY <1>1, <1>2, <2>1, ServicesOfFile
  <2>3. services[n]["metrics"] = IF Has(v, "metrics") THEN Some(ParsedServiceMetrics(Get(v, "metrics"), Library, shared)) ELSE Absent
    BY <2>2, FieldsOfService
  <2>4. CASE Has(v, "metrics") /\ Get(v, "metrics") # Absent
    <3>1. MetricsAccepted(Get(v, "metrics"), Library)
      BY <2>2, <2>4 DEF ServiceAccepted, Opt
    <3> QED  BY <2>3, <2>4, <3>1, PeriodOfMetrics, Tags
  <2>5. CASE Get(v, "metrics") = Absent
    <3>1. ParsedServiceMetrics(Absent, Library, shared).retention = Absent
      BY Tags DEF ParsedServiceMetrics, KeptMetrics, Get
    <3> QED  BY <2>3, <2>5, <3>1, Tags DEF PeriodKnown
  <2> QED  BY <2>3, <2>4, <2>5
<1> QED  BY <1>1, <1>3 DEF PeriodsOf

LEMMA PeriodOfSettings ==
    ASSUME NEW w \in Worlds, Accounted(w)
    PROVE  Settings.metricsHistoryPeriodMs \in Int
<1>1. world.env = w.env
  BY DEF Accounted
<1>2. \A v \in {Get(config.settings, "metrics_history_period"), Get(world.env, "metrics_history_period")} : IsNum(v) => v.num \in Int
  <2>1. \A v \in {Get(Get(w.content, "settings"), "metrics_history_period"), Get(w.env, "metrics_history_period")} : IsNum(v) => v.num \in Int
    BY PeriodsAssumption DEF PeriodSettings
  <2>2. config.settings = IF Has(w.content, "settings") THEN w.content.map["settings"] ELSE Map(<<>>)
    BY ServicesOfFile DEF Accounted
  <2>3. Has(w.content, "settings") => Get(w.content, "settings") = w.content.map["settings"]
    BY DEF Has, Keys, Get
  <2>4. ~Has(w.content, "settings") => ~IsNum(Get(config.settings, "metrics_history_period"))
    BY <2>2, Tags DEF Get
  <2> QED  BY <1>1, <2>1, <2>2, <2>3, <2>4
<1>3. Settings.metricsHistoryPeriodMs = PeriodSetting(config.settings, world.env, "metrics_history_period", 300000)
  BY DEF Settings, Config
<1> QED  BY <1>2, <1>3, PeriodOfSetting

(* Retention keeps whatever is collected, for every file, every containers *)
(* with their labels and every environment (docker.ts:538).                *)
THEOREM CollectedKept == Spec => []RetentionKeepsCollected
<1>1. WorldInv => RetentionKeepsCollected
  <2> SUFFICES ASSUME WorldInv, Ready PROVE Kept(MetricTargets(Inputs), RetentionTargets(Inputs))
    BY DEF RetentionKeepsCollected
  <2>1. PICK w \in Worlds : Accounted(w)
    BY ReadyAccounted
  <2>2. PeriodsOf(config.services)
    BY <2>1, PeriodsOfFile DEF Accounted
  <2>3. Settings.metricsHistoryPeriodMs \in Int
    BY <2>1, PeriodOfSettings
  <2>4. PICK W : W = Inputs
    OBVIOUS
  <2>5. W.config = Settings /\ W.containers = world.containers /\ W.services = config.services
    BY <2>4 DEF Inputs, WorldOf
  <2>6. \A c \in W.containers : PeriodKnown(Resolved(W, c).labels.retention)
    <3>1. \A c \in W.containers : Resolved(W, c) = ResolveContainer(config.services, c, Settings.homepageLabelFallback, Catalog)
      BY <2>4 DEF Inputs, WorldOf, Resolved
    <3> QED  BY <2>2, <3>1, PeriodOfContainer
  <2>7. \A n \in DOMAIN W.services : PeriodKnown(W.listed[n].labels.retention)
    <3>1. \A n \in DOMAIN W.services : W.listed[n] = ResolveYamlMetrics(config.services[n], Catalog)
      BY <2>4 DEF Inputs, WorldOf
    <3> QED  BY <2>2, <2>5, <3>1, PeriodOfService
  <2> QED  BY <2>3, <2>4, <2>5, <2>6, <2>7, RetentionCovers
<1> QED  BY <1>1, WorldKept, PTL

-----------------------------------------------------------------------------
(* No entry of a service's metrics is dropped in silence.                  *)

LEMMA EntriesKept ==
    ASSUME NEW v, NEW shared, IsMap(v), NEW k \in Keys(Get(v, "entries"))
    PROVE  LET parsed == ParsedServiceMetrics(v, Library, shared) IN
           /\ parsed.entries = Some(Keys(Get(v, "entries")) \ parsed.errors)
           /\ k \in Resources \cup DOMAIN Library \cup DOMAIN parsed.metrics \cup parsed.errors
<1>1. PICK e : e = Get(v, "entries")
  OBVIOUS
<1>2. PICK own : own = ParsedOwn(e, Library, ParsedCharts(Get(v, "charts")), shared)
  OBVIOUS
<1>3. PICK overrides : overrides = ParsedOverrides(e, Library, ParsedCharts(Get(v, "charts")))
  OBVIOUS
<1>4. IsMap(e) /\ k \in Keys(e) /\ v # Text("none")
  BY <1>1, Tags DEF Keys
<1>5. PICK parsed : parsed = ParsedServiceMetrics(v, Library, shared)
  OBVIOUS
<1>6. parsed = KeptMetrics(v, e, Library, own, overrides)
  BY <1>1, <1>2, <1>3, <1>4, <1>5 DEF ParsedServiceMetrics
<1>7. /\ parsed.errors = OwnEntries(e, Library) \ DOMAIN own
      /\ parsed.entries = Some(Keys(e) \ (OwnEntries(e, Library) \ DOMAIN own))
      /\ parsed.metrics = Spread(overrides, own)
  BY <1>4, <1>6 DEF KeptMetrics
<1>8. DOMAIN own \subseteq DOMAIN parsed.metrics
  BY <1>7 DEF Spread
<1> QED  BY <1>1, <1>4, <1>5, <1>7, <1>8 DEF OwnEntries

LEMMA ResolvedWithMetrics ==
    ASSUME NEW services, NEW c, NEW fallback, NEW catalog, NEW service, NEW parsed, NEW entries,
           LookupYamlService(services, c) # Absent, service = services[LookupYamlService(services, c).text],
           service # Absent, service["metrics"] = Some(parsed), parsed.entries = Some(entries)
    PROVE  LET r == ResolveContainer(services, c, fallback, catalog) IN
           /\ Shown(r) = entries
           /\ r.labels.resourceStats = Some(entries \cap Resources)
           /\ DOMAIN r.definitions = (entries \cap DOMAIN catalog) \cup DOMAIN parsed.metrics
           /\ r.errors = parsed.errors
<1>1. PICK r : r = ResolveContainer(services, c, fallback, catalog)
  OBVIOUS
<1>2. PICK plain : plain = ParsedLabels(c.labels, fallback /\ ~c.current)
  OBVIOUS
<1>3. PICK merged : merged = MergeWithYaml(plain, service)
  OBVIOUS
<1>4. PICK labels : labels = IF c.current THEN [merged EXCEPT !.hidden = Flag(TRUE)] ELSE merged
  OBVIOUS
<1>5. /\ merged.metrics = Some(entries)
      /\ merged.resourceStats = Some(entries \cap Resources)
  <2>1. DOMAIN plain = LabelFields
    BY <1>2, FieldsOfLabels
  <2>2. service["metrics"] # Absent /\ service["metrics"].some = parsed
    BY Tags
  <2>3. /\ merged.metrics = parsed.entries
        /\ merged.resourceStats = IF parsed.entries = Absent THEN Some({}) ELSE Some(parsed.entries.some \cap Resources)
    BY <1>3, <2>1, <2>2, MergedMetricsOf
  <2> QED  BY <2>3, Tags
<1>6. labels.metrics = Some(entries) /\ labels.resourceStats = Some(entries \cap Resources)
  BY <1>4, <1>5
<1>7. \E url : r = WithMetrics(labels, service, url, c.labels, catalog)
  BY <1>1, <1>2, <1>3, <1>4 DEF ResolveContainer
<1>8. r.labels = labels /\ r.errors = parsed.errors
  BY <1>7, Tags DEF WithMetrics, ServiceMetrics
<1>9. r.definitions = Spread([k \in entries \cap DOMAIN catalog |-> catalog[k]], parsed.metrics)
  BY <1>6, <1>7, Tags DEF WithMetrics, ServiceMetrics
<1>10. DOMAIN r.definitions = (entries \cap DOMAIN catalog) \cup DOMAIN parsed.metrics
  BY <1>9 DEF Spread
<1> QED  BY <1>1, <1>6, <1>8, <1>10, Tags DEF Shown

(* Every entry of an accepted service's metrics is on its card as a        *)
(* resource or as a metric, or is one of the errors parsing has logged     *)
(* (config-file-validation.ts:1258).                                       *)
THEOREM NoEntryLost == Spec => []EntriesExplained
<1>1. WorldInv => EntriesExplained
  <2> SUFFICES ASSUME WorldInv, Ready, NEW c \in world.containers, LookupYamlService(config.services, c) # Absent,
                      LookupYamlService(config.services, c).text \in Configured,
                      NEW k \in Keys(EntriesOf(LookupYamlService(config.services, c).text))
      PROVE LET n == LookupYamlService(config.services, c)
                card == CardAs(c, Settings)
            IN  k \in card.resourceStats \cup card.metrics.metricLabels \cup config.services[n.text]["metrics"].some.errors
    BY DEF EntriesExplained
  <2>1. PICK w \in Worlds : Accounted(w)
    BY ReadyAccounted
  <2>2. PICK n : n = LookupYamlService(config.services, c).text
    OBVIOUS
  <2>3. PICK v : v = w.content.map[n]
    OBVIOUS
  <2>4. PICK shared : shared = ParsedSharedSources(Get(w.content, "shared_metric_sources"))
    OBVIOUS
  <2>5. n \in Services(w.content) /\ config.services[n] = ParsedService(v, Library, shared)
    BY <2>1, <2>2, <2>3, <2>4, ServicesOfFile DEF Accounted, Configured
  <2>6. PICK m : m = Get(v, "metrics")
    OBVIOUS
  <2>7. file.content = w.content /\ Get(w.content, n) = v
    BY <2>1, <2>3, <2>5 DEF Accounted, Services, Keys, Get
  <2>8. IsMap(m)
    BY <2>2, <2>6, <2>7 DEF Configured
  <2>9. PICK parsed : parsed = ParsedServiceMetrics(m, Library, shared)
    OBVIOUS
  <2>10. config.services[n]["metrics"] = Some(parsed) /\ config.services[n] # Absent
    <3>1. Has(v, "metrics")
      BY <2>6, <2>8, Tags DEF Has, Keys, Get
    <3>2. ParsedService(v, Library, shared)["metrics"] = Some(parsed)
      BY <2>6, <2>9, <3>1, FieldsOfService
    <3>3. DOMAIN ParsedService(v, Library, shared) # DOMAIN Absent
      BY FieldsOfService DEF ServiceFields, Absent
    <3> QED  BY <2>5, <3>2, <3>3
  <2>11. k \in Keys(Get(m, "entries"))
    BY <2>2, <2>6, <2>7, Tags DEF EntriesOf
  <2>12. PICK entries : entries = Keys(Get(m, "entries")) \ parsed.errors
    OBVIOUS
  <2>13. /\ parsed.entries = Some(entries)
         /\ k \in Resources \cup DOMAIN Library \cup DOMAIN parsed.metrics \cup parsed.errors
    BY <2>8, <2>9, <2>11, <2>12, EntriesKept
  <2>14. PICK r : r = ResolveContainer(config.services, c, Settings.homepageLabelFallback, Catalog)
    OBVIOUS
  <2>15. /\ Shown(r) = entries
         /\ r.labels.resourceStats = Some(entries \cap Resources)
         /\ DOMAIN r.definitions = (entries \cap DOMAIN Catalog) \cup DOMAIN parsed.metrics
    <3>1. PICK services : services = config.services
      OBVIOUS
    <3>2. PICK service : service = services[n]
      OBVIOUS
    <3>3. PICK fallback : fallback = Settings.homepageLabelFallback
      OBVIOUS
    <3>4. LookupYamlService(services, c) # Absent /\ service = services[LookupYamlService(services, c).text]
      BY <2>2, <3>1, <3>2
    <3>5. service # Absent /\ service["metrics"] = Some(parsed)
      BY <2>10, <3>1, <3>2
    <3>6. r = ResolveContainer(services, c, fallback, Catalog)
      BY <2>14, <3>1, <3>3
    <3> QED  BY <2>13, <3>4, <3>5, <3>6, ResolvedWithMetrics
  <2>16. PICK card : card = CardFromContainer(Settings, c, r, FALSE)
    OBVIOUS
  <2>17. card.resourceStats = entries \cap Resources
    BY <2>15, <2>16, Tags DEF CardFromContainer
  <2>18. card.metrics.metricLabels = entries \cap DOMAIN r.definitions
    BY <2>15, <2>16 DEF CardFromContainer, MetricFields, SelectedLabels
  <2>19. k \in card.resourceStats \cup card.metrics.metricLabels \cup parsed.errors
    <3>1. DOMAIN Catalog = DOMAIN Library
      BY LibraryAssumption DEF Catalog, Library, AcceptedOnly
    <3> QED  BY <2>11, <2>12, <2>13, <2>15, <2>17, <2>18, <3>1
  <2>20. CardAs(c, Settings) = card
    BY <2>14, <2>16 DEF CardAs, ResolvedAs
  <2> QED  BY <2>2, <2>10, <2>19, <2>20, Tags
<1> QED  BY <1>1, WorldKept, PTL

-----------------------------------------------------------------------------
(* The ways to a viewer's data agree.                                      *)

IdsApart(W) ==
    /\ \A c, d \in W.containers : DockerId(c) = DockerId(d) => c = d
    /\ \A m, n \in DOMAIN W.services : YamlId(m) = YamlId(n) => m = n
    /\ \A c \in W.containers, n \in DOMAIN W.services : DockerId(c) # YamlId(n)

DockerCard(W, c) == CardFromContainer(W.config, c, Resolved(W, c), ShowHost(W))
YamlCard(W, n) == CardFromYaml(W.config, n, W.services[n], W.listed[n])

IsDockerCard(W, card) ==
    \E c \in W.containers : ~Hidden(Resolved(W, c)) /\ Resolved(W, c).url # Absent /\ card = DockerCard(W, c)
IsYamlCard(W, card) == \E n \in Standalone(W) : ~Unlisted(W.services[n]) /\ card = YamlCard(W, n)

LEMMA CardKinds ==
    ASSUME NEW W
    PROVE  \A card : card \in AllCards(W) <=> IsDockerCard(W, card) \/ IsYamlCard(W, card)
BY DEF AllCards, IsDockerCard, IsYamlCard, DockerCard, YamlCard

LEMMA DockerCardFields ==
    ASSUME NEW W, NEW c
    PROVE  LET card == DockerCard(W, c) IN
           /\ card.id = DockerId(c) /\ card.status = <<c.state, c.health>> /\ card.status # <<>>
           /\ card.access = Resolved(W, c).labels.access /\ card.metrics = MetricFields(Resolved(W, c), W.config)
BY DEF DockerCard, CardFromContainer

LEMMA YamlCardFields ==
    ASSUME NEW W, NEW n
    PROVE  LET card == YamlCard(W, n) IN
           /\ card.id = YamlId(n) /\ card.status = <<>>
           /\ card.access = IF W.services[n]["access"] = Absent THEN {} ELSE W.services[n]["access"].some
           /\ card.metrics = MetricFields(W.listed[n], W.config)
BY DEF YamlCard, CardFromYaml

LEMMA CardFields ==
    ASSUME NEW W, NEW card \in AllCards(W)
    PROVE  /\ {"id", "status", "access", "resourceStats", "metrics"} \subseteq DOMAIN card
           /\ {"metricLabels", "errors"} \subseteq DOMAIN card.metrics
<1>1. CASE IsDockerCard(W, card)
  BY <1>1 DEF IsDockerCard, DockerCard, CardFromContainer, MetricFields
<1>2. CASE IsYamlCard(W, card)
  BY <1>2 DEF IsYamlCard, YamlCard, CardFromYaml, MetricFields
<1> QED  BY <1>1, <1>2, CardKinds

LEMMA FilteredFields ==
    ASSUME NEW W, NEW card \in AllCards(W), NEW cfg, NEW headers
    PROVE  LET filtered == FilteredCard(card, cfg, headers) IN
           filtered.id = card.id /\ filtered.status = card.status
BY CardFields DEF FilteredCard

LEMMA CardsById ==
    ASSUME NEW W, IdsApart(W), NEW a \in AllCards(W), NEW b \in AllCards(W), a.id = b.id
    PROVE  a = b
<1>1. CASE IsDockerCard(W, a) /\ IsDockerCard(W, b)
  BY <1>1, DockerCardFields DEF IsDockerCard, IdsApart
<1>2. CASE IsYamlCard(W, a) /\ IsYamlCard(W, b)
  BY <1>2, YamlCardFields DEF IsYamlCard, IdsApart, Standalone
<1>3. CASE IsDockerCard(W, a) /\ IsYamlCard(W, b)
  BY <1>3, DockerCardFields, YamlCardFields DEF IsDockerCard, IsYamlCard, IdsApart, Standalone
<1>4. CASE IsYamlCard(W, a) /\ IsDockerCard(W, b)
  BY <1>4, DockerCardFields, YamlCardFields DEF IsDockerCard, IsYamlCard, IdsApart, Standalone
<1> QED  BY <1>1, <1>2, <1>3, <1>4, CardKinds

\* The viewers whom no page tells to log in.
Recognised(cfg, headers) == ~cfg.enableAccessControl \/ Identities(cfg, headers) # {}

LEMMA CardsOfViewer ==
    ASSUME NEW W, NEW headers, Recognised(W.config, headers)
    PROVE  \A x : x \in CardsFor(W, headers) <=>
               \E card \in AllCards(W) : CanAccess(W.config, headers, card.access) /\ x = FilteredCard(card, W.config, headers)
<1>1. \A restricted : ~MissingAccessIdentity(W.config, headers, restricted)
  BY DEF Recognised, MissingAccessIdentity
<1> QED  BY <1>1 DEF CardsFor

VisibleOf(W, headers) == {c \in W.containers : VisibleContainer(W, headers, c)}

LEMMA StatusesAgree ==
    ASSUME NEW W, IdsApart(W), NEW headers, Recognised(W.config, headers)
    PROVE  StatusesFor(W, headers) = StatusSnapshot(W, headers)
<1>1. PICK visible : visible = VisibleOf(W, headers)
  OBVIOUS
<1>2. PICK shown : shown = {x \in CardsFor(W, headers) : x.status # <<>>}
  OBVIOUS
<1>3. ASSUME NEW x \in shown
      PROVE \E c \in visible : x.id = DockerId(c) /\ x.status = <<c.state, c.health>>
  <2>1. PICK card \in AllCards(W) : CanAccess(W.config, headers, card.access) /\ x = FilteredCard(card, W.config, headers)
    BY <1>2, CardsOfViewer
  <2>2. x.id = card.id /\ x.status = card.status /\ card.status # <<>>
    BY <1>2, <2>1, FilteredFields
  <2>3. IsDockerCard(W, card)
    BY <2>2, CardKinds, YamlCardFields DEF IsYamlCard
  <2>4. PICK c \in W.containers : ~Hidden(Resolved(W, c)) /\ Resolved(W, c).url # Absent /\ card = DockerCard(W, c)
    BY <2>3 DEF IsDockerCard
  <2>5. c \in visible
    BY <1>1, <2>1, <2>4, DockerCardFields DEF VisibleContainer, VisibleOf
  <2> QED  BY <2>2, <2>4, <2>5, DockerCardFields
<1>4. ASSUME NEW c \in visible
      PROVE \E x \in shown : x.id = DockerId(c)
  <2>1. ~Hidden(Resolved(W, c)) /\ Resolved(W, c).url # Absent /\ CanAccess(W.config, headers, Resolved(W, c).labels.access)
    BY <1>1 DEF VisibleContainer, VisibleOf
  <2>2. PICK card : card = DockerCard(W, c)
    OBVIOUS
  <2>3. card \in AllCards(W)
    BY <1>1, <2>1, <2>2, CardKinds DEF IsDockerCard, VisibleOf
  <2>4. CanAccess(W.config, headers, card.access) /\ card.id = DockerId(c) /\ card.status # <<>>
    BY <2>1, <2>2, DockerCardFields
  <2>5. PICK x : x = FilteredCard(card, W.config, headers)
    OBVIOUS
  <2>6. x \in CardsFor(W, headers) /\ x.id = DockerId(c) /\ x.status # <<>>
    BY <2>3, <2>4, <2>5, CardsOfViewer, FilteredFields
  <2> QED  BY <1>2, <2>6
<1>5. PICK ids : ids = {DockerId(c) : c \in visible}
  OBVIOUS
<1>6. {x.id : x \in shown} = ids
  <2>1. \A x \in shown : x.id \in ids
    BY <1>3, <1>5
  <2>2. \A id \in ids : \E x \in shown : x.id = id
    BY <1>4, <1>5
  <2> QED  BY <2>1, <2>2
<1>7. ASSUME NEW id \in ids
      PROVE LET c == CHOOSE d \in visible : DockerId(d) = id
            IN  <<c.state, c.health>> = (CHOOSE x \in shown : x.id = id).status
  <2>1. PICK c : c = CHOOSE d \in visible : DockerId(d) = id
    OBVIOUS
  <2>2. c \in visible /\ DockerId(c) = id
    BY <1>5, <2>1
  <2>3. PICK x : x = CHOOSE y \in shown : y.id = id
    OBVIOUS
  <2>4. x \in shown /\ x.id = id
    BY <1>4, <2>2, <2>3
  <2>5. PICK d \in visible : x.id = DockerId(d) /\ x.status = <<d.state, d.health>>
    BY <1>3, <2>4
  <2>6. d = c
    BY <1>1, <2>2, <2>4, <2>5 DEF IdsApart, VisibleOf
  <2> QED  BY <2>1, <2>3, <2>5, <2>6
<1>8. CASE ~W.config.showStatus
  BY <1>8 DEF StatusesFor, StatusSnapshot
<1>9. CASE W.config.showStatus
  <2>1. StatusesFor(W, headers) = [id \in ids |-> LET c == CHOOSE d \in visible : DockerId(d) = id IN <<c.state, c.health>>]
    <3>1. StatusesFor(W, headers)
            = [id \in {DockerId(c) : c \in VisibleOf(W, headers)} |->
                LET c == CHOOSE d \in VisibleOf(W, headers) : DockerId(d) = id IN <<c.state, c.health>>]
      BY <1>9 DEF StatusesFor, VisibleOf, Recognised, MissingAccessIdentity
    <3> QED  BY <1>1, <1>5, <3>1
  <2>2. StatusSnapshot(W, headers) = [id \in ids |-> (CHOOSE x \in shown : x.id = id).status]
    BY <1>2, <1>6, <1>9 DEF StatusSnapshot
  <2> QED  BY <1>7, <2>1, <2>2
<1> QED  BY <1>8, <1>9

\* Whoever is sent a card's metrics may see the card.
LEMMA AccessImpliesCard ==
    ASSUME NEW W, NEW headers, NEW card \in AllCards(W), MetricAccess(W, headers, card) # NoTarget
    PROVE  LET filtered == FilteredCard(card, W.config, headers) IN
           /\ CanAccess(W.config, headers, card.access)
           /\ MetricAccess(W, headers, card).errors = filtered.metrics.errors
           /\ filtered.resourceStats \cup filtered.metrics.metricLabels \cup filtered.metrics.errors # {}
BY DEF MetricAccess

PeriodOf(v, cfg) == IF v = Absent THEN cfg.metricsHistoryPeriodMs ELSE v.num

LEMMA UsageOfContainers ==
    ASSUME NEW W, NEW headers, NEW c \in W.containers, UsageOfContainer(W, headers, c) # NoTarget
    PROVE  /\ CanAccess(W.config, headers, DockerCard(W, c).access)
           /\ UsageOfContainer(W, headers, c).historyPeriodMs = PeriodOf(DockerCard(W, c).metrics.historyPeriodMs, W.config)
<1>1. PICK r : r = Resolved(W, c)
  OBVIOUS
<1>2. CanAccess(W.config, headers, r.labels.access) /\ UsageOfContainer(W, headers, c) = DockerMetricTarget(W.config, c, r)
  BY <1>1 DEF UsageOfContainer, VisibleContainer
<1>3. DockerMetricTarget(W.config, c, r) = Details(r, W.config, TRUE)
  BY <1>2 DEF DockerMetricTarget
<1>4. Details(r, W.config, TRUE).historyPeriodMs = PeriodOf(r.labels.retention, W.config)
  BY DEF Details, PeriodOf
<1>5. MetricFields(r, W.config).historyPeriodMs = r.labels.retention
  BY DEF MetricFields
<1> QED  BY <1>1, <1>2, <1>3, <1>4, <1>5, DockerCardFields

LEMMA UsageOfServices ==
    ASSUME NEW W, NEW headers, NEW n \in DOMAIN W.services, UsageOfService(W, headers, n) # NoTarget
    PROVE  /\ CanAccess(W.config, headers, YamlCard(W, n).access)
           /\ UsageOfService(W, headers, n).historyPeriodMs = PeriodOf(YamlCard(W, n).metrics.historyPeriodMs, W.config)
<1>1. PICK r : r = W.listed[n]
  OBVIOUS
<1>2. /\ CanAccess(W.config, headers, IF W.services[n]["access"] = Absent THEN {} ELSE W.services[n]["access"].some)
      /\ UsageOfService(W, headers, n) = YamlMetricTarget(W.config, W.services[n], r)
  BY <1>1 DEF UsageOfService
<1>3. YamlMetricTarget(W.config, W.services[n], r) = Details(r, W.config, FALSE)
  BY <1>2 DEF YamlMetricTarget
<1>4. Details(r, W.config, FALSE).historyPeriodMs = PeriodOf(r.labels.retention, W.config)
  BY DEF Details, PeriodOf
<1>5. MetricFields(r, W.config).historyPeriodMs = r.labels.retention
  BY DEF MetricFields
<1> QED  BY <1>1, <1>2, <1>3, <1>4, <1>5, YamlCardFields

\* So may whoever's page uses them, and the page draws the period that the card says.
LEMMA UsageImpliesCard ==
    ASSUME NEW W, IdsApart(W), NEW headers, NEW card \in AllCards(W), UsageFor(W, headers, card.id) # NoTarget
    PROVE  /\ CanAccess(W.config, headers, card.access)
           /\ UsageFor(W, headers, card.id).historyPeriodMs = PeriodOf(card.metrics.historyPeriodMs, W.config)
<1>1. PICK id : id = card.id
  OBVIOUS
<1>2. PICK holders : holders = {d \in W.containers : DockerId(d) = id}
  OBVIOUS
<1>3. PICK named : named = {m \in DOMAIN W.services : YamlId(m) = id}
  OBVIOUS
<1>4. UsageFor(W, headers, id)
        = IF ~W.config.showMetrics \/ ~HasAllowedAccess(Identities(W.config, headers), W.config.metricsAccess) THEN NoTarget
          ELSE IF holders # {} THEN UsageOfContainer(W, headers, CHOOSE d \in holders : TRUE)
          ELSE IF named # {} THEN UsageOfService(W, headers, CHOOSE m \in named : TRUE) ELSE NoTarget
  BY <1>2, <1>3 DEF UsageFor
<1>5. CASE IsDockerCard(W, card)
  <2>1. PICK c \in W.containers : card = DockerCard(W, c)
    BY <1>5 DEF IsDockerCard
  <2>2. id = DockerId(c) /\ c \in holders
    BY <1>1, <1>2, <2>1, DockerCardFields
  <2>3. named = {}
    BY <1>3, <2>2 DEF IdsApart
  <2>4. (CHOOSE d \in holders : TRUE) = c
    BY <1>2, <2>2 DEF IdsApart
  <2>5. UsageFor(W, headers, id) = UsageOfContainer(W, headers, c)
    BY <1>1, <1>4, <2>2, <2>3, <2>4
  <2> QED  BY <1>1, <2>1, <2>5, UsageOfContainers
<1>6. CASE IsYamlCard(W, card)
  <2>1. PICK n \in DOMAIN W.services : card = YamlCard(W, n)
    BY <1>6 DEF IsYamlCard, Standalone
  <2>2. id = YamlId(n) /\ n \in named
    BY <1>1, <1>3, <2>1, YamlCardFields
  <2>3. holders = {}
    BY <1>2, <2>2 DEF IdsApart
  <2>4. (CHOOSE m \in named : TRUE) = n
    BY <1>3, <2>2 DEF IdsApart
  <2>5. UsageFor(W, headers, id) = UsageOfService(W, headers, n)
    BY <1>1, <1>4, <2>2, <2>3, <2>4
  <2> QED  BY <1>1, <2>1, <2>5, UsageOfServices
<1> QED  BY <1>5, <1>6, CardKinds

LEMMA ViewOfCard ==
    ASSUME NEW W, IdsApart(W), NEW headers, Recognised(W.config, headers), NEW c \in AllCards(W)
    PROVE  ViewsOf(c, MetricAccess(W, headers, c), UsageFor(W, headers, c.id), CardsFor(W, headers),
                    W.config.metricsHistoryPeriodMs)
<1>1. PICK access : access = MetricAccess(W, headers, c)
  OBVIOUS
<1>2. PICK usage : usage = UsageFor(W, headers, c.id)
  OBVIOUS
<1>3. PICK shown : shown = CardsFor(W, headers)
  OBVIOUS
<1>4. PICK filtered : filtered = FilteredCard(c, W.config, headers)
  OBVIOUS
<1>5. CanAccess(W.config, headers, c.access) => filtered \in shown /\ filtered.id = c.id
  BY <1>3, <1>4, CardsOfViewer, FilteredFields
<1>6. access # NoTarget \/ usage # NoTarget => c.id \in {d.id : d \in shown}
  BY <1>1, <1>2, <1>5, AccessImpliesCard, UsageImpliesCard
<1>7. ASSUME access # NoTarget
      PROVE LET card == CHOOSE d \in shown : d.id = c.id IN
            access.errors \subseteq card.metrics.errors /\ card.resourceStats \cup card.metrics.metricLabels \cup access.errors # {}
  <2>1. PICK card : card = CHOOSE d \in shown : d.id = c.id
    OBVIOUS
  <2>2. CanAccess(W.config, headers, c.access)
    BY <1>1, <1>7, AccessImpliesCard
  <2>3. card \in shown /\ card.id = c.id
    BY <1>5, <2>1, <2>2
  <2>4. PICK d \in AllCards(W) : card = FilteredCard(d, W.config, headers)
    BY <1>3, <2>3, CardsOfViewer
  <2>5. d = c
    BY <2>3, <2>4, FilteredFields, CardsById
  <2>6. card = filtered
    BY <1>4, <2>4, <2>5
  <2> QED  BY <1>1, <1>4, <1>7, <2>1, <2>6, AccessImpliesCard
<1>8. usage # NoTarget => usage.historyPeriodMs = Else(c.metrics.historyPeriodMs, Num(W.config.metricsHistoryPeriodMs)).num
  BY <1>2, UsageImpliesCard, Tags DEF PeriodOf, Else
<1>9. ViewsOf(c, access, usage, shown, W.config.metricsHistoryPeriodMs)
  BY <1>6, <1>7, <1>8 DEF ViewsOf
<1> QED  BY <1>1, <1>2, <1>3, <1>9

LEMMA IdsOfWorld ==
    ASSUME NEW w \in Worlds, Accounted(w)
    PROVE  IdsApart(Inputs)
<1>1. PICK W : W = Inputs
  OBVIOUS
<1>2. W.containers = w.containers /\ W.services = config.services
  BY <1>1 DEF Inputs, WorldOf, Accounted
<1>3. DOMAIN config.services = Services(w.content)
  BY ServicesOfFile DEF Accounted
<1> QED  BY <1>1, <1>2, <1>3, IdsAssumption DEF IdsApart

(* States, metrics and cards that a viewer is sent agree, for every file,  *)
(* containers and viewer: whatever is sent is of a card that is shown      *)
(* (docker.ts:395, 429, 596, discovery-coordinator.ts:110).                *)
THEOREM ViewersAgree == Spec => []ViewsAgree
<1>1. WorldInv => ViewsAgree
  <2> SUFFICES ASSUME WorldInv, Ready, NEW headers \in Viewers, Recognised(Settings, headers)
      PROVE ViewsIn(Inputs, headers)
    BY DEF ViewsAgree, Recognised
  <2>1. PICK w \in Worlds : Accounted(w)
    BY ReadyAccounted
  <2>2. PICK W : W = Inputs
    OBVIOUS
  <2>3. IdsApart(W) /\ W.config = Settings
    BY <2>1, <2>2, IdsOfWorld DEF Inputs, WorldOf
  <2>4. StatusesFor(W, headers) = StatusSnapshot(W, headers)
    BY <2>3, StatusesAgree
  <2>5. \A c \in AllCards(W) : ViewsOf(c, MetricAccess(W, headers, c), UsageFor(W, headers, c.id), CardsFor(W, headers),
                    W.config.metricsHistoryPeriodMs)
    BY <2>3, ViewOfCard
  <2> QED  BY <2>2, <2>4, <2>5 DEF ViewsIn
<1> QED  BY <1>1, WorldKept, PTL

-----------------------------------------------------------------------------
(* No answer is dropped in silence.                                        *)

Number(v) == IsNum(v) \/ v = Infinite

LEMMA Kinds ==
    /\ \A n : IsNum(Num(n)) /\ ~IsText(Num(n)) /\ Num(n) # Failed /\ Num(n) # Infinite
    /\ \A t : IsText(Text(t)) /\ ~IsNum(Text(t)) /\ Text(t) # Failed /\ Text(t) # Infinite /\ Text(t).text = t
    /\ ~IsText(Infinite) /\ ~IsText(Failed) /\ ~Number(Failed) /\ ~IsNum(Infinite) /\ Absent # Failed
BY DEF Num, IsNum, Text, IsText, Infinite, Failed, Absent, Number

LEMMA FiniteNumber == \A n : Number(Finite(n))
BY Kinds DEF Finite, Number

LEMMA ReducedNumber ==
    \A values, reduction : Reduced(values, reduction) = Failed \/ Number(Reduced(values, reduction))
<1> SUFFICES ASSUME NEW values, NEW reduction
    PROVE  Reduced(values, reduction) = Failed \/ Number(Reduced(values, reduction))
  OBVIOUS
<1>1. PICK total : total = SumOf(values)
  OBVIOUS
<1>2. Number(total) /\ \A a, b : Number(Quotient(a, b)) /\ \A n : Number(Num(n))
  BY <1>1, FiniteNumber, Kinds DEF SumOf, Quotient, Number
<1>3. PICK least : least = Num(Sets!Min(Seqs!Range(values)))
  OBVIOUS
<1>4. PICK most : most = Num(Sets!Max(Seqs!Range(values)))
  OBVIOUS
<1> QED  BY <1>1, <1>2, <1>3, <1>4, Kinds DEF Reduced, Number

\* A metric has one extractor.
LEMMA OneExtractor ==
    ASSUME NEW m, Accepted(m)
    PROVE  \A x, y \in Extractors(m) : x = y
<1>1. Cardinality(Extractors(m)) = 1
  BY DEF Accepted, ExtractorAccepted
<1>2. Extractors(m) \subseteq {"jq", "prometheus", "text", "for_each"}
  BY DEF Extractors
<1>3. IsFiniteSet({"jq", "prometheus", "text", "for_each"})
  <2>1. IsFiniteSet({"jq"}) /\ IsFiniteSet({"prometheus"}) /\ IsFiniteSet({"text"}) /\ IsFiniteSet({"for_each"})
    BY FS_Singleton
  <2>2. IsFiniteSet({"jq"} \cup {"prometheus"}) /\ IsFiniteSet({"text"} \cup {"for_each"})
    BY <2>1, FS_Union
  <2>3. IsFiniteSet(({"jq"} \cup {"prometheus"}) \cup ({"text"} \cup {"for_each"}))
    BY <2>2, FS_Union
  <2>4. {"jq", "prometheus", "text", "for_each"} = ({"jq"} \cup {"prometheus"}) \cup ({"text"} \cup {"for_each"})
    OBVIOUS
  <2> QED  BY <2>3, <2>4
<1>4. IsFiniteSet(Extractors(m))
  BY <1>2, <1>3, FS_Subset
<1> QED  BY <1>1, <1>4, FS_Singleton

LEMMA TypeOfAccepted ==
    ASSUME NEW m, Accepted(m), Has(m, "value_type")
    PROVE  \E type \in {"number", "string", "state", "uptime"} :
              /\ Get(m, "value_type") = m.map["value_type"] /\ m.map["value_type"].text = type
              /\ IsText(m.map["value_type"])
              /\ type \in {"string", "state"} => ~Has(m, "for_each") /\ ~Has(m, "transform")
              /\ type = "uptime" => Jq(m) /\ ~Has(m, "transform")
<1>1. PICK v : v = Get(m, "value_type")
  OBVIOUS
<1>2. v = m.map["value_type"] /\ ValueType(m) = v
  BY <1>1 DEF Has, Keys, Get, ValueType
<1>3. OneOf(v, {"number", "string", "state", "uptime"}) /\ TypeAccepted(m)
  BY <1>2 DEF Accepted
<1>4. v.text \in {"string", "state"} => ~Has(m, "for_each") /\ ~Has(m, "transform")
  BY <1>2, <1>3 DEF TypeAccepted, NumericFields, Has
<1>5. v.text = "uptime" => Jq(m) /\ ~Has(m, "transform")
  BY <1>2, <1>3 DEF TypeAccepted, NumericFields, Has
<1> QED  BY <1>1, <1>2, <1>3, <1>4, <1>5 DEF OneOf

\* The extracted value is of the type of the metric.
Typed(m, value) ==
    LET type == m.map["value_type"].text IN
    \/ value = Failed
    \/ type = "number" /\ Number(value)
    \/ type \in {"string", "state"} /\ IsText(value)
    \/ type = "uptime" /\ "observations" \in DOMAIN value

LEMMA TextualTypes ==
    ASSUME NEW m, Accepted(m), Has(m, "value_type")
    PROVE  Textual(m) <=> m.map["value_type"].text \in {"string", "state"}
<1>1. PICK v : v = Get(m, "value_type")
  OBVIOUS
<1>2. v = m.map["value_type"] /\ OneOf(v, {"number", "string", "state", "uptime"})
  BY <1>1 DEF Has, Keys, Get, Accepted, ValueType
<1> QED  BY <1>1, <1>2 DEF Textual, OneOf

LEMMA LabelsAreTexts ==
    ASSUME NEW m, NEW lines, Textual(m),
           \A i \in DOMAIN lines : \A n \in Keys(lines[i].labels) : IsText(lines[i].labels.map[n])
    PROVE  PrometheusValue(m, lines) = Failed \/ IsText(PrometheusValue(m, lines))
<1> DEFINE extractor == Get(m, "prometheus")
           value(l) == Get(l.labels, extractor.map["value_label"].text)
           counted(l) == /\ l.name = extractor.map["name"].text
                         /\ \A n \in Keys(Get(extractor, "labels")) : Get(l.labels, n) = Get(extractor, "labels").map[n]
                         /\ value(l) \notin {Absent, Infinite}
           hits == {i \in DOMAIN lines : counted(lines[i])}
<1>1. PrometheusValue(m, lines) = IF Cardinality(hits) = 1 THEN value(lines[CHOOSE i \in hits : TRUE]) ELSE Failed
  BY DEF PrometheusValue
<1>3. \A i \in hits : IsText(value(lines[i]))
  BY DEF Get, Keys
<1>4. PICK i : i = CHOOSE j \in hits : TRUE
  OBVIOUS
<1>5. hits # {} => i \in hits
  BY <1>4
<1>6. PrometheusValue(m, lines) = IF Cardinality(hits) = 1 THEN value(lines[i]) ELSE Failed
  BY <1>1, <1>4
<1>7. Cardinality(hits) = 1 => hits # {}
  BY FS_EmptySet
<1> HIDE DEF value, hits
<1> QED  BY <1>3, <1>5, <1>6, <1>7

LEMMA ExtractedTyped ==
    ASSUME NEW m \in AskedMetrics, NEW reply \in Replies[m] \ {Failed}
    PROVE  Typed(m, ExtractedValue(m, reply))
<1>1. Accepted(m) /\ Has(m, "value_type")
  BY AskedAssumption
<1>2. PICK type \in {"number", "string", "state", "uptime"} :
          /\ Get(m, "value_type") = m.map["value_type"] /\ m.map["value_type"].text = type
          /\ IsText(m.map["value_type"])
          /\ type \in {"string", "state"} => ~Has(m, "for_each") /\ ~Has(m, "transform")
          /\ type = "uptime" => Jq(m) /\ ~Has(m, "transform")
  BY <1>1, TypeOfAccepted
<1>3. Textual(m) <=> type \in {"string", "state"}
  BY <1>1, <1>2, TextualTypes
<1>4. PICK value : value = ExtractedValue(m, reply)
  OBVIOUS
<1>5. ~OneOf(Get(m, "value_type"), {"uptime"})
        => value \in {ForEachValue(m, reply.items), TextValue(m, reply.text), JqValue(m, reply.jq), PrometheusValue(m, reply.lines)}
  BY <1>4 DEF ExtractedValue
<1>6. ~OneOf(Get(m, "value_type"), {"uptime"}) /\ ~Has(m, "for_each")
        => value \in {TextValue(m, reply.text), JqValue(m, reply.jq), PrometheusValue(m, reply.lines)}
  BY <1>4 DEF ExtractedValue
<1>7. CASE type = "number"
  <2>1. ~Textual(m) /\ ~OneOf(Get(m, "value_type"), {"uptime"})
    BY <1>2, <1>3, <1>7 DEF OneOf
  <2>2. ForEachValue(m, reply.items) = Failed \/ Number(ForEachValue(m, reply.items))
    BY ReducedNumber DEF ForEachValue
  <2>3. TextValue(m, reply.text) = Failed \/ Number(TextValue(m, reply.text))
    BY <2>1, Kinds DEF TextValue, Number
  <2>4. JqValue(m, reply.jq) = Failed \/ Number(JqValue(m, reply.jq))
    BY <2>1 DEF JqValue, Number
  <2>5. PrometheusValue(m, reply.lines) = Failed \/ Number(PrometheusValue(m, reply.lines))
    BY <2>1, ReducedNumber DEF PrometheusValue
  <2>6. value = Failed \/ Number(value)
    BY <1>5, <2>1, <2>2, <2>3, <2>4, <2>5
  <2> QED  BY <1>2, <1>4, <1>7, <2>6 DEF Typed
<1>8. CASE type \in {"string", "state"}
  <2>1. Textual(m) /\ ~OneOf(Get(m, "value_type"), {"uptime"}) /\ ~Has(m, "for_each")
    BY <1>2, <1>3, <1>8 DEF OneOf
  <2>2. TextValue(m, reply.text) = Failed \/ IsText(TextValue(m, reply.text))
    BY <2>1, Kinds DEF TextValue
  <2>3. JqValue(m, reply.jq) = Failed \/ IsText(JqValue(m, reply.jq))
    BY <2>1 DEF JqValue
  <2>4. PrometheusValue(m, reply.lines) = Failed \/ IsText(PrometheusValue(m, reply.lines))
    <3>1. \A i \in DOMAIN reply.lines : \A n \in Keys(reply.lines[i].labels) : IsText(reply.lines[i].labels.map[n])
      BY AskedAssumption
    <3> QED  BY <2>1, <3>1, LabelsAreTexts
  <2>5. value = Failed \/ IsText(value)
    BY <1>6, <2>1, <2>2, <2>3, <2>4
  <2> QED  BY <1>2, <1>4, <1>8, <2>5 DEF Typed
<1>9. CASE type = "uptime"
  <2>1. "jq" \in Extractors(m)
    BY <1>2, <1>9 DEF Extractors
  <2>2. ~Has(m, "for_each") /\ Get(m, "text") # Flag(TRUE)
    BY <1>1, <2>1, OneExtractor DEF Extractors
  <2>3. OneOf(Get(m, "value_type"), {"uptime"})
    BY <1>2, <1>9 DEF OneOf
  <2>4. value = ParsedObservations(reply.jq)
    BY <1>4, <2>2, <2>3 DEF ExtractedValue
  <2>5. value = Failed \/ "observations" \in DOMAIN value
    BY <2>4 DEF ParsedObservations
  <2> QED  BY <1>2, <1>4, <1>9, <2>5 DEF Typed
<1> QED  BY <1>2, <1>7, <1>8, <1>9

LEMMA TransformedTyped ==
    ASSUME NEW m \in AskedMetrics, NEW value, Typed(m, value)
    PROVE  Typed(m, Transformed(m, value))
<1>1. Accepted(m) /\ Has(m, "value_type")
  BY AskedAssumption
<1>2. m.map["value_type"].text # "number" => ~Has(m, "transform")
  BY <1>1, TypeOfAccepted
<1>3. CASE (IsNum(value) \/ value = Infinite) /\ Has(m, "transform")
  <2>1. Transformed(m, value) = Failed \/ Number(Transformed(m, value))
    BY <1>3, FiniteNumber DEF Transformed, Number
  <2> QED  BY <1>2, <1>3, <2>1 DEF Typed
<1>4. CASE ~((IsNum(value) \/ value = Infinite) /\ Has(m, "transform"))
  BY <1>4 DEF Transformed
<1> QED  BY <1>3, <1>4

LEMMA TypedShown ==
    ASSUME NEW m \in AskedMetrics, NEW value, Typed(m, value)
    PROVE  value = Failed \/ "observations" \in DOMAIN value \/ NormalizedValue(m, value) # Absent
<1>1. \A f : Map(f) # Absent
  BY Tags
<1>2. CASE m.map["value_type"].text = "number" /\ Number(value)
  BY <1>1, <1>2 DEF NormalizedValue, Number
<1>3. CASE m.map["value_type"].text \in {"string", "state"} /\ IsText(value)
  BY <1>1, <1>3 DEF NormalizedValue
<1> QED  BY <1>2, <1>3 DEF Typed

AskedInv == asked \in AskedMetrics \cup {Absent}

(* What is extracted from any answer is of the type that its metric has,   *)
(* so that the card shows it or an error (target-plan.ts:68, 117).         *)
THEOREM AnswersShown == Spec => []AnswersTold
<1>1. Init => AskedInv
  BY DEF Init, ValuesInit, AskedInv
<1>2. AskedInv /\ [Next]_vars => AskedInv'
  BY DEF AskedInv, Next, vars, besides, dashboardVars, valueVars, Publish, EditFile, RemoveFile, Load,
         ValuesNext, MetricCollected, StatsCollected, Waits
<1>3. AskedInv => AnswersTold
  <2> SUFFICES ASSUME AskedInv, asked # Absent, NEW reply \in Replies[asked] \ {Failed}
      PROVE LET value == Transformed(asked, ExtractedValue(asked, reply)) IN
            value = Failed \/ "observations" \in DOMAIN value \/ NormalizedValue(asked, value) # Absent
    BY DEF AnswersTold
  <2>1. PICK m \in AskedMetrics : m = asked
    BY DEF AskedInv
  <2>2. Typed(m, Transformed(m, ExtractedValue(m, reply)))
    BY <2>1, ExtractedTyped, TransformedTyped
  <2> QED  BY <2>1, <2>2, TypedShown
<1> QED  BY <1>1, <1>2, <1>3, PTL DEF Spec

-----------------------------------------------------------------------------
(* An own metric in error costs only those of its chart group.             *)

GroupName(v) == Get(Get(v, "display"), "chart")

LEMMA NoGroupInSections ==
    ASSUME NEW v, NEW partial, Sectioned(v, partial)
    PROVE  "chart_group" \notin DOMAIN Flat(v)
<1> DEFINE fields == UNION {{<<s, f>> : f \in Keys(Get(v, s)) \ {"chart"}} : s \in DOMAIN Sections}
<1>1. DOMAIN Flat(v) = {FlatName(f[2]) : f \in fields}
  BY DEF Flat
<1>2. ASSUME NEW f \in fields PROVE FlatName(f[2]) # "chart_group"
  <2>1. PICK s \in DOMAIN Sections : f[2] \in Keys(Get(v, s))
    OBVIOUS
  <2>2. Get(v, s) # Absent
    BY <2>1, Tags
  <2>3. f[2] \in Sections[s]
    BY <2>1, <2>2 DEF Sectioned, Opt, Known, Keys
  <2> QED  BY <2>3 DEF Sections, FlatName
<1> QED  BY <1>1, <1>2

\* The chart group of an own metric that can be read is the one written down.
LEMMA GroupOfOwn ==
    ASSUME NEW v, NEW charts, NEW partial, NEW shared, NEW m, m = Normalized(v, charts, partial, shared, Absent), m # Failed, Has(m, "chart_group")
    PROVE  IsText(GroupName(v)) /\ Get(m, "chart_group") = GroupName(v)
<1>1. PICK named : named = GroupName(v)
  OBVIOUS
<1>2. PICK name : name = IF IsText(named) THEN named ELSE Absent
  OBVIOUS
<1>3. PICK group : group = IF IsText(named) THEN Get(charts, named.text) ELSE Absent
  OBVIOUS
<1>4. PICK style : style = StyleOf(group)
  OBVIOUS
<1>5. PICK source : source = NormalSource(Get(v, "source"), shared)
  OBVIOUS
<1>6. m = Flattened(v, partial, Absent, name, group, style, source)
  BY <1>1, <1>2, <1>3, <1>4, <1>5 DEF Normalized, GroupName
<1> DEFINE parameters == Get(v, "parameters")
           unit == IF Has(group, "unit") THEN [unit |-> group.map["unit"]] ELSE <<>>
           from == IF source = Absent THEN <<>> ELSE [source |-> source]
           taking == IF parameters = Absent THEN <<>> ELSE [parameters |-> ResolvedParameters(parameters, Absent)]
           drawn == IF IsChart(style) THEN [chart |-> style, chart_group |-> name]
                    ELSE IF name # Absent THEN [chart |-> name] ELSE <<>>
           others == Spread(taking, Spread(from, Spread(unit, Flat(v))))
<1>7. m = Map(Spread(drawn, others)) /\ Sectioned(v, partial)
  BY <1>6 DEF Flattened
<1>8. "chart_group" \notin DOMAIN others
  <2>1. "chart_group" \notin DOMAIN unit /\ "chart_group" \notin DOMAIN from /\ "chart_group" \notin DOMAIN taking
    OBVIOUS
  <2>2. "chart_group" \notin DOMAIN Flat(v)
    BY <1>7, NoGroupInSections
  <2> HIDE DEF unit, from, taking
  <2> QED  BY <2>1, <2>2 DEF Spread
<1> HIDE DEF others
<1>9. "chart_group" \in DOMAIN Spread(drawn, others)
  BY <1>7, Tags DEF Has
<1>10. "chart_group" \in DOMAIN drawn
  BY <1>8, <1>9 DEF Spread
<1>11. IsChart(style) /\ drawn["chart_group"] = name
  BY <1>10
<1>12. Get(m, "chart_group") = name
  <2>1. Spread(drawn, others)["chart_group"] = drawn["chart_group"]
    <3> HIDE DEF drawn
    <3> QED  BY <1>8, <1>10 DEF Spread
  <2>2. PICK fields : fields = Spread(drawn, others)
    OBVIOUS
  <2>3. m = Map(fields) /\ "chart_group" \in DOMAIN fields /\ fields["chart_group"] = name
    BY <1>7, <1>9, <1>11, <2>1, <2>2
  <2> QED  BY <2>3, Tags DEF Get
<1>13. IsText(named)
  BY <1>2, <1>3, <1>4, <1>11, Tags DEF StyleOf, IsChart, OneOf, Get
<1> QED  BY <1>1, <1>2, <1>12, <1>13

SameGroup(metrics, k, o) ==
    /\ Has(metrics[k], "chart_group") /\ Has(metrics[o], "chart_group")
    /\ Get(metrics[k], "chart_group") = Get(metrics[o], "chart_group")

\* What is left of a function without one of its arguments.
Loses(less, f, e) == DOMAIN less = DOMAIN f \ {e} /\ \A j \in DOMAIN less : less[j] = f[j]

\* Without one metric those that are not of its group are as consistent as before.
LEMMA ConsistentWithout ==
    ASSUME NEW metrics, NEW e, NEW less, Loses(less, metrics, e),
           NEW k, k # e, k \in DOMAIN metrics /\ e \in DOMAIN metrics => ~SameGroup(metrics, k, e)
    PROVE  /\ k \in DOMAIN Consistent(metrics) <=> k \in DOMAIN Consistent(less)
           /\ k \in DOMAIN Consistent(metrics) => Consistent(metrics)[k] = Consistent(less)[k]
<1>1. k \in DOMAIN metrics => (k \in Inconsistent(metrics) <=> k \in Inconsistent(less))
  BY DEF Inconsistent, SameGroup, Loses
<1>2. /\ k \in DOMAIN metrics <=> k \in DOMAIN less
      /\ k \in DOMAIN metrics => metrics[k] = less[k]
  BY DEF Loses
<1> QED  BY <1>1, <1>2 DEF Consistent

\* Whoever is accepted keeps its chart group.
LEMMA GroupOfBuilt ==
    ASSUME NEW m, Readable(m)
    PROVE  /\ Has(Built(m), "chart_group") <=> Has(m, "chart_group")
           /\ Has(m, "chart_group") => Get(Built(m), "chart_group") = Get(m, "chart_group")
<1>1. IsMap(m)
  BY Tags DEF Readable, Accepted, NonEmptyText, Get
<1> DEFINE defaults == IF ValueType(m) = Text("number")
                       THEN [value_type |-> Text("number"), unit |-> Text("number"), chart |-> Text("step")] ELSE <<>>
<1>2. "chart_group" \notin DOMAIN defaults
  OBVIOUS
<1>3. Built(m) = Map(Spread(defaults, m.map))
  BY DEF Built
<1> HIDE DEF defaults
<1>4. PICK fields : fields = Spread(defaults, m.map)
  OBVIOUS
<1>5. /\ "chart_group" \in DOMAIN fields <=> "chart_group" \in DOMAIN m.map
      /\ "chart_group" \in DOMAIN m.map => fields["chart_group"] = m.map["chart_group"]
  BY <1>2, <1>4 DEF Spread
<1> QED  BY <1>1, <1>3, <1>4, <1>5, Tags DEF Has, Keys, Get

LEMMA AcceptedOf ==
    ASSUME NEW metrics
    PROVE  /\ \A k : k \in DOMAIN AcceptedOnly(metrics) <=> k \in DOMAIN metrics /\ Readable(metrics[k])
           /\ \A k \in DOMAIN AcceptedOnly(metrics) : AcceptedOnly(metrics)[k] = Built(metrics[k])
BY DEF AcceptedOnly

\* Without an own metric that is in error, those of other groups are what they were.
LEMMA OwnWithout ==
    ASSUME NEW values, NEW library, NEW charts, NEW partial, NEW shared, DOMAIN values \cap DOMAIN library = {},
           NEW e, NEW less, Loses(less, values, e),
           NEW k, k # e,
           k \in DOMAIN values /\ e \in DOMAIN values =>
               ~(IsText(GroupName(values[e])) /\ GroupName(values[k]) = GroupName(values[e]))
    PROVE  LET own == ParsedMetrics(values, library, charts, partial, shared)
               rest == ParsedMetrics(less, library, charts, partial, shared)
           IN  /\ k \in DOMAIN own <=> k \in DOMAIN rest
               /\ k \in DOMAIN own => own[k] = rest[k]
<1> DEFINE flat(v) == Normalized(v, charts, partial, shared, Absent)
<1>1. PICK flats : flats = [j \in DOMAIN values |-> flat(values[j])]
  OBVIOUS
<1>2. PICK flatLess : flatLess = [j \in DOMAIN less |-> flat(less[j])]
  OBVIOUS
<1>3. PICK metrics : metrics = AcceptedOnly(flats)
  OBVIOUS
<1>4. PICK fewer : fewer = AcceptedOnly(flatLess)
  OBVIOUS
<1>5. \A v : MergedMetric(Absent, v) = v
  BY DEF MergedMetric
<1>6. ParsedMetrics(values, library, charts, partial, shared) = Consistent(metrics)
  BY <1>1, <1>3, <1>5 DEF ParsedMetrics
<1>7. ParsedMetrics(less, library, charts, partial, shared) = Consistent(fewer)
  BY <1>2, <1>4, <1>5 DEF ParsedMetrics, Loses
<1> HIDE DEF flat
<1>8. /\ DOMAIN flats = DOMAIN values /\ DOMAIN flatLess = DOMAIN values \ {e}
      /\ \A j \in DOMAIN flatLess : flatLess[j] = flats[j]
  BY <1>1, <1>2 DEF Loses
<1>9. Loses(fewer, metrics, e)
  BY <1>3, <1>4, <1>8 DEF AcceptedOnly, Loses
<1>10. ASSUME k \in DOMAIN metrics, e \in DOMAIN metrics, SameGroup(metrics, k, e) PROVE FALSE
  <2>1. ASSUME NEW j \in DOMAIN metrics, Has(metrics[j], "chart_group")
        PROVE  IsText(GroupName(values[j])) /\ Get(metrics[j], "chart_group") = GroupName(values[j])
    <3>1. j \in DOMAIN values /\ Readable(flats[j]) /\ metrics[j] = Built(flats[j])
      BY <1>3, <1>8, AcceptedOf
    <3>2. PICK m : m = flats[j]
      OBVIOUS
    <3>3. Has(m, "chart_group") /\ Get(metrics[j], "chart_group") = Get(m, "chart_group")
      BY <2>1, <3>1, <3>2, GroupOfBuilt
    <3>4. PICK v : v = values[j]
      OBVIOUS
    <3>5. m = Normalized(v, charts, partial, shared, Absent) /\ m # Failed
      BY <1>1, <3>1, <3>2, <3>4 DEF flat, Readable
    <3>6. IsText(GroupName(v)) /\ Get(m, "chart_group") = GroupName(v)
      BY <3>3, <3>5, GroupOfOwn
    <3> QED  BY <3>3, <3>4, <3>6
  <2>2. k \in DOMAIN values /\ e \in DOMAIN values
    BY <1>3, <1>8, <1>10, AcceptedOf
  <2> QED  BY <1>10, <2>1, <2>2 DEF SameGroup
<1>11. /\ k \in DOMAIN Consistent(metrics) <=> k \in DOMAIN Consistent(fewer)
       /\ k \in DOMAIN Consistent(metrics) => Consistent(metrics)[k] = Consistent(fewer)[k]
  BY <1>9, <1>10, ConsistentWithout
<1> QED  BY <1>6, <1>7, <1>11

LEMMA MetricsWithout ==
    ASSUME NEW v, NEW shared, IsMap(v), NEW E, E = Get(v, "entries"), IsMap(E),
           \A j \in Keys(E) : EntryAccepted(j, E.map[j], Library),
           NEW parsed, parsed = ParsedServiceMetrics(v, Library, shared), NEW e \in parsed.errors,
           NEW rest, rest = Merged(v, Map([entries |-> Without(E, {e})])),
           NEW parsedRest, parsedRest = ParsedServiceMetrics(rest, Library, shared),
           NEW k \in (DOMAIN parsed.metrics) \cup DOMAIN parsedRest.metrics
    PROVE  \/ /\ k \in (DOMAIN parsed.metrics) \cap DOMAIN parsedRest.metrics
              /\ parsed.metrics[k] = parsedRest.metrics[k]
           \/ GroupName(E.map[e]) # Absent /\ GroupName(E.map[k]) = GroupName(E.map[e])
<1>1. PICK charts : charts = ParsedCharts(Get(v, "charts"))
  OBVIOUS
<1>2. PICK less : less = Without(E, {e})
  OBVIOUS
<1>3. /\ IsMap(less) /\ Keys(less) = Keys(E) \ {e}
      /\ \A j \in Keys(less) : less.map[j] = E.map[j]
  BY <1>2, Tags DEF Without, Keys
<1>4. IsMap(rest) /\ Get(rest, "entries") = less /\ Get(rest, "charts") = Get(v, "charts")
  <2>1. PICK fields : fields = Spread(v.map, [entries |-> less])
    OBVIOUS
  <2>2. rest = Map(fields)
    BY <1>2, <2>1, Tags DEF Merged
  <2>3. /\ "entries" \in DOMAIN fields /\ fields["entries"] = less
        /\ "charts" \in DOMAIN fields <=> "charts" \in DOMAIN v.map
        /\ "charts" \in DOMAIN v.map => fields["charts"] = v.map["charts"]
    BY <2>1 DEF Spread
  <2> QED  BY <2>2, <2>3, Tags DEF Get
<1>5. v # Text("none") /\ rest # Text("none")
  BY <1>4, Tags
<1>6. PICK own : own = ParsedOwn(E, Library, charts, shared)
  OBVIOUS
<1>7. PICK overrides : overrides = ParsedOverrides(E, Library, charts)
  OBVIOUS
<1>8. PICK ownRest : ownRest = ParsedOwn(less, Library, charts, shared)
  OBVIOUS
<1>9. PICK overridesRest : overridesRest = ParsedOverrides(less, Library, charts)
  OBVIOUS
<1>10. parsed = KeptMetrics(v, E, Library, own, overrides)
  BY <1>1, <1>5, <1>6, <1>7 DEF ParsedServiceMetrics
<1>11. parsedRest = KeptMetrics(rest, less, Library, ownRest, overridesRest)
  BY <1>1, <1>3, <1>4, <1>5, <1>8, <1>9 DEF ParsedServiceMetrics
<1>12. parsed.metrics = Spread(overrides, own) /\ parsed.errors = OwnEntries(E, Library) \ DOMAIN own
  BY <1>10 DEF KeptMetrics
<1>13. parsedRest.metrics = Spread(overridesRest, ownRest)
  BY <1>11 DEF KeptMetrics
<1>14. e \in OwnEntries(E, Library) /\ e \notin DOMAIN own
  BY <1>12
<1>15. overridesRest = overrides
  <2>1. Overridden(less, Library) = Overridden(E, Library)
    BY <1>3, <1>14 DEF Overridden, OwnEntries
  <2>2. [n \in Overridden(less, Library) |-> Get(less.map[n], "overrides")]
          = [n \in Overridden(E, Library) |-> Get(E.map[n], "overrides")]
    BY <1>3, <2>1 DEF Overridden
  <2> QED  BY <1>7, <1>9, <2>2 DEF ParsedOverrides
<1>16. PICK values : values = [n \in OwnEntries(E, Library) |-> Without(E.map[n], {"visible_to"})]
  OBVIOUS
<1>17. PICK valuesRest : valuesRest = [j \in DOMAIN values \ {e} |-> values[j]]
  OBVIOUS
<1> DEFINE ParsedOf(of, partial) == ParsedMetrics(of, Library, charts, partial, shared)
<1>18. PICK partial : partial = FALSE /\ own = ParsedOf(values, partial)
  BY <1>6, <1>16 DEF ParsedOwn
<1>19. ownRest = ParsedOf(valuesRest, partial)
  <2>1. valuesRest = [n \in OwnEntries(less, Library) |-> Without(less.map[n], {"visible_to"})]
    BY <1>3, <1>16, <1>17 DEF OwnEntries
  <2> QED  BY <1>8, <1>18, <2>1 DEF ParsedOwn
<1>20. ASSUME NEW j \in DOMAIN values PROVE GroupName(values[j]) = GroupName(E.map[j])
  <2>1. PICK entry : entry = E.map[j]
    OBVIOUS
  <2>2. IsMap(entry)
    BY <1>16, <2>1 DEF OwnEntries, EntryAccepted
  <2>3. PICK fields : fields = [n \in DOMAIN entry.map \ {"visible_to"} |-> entry.map[n]]
    OBVIOUS
  <2>4. values[j] = Map(fields)
    BY <1>16, <2>1, <2>3 DEF Without
  <2>5. PICK value : value = Map(fields)
    OBVIOUS
  <2>6. Get(value, "display") = Get(entry, "display")
    <3>1. IsMap(value) /\ value.map = fields
      BY <2>5, Tags
    <3>2. /\ "display" \in DOMAIN fields <=> "display" \in DOMAIN entry.map
          /\ "display" \in DOMAIN entry.map => fields["display"] = entry.map["display"]
      BY <2>3
    <3> QED  BY <2>2, <3>1, <3>2 DEF Get
  <2> QED  BY <2>1, <2>4, <2>5, <2>6 DEF GroupName
<1>21. k # e
  <2>1. e \notin DOMAIN overrides
    BY <1>7, <1>14 DEF ParsedOverrides, ParsedMetrics, Consistent, AcceptedOnly, Overridden, OwnEntries
  <2>2. e \notin DOMAIN ownRest
    BY <1>17, <1>19 DEF ParsedMetrics, Consistent, AcceptedOnly
  <2> QED  BY <1>12, <1>13, <1>14, <1>15, <2>1, <2>2 DEF Spread
<1>22. CASE IsText(GroupName(E.map[e])) /\ GroupName(E.map[k]) = GroupName(E.map[e])
  BY <1>22, Tags
<1>23. CASE ~(IsText(GroupName(E.map[e])) /\ GroupName(E.map[k]) = GroupName(E.map[e]))
  <2>1. DOMAIN values \cap DOMAIN Library = {}
    BY <1>16 DEF OwnEntries
  <2>2. k \in DOMAIN values /\ e \in DOMAIN values =>
            ~(IsText(GroupName(values[e])) /\ GroupName(values[k]) = GroupName(values[e]))
    BY <1>20, <1>23
  <2>3. /\ k \in DOMAIN own <=> k \in DOMAIN ownRest
        /\ k \in DOMAIN own => own[k] = ownRest[k]
    BY <1>17, <1>18, <1>19, <1>21, <2>1, <2>2, OwnWithout DEF Loses
  <2> QED  BY <1>12, <1>13, <1>15, <2>3 DEF Spread
<1> QED  BY <1>22, <1>23

\* What one metric k of a service is, with the entry e in error and without it.
Isolated(E, parsed, parsedRest, e, k) ==
    \/ /\ k \in (DOMAIN parsed.metrics) \cap DOMAIN parsedRest.metrics
       /\ parsed.metrics[k] = parsedRest.metrics[k]
    \/ GroupName(E.map[e]) # Absent /\ GroupName(E.map[k]) = GroupName(E.map[e])

LEMMA FileAccounted ==
    ASSUME WorldInv, edits = 0, NEW n \in Configured
    PROVE  \E w \in Worlds : Accounted(w)
<1>1. file \notin {Absent, Failed} /\ ~config.error /\ cache.stamp = file.stamp
  BY DEF Configured
<1>2. follows = "dashboard"
  BY <1>1 DEF WorldInv
<1>3. PICK w \in Worlds : StartsFrom(w)
  BY <1>2 DEF WorldInv
<1>4. file.stamp = FirstStamp
  BY <1>1, <1>3 DEF StartsFrom
<1>5. cache # NoCache
  <2>1. NoCache.stamp = <<0, 0>>
    BY DEF NoCache
  <2>2. FirstStamp[1] # <<0, 0>>[1]
    BY DEF FirstStamp
  <2> QED  BY <1>1, <1>4, <2>1, <2>2
<1> QED  BY <1>1, <1>2, <1>5, ReadyAccounted DEF Ready

(* An own metric that is in error costs nothing but itself and those of    *)
(* its chart group, for every file (config-file-validation.ts:1093).       *)
THEOREM ErrorsIsolated == Spec => []BadEntryIsolated
<1>1. WorldInv => BadEntryIsolated
  <2> SUFFICES ASSUME WorldInv, edits = 0, NEW n \in Configured
      PROVE LET metrics == Get(Get(file.content, n), "metrics")
                parsed == config.services[n]["metrics"].some
                rest(e) == Merged(metrics, Map([entries |-> Without(EntriesOf(n), {e})]))
                without(e) == ParsedServiceMetrics(rest(e), Library, ParsedSharedSources(Get(file.content, "shared_metric_sources")))
            IN  \A e \in parsed.errors : \A k \in (DOMAIN parsed.metrics) \cup DOMAIN without(e).metrics :
                    Isolated(EntriesOf(n), parsed, without(e), e, k)
    BY DEF BadEntryIsolated, Isolated, GroupName
  <2> SUFFICES ASSUME NEW v, v = Get(Get(file.content, n), "metrics"),
                      NEW parsed, parsed = config.services[n]["metrics"].some,
                      NEW shared, shared = ParsedSharedSources(Get(file.content, "shared_metric_sources")),
                      NEW e \in parsed.errors,
                      NEW rest, rest = Merged(v, Map([entries |-> Without(EntriesOf(n), {e})])),
                      NEW parsedRest, parsedRest = ParsedServiceMetrics(rest, Library, shared),
                      NEW k \in (DOMAIN parsed.metrics) \cup DOMAIN parsedRest.metrics
      PROVE Isolated(EntriesOf(n), parsed, parsedRest, e, k)
    OBVIOUS
  <2>1. PICK w \in Worlds : Accounted(w)
    BY FileAccounted
  <2>2. PICK service : service = w.content.map[n]
    OBVIOUS
  <2>3. /\ n \in Services(w.content) /\ ServiceAccepted(service, Library)
        /\ config.services[n] = ParsedService(service, Library, shared)
    BY <2>1, <2>2, ServicesOfFile DEF Accounted, Configured
  <2>4. Get(file.content, n) = service
    BY <2>1, <2>2, <2>3 DEF Accounted, Services, Keys, Get
  <2>5. IsMap(v) /\ v = Get(service, "metrics")
    BY <2>4 DEF Configured
  <2>6. parsed = ParsedServiceMetrics(v, Library, shared)
    <3>1. Has(service, "metrics")
      BY <2>5, Tags DEF Has, Keys, Get
    <3> QED  BY <2>3, <2>5, <3>1, FieldsOfService, Tags
  <2>7. PICK E : E = Get(v, "entries")
    OBVIOUS
  <2>8. e \in Keys(E)
    <3>1. v # Text("none")
      BY <2>5, Tags
    <3>2. PICK own : own = IF IsMap(E) THEN ParsedOwn(E, Library, ParsedCharts(Get(v, "charts")), shared) ELSE <<>>
      OBVIOUS
    <3>3. PICK overrides : overrides = IF IsMap(E) THEN ParsedOverrides(E, Library, ParsedCharts(Get(v, "charts"))) ELSE <<>>
      OBVIOUS
    <3>4. parsed = KeptMetrics(v, E, Library, own, overrides)
      BY <2>6, <2>7, <3>1, <3>2, <3>3 DEF ParsedServiceMetrics
    <3>5. parsed.errors = OwnEntries(E, Library) \ DOMAIN own
      BY <3>4 DEF KeptMetrics
    <3> QED  BY <3>5 DEF OwnEntries
  <2>9. IsMap(E) /\ E # Absent /\ EntriesOf(n) = E
    BY <2>4, <2>5, <2>7, <2>8, Tags DEF Keys, EntriesOf
  <2>10. \A j \in Keys(E) : EntryAccepted(j, E.map[j], Library)
    <3>1. MetricsAccepted(v, Library)
      BY <2>3, <2>5, Tags DEF ServiceAccepted, Opt
    <3>2. EntriesAccepted(E, Library, ParsedCharts(Get(v, "charts")))
      BY <2>5, <2>7, <2>9, <3>1, Tags DEF MetricsAccepted, Opt
    <3> QED  BY <3>2 DEF EntriesAccepted
  <2> QED  BY <2>5, <2>6, <2>7, <2>9, <2>10, MetricsWithout DEF Isolated
<1> QED  BY <1>1, WorldKept, PTL

-----------------------------------------------------------------------------
(* Overrides.                                                              *)

\* All but some fields of a metric are those of another.
Alike(x, m, but) == \A k : k \notin but => Get(x, k) = Get(m, k) /\ (Has(x, k) <=> Has(m, k))

\* What an override lays over a metric of the library, before fields are dropped.
LEMMA FieldsOfMerged ==
    ASSUME NEW m, IsMap(m), NEW b
    PROVE  /\ IsMap(Merged(m, Map(b)))
           /\ \A k : /\ Has(Merged(m, Map(b)), k) <=> Has(m, k) \/ k \in DOMAIN b
                     /\ k \in DOMAIN b => Get(Merged(m, Map(b)), k) = b[k]
                     /\ k \notin DOMAIN b => Get(Merged(m, Map(b)), k) = Get(m, k)
<1>1. PICK fields : fields = Spread(m.map, b)
  OBVIOUS
<1>2. /\ DOMAIN fields = DOMAIN m.map \cup DOMAIN b
      /\ \A k \in DOMAIN fields : fields[k] = IF k \in DOMAIN b THEN b[k] ELSE m.map[k]
  BY <1>1 DEF Spread
<1>3. Merged(m, Map(b)) = Map(fields)
  BY <1>1, Tags DEF Merged
<1> QED  BY <1>2, <1>3, Tags DEF Has, Keys, Get

LEMMA FieldsOfWithout ==
    ASSUME NEW m, IsMap(m), NEW fields
    PROVE  /\ IsMap(Without(m, fields))
           /\ \A k : /\ Has(Without(m, fields), k) <=> Has(m, k) /\ k \notin fields
                     /\ Get(Without(m, fields), k) = IF k \in fields THEN Absent ELSE Get(m, k)
<1>1. PICK rest : rest = [k \in DOMAIN m.map \ fields |-> m.map[k]]
  OBVIOUS
<1>2. Without(m, fields) = Map(rest)
  BY <1>1 DEF Without
<1> QED  BY <1>1, <1>2, Tags DEF Has, Keys, Get

LEMMA SourceAlike ==
    ASSUME NEW m, NEW x, Alike(x, m, {"label", "value_type", "color", "state_colors"} \cup NumericFields)
    PROVE  /\ Extractors(x) = Extractors(m) /\ Jq(x) = Jq(m) /\ IsSocketIo(x) = IsSocketIo(m)
           /\ ExtractorAccepted(m) => ExtractorAccepted(x)
           /\ BulkAccepted(m) => BulkAccepted(x)
           /\ SourceAccepted(m) => SourceAccepted(x)
<1>1. \A k \in {"jq", "prometheus", "text", "for_each", "pagination", "source"} :
          Get(x, k) = Get(m, k) /\ (Has(x, k) <=> Has(m, k))
  BY DEF Alike, NumericFields
<1>2. Jq(x) = Jq(m) /\ IsSocketIo(x) = IsSocketIo(m)
  BY <1>1 DEF Jq, IsSocketIo
<1>3. Extractors(x) = Extractors(m)
  BY <1>1, <1>2 DEF Extractors
<1>4. ExtractorAccepted(m) => ExtractorAccepted(x)
  BY <1>1, <1>2, <1>3 DEF ExtractorAccepted, Opt
<1>5. BulkAccepted(m) => BulkAccepted(x)
  BY <1>1 DEF BulkAccepted
<1>6. SourceAccepted(m) => SourceAccepted(x)
  BY <1>1, <1>2 DEF SourceAccepted
<1> QED  BY <1>2, <1>3, <1>4, <1>5, <1>6

\* Another label.
LEMMA RelabelledAccepted ==
    ASSUME NEW m, NEW x, IsMap(x), IsMap(m), Accepted(m), Alike(x, m, {"label"}), NonEmptyText(Get(x, "label"))
    PROVE  Accepted(x)
<1>1. Alike(x, m, {"label", "value_type", "color", "state_colors"} \cup NumericFields)
  BY DEF Alike
<1>2. /\ Extractors(x) = Extractors(m) /\ Jq(x) = Jq(m) /\ IsSocketIo(x) = IsSocketIo(m)
      /\ ExtractorAccepted(x) /\ BulkAccepted(x) /\ SourceAccepted(x)
  BY <1>1, SourceAlike DEF Accepted
<1>3. \A k : k # "label" => Get(x, k) = Get(m, k) /\ (Has(x, k) <=> Has(m, k))
  BY DEF Alike
<1>4. FormattingAccepted(x)
  BY <1>3 DEF Accepted, FormattingAccepted, Opt
<1>5. ValueType(x) = ValueType(m)
  BY <1>3 DEF ValueType
<1>6. OneOf(ValueType(x), {"number", "string", "state", "uptime"}) /\ OptTrue(x, "rate")
  BY <1>3, <1>5 DEF Accepted, OptTrue
<1>7. \A k : k # "label" /\ Has(m, k) => x.map[k] = m.map[k]
  BY <1>3 DEF Has, Keys, Get
<1>8. PagesAccepted(x)
  BY <1>2, <1>3, <1>5, <1>7 DEF Accepted, PagesAccepted
<1>9. /\ Keys(x) \cap StateFields = {} <=> Keys(m) \cap StateFields = {}
      /\ Keys(x) \cap NumericFields = {} <=> Keys(m) \cap NumericFields = {}
      /\ Keys(x) \cap (NumericFields \cup StateFields \cup {"rate"}) = {} <=>
             Keys(m) \cap (NumericFields \cup StateFields \cup {"rate"}) = {}
  BY <1>3 DEF Has, NumericFields, StateFields
<1>10. TypeAccepted(x)
  BY <1>2, <1>3, <1>5, <1>6, <1>7, <1>9 DEF Accepted, TypeAccepted, Opt, OneOf
<1> QED  BY <1>2, <1>4, <1>6, <1>8, <1>10 DEF Accepted

\* Another kind, with the fields it does not know dropped.
LEMMA RetypedAccepted ==
    ASSUME NEW m, IsMap(m), Accepted(m), Extractors(m) \subseteq {"jq", "text"}, ~Has(Get(m, "pagination"), "recover"),
           ~Has(m, "rate"), ~Has(m, "state_labels"),
           NEW x, IsMap(x), Alike(x, m, {"value_type", "color", "state_colors"} \cup NumericFields),
           NEW type \in {"string", "number", "state"}, Has(x, "value_type"), Get(x, "value_type") = Text(type),
           \A k \in {"state_colors"} \cup NumericFields : Has(x, k) => Has(m, k) /\ Get(x, k) = Get(m, k),
           \A k \in NumericFields : Has(x, k) => type = "number",
           \A k \in {"color", "state_colors"} : Has(x, k) => type = "state",
           type = "state" => Has(x, "color") /\ Get(x, "color") = Text("info"),
           type = "number" => \A k \in NumericFields : Has(m, k) => ValueType(m).text = "number"
    PROVE  Accepted(x)
<1>1. Alike(x, m, {"label", "value_type", "color", "state_colors"} \cup NumericFields)
  BY DEF Alike
<1>2. /\ Extractors(x) = Extractors(m) /\ Jq(x) = Jq(m) /\ IsSocketIo(x) = IsSocketIo(m)
      /\ ExtractorAccepted(x) /\ BulkAccepted(x) /\ SourceAccepted(x)
  BY <1>1, SourceAlike DEF Accepted
<1>3. /\ \A k \in {"label", "rate", "state_labels", "parameters", "pagination", "source", "prometheus", "for_each"} :
             Get(x, k) = Get(m, k) /\ (Has(x, k) <=> Has(m, k))
      /\ \A k : ~Has(x, k) => Get(x, k) = Absent
  BY DEF Alike, NumericFields, Has, Keys, Get
<1>4. ValueType(x) = Text(type) /\ ValueType(x).text = type /\ OneOf(ValueType(x), {"number", "string", "state", "uptime"})
  BY Kinds DEF ValueType, OneOf
<1>5. NonEmptyText(Get(x, "label")) /\ OptTrue(x, "rate")
  BY <1>3 DEF Accepted, OptTrue
<1>6. ~Has(m, "prometheus") /\ ~Has(m, "for_each")
  BY DEF Extractors
<1>7. FormattingAccepted(x)
  <2>1. Opt(x, "color", IsColor)
    <3>1. OneOf(Text("info"), Colors)
      BY Kinds DEF OneOf, Colors
    <3> QED  BY <1>3, <3>1 DEF Opt, IsColor
  <2>2. Opt(x, "chart", IsChart) /\ Opt(x, "transform", Transform) /\ Opt(x, "state_colors", StateColors)
    <3>1. \A k \in {"chart", "transform", "state_colors"} : Get(x, k) = Absent \/ Get(x, k) = Get(m, k)
      BY <1>3 DEF NumericFields
    <3> QED  BY <3>1 DEF Accepted, FormattingAccepted, Opt
  <2>3. Opt(x, "state_labels", StateLabels) /\ Opt(x, "parameters", LAMBDA p : Parameters(p, Absent))
    BY <1>3 DEF Accepted, FormattingAccepted, Opt
  <2>4. Opt(x, "chart_group", LAMBDA g : OneOf(g, Names))
    <3>1. Get(x, "chart_group") = Absent \/ Get(x, "chart_group") = Get(m, "chart_group")
      BY <1>3 DEF NumericFields
    <3> QED  BY <3>1 DEF Accepted, FormattingAccepted, Opt
  <2> QED  BY <2>1, <2>2, <2>3, <2>4 DEF FormattingAccepted
<1>8. PagesAccepted(x)
  <2>1. Has(x, "pagination") => x.map["pagination"] = Get(m, "pagination")
    BY <1>3 DEF Has, Keys, Get
  <2> QED  BY <1>2, <1>3, <2>1 DEF Accepted, PagesAccepted
<1>9. CASE type = "number"
  <2>1. Keys(x) \cap StateFields = {}
    BY <1>3, <1>9 DEF StateFields, Has
  <2>2. ~Has(Get(x, "prometheus"), "value_label")
    <3>1. Get(x, "prometheus") = Absent
      BY <1>3, <1>6
    <3> QED  BY <3>1, Tags DEF Has, Keys
  <2>3. CASE \E k \in NumericFields : Has(x, k)
    <3>1. ValueType(m).text = "number"
      BY <1>9, <2>3
    <3>2. Opt(m, "unit", IsUnit) /\ ~(Has(m, "chart_group") /\ Get(m, "chart") = Text("none"))
      BY <3>1 DEF Accepted, TypeAccepted
    <3>3. Opt(x, "unit", IsUnit)
      BY <1>3, <3>2 DEF Opt, NumericFields
    <3>4. ~(Has(x, "chart_group") /\ Get(x, "chart") = Text("none"))
      BY <1>3, <3>2, Tags DEF NumericFields
    <3>5. TypeAccepted(x)
      BY <1>3, <1>4, <1>6, <1>9, <2>1, <2>2, <3>3, <3>4 DEF TypeAccepted
    <3> QED  BY <1>2, <1>4, <1>5, <1>7, <1>8, <3>5 DEF Accepted
  <2>4. CASE ~\E k \in NumericFields : Has(x, k)
    <3>1. Opt(x, "unit", IsUnit) /\ ~Has(x, "chart_group")
      BY <1>3, <2>4 DEF Opt, NumericFields
    <3>2. TypeAccepted(x)
      BY <1>3, <1>4, <1>6, <1>9, <2>1, <2>2, <3>1 DEF TypeAccepted
    <3> QED  BY <1>2, <1>4, <1>5, <1>7, <1>8, <3>2 DEF Accepted
  <2> QED  BY <2>3, <2>4
<1>10. CASE type \in {"string", "state"}
  <2>1. Keys(x) \cap NumericFields = {}
    BY <1>10 DEF Has
  <2>2. ~Has(x, "rate") /\ ~Has(x, "for_each") /\ ~Has(x, "prometheus")
    BY <1>3, <1>6
  <2>3. type = "string" => Keys(x) \cap StateFields = {}
    BY <1>3 DEF StateFields, Has
  <2>4. TypeAccepted(x)
    BY <1>4, <1>10, <2>1, <2>2, <2>3 DEF TypeAccepted
  <2> QED  BY <1>2, <1>4, <1>5, <1>7, <1>8, <2>4 DEF Accepted
<1> QED  BY <1>9, <1>10

LEMMA NumericOfNumbers ==
    ASSUME NEW m, Accepted(m), NEW k \in NumericFields, Has(m, k)
    PROVE  ValueType(m).text = "number"
<1>1. PICK v : v = ValueType(m)
  OBVIOUS
<1>2. OneOf(v, {"number", "string", "state", "uptime"}) /\ TypeAccepted(m)
  BY <1>1 DEF Accepted
<1>3. v.text = "number"
  BY <1>1, <1>2 DEF TypeAccepted, OneOf, Has
<1> QED  BY <1>1, <1>2, <1>3

\* The override of a kind, laid over a metric that has another or the same.
LEMMA OverrideOfKind ==
    ASSUME NEW m, IsMap(m), Accepted(m), NEW b, NEW type \in {"string", "number", "state"},
           b = IF type = "state" THEN [value_type |-> Text("state"), color |-> Text("info")]
               ELSE [value_type |-> Text(type)],
           Extractors(m) \subseteq {"jq", "text"}, ~Has(Get(m, "pagination"), "recover"),
           ~Has(m, "rate"), ~Has(m, "state_labels")
    PROVE  Accepted(MergedMetric(m, Map(b)))
<1>1. /\ DOMAIN b = IF type = "state" THEN {"value_type", "color"} ELSE {"value_type"}
      /\ b["value_type"] = Text(type) /\ type = "state" => b["color"] = Text("info")
  OBVIOUS
<1>2. PICK merged : merged = Merged(m, Map(b))
  OBVIOUS
<1>3. /\ IsMap(merged)
      /\ \A k : /\ Has(merged, k) <=> Has(m, k) \/ k \in DOMAIN b
                /\ k \in DOMAIN b => Get(merged, k) = b[k]
                /\ k \notin DOMAIN b => Get(merged, k) = Get(m, k)
  BY <1>2, FieldsOfMerged
<1>4. Get(Map(b), "value_type") = Text(type)
  BY <1>1, Tags DEF Get
<1>5. m # Absent /\ Map(b) # Failed /\ Text(type) # Absent
  BY Tags, Kinds DEF Failed, Map, IsMap
<1>6. \A k \in NumericFields : Has(m, k) => ValueType(m).text = "number"
  BY NumericOfNumbers
<1>7. \A s, t \in {"string", "number", "state"} : Text(s) = Text(t) <=> s = t
  BY Kinds
<1>8. CASE Text(type) = Get(m, "value_type")
  <2>1. MergedMetric(m, Map(b)) = merged
    BY <1>2, <1>4, <1>5, <1>8 DEF MergedMetric
  <2>2. Has(m, "value_type") /\ ValueType(m) = Text(type)
    BY <1>5, <1>8 DEF Has, Keys, Get, ValueType
  <2>3. CASE type # "state"
    <3>1. Alike(merged, m, {"label"})
      BY <1>1, <1>3, <1>8, <2>2, <2>3 DEF Alike
    <3>2. NonEmptyText(Get(merged, "label"))
      BY <1>1, <1>3, <2>3 DEF Accepted
    <3> QED  BY <1>3, <2>1, <3>1, <3>2, RelabelledAccepted
  <2>4. CASE type = "state"
    <3>1. Alike(merged, m, {"value_type", "color", "state_colors"} \cup NumericFields)
      BY <1>1, <1>3, <2>4 DEF Alike
    <3>2. \A k \in NumericFields : ~Has(merged, k)
      BY <1>1, <1>3, <1>6, <2>2, <2>4, Kinds DEF NumericFields
    <3>3. Has(merged, "value_type") /\ Get(merged, "value_type") = Text(type)
      BY <1>1, <1>3
    <3>4. Has(merged, "color") /\ Get(merged, "color") = Text("info")
      BY <1>1, <1>3, <2>4
    <3>5. Has(merged, "state_colors") => Has(m, "state_colors") /\ Get(merged, "state_colors") = Get(m, "state_colors")
      BY <1>1, <1>3
    <3> QED  BY <1>3, <1>6, <2>1, <2>4, <3>1, <3>2, <3>3, <3>4, <3>5, RetypedAccepted
  <2> QED  BY <2>3, <2>4
<1>9. CASE Text(type) # Get(m, "value_type")
  <2>1. PICK dropped : dropped = (IF type = "state" THEN {} ELSE {"color", "state_colors"})
                                 \cup (IF type = "number" THEN {} ELSE NumericFields)
    OBVIOUS
  <2>2. MergedMetric(m, Map(b)) = Without(merged, dropped)
    BY <1>2, <1>4, <1>5, <1>7, <1>9, <2>1 DEF MergedMetric
  <2>3. PICK x : x = Without(merged, dropped)
    OBVIOUS
  <2>4. /\ IsMap(x)
        /\ \A k : /\ Has(x, k) <=> Has(merged, k) /\ k \notin dropped
                  /\ Get(x, k) = IF k \in dropped THEN Absent ELSE Get(merged, k)
    BY <1>3, <2>3, FieldsOfWithout
  <2>5. Alike(x, m, {"value_type", "color", "state_colors"} \cup NumericFields)
    BY <1>1, <1>3, <2>1, <2>4 DEF Alike
  <2>6. Has(x, "value_type") /\ Get(x, "value_type") = Text(type)
    BY <1>1, <1>3, <2>1, <2>4 DEF NumericFields
  <2>7. \A k \in {"state_colors"} \cup NumericFields : Has(x, k) => Has(m, k) /\ Get(x, k) = Get(m, k)
    BY <1>1, <1>3, <2>1, <2>4 DEF NumericFields
  <2>8. /\ \A k \in NumericFields : Has(x, k) => type = "number"
        /\ \A k \in {"color", "state_colors"} : Has(x, k) => type = "state"
    BY <2>1, <2>4
  <2>9. type = "state" => Has(x, "color") /\ Get(x, "color") = Text("info")
    BY <1>1, <1>3, <2>1, <2>4 DEF NumericFields
  <2> QED  BY <1>6, <2>2, <2>3, <2>4, <2>5, <2>6, <2>7, <2>8, <2>9, RetypedAccepted
<1> QED  BY <1>8, <1>9

LEMMA AcceptedStaysReadable ==
    ASSUME NEW m, IsMap(m), Accepted(m)
    PROVE  StaysReadable(m)
<1>1. Accepted(MergedMetric(m, Map([label |-> Text("other")])))
  <2>1. PICK b : b = [label |-> Text("other")]
    OBVIOUS
  <2>2. DOMAIN b = {"label"} /\ b["label"] = Text("other")
    BY <2>1
  <2>3. PICK merged : merged = Merged(m, Map(b))
    OBVIOUS
  <2>4. /\ IsMap(merged)
        /\ \A k : /\ Has(merged, k) <=> Has(m, k) \/ k \in DOMAIN b
                  /\ k \in DOMAIN b => Get(merged, k) = b[k]
                  /\ k \notin DOMAIN b => Get(merged, k) = Get(m, k)
    BY <2>3, FieldsOfMerged
  <2>5. Get(Map(b), "value_type") = Absent /\ Map(b) # Failed /\ m # Absent
    BY <2>2, Tags DEF Get, Failed, Map, IsMap
  <2>6. MergedMetric(m, Map(b)) = merged
    BY <2>3, <2>5 DEF MergedMetric
  <2>7. Alike(merged, m, {"label"})
    BY <2>2, <2>4 DEF Alike
  <2>8. NonEmptyText(Get(merged, "label"))
    <3>1. Get(merged, "label") = Text("other")
      BY <2>2, <2>4
    <3>2. NonEmptyText(Text("other"))
      BY DEF NonEmptyText, IsText, Text
    <3> QED  BY <3>1, <3>2
  <2> QED  BY <2>1, <2>4, <2>6, <2>7, <2>8, RelabelledAccepted
<1>2. ASSUME Extractors(m) \subseteq {"jq", "text"}, Keys(m) \cap {"rate", "state_labels"} = {},
             ~Has(Get(m, "pagination"), "recover")
      PROVE  /\ Accepted(MergedMetric(m, Map([value_type |-> Text("string")])))
             /\ Accepted(MergedMetric(m, Map([value_type |-> Text("number")])))
             /\ Accepted(MergedMetric(m, Map([value_type |-> Text("state"), color |-> Text("info")])))
  <2>1. ~Has(m, "rate") /\ ~Has(m, "state_labels")
    BY <1>2 DEF Has
  <2>2. ASSUME NEW type \in {"string", "number", "state"}, NEW b,
               b = IF type = "state" THEN [value_type |-> Text("state"), color |-> Text("info")]
                   ELSE [value_type |-> Text(type)]
        PROVE  Accepted(MergedMetric(m, Map(b)))
    BY <1>2, <2>1, <2>2, OverrideOfKind
  <2> QED  BY <2>2
<1> QED  BY <1>1, <1>2 DEF StaysReadable

(* A metric of the library whose label or kind is overridden stays         *)
(* readable, whatever a contributor wrote (config-file-validation.ts:625). *)
THEOREM OverridesStayReadable == Spec => []OverridesReadable
<1>1. OverridesReadable
  <2> SUFFICES ASSUME InLibrary(published.file, published.provider)
               PROVE  StaysReadable(LoadedDefinition(published.file, published.provider))
    BY DEF OverridesReadable
  <2>1. PICK m : m = LoadedDefinition(published.file, published.provider)
    OBVIOUS
  <2>2. m # Failed /\ Accepted(m)
    BY <2>1 DEF InLibrary, Readable
  <2>3. IsMap(m)
    BY <2>2, Tags DEF Accepted, NonEmptyText, Get
  <2> QED  BY <2>1, <2>2, <2>3, AcceptedStaysReadable
<1> QED  BY <1>1, PTL DEF Spec

-----------------------------------------------------------------------------
(* Values and what is in them.                                             *)

\* Induction over the natural numbers; a property is the set of the numbers that have it.
LEMMA SetInduction ==
    ASSUME NEW S, 0 \in S, \A n \in Nat : n \in S => n + 1 \in S
    PROVE  \A n \in Nat : n \in S
<1> DEFINE T == Nat \ S
<1> SUFFICES ASSUME T # {} PROVE FALSE
  OBVIOUS
<1>1. PICK x \in T : \A y \in T : ~(<<y, x>> \in OpToRel(<, Nat))
  BY NatLessThanWellFounded, WFMin
<1>2. \A y \in T : ~(y < x)
  BY <1>1 DEF OpToRel
<1>3. x - 1 \in Nat /\ x - 1 \in S /\ (x - 1) + 1 = x
  BY <1>2
<1> QED  BY <1>3

\* The levels of a value are well defined.
LEMMA LevelsOf ==
    ASSUME NEW v
    PROVE  /\ Levels(v)[0] = {v}
           /\ \A d \in 1..MaxDepth : Levels(v)[d] = UNION {Inside(p) : p \in Levels(v)[d - 1]}
<1> DEFINE made(d, below) == IF d = 0 THEN {v} ELSE UNION {Inside(p) : p \in below}
           Upto(k, f) == f = [d \in 0..k |-> made(d, f[d - 1])]
           Reached == {k \in Nat : \E f : Upto(k, f)}
<1>1. MaxDepth \in Nat
  BY DepthAssumption
<1>2. \A x, y : made(0, x) = made(0, y)
  OBVIOUS
<1>3. \E f : Upto(MaxDepth, f)
  <2> HIDE DEF made
  <2>1. 0 \in Reached
    <3>1. Upto(0, [d \in 0..0 |-> made(0, 0)])
      <4> DEFINE g == [d \in 0..0 |-> made(0, 0)]
      <4>1. \A d \in 0..0 : g[d] = made(d, g[d - 1])
        BY <1>2
      <4>2. g = [d \in 0..0 |-> made(d, g[d - 1])]
        BY <1>2
      <4> QED  BY <4>2
    <3> QED  BY <3>1
  <2>2. ASSUME NEW k \in Nat, k \in Reached PROVE k + 1 \in Reached
    <3>1. PICK f : Upto(k, f)
      BY <2>2
    <3> DEFINE g == [d \in 0..(k + 1) |-> IF d = k + 1 THEN made(k + 1, f[k]) ELSE f[d]]
    <3>2. \A d \in 0..k : f[d] = made(d, f[d - 1])
      BY <3>1
    <3>3. ASSUME NEW d \in 0..(k + 1) PROVE g[d] = made(d, g[d - 1])
      <4>1. CASE d = k + 1
        <5>1. g[d] = made(k + 1, f[k]) /\ d - 1 = k /\ k \in 0..(k + 1) /\ g[k] = f[k]
          BY <4>1
        <5> QED  BY <4>1, <5>1
      <4>2. CASE d # k + 1 /\ d # 0
        <5>1. d \in 0..k /\ d - 1 \in 0..k /\ g[d] = f[d] /\ g[d - 1] = f[d - 1]
          BY <4>2
        <5> QED  BY <3>2, <5>1
      <4>3. CASE d = 0
        <5>1. g[d] = f[d] /\ d \in 0..k
          BY <4>3
        <5> QED  BY <1>2, <3>2, <4>3, <5>1
      <4> QED  BY <4>1, <4>2, <4>3
    <3>4. g = [d \in 0..(k + 1) |-> made(d, g[d - 1])]
      <4>1. g = [d \in 0..(k + 1) |-> g[d]]
        OBVIOUS
      <4> HIDE DEF g
      <4> QED  BY <3>3, <4>1
    <3> HIDE DEF g
    <3>5. Upto(k + 1, g) /\ k + 1 \in Nat
      BY <3>4
    <3> QED  BY <3>5
  <2> HIDE DEF Reached
  <2>3. MaxDepth \in Reached
    BY <1>1, <2>1, <2>2, SetInduction
  <2> QED  BY <2>3 DEF Reached
<1>4. Upto(MaxDepth, Levels(v))
  BY <1>3 DEF Levels
<1>5. ASSUME NEW d \in 0..MaxDepth PROVE Levels(v)[d] = made(d, Levels(v)[d - 1])
  <2> HIDE DEF made
  <2> QED  BY <1>4
<1>6. Levels(v)[0] = {v}
  <2>1. 0 \in 0..MaxDepth
    BY <1>1
  <2>2. \A x : made(0, x) = {v}
    OBVIOUS
  <2> HIDE DEF made
  <2> QED  BY <1>5, <2>1, <2>2
<1>7. ASSUME NEW d \in 1..MaxDepth PROVE Levels(v)[d] = UNION {Inside(p) : p \in Levels(v)[d - 1]}
  <2>1. d \in 0..MaxDepth /\ d # 0
    BY <1>1
  <2> QED  BY <1>5, <2>1
<1> HIDE DEF made
<1> QED  BY <1>6, <1>7

\* What is inside a value is one level further from the value that has it.
LEMMA LevelBelow ==
    ASSUME NEW v, NEW d \in 1..MaxDepth, NEW p \in Levels(v)[MaxDepth - d], NEW q \in Inside(p)
    PROVE  q \in Levels(v)[MaxDepth - (d - 1)]
<1>1. MaxDepth - (d - 1) \in 1..MaxDepth /\ (MaxDepth - (d - 1)) - 1 = MaxDepth - d
  BY DepthAssumption
<1> QED  BY <1>1, LevelsOf

ReferencesBy(at, v, labels) ==
    \A d \in 0..MaxDepth : \A p \in Levels(v)[MaxDepth - d] : \E inside :
        /\ at[d][p] = ReferenceOf(p, inside, labels)
        /\ \A q \in Inside(p) : inside[q] = IF d = 0 THEN q ELSE at[d - 1][q]

\* References are resolved from the deepest level up.
LEMMA ReferenceLevels ==
    ASSUME NEW v, NEW labels
    PROVE  \E at : ResolvedReference(v, labels) = at[MaxDepth][v] /\ ReferencesBy(at, v, labels)
<1> DEFINE made(d, below) == [p \in Levels(v)[MaxDepth - d] |->
                                 ReferenceOf(p, IF d = 0 THEN [q \in Inside(p) |-> q] ELSE below, labels)]
           Upto(k, f) == f = [d \in 0..k |-> made(d, f[d - 1])]
           Reached == {k \in Nat : \E f : Upto(k, f)}
<1>1. MaxDepth \in Nat
  BY DepthAssumption
<1>2. \A x, y : made(0, x) = made(0, y)
  OBVIOUS
<1>3. \E f : Upto(MaxDepth, f)
  <2> HIDE DEF made
  <2>1. 0 \in Reached
    <3>1. Upto(0, [d \in 0..0 |-> made(0, 0)])
      <4> DEFINE g == [d \in 0..0 |-> made(0, 0)]
      <4>1. \A d \in 0..0 : g[d] = made(d, g[d - 1])
        BY <1>2
      <4>2. g = [d \in 0..0 |-> made(d, g[d - 1])]
        BY <1>2
      <4> QED  BY <4>2
    <3> QED  BY <3>1
  <2>2. ASSUME NEW k \in Nat, k \in Reached PROVE k + 1 \in Reached
    <3>1. PICK f : Upto(k, f)
      BY <2>2
    <3> DEFINE g == [d \in 0..(k + 1) |-> IF d = k + 1 THEN made(k + 1, f[k]) ELSE f[d]]
    <3>2. \A d \in 0..k : f[d] = made(d, f[d - 1])
      BY <3>1
    <3>3. ASSUME NEW d \in 0..(k + 1) PROVE g[d] = made(d, g[d - 1])
      <4>1. CASE d = k + 1
        <5>1. g[d] = made(k + 1, f[k]) /\ d - 1 = k /\ k \in 0..(k + 1) /\ g[k] = f[k]
          BY <4>1
        <5> QED  BY <4>1, <5>1
      <4>2. CASE d # k + 1 /\ d # 0
        <5>1. d \in 0..k /\ d - 1 \in 0..k /\ g[d] = f[d] /\ g[d - 1] = f[d - 1]
          BY <4>2
        <5> QED  BY <3>2, <5>1
      <4>3. CASE d = 0
        <5>1. g[d] = f[d] /\ d \in 0..k
          BY <4>3
        <5> QED  BY <1>2, <3>2, <4>3, <5>1
      <4> QED  BY <4>1, <4>2, <4>3
    <3>4. g = [d \in 0..(k + 1) |-> made(d, g[d - 1])]
      <4>1. g = [d \in 0..(k + 1) |-> g[d]]
        OBVIOUS
      <4> HIDE DEF g
      <4> QED  BY <3>3, <4>1
    <3> HIDE DEF g
    <3>5. Upto(k + 1, g) /\ k + 1 \in Nat
      BY <3>4
    <3> QED  BY <3>5
  <2> HIDE DEF Reached
  <2>3. MaxDepth \in Reached
    BY <1>1, <2>1, <2>2, SetInduction
  <2> QED  BY <2>3 DEF Reached
<1>4. PICK at : Upto(MaxDepth, at) /\ ResolvedReference(v, labels) = at[MaxDepth][v]
  BY <1>3 DEF ResolvedReference, Rebuilt, Upwards
<1>5. ASSUME NEW d \in 0..MaxDepth PROVE at[d] = made(d, at[d - 1])
  <2> HIDE DEF made
  <2> QED  BY <1>4
<1>6. ASSUME NEW d \in 0..MaxDepth, NEW p \in Levels(v)[MaxDepth - d]
      PROVE  \E inside : /\ at[d][p] = ReferenceOf(p, inside, labels)
                         /\ \A q \in Inside(p) : inside[q] = IF d = 0 THEN q ELSE at[d - 1][q]
  <2>1. PICK inside : inside = IF d = 0 THEN [q \in Inside(p) |-> q] ELSE at[d - 1]
    OBVIOUS
  <2>2. made(d, at[d - 1])[p] = ReferenceOf(p, inside, labels)
    BY <2>1
  <2>3. \A q \in Inside(p) : inside[q] = IF d = 0 THEN q ELSE at[d - 1][q]
    BY <2>1
  <2> HIDE DEF made
  <2> QED  BY <1>5, <2>2, <2>3
<1>7. ReferencesBy(at, v, labels)
  BY <1>6 DEF ReferencesBy
<1> QED  BY <1>4, <1>7

\* A value at some level is at the level before of one of those inside.
LEMMA LevelWithin ==
    ASSUME NEW v, NEW e \in 1..MaxDepth, NEW x \in Levels(v)[e]
    PROVE  \E q \in Inside(v) : x \in Levels(q)[e - 1]
<1> DEFINE Holds(k) == k \in 1..MaxDepth => \A y \in Levels(v)[k] : \E q \in Inside(v) : y \in Levels(q)[k - 1]
           Reached == {k \in Nat : Holds(k)}
<1>1. 0 \in Reached
  OBVIOUS
<1>2. ASSUME NEW k \in Nat, k \in Reached PROVE k + 1 \in Reached
  <2> SUFFICES ASSUME k + 1 \in 1..MaxDepth, NEW y \in Levels(v)[k + 1]
               PROVE  \E q \in Inside(v) : y \in Levels(q)[(k + 1) - 1]
    OBVIOUS
  <2>1. PICK p \in Levels(v)[k] : y \in Inside(p)
    <3>1. (k + 1) - 1 = k
      OBVIOUS
    <3>2. Levels(v)[k + 1] = UNION {Inside(p) : p \in Levels(v)[(k + 1) - 1]}
      BY LevelsOf
    <3> QED  BY <3>1, <3>2
  <2>2. CASE k = 0
    <3>1. p = v
      BY <2>1, <2>2, LevelsOf
    <3>2. y \in Levels(y)[0]
      BY LevelsOf
    <3> QED  BY <2>1, <2>2, <3>1, <3>2
  <2>3. CASE k # 0
    <3>1. k \in 1..MaxDepth
      BY <2>3, DepthAssumption
    <3>2. PICK q \in Inside(v) : p \in Levels(q)[k - 1]
      BY <1>2, <2>1, <3>1
    <3>3. Levels(q)[k] = UNION {Inside(o) : o \in Levels(q)[k - 1]}
      BY <3>1, LevelsOf
    <3>4. y \in Levels(q)[k] /\ (k + 1) - 1 = k
      BY <2>1, <3>2, <3>3
    <3> QED  BY <3>4
  <2> QED  BY <2>2, <2>3
<1> HIDE DEF Reached
<1>3. e \in Reached
  BY <1>1, <1>2, SetInduction
<1> QED  BY <1>3 DEF Reached

JsonBy(at, v, metric, card) ==
    \A d \in 0..MaxDepth : \A p \in Levels(v)[MaxDepth - d] : \E inside :
        /\ at[d][p] = JsonOf(p, inside, metric, card)
        /\ \A q \in Inside(p) : inside[q] = IF d = 0 THEN q ELSE at[d - 1][q]

\* So are the values of a body.
LEMMA JsonLevels ==
    ASSUME NEW v, NEW metric, NEW card
    PROVE  \E at : ResolvedJson(v, metric, card) = at[MaxDepth][v] /\ JsonBy(at, v, metric, card)
<1> DEFINE made(d, below) == [p \in Levels(v)[MaxDepth - d] |->
                                 JsonOf(p, IF d = 0 THEN [q \in Inside(p) |-> q] ELSE below, metric, card)]
           Upto(k, f) == f = [d \in 0..k |-> made(d, f[d - 1])]
           Reached == {k \in Nat : \E f : Upto(k, f)}
<1>1. MaxDepth \in Nat
  BY DepthAssumption
<1>2. \A x, y : made(0, x) = made(0, y)
  OBVIOUS
<1>3. \E f : Upto(MaxDepth, f)
  <2> HIDE DEF made
  <2>1. 0 \in Reached
    <3>1. Upto(0, [d \in 0..0 |-> made(0, 0)])
      <4> DEFINE g == [d \in 0..0 |-> made(0, 0)]
      <4>1. \A d \in 0..0 : g[d] = made(d, g[d - 1])
        BY <1>2
      <4>2. g = [d \in 0..0 |-> made(d, g[d - 1])]
        BY <1>2
      <4> QED  BY <4>2
    <3> QED  BY <3>1
  <2>2. ASSUME NEW k \in Nat, k \in Reached PROVE k + 1 \in Reached
    <3>1. PICK f : Upto(k, f)
      BY <2>2
    <3> DEFINE g == [d \in 0..(k + 1) |-> IF d = k + 1 THEN made(k + 1, f[k]) ELSE f[d]]
    <3>2. \A d \in 0..k : f[d] = made(d, f[d - 1])
      BY <3>1
    <3>3. ASSUME NEW d \in 0..(k + 1) PROVE g[d] = made(d, g[d - 1])
      <4>1. CASE d = k + 1
        <5>1. g[d] = made(k + 1, f[k]) /\ d - 1 = k /\ k \in 0..(k + 1) /\ g[k] = f[k]
          BY <4>1
        <5> QED  BY <4>1, <5>1
      <4>2. CASE d # k + 1 /\ d # 0
        <5>1. d \in 0..k /\ d - 1 \in 0..k /\ g[d] = f[d] /\ g[d - 1] = f[d - 1]
          BY <4>2
        <5> QED  BY <3>2, <5>1
      <4>3. CASE d = 0
        <5>1. g[d] = f[d] /\ d \in 0..k
          BY <4>3
        <5> QED  BY <1>2, <3>2, <4>3, <5>1
      <4> QED  BY <4>1, <4>2, <4>3
    <3>4. g = [d \in 0..(k + 1) |-> made(d, g[d - 1])]
      <4>1. g = [d \in 0..(k + 1) |-> g[d]]
        OBVIOUS
      <4> HIDE DEF g
      <4> QED  BY <3>3, <4>1
    <3> HIDE DEF g
    <3>5. Upto(k + 1, g) /\ k + 1 \in Nat
      BY <3>4
    <3> QED  BY <3>5
  <2> HIDE DEF Reached
  <2>3. MaxDepth \in Reached
    BY <1>1, <2>1, <2>2, SetInduction
  <2> QED  BY <2>3 DEF Reached
<1>4. PICK at : Upto(MaxDepth, at) /\ ResolvedJson(v, metric, card) = at[MaxDepth][v]
  BY <1>3 DEF ResolvedJson, Rebuilt, Upwards
<1>5. ASSUME NEW d \in 0..MaxDepth PROVE at[d] = made(d, at[d - 1])
  <2> HIDE DEF made
  <2> QED  BY <1>4
<1>6. ASSUME NEW d \in 0..MaxDepth, NEW p \in Levels(v)[MaxDepth - d]
      PROVE  \E inside : /\ at[d][p] = JsonOf(p, inside, metric, card)
                         /\ \A q \in Inside(p) : inside[q] = IF d = 0 THEN q ELSE at[d - 1][q]
  <2>1. PICK inside : inside = IF d = 0 THEN [q \in Inside(p) |-> q] ELSE at[d - 1]
    OBVIOUS
  <2>2. made(d, at[d - 1])[p] = JsonOf(p, inside, metric, card)
    BY <2>1
  <2>3. \A q \in Inside(p) : inside[q] = IF d = 0 THEN q ELSE at[d - 1][q]
    BY <2>1
  <2> HIDE DEF made
  <2> QED  BY <1>5, <2>2, <2>3
<1>7. JsonBy(at, v, metric, card)
  BY <1>6 DEF JsonBy
<1> QED  BY <1>4, <1>7

-----------------------------------------------------------------------------
(* Requests.                                                               *)

AllBuilt(metrics) == \A k \in DOMAIN metrics : \E m : Readable(m) /\ metrics[k] = Built(m)

LEMMA AcceptedBuilt ==
    ASSUME NEW metrics
    PROVE  AllBuilt(AcceptedOnly(metrics)) /\ AllBuilt(Consistent(AcceptedOnly(metrics)))
<1>1. PICK accepted : accepted = AcceptedOnly(metrics)
  OBVIOUS
<1>2. AllBuilt(accepted)
  BY <1>1, AcceptedOf DEF AllBuilt
<1>3. AllBuilt(Consistent(accepted))
  BY <1>2 DEF AllBuilt, Consistent
<1> QED  BY <1>1, <1>2, <1>3

\* The metrics of a service are overrides and own metrics that have been accepted.
LEMMA ServiceBuilt ==
    ASSUME NEW v, NEW shared
    PROVE  AllBuilt(ParsedServiceMetrics(v, Library, shared).metrics)
<1>1. PICK entries : entries = IF v = Text("none") THEN Map(<<>>) ELSE Get(v, "entries")
  OBVIOUS
<1>2. PICK charts : charts = ParsedCharts(Get(v, "charts"))
  OBVIOUS
<1>3. PICK own : own = IF IsMap(entries) THEN ParsedOwn(entries, Library, charts, shared) ELSE <<>>
  OBVIOUS
<1>4. PICK overrides : overrides = IF IsMap(entries) THEN ParsedOverrides(entries, Library, charts) ELSE <<>>
  OBVIOUS
<1>5. ParsedServiceMetrics(v, Library, shared) = KeptMetrics(v, entries, Library, own, overrides)
  BY <1>1, <1>2, <1>3, <1>4 DEF ParsedServiceMetrics
<1>6. ParsedServiceMetrics(v, Library, shared).metrics = Spread(overrides, own)
  BY <1>5 DEF KeptMetrics
<1>7. AllBuilt(<<>>)
  BY DEF AllBuilt
<1>8. AllBuilt(own)
  BY <1>3, <1>7, AcceptedBuilt DEF ParsedOwn, ParsedMetrics
<1>9. AllBuilt(overrides)
  BY <1>4, <1>7, AcceptedBuilt DEF ParsedOverrides, ParsedMetrics
<1>10. AllBuilt(Spread(overrides, own))
  BY <1>8, <1>9 DEF AllBuilt, Spread
<1> QED  BY <1>6, <1>10

ScalarInputs(inputs) == \A k \in DOMAIN inputs : IsMap(inputs[k]) /\ \A n \in Keys(inputs[k]) : Scalar(inputs[k].map[n])

\* The inputs of an accepted service are scalars.
LEMMA ServiceInputs ==
    ASSUME NEW v, NEW shared, v = Absent \/ MetricsAccepted(v, Library)
    PROVE  ScalarInputs(ParsedServiceMetrics(v, Library, shared).inputs)
<1>1. PICK entries : entries = IF v = Text("none") THEN Map(<<>>) ELSE Get(v, "entries")
  OBVIOUS
<1>2. PICK charts : charts = ParsedCharts(Get(v, "charts"))
  OBVIOUS
<1>3. PICK own : own = IF IsMap(entries) THEN ParsedOwn(entries, Library, charts, shared) ELSE <<>>
  OBVIOUS
<1>4. PICK overrides : overrides = IF IsMap(entries) THEN ParsedOverrides(entries, Library, charts) ELSE <<>>
  OBVIOUS
<1>5. PICK inputs : inputs = ParsedServiceMetrics(v, Library, shared).inputs
  OBVIOUS
<1>6. ParsedServiceMetrics(v, Library, shared) = KeptMetrics(v, entries, Library, own, overrides)
  BY <1>1, <1>2, <1>3, <1>4 DEF ParsedServiceMetrics
<1>7. inputs = [n \in {m \in Keys(entries) : Get(entries.map[m], "inputs") # Absent} \cap DOMAIN Library |-> entries.map[n].map["inputs"]]
  BY <1>5, <1>6 DEF KeptMetrics
<1>8. \A n \in Keys(entries) : EntryAccepted(n, entries.map[n], Library)
  <2>1. CASE v = Text("none")
    BY <1>1, <2>1, Tags
  <2>2. CASE v = Absent
    BY <1>1, <2>2, Tags DEF Get
  <2>3. CASE v # Text("none") /\ v # Absent
    <3>1. Opt(v, "entries", LAMBDA e : EntriesAccepted(e, Library, ParsedCharts(Get(v, "charts"))))
      BY <2>3 DEF MetricsAccepted
    <3>2. entries = Absent \/ EntriesAccepted(entries, Library, charts)
      BY <1>1, <1>2, <2>3, <3>1 DEF Opt
    <3> QED  BY <3>2, Tags DEF EntriesAccepted
  <2> QED  BY <2>1, <2>2, <2>3
<1>9. ASSUME NEW k \in DOMAIN inputs PROVE IsMap(inputs[k]) /\ \A n \in Keys(inputs[k]) : Scalar(inputs[k].map[n])
  <2>1. PICK e : e = entries.map[k]
    OBVIOUS
  <2>2. k \in DOMAIN Library /\ Get(e, "inputs") # Absent /\ inputs[k] = e.map["inputs"] /\ EntryAccepted(k, e, Library)
    BY <1>7, <1>8, <2>1
  <2>3. e # Null /\ Has(e, "inputs") /\ Get(e, "inputs") = inputs[k]
    BY <2>2, Tags DEF Get, Has, Keys, IsMap, Null
  <2>4. k \notin Resources
    <3>1. k \in Resources => Known(e, {"visible_to"})
      BY <2>2, <2>3 DEF EntryAccepted
    <3> QED  BY <2>3, <3>1 DEF Known, Has, Keys
  <2>5. LibraryEntry(e, Library[k])
    BY <2>2, <2>3, <2>4 DEF EntryAccepted
  <2>6. PICK given : given = inputs[k]
    OBVIOUS
  <2>7. given = Absent \/ (IsMap(given) /\ \A n \in Keys(given) : Scalar(given.map[n]))
    BY <2>3, <2>5, <2>6 DEF LibraryEntry, Opt
  <2> QED  BY <2>2, <2>3, <2>6, <2>7
<1> QED  BY <1>5, <1>9 DEF ScalarInputs

\* A metric that can be asked for is one that has been accepted, resolved with the labels of
\* its container and inputs of its service.
LEMMA AskableResolved ==
    ASSUME WorldInv, Ready, NEW a \in Askable
    PROVE  \E c \in world.containers : \E k, m, url, sources, inputs :
                /\ Readable(m) /\ a.labels = c.labels /\ \A n \in DOMAIN inputs : Scalar(inputs[n])
                /\ a.metric = ResolvedMetric(k, Built(m), url, sources, c.labels, inputs) /\ a.metric # Failed
<1>1. PICK w \in Worlds : Accounted(w)
  BY ReadyAccounted
<1>2. PICK settings : settings = Settings
  OBVIOUS
<1>3. PICK c \in world.containers : a \in AskableOf(ResolvedAs(c, settings), c.labels)
  BY <1>2 DEF Askable
<1>4. PICK r : r = ResolvedAs(c, settings)
  OBVIOUS
<1>5. PICK k \in DOMAIN r.custom : a.metric = r.custom[k] /\ a.labels = c.labels
  BY <1>3, <1>4 DEF AskableOf
<1>6. PICK n : n = LookupYamlService(config.services, c)
  OBVIOUS
<1>7. PICK service : service = IF n = Absent THEN Absent ELSE config.services[n.text]
  OBVIOUS
<1>8. r = ResolveContainer(config.services, c, settings.homepageLabelFallback, Catalog)
  BY <1>4 DEF ResolvedAs
<1>9. \E labels, url : r = WithMetrics(labels, service, url, c.labels, Catalog)
  BY <1>6, <1>7, <1>8 DEF ResolveContainer
<1>10. PICK labels, url : r = WithMetrics(labels, service, url, c.labels, Catalog)
  BY <1>9
<1>11. PICK own : own = ServiceMetrics(service)
  OBVIOUS
<1>12. own = Absent \/ \E v, shared : (v = Absent \/ MetricsAccepted(v, Library)) /\ own = Some(ParsedServiceMetrics(v, Library, shared))
  <2>1. CASE n = Absent
    BY <1>7, <1>11, <2>1 DEF ServiceMetrics
  <2>2. CASE n # Absent
    <3>1. n.text \in DOMAIN config.services
      BY <1>6, <2>2, ServiceFound
    <3>2. PICK shared : shared = ParsedSharedSources(Get(w.content, "shared_metric_sources"))
      OBVIOUS
    <3>3. PICK v : v = w.content.map[n.text]
      OBVIOUS
    <3>4. service = ParsedService(v, Library, shared) /\ ServiceAccepted(v, Library)
      BY <1>1, <1>7, <2>2, <3>1, <3>2, <3>3, ServicesOfFile DEF Accounted
    <3>5. service = Absent \/ own = service["metrics"]
      BY <1>11 DEF ServiceMetrics
    <3>6. service["metrics"] = IF Has(v, "metrics") THEN Some(ParsedServiceMetrics(Get(v, "metrics"), Library, shared)) ELSE Absent
      BY <3>4, FieldsOfService
    <3>7. service = Absent => own = Absent
      BY <1>11 DEF ServiceMetrics
    <3>8. PICK metrics : metrics = Get(v, "metrics")
      OBVIOUS
    <3>9. own = Absent \/ (Has(v, "metrics") /\ own = Some(ParsedServiceMetrics(metrics, Library, shared)))
      BY <3>5, <3>6, <3>7, <3>8
    <3>10. metrics = Absent \/ MetricsAccepted(metrics, Library)
      BY <3>4, <3>8 DEF ServiceAccepted, Opt
    <3> QED  BY <3>9, <3>10
  <2> QED  BY <2>1, <2>2
<1>13. PICK parsed : parsed = IF own = Absent THEN <<>> ELSE own.some.metrics
  OBVIOUS
<1>14. AllBuilt(parsed)
  <2>1. CASE own = Absent
    BY <1>13, <2>1 DEF AllBuilt
  <2>2. CASE own # Absent
    <3>1. PICK v, shared : own = Some(ParsedServiceMetrics(v, Library, shared))
      BY <1>12, <2>2
    <3>2. parsed = ParsedServiceMetrics(v, Library, shared).metrics
      BY <1>13, <2>2, <3>1, Tags
    <3> QED  BY <3>2, ServiceBuilt
  <2> QED  BY <2>1, <2>2
<1>15. PICK picked : picked = IF labels.metrics = Absent THEN {} ELSE labels.metrics.some \cap DOMAIN Catalog
  OBVIOUS
<1>16. PICK definitions : definitions = Spread([j \in picked |-> Catalog[j]], parsed)
  OBVIOUS
<1>17. AllBuilt(definitions)
  <2>1. AllBuilt(Catalog) /\ picked \subseteq DOMAIN Catalog
    BY <1>15, AcceptedBuilt DEF Catalog
  <2> QED  BY <1>14, <1>16, <2>1 DEF AllBuilt, Spread
<1>18. PICK given : given = IF own = Absent THEN <<>> ELSE own.some.inputs
  OBVIOUS
<1>19. r.custom = ResolvedMetrics(definitions, url, labels.sources, c.labels, given)
  BY <1>10, <1>11, <1>13, <1>15, <1>16, <1>18 DEF WithMetrics
<1>20. PICK sources : sources = labels.sources
  OBVIOUS
<1>21. PICK inputs : inputs = IF k \in DOMAIN given THEN given[k].map ELSE <<>>
  OBVIOUS
<1>22. \A j \in DOMAIN inputs : Scalar(inputs[j])
  <2>1. ScalarInputs(given)
    <3>1. CASE own = Absent
      BY <1>18, <3>1 DEF ScalarInputs
    <3>2. CASE own # Absent
      <4>1. PICK v, shared : (v = Absent \/ MetricsAccepted(v, Library)) /\ own = Some(ParsedServiceMetrics(v, Library, shared))
        BY <1>12, <3>2
      <4>2. given = ParsedServiceMetrics(v, Library, shared).inputs
        BY <1>18, <3>2, <4>1, Tags
      <4> QED  BY <4>1, <4>2, ServiceInputs
    <3> QED  BY <3>1, <3>2
  <2>2. k \in DOMAIN given => IsMap(given[k]) /\ \A j \in Keys(given[k]) : Scalar(given[k].map[j])
    BY <2>1 DEF ScalarInputs
  <2> QED  BY <1>21, <2>2 DEF Keys
<1>23. /\ k \in DOMAIN definitions
       /\ a.metric = ResolvedMetric(k, definitions[k], url, sources, c.labels, inputs)
       /\ a.metric # Failed
  BY <1>5, <1>19, <1>20, <1>21 DEF ResolvedMetrics, Resolvable
<1>24. PICK m : Readable(m) /\ definitions[k] = Built(m)
  BY <1>17, <1>23 DEF AllBuilt
<1> QED  BY <1>5, <1>22, <1>23, <1>24

LEMMA SourceOfReadable ==
    ASSUME NEW m, Readable(m)
    PROVE  LET source == Get(m, "source") IN
           /\ IsMap(m) /\ IsMap(Built(m)) /\ IsMap(source)
           /\ \A k \in {"source", "parameters", "for_each", "pagination"} : Get(Built(m), k) = Get(m, k) /\ (Has(Built(m), k) <=> Has(m, k))
           /\ Opt(source, "headers", Headers)
           /\ Get(source, "json") = Absent \/ Json(Get(source, "json"))
<1>1. IsMap(m) /\ SourceAccepted(m)
  BY Tags DEF Readable, Accepted, NonEmptyText, Get
<1>2. PICK source : source = Get(m, "source")
  OBVIOUS
<1>3. IsMap(source) /\ (SocketSource(source) \/ HttpSource(source))
  BY <1>1, <1>2 DEF SourceAccepted
<1>4. Opt(source, "headers", Headers) /\ (Get(source, "json") = Absent \/ Json(Get(source, "json")))
  <2>1. CASE SocketSource(source)
    <3>1. Known(source, {"url", "type", "socket", "headers", "authentication"}) /\ Opt(source, "headers", Headers)
      BY <2>1 DEF SocketSource
    <3>2. Get(source, "json") = Absent
      BY <3>1 DEF Known, Get
    <3> QED  BY <3>1, <3>2
  <2>2. CASE HttpSource(source)
    <3>1. PICK request : request = Without(source, {"initial", "authentication"})
      OBVIOUS
    <3>2. Request(request)
      BY <2>2, <3>1 DEF HttpSource
    <3>3. \A k \in {"headers", "json"} : Get(request, k) = Get(source, k)
      BY <1>3, <3>1, Tags DEF Without, Get
    <3> QED  BY <3>2, <3>3 DEF Request, Opt
  <2> QED  BY <1>3, <2>1, <2>2
<1>5. PICK defaults : defaults = IF ValueType(m) = Text("number")
                       THEN [value_type |-> Text("number"), unit |-> Text("number"), chart |-> Text("step")] ELSE <<>>
  OBVIOUS
<1>6. DOMAIN defaults \subseteq {"value_type", "unit", "chart"}
  BY <1>5
<1>7. PICK fields : fields = Spread(defaults, m.map)
  OBVIOUS
<1>8. Built(m) = Map(fields)
  BY <1>5, <1>7 DEF Built
<1>9. \A k \in {"source", "parameters", "for_each", "pagination"} :
          /\ k \in DOMAIN fields <=> k \in DOMAIN m.map
          /\ k \in DOMAIN m.map => fields[k] = m.map[k]
  BY <1>6, <1>7 DEF Spread
<1>10. \A k \in {"source", "parameters", "for_each", "pagination"} : Get(Built(m), k) = Get(m, k) /\ (Has(Built(m), k) <=> Has(m, k))
  BY <1>1, <1>8, <1>9, Tags DEF Has, Keys, Get
<1> QED  BY <1>1, <1>2, <1>3, <1>4, <1>8, <1>10, Tags

CardOf(key, metric, url, sources, labels, inputs) ==
    [url |-> url, sources |-> sources, labels |-> labels, values |-> ParameterValues(key, metric, labels, inputs),
     provider |-> Providers[key]]

\* Resolved, a metric has its resolved source and the parameters it had.
LEMMA PartsOfResolved ==
    ASSUME NEW key, NEW metric, NEW url, NEW sources, NEW labels, NEW inputs, IsMap(metric),
           ResolvedMetric(key, metric, url, sources, labels, inputs) # Failed
    PROVE  LET r == ResolvedMetric(key, metric, url, sources, labels, inputs)
               card == CardOf(key, metric, url, sources, labels, inputs)
           IN  /\ card.values # Failed /\ ResolvedSource(metric, card) # Failed
               /\ r.map["source"] = ResolvedSource(metric, card)
               /\ Get(r, "parameters") = Get(metric, "parameters")
<1>1. PICK card : card = CardOf(key, metric, url, sources, labels, inputs)
  OBVIOUS
<1>2. PICK r : r = ResolvedMetric(key, metric, url, sources, labels, inputs)
  OBVIOUS
<1>3. PICK items : items = ResolvedItems(metric, card)
  OBVIOUS
<1>4. PICK source : source = ResolvedSource(metric, card)
  OBVIOUS
<1>5. card.values # Failed /\ r = MetricWith(card, items, source)
  BY <1>1, <1>2, <1>3, <1>4 DEF ResolvedMetric, CardOf
<1>6. items # Failed /\ source # Failed
  BY <1>2, <1>5 DEF MetricWith
<1>7. IsMap(items) /\ Get(items, "parameters") = Get(metric, "parameters")
  <2>1. CASE items = metric
    BY <2>1
  <2>2. CASE items # metric
    <3>1. \E x : items = Merged(metric, Map([for_each |-> x]))
      BY <1>3, <1>6, <2>2 DEF ResolvedItems
    <3>2. PICK x : items = Merged(metric, Map([for_each |-> x]))
      BY <3>1
    <3>3. items = Map(Spread(metric.map, [for_each |-> x]))
      BY <3>2, Tags DEF Merged
    <3>4. PICK fields : fields = Spread(metric.map, [for_each |-> x])
      OBVIOUS
    <3>5. /\ "parameters" \in DOMAIN fields <=> "parameters" \in DOMAIN metric.map
          /\ "parameters" \in DOMAIN metric.map => fields["parameters"] = metric.map["parameters"]
      BY <3>4 DEF Spread
    <3> QED  BY <3>3, <3>4, <3>5, Tags DEF Get
  <2> QED  BY <2>1, <2>2
<1>8. PICK sourced : sourced = Merged(items, Map([source |-> source]))
  OBVIOUS
<1>9. r = ResolvedPages(sourced, card)
  BY <1>5, <1>6, <1>8 DEF MetricWith
<1>10. IsMap(sourced) /\ Get(sourced, "parameters") = Get(metric, "parameters") /\ Has(sourced, "source") /\ sourced.map["source"] = source
  <2>1. sourced = Map(Spread(items.map, [source |-> source]))
    BY <1>8, Tags DEF Merged
  <2>2. PICK fields : fields = Spread(items.map, [source |-> source])
    OBVIOUS
  <2>3. /\ "parameters" \in DOMAIN fields <=> "parameters" \in DOMAIN items.map
        /\ "parameters" \in DOMAIN items.map => fields["parameters"] = items.map["parameters"]
        /\ "source" \in DOMAIN fields /\ fields["source"] = source
    BY <2>2 DEF Spread
  <2> QED  BY <1>7, <2>1, <2>2, <2>3, Tags DEF Get, Has, Keys
<1>11. Get(r, "parameters") = Get(sourced, "parameters") /\ r.map["source"] = source
  <2>1. CASE r = sourced
    BY <1>10, <2>1
  <2>2. CASE r # sourced
    <3>1. \E x : r = Merged(sourced, Map([pagination |-> x]))
      BY <1>2, <1>9, <2>2 DEF ResolvedPages
    <3>2. PICK x : r = Merged(sourced, Map([pagination |-> x]))
      BY <3>1
    <3>3. r = Map(Spread(sourced.map, [pagination |-> x]))
      BY <3>2, Tags DEF Merged
    <3>4. PICK fields : fields = Spread(sourced.map, [pagination |-> x])
      OBVIOUS
    <3>5. \A k \in {"parameters", "source"} : /\ k \in DOMAIN fields <=> k \in DOMAIN sourced.map
                                              /\ k \in DOMAIN sourced.map => fields[k] = sourced.map[k]
      BY <3>4 DEF Spread
    <3> QED  BY <1>10, <3>3, <3>4, <3>5, Tags DEF Get, Has, Keys
  <2> QED  BY <2>1, <2>2
<1> QED  BY <1>1, <1>2, <1>4, <1>5, <1>6, <1>10, <1>11

\* Resolved, a source has the URL, the headers and the body of its request.
LEMMA FieldsOfSource ==
    ASSUME NEW metric, NEW card, IsMap(Get(metric, "source")), ResolvedSource(metric, card) # Failed
    PROVE  LET source == Get(metric, "source")
               r == ResolvedSource(metric, card)
               json == Get(source, "json")
           IN  /\ IsMap(r) /\ r.map["url"] = ResolvedUrl(Get(source, "url"), metric, card) /\ r.map["url"] # Failed
               /\ Get(r, "headers") = IF Keys(Get(source, "headers")) # {}
                                      THEN Map(References(Get(source, "headers"), card.labels)) ELSE Get(source, "headers")
               /\ Get(r, "json") = IF IsMap(json) THEN Map([n \in Keys(json) |-> ResolvedJson(json.map[n], metric, card)]) ELSE json
<1>1. PICK source : source = Get(metric, "source")
  OBVIOUS
<1>2. PICK url : url = ResolvedUrl(Get(source, "url"), metric, card)
  OBVIOUS
<1>3. PICK json : json = Get(source, "json")
  OBVIOUS
<1>4. PICK request : request = ResolvedRequest(source, metric, card)
  OBVIOUS
<1>5. PICK auth : auth = ResolvedAuthentication(Get(source, "authentication"), metric, card)
  OBVIOUS
<1>6. PICK r : r = ResolvedSource(metric, card)
  OBVIOUS
<1>7. r = SourceWith(source, card.labels, request, auth)
  BY <1>1, <1>4, <1>5, <1>6 DEF ResolvedSource
<1>8. request # Failed /\ auth # Failed
  BY <1>6, <1>7 DEF SourceWith
<1>9. PICK json2 : json2 = Map([n \in Keys(json) |-> ResolvedJson(json.map[n], metric, card)])
  OBVIOUS
<1>10. PICK body : body = IF IsMap(json) THEN [json |-> json2] ELSE <<>>
  OBVIOUS
<1>11. PICK headers : headers = Map(References(Get(source, "headers"), card.labels))
  OBVIOUS
<1>12. PICK references : references = [f \in {g \in {"headers", "query", "form"} : Keys(Get(source, g)) # {}} |->
                            Map(References(Get(source, f), card.labels))]
  OBVIOUS
<1>13. url # Failed /\ request = Map(Spread(source.map, Spread(body, Spread(references, [url |-> url]))))
  BY <1>2, <1>3, <1>4, <1>8, <1>9, <1>10, <1>12 DEF ResolvedRequest
<1>14. PICK fields : fields = Spread(source.map, Spread(body, Spread(references, [url |-> url])))
  OBVIOUS
<1>15. \E events, initial, authentication :
          /\ DOMAIN events \subseteq {"socket"} /\ DOMAIN initial \subseteq {"initial"} /\ DOMAIN authentication \subseteq {"authentication"}
          /\ r = Map(Spread(request.map, Spread(events, Spread(initial, authentication))))
  <2>1. PICK query : query = References(Get(Get(source, "initial"), "query"), card.labels)
    OBVIOUS
  <2>2. PICK authentication : authentication = IF auth = Absent THEN <<>> ELSE [authentication |-> auth]
    OBVIOUS
  <2>3. PICK initial : initial = IF DOMAIN query = {} THEN <<>> ELSE [initial |-> Map([query |-> Map(query)])]
    OBVIOUS
  <2>4. PICK events : events = IF Has(source, "socket") THEN [socket |-> ResolvedSocket(source.map["socket"], card.labels)] ELSE <<>>
    OBVIOUS
  <2>5. r = Map(Spread(request.map, Spread(events, Spread(initial, authentication))))
    BY <1>7, <1>8, <2>1, <2>2, <2>3, <2>4 DEF SourceWith
  <2> QED  BY <2>2, <2>3, <2>4, <2>5
<1>16. PICK all : r = Map(all) /\ \A k \in {"url", "headers", "json"} : /\ k \in DOMAIN all <=> k \in DOMAIN fields
                                                                        /\ k \in DOMAIN fields => all[k] = fields[k]
  <2>1. PICK events, initial, authentication :
          /\ DOMAIN events \subseteq {"socket"} /\ DOMAIN initial \subseteq {"initial"} /\ DOMAIN authentication \subseteq {"authentication"}
          /\ r = Map(Spread(request.map, Spread(events, Spread(initial, authentication))))
    BY <1>15
  <2>2. PICK all : all = Spread(fields, Spread(events, Spread(initial, authentication)))
    OBVIOUS
  <2>3. r = Map(all)
    BY <1>13, <1>14, <2>1, <2>2, Tags
  <2>4. \A k \in {"url", "headers", "json"} : /\ k \in DOMAIN all <=> k \in DOMAIN fields
                                              /\ k \in DOMAIN fields => all[k] = fields[k]
    BY <2>1, <2>2 DEF Spread
  <2> QED  BY <2>3, <2>4
<1>17. IsMap(source)
  BY <1>1
<1>18. "url" \in DOMAIN fields /\ fields["url"] = url
  BY <1>14 DEF Spread
<1>19. /\ Keys(Get(source, "headers")) # {} => "headers" \in DOMAIN fields /\ fields["headers"] = headers
       /\ Keys(Get(source, "headers")) = {} =>
              /\ "headers" \in DOMAIN fields <=> "headers" \in DOMAIN source.map
              /\ "headers" \in DOMAIN source.map => fields["headers"] = source.map["headers"]
  <2>1. "headers" \notin DOMAIN body
    BY <1>10
  <2>2. DOMAIN references = {g \in {"headers", "query", "form"} : Keys(Get(source, g)) # {}}
    BY <1>12
  <2>3. Keys(Get(source, "headers")) # {} => references["headers"] = headers
    BY <1>11, <1>12
  <2> QED  BY <1>14, <2>1, <2>2, <2>3 DEF Spread
<1>20. /\ IsMap(json) => "json" \in DOMAIN fields /\ fields["json"] = json2
       /\ ~IsMap(json) => /\ "json" \in DOMAIN fields <=> "json" \in DOMAIN source.map
                          /\ "json" \in DOMAIN source.map => fields["json"] = source.map["json"]
  <2>1. "json" \notin DOMAIN references
    BY <1>12
  <2>2. IF IsMap(json) THEN DOMAIN body = {"json"} /\ body["json"] = json2 ELSE DOMAIN body = {}
    BY <1>10
  <2> QED  BY <1>14, <2>1, <2>2 DEF Spread
<1>21. IsMap(r) /\ r.map = all
  BY <1>16, Tags
<1>22. IsMap(r) /\ r.map["url"] = url
  BY <1>16, <1>18, <1>21
<1>23. Get(r, "headers") = IF Keys(Get(source, "headers")) # {} THEN headers ELSE Get(source, "headers")
  BY <1>16, <1>17, <1>19, <1>21 DEF Get
<1>24. Get(r, "json") = IF IsMap(json) THEN json2 ELSE json
  BY <1>3, <1>16, <1>17, <1>20, <1>21 DEF Get
<1> QED  BY <1>1, <1>2, <1>3, <1>6, <1>9, <1>11, <1>13, <1>22, <1>23, <1>24

\* A value with its references resolved is what becomes of it once those inside it are resolved.
LEMMA ReferenceResolved ==
    ASSUME NEW v, NEW labels
    PROVE  \E inside : ResolvedReference(v, labels) = ReferenceOf(v, inside, labels)
<1>1. PICK at : ResolvedReference(v, labels) = at[MaxDepth][v] /\ ReferencesBy(at, v, labels)
  BY ReferenceLevels
<1>2. MaxDepth \in 0..MaxDepth /\ v \in Levels(v)[MaxDepth - MaxDepth]
  BY DepthAssumption, LevelsOf
<1>3. \E inside : at[MaxDepth][v] = ReferenceOf(v, inside, labels)
  BY <1>1, <1>2 DEF ReferencesBy
<1> QED  BY <1>1, <1>3

BesideLabel(v, labels) == Map(Spread(v.map, LabelValue(v, labels)))

\* What is a secret after it was resolved was one before, and has the label's value beside it.
LEMMA SecretResolved ==
    ASSUME NEW v, NEW labels, RequestValue(v), IsSecret(ResolvedReference(v, labels))
    PROVE  IsSecret(v) /\ ResolvedReference(v, labels) = BesideLabel(v, labels)
<1>1. PICK r : r = ResolvedReference(v, labels)
  OBVIOUS
<1>2. PICK inside : r = ReferenceOf(v, inside, labels)
  BY <1>1, ReferenceResolved
<1>3. IsMap(r) /\ Keys(r) \subseteq {"env", "file", "label", "value"}
  BY <1>1, Tags DEF IsSecret, Known, Keys
<1>4. IsMap(v) /\ ~(Keys(v) = {"token"} /\ IsText(v.map["token"]))
  BY <1>2, <1>3 DEF ReferenceOf
<1>5. ASSUME ~IsSecret(v) PROVE FALSE
  <2>1. r = Map([n \in Keys(v) |-> inside[v.map[n]]])
    BY <1>2, <1>4, <1>5 DEF ReferenceOf
  <2>2. Keys(r) = Keys(v)
    BY <2>1, Tags
  <2>3. ~Scalar(v)
    BY <1>4 DEF Scalar, IsMap, IsText, IsNum, IsFlag
  <2>4. ~TokenReference(v)
    <3>1. ~Has(v, "token")
      BY <1>3, <2>2 DEF Has
    <3>2. Get(v, "token") = Absent
      BY <3>1 DEF Has, Keys, Get
    <3> QED  BY <3>2, Tags DEF TokenReference, OneOf
  <2>5. SecretReference(v)
    BY <2>3, <2>4 DEF RequestValue
  <2>6. PICK k \in {"env", "file", "label"} : IsText(Get(v, k))
    BY <2>5 DEF SecretReference
  <2>7. k \in Keys(v) /\ IsText(v.map[k])
    BY <1>4, <2>6, Tags DEF Get, Keys
  <2> QED  BY <1>3, <1>4, <1>5, <2>2, <2>7 DEF IsSecret, Known, Keys
<1> QED  BY <1>1, <1>2, <1>4, <1>5 DEF ReferenceOf, BesideLabel

Stored(place, name) == IF Has(place, name.text) THEN place.map[name.text] ELSE Failed

SecretValue(r, labels, env, files) ==
    IF OneOf(Get(r, "label"), Keys(labels)) THEN labels.map[r.map["label"].text]
    ELSE IF Has(r, "value") THEN r.map["value"]
    ELSE IF Has(r, "env") THEN Stored(env, r.map["env"])
    ELSE IF Has(r, "file") THEN Stored(files, r.map["file"]) ELSE Failed

Usable(value) == IF value = Text("") THEN Failed ELSE value

\* The value of a secret that has been resolved: the label's, the one it writes, or one stored.
LEMMA SecretSent ==
    ASSUME NEW v, NEW labels, NEW r, NEW env, NEW files, NEW tokens,
           IsSecret(v), r = BesideLabel(v, labels), IsSecret(r)
    PROVE  SentValue(r, env, files, tokens) = Usable(SecretValue(r, labels, env, files))
<1>1. PICK added : added = LabelValue(v, labels)
  OBVIOUS
<1>2. PICK fields : fields = Spread(v.map, added)
  OBVIOUS
<1>3. IsMap(r) /\ r.map = fields /\ IsMap(v)
  BY <1>1, <1>2, Tags DEF IsSecret, Known, BesideLabel
<1>4. DOMAIN added \subseteq {"value"}
  BY <1>1 DEF LabelValue
<1>5. Get(r, "label") = Get(v, "label") /\ (Has(r, "label") => r.map["label"] = v.map["label"])
  BY <1>2, <1>3, <1>4 DEF Spread, Get, Has, Keys
<1>6. OneOf(Get(r, "label"), Keys(labels)) => Has(r, "value") /\ r.map["value"] = labels.map[r.map["label"].text]
  <2> SUFFICES ASSUME OneOf(Get(r, "label"), Keys(labels))
               PROVE  Has(r, "value") /\ r.map["value"] = labels.map[r.map["label"].text]
    OBVIOUS
  <2>1. added = [value |-> labels.map[v.map["label"].text]]
    BY <1>1, <1>5 DEF LabelValue
  <2>2. Has(r, "label")
    BY <1>3, Tags DEF OneOf, Get, Has, Keys
  <2>3. r.map["label"] = v.map["label"]
    BY <1>5, <2>2
  <2>4. "value" \in DOMAIN fields /\ fields["value"] = labels.map[v.map["label"].text]
    BY <1>2, <2>1 DEF Spread
  <2> QED  BY <1>3, <2>3, <2>4 DEF Has, Keys
<1>7. ~TokenReference(r)
  <2>1. ~Has(r, "token")
    BY DEF IsSecret, Known, Has, Keys
  <2>2. Get(r, "token") = Absent
    BY <2>1 DEF Has, Keys, Get
  <2> QED  BY <2>2, Tags DEF TokenReference, OneOf
<1>8. PICK secret : secret = IF Has(r, "value") THEN r.map["value"]
                             ELSE IF Has(r, "env") THEN Stored(env, r.map["env"])
                             ELSE IF Has(r, "file") THEN Stored(files, r.map["file"]) ELSE Failed
  OBVIOUS
<1>9. SentValue(r, env, files, tokens) = IF secret = Text("") THEN Failed ELSE secret
  BY <1>7, <1>8 DEF SentValue, Stored
<1> QED  BY <1>6, <1>8, <1>9 DEF SecretValue, Usable

\* Headers that have been sent, or not.
LEMMA HeadersSent ==
    ASSUME NEW source, NEW env, NEW files, NEW tokens, NEW n \in Keys(Get(source, "headers"))
    PROVE  LET sent == SentRequest(source, env, files, tokens)
               value == SentValue(Get(source, "headers").map[n], env, files, tokens)
           IN  IF value = Failed THEN sent = Failed ELSE sent # Failed => sent.map["headers"].map[n] = value
<1>1. PICK headers : headers = Get(source, "headers")
  OBVIOUS
<1>2. PICK values : values = [j \in Keys(headers) |-> SentValue(headers.map[j], env, files, tokens)]
  OBVIOUS
<1>3. PICK sent : sent = SentRequest(source, env, files, tokens)
  OBVIOUS
<1>4. SentValues(headers, env, files, tokens) = Whole(values)
  BY <1>2 DEF SentValues
<1>5. \E query, form, json, credentials, url :
          sent = Whole([headers |-> Whole(values), query |-> query, form |-> form, json |-> json,
                        credentials |-> credentials, url |-> url])
  BY <1>1, <1>3, <1>4 DEF SentRequest
<1>6. PICK query, form, json, credentials, url :
          sent = Whole([headers |-> Whole(values), query |-> query, form |-> form, json |-> json,
                        credentials |-> credentials, url |-> url])
  BY <1>5
<1>7. PICK parts : parts = [headers |-> Whole(values), query |-> query, form |-> form, json |-> json,
                            credentials |-> credentials, url |-> url]
  OBVIOUS
<1>8. sent = Whole(parts) /\ "headers" \in DOMAIN parts /\ parts["headers"] = Whole(values)
  BY <1>6, <1>7
<1>9. n \in DOMAIN values /\ values[n] = SentValue(headers.map[n], env, files, tokens)
  BY <1>1, <1>2
<1>10. values[n] = Failed => sent = Failed
  BY <1>8, <1>9 DEF Whole
<1>11. sent # Failed => sent = Map(parts) /\ Whole(values) # Failed
  BY <1>8 DEF Whole
<1>12. Whole(values) # Failed => Whole(values) = Map(values)
  BY DEF Whole
<1> QED  BY <1>1, <1>3, <1>8, <1>9, <1>10, <1>11, <1>12, Tags

LEMMA SourceAsLabelled ==
    ASSUME NEW metric, NEW card, IsMap(Get(metric, "source")), ResolvedSource(metric, card) # Failed,
           Opt(Get(metric, "source"), "headers", Headers)
    PROVE  LET source == ResolvedSource(metric, card) IN
           SentAsLabelled(source, card.labels, SentRequest(source, Variables, Files, Map(<<>>)))
<1>1. PICK source : source = ResolvedSource(metric, card)
  OBVIOUS
<1>2. PICK labels : labels = card.labels
  OBVIOUS
<1>3. PICK sent : sent = SentRequest(source, Variables, Files, Map(<<>>))
  OBVIOUS
<1>4. PICK written : written = Get(Get(metric, "source"), "headers")
  OBVIOUS
<1>5. PICK headers : headers = Get(source, "headers")
  OBVIOUS
<1>6. IsMap(source) /\ headers = IF Keys(written) # {} THEN Map(References(written, labels)) ELSE written
  BY <1>1, <1>2, <1>4, <1>5, FieldsOfSource
<1>7. ASSUME NEW n \in Keys(headers), IsSecret(headers.map[n])
      PROVE  LET r == headers.map[n]
                 value == SecretValue(r, labels, Variables, Files)
             IN  IF value \in {Failed, Text("")} THEN sent = Failed
                 ELSE sent # Failed => sent.map["headers"].map[n] = value
  <2>1. PICK r : r = headers.map[n]
    OBVIOUS
  <2>2. PICK v : v = written.map[n]
    OBVIOUS
  <2>3. n \in Keys(written) /\ headers = Map(References(written, labels))
    <3>1. Keys(written) # {}
      BY <1>6, <1>7
    <3> QED  BY <1>6, <1>7, <3>1, Tags DEF References
  <2>4. r = ResolvedReference(v, labels)
    BY <2>1, <2>2, <2>3, Tags DEF References
  <2>5. RequestValue(v)
    <3>1. written # Absent
      BY <2>3, Tags
    <3> QED  BY <1>4, <2>2, <2>3, <3>1 DEF Opt, Headers
  <2>6. IsSecret(v) /\ r = BesideLabel(v, labels)
    BY <1>7, <2>1, <2>4, <2>5, SecretResolved
  <2>7. PICK value : value = SecretValue(r, labels, Variables, Files)
    OBVIOUS
  <2>8. PICK value2 : value2 = SentValue(r, Variables, Files, Map(<<>>))
    OBVIOUS
  <2>9. value2 = IF value = Text("") THEN Failed ELSE value
    <3>1. IsSecret(r)
      BY <1>7, <2>1
    <3>2. value2 = Usable(value)
      BY <2>6, <2>7, <2>8, <3>1, SecretSent
    <3> QED  BY <3>2 DEF Usable
  <2>10. IF value2 = Failed THEN sent = Failed ELSE sent # Failed => sent.map["headers"].map[n] = value2
    BY <1>3, <1>5, <2>1, <2>8, HeadersSent
  <2> QED  BY <2>1, <2>7, <2>9, <2>10
<1>8. \A n \in Keys(headers) : source.map["headers"].map[n] = headers.map[n]
  BY <1>5, <1>6, Tags DEF Get
<1>9. SentAsLabelled(source, labels, sent)
  BY <1>5, <1>7, <1>8 DEF SentAsLabelled, SecretValue, Stored
<1> QED  BY <1>1, <1>2, <1>3, <1>9

(* A credential is the one of the container's label where it has one, else *)
(* what the configuration writes, the environment or the file, and a       *)
(* request that lacks one is not sent, for every file and its metrics,     *)
(* labels and environment (custom-metric-references.ts:33).                *)
THEOREM CredentialsByLabels == Spec => []CredentialsPreferLabels
<1>1. WorldInv => CredentialsPreferLabels
  <2> SUFFICES ASSUME WorldInv, Ready, NEW a \in Askable
               PROVE  LET source == a.metric.map["source"] IN
                      SentAsLabelled(source, a.labels, SentRequest(source, Variables, Files, Map(<<>>)))
    BY DEF CredentialsPreferLabels
  <2>1. PICK c \in world.containers : \E k, m, url, sources, inputs :
                /\ Readable(m) /\ a.labels = c.labels /\ \A n \in DOMAIN inputs : Scalar(inputs[n])
                /\ a.metric = ResolvedMetric(k, Built(m), url, sources, c.labels, inputs) /\ a.metric # Failed
    BY AskableResolved
  <2>2. PICK k, m, url, sources, inputs :
                /\ Readable(m) /\ a.labels = c.labels /\ \A n \in DOMAIN inputs : Scalar(inputs[n])
                /\ a.metric = ResolvedMetric(k, Built(m), url, sources, c.labels, inputs) /\ a.metric # Failed
    BY <2>1
  <2>3. PICK metric : metric = Built(m)
    OBVIOUS
  <2>4. PICK card : card = CardOf(k, metric, url, sources, c.labels, inputs)
    OBVIOUS
  <2>5. IsMap(metric) /\ IsMap(Get(metric, "source")) /\ Opt(Get(metric, "source"), "headers", Headers)
    BY <2>2, <2>3, SourceOfReadable
  <2>6. a.metric.map["source"] = ResolvedSource(metric, card) /\ ResolvedSource(metric, card) # Failed
    BY <2>2, <2>3, <2>4, <2>5, PartsOfResolved
  <2>7. card.labels = a.labels
    BY <2>2, <2>4 DEF CardOf
  <2> QED  BY <2>5, <2>6, <2>7, SourceAsLabelled
<1> QED  BY <1>1, WorldKept, PTL

Kinless(x) == Keys(x) = {}

\* Nothing in a scalar or in a list of texts has keys.
LEMMA LevelsOfScalar ==
    ASSUME NEW w, Scalar(w), NEW e \in 0..MaxDepth, NEW x \in Levels(w)[e]
    PROVE  Kinless(x)
<1>1. ~IsMap(w) /\ ~IsList(w)
  BY DEF Scalar, IsText, IsNum, IsFlag, IsMap, IsList
<1>2. Inside(w) = {} /\ Keys(w) = {}
  BY <1>1 DEF Inside, Keys
<1>3. CASE e = 0
  BY <1>2, <1>3, LevelsOf DEF Kinless
<1>4. CASE e # 0
  <2>1. e \in 1..MaxDepth
    BY <1>4, DepthAssumption
  <2>2. \E q \in Inside(w) : x \in Levels(q)[e - 1]
    BY <2>1, LevelWithin
  <2> QED  BY <1>2, <2>2
<1> QED  BY <1>3, <1>4

Plain(w) == Scalar(w) \/ (IsList(w) /\ \A i \in DOMAIN w.list : IsText(w.list[i]))

LEMMA LevelsOfPlain ==
    ASSUME NEW w, Plain(w), NEW e \in 0..MaxDepth, NEW x \in Levels(w)[e]
    PROVE  Kinless(x)
<1>1. CASE Scalar(w)
  BY <1>1, LevelsOfScalar
<1>2. CASE IsList(w) /\ \A i \in DOMAIN w.list : IsText(w.list[i])
  <2>1. Keys(w) = {} /\ \A q \in Inside(w) : Scalar(q)
    BY <1>2 DEF Inside, Keys, Scalar, IsMap, IsList
  <2>2. CASE e = 0
    BY <2>1, <2>2, LevelsOf DEF Kinless
  <2>3. CASE e # 0
    <3>1. e \in 1..MaxDepth /\ e - 1 \in 0..MaxDepth
      BY <2>3, DepthAssumption
    <3>2. PICK q \in Inside(w) : x \in Levels(q)[e - 1]
      BY <3>1, LevelWithin
    <3> QED  BY <2>1, <3>1, <3>2, LevelsOfScalar
  <2> QED  BY <2>2, <2>3
<1> QED  BY <1>1, <1>2 DEF Plain

JsonInputs(metric) ==
    LET parameters == Get(metric, "parameters") IN {n \in Keys(parameters) : Get(parameters.map[n], "type") = Text("json_value")}

NamesInput(x, metric) == Keys(x) = {"parameter"} /\ OneOf(x.map["parameter"], JsonInputs(metric))

\* The inputs and labels that a body is filled from.
FilledFrom(metric, card) ==
    /\ JsonInputs(metric) \subseteq DOMAIN card.values
    /\ \A n \in DOMAIN card.values : Plain(card.values[n])
    /\ \A l \in Keys(card.labels) : Plain(card.labels.map[l])

LEMMA LabelValuePlain ==
    ASSUME NEW p, NEW metric, NEW card, FilledFrom(metric, card)
    PROVE  /\ DOMAIN LabelValue(p, card.labels) \subseteq {"value"}
           /\ \A n \in DOMAIN LabelValue(p, card.labels) : Plain(LabelValue(p, card.labels)[n])
<1>1. CASE IsSecret(p) /\ OneOf(Get(p, "label"), Keys(card.labels))
  <2>1. LabelValue(p, card.labels) = [value |-> card.labels.map[p.map["label"].text]]
    BY <1>1 DEF LabelValue
  <2>2. Get(p, "label") = p.map["label"]
    BY <1>1, Tags DEF OneOf, Get
  <2>3. p.map["label"].text \in Keys(card.labels)
    BY <1>1, <2>2 DEF OneOf
  <2> QED  BY <2>1, <2>3 DEF FilledFrom
<1>2. CASE ~(IsSecret(p) /\ OneOf(Get(p, "label"), Keys(card.labels)))
  BY <1>2 DEF LabelValue
<1> QED  BY <1>1, <1>2

\* What is in a value of a body once it is resolved, given those inside it.
LEMMA JsonOfInside ==
    ASSUME NEW p, NEW inside, NEW metric, NEW card, FilledFrom(metric, card)
    PROVE  LET r == JsonOf(p, inside, metric, card) IN
           /\ IsText(r) => IsText(p)
           /\ \A y \in Inside(r) : Plain(y) \/ \E q \in Inside(p) : y = inside[q]
           /\ NamesInput(r, metric) => \E q \in Inside(p) : ~IsText(q) /\ IsText(inside[q])
<1>1. PICK r : r = JsonOf(p, inside, metric, card)
  OBVIOUS
<1>2. PICK name : name = p.map["parameter"].text
  OBVIOUS
<1>3. CASE IsList(p)
  <2>1. r = List([i \in DOMAIN p.list |-> inside[p.list[i]]])
    BY <1>1, <1>3 DEF JsonOf
  <2>2. PICK list : list = [i \in DOMAIN p.list |-> inside[p.list[i]]]
    OBVIOUS
  <2>3. IsList(r) /\ r.list = list /\ ~IsText(r) /\ ~IsMap(r) /\ ~IsMap(p)
    BY <1>3, <2>1, <2>2 DEF IsList, List, IsText, IsMap
  <2>4. \A y \in Inside(r) : \E q \in Inside(p) : y = inside[q]
    BY <1>3, <2>2, <2>3 DEF Inside, Keys
  <2>5. ~NamesInput(r, metric)
    BY <2>3 DEF NamesInput, Keys
  <2> QED  BY <1>1, <2>3, <2>4, <2>5
<1>4. CASE ~IsList(p) /\ ~IsMap(p)
  <2>1. r = p
    BY <1>1, <1>4 DEF JsonOf
  <2>2. Inside(r) = {} /\ ~NamesInput(r, metric)
    BY <1>4, <2>1 DEF Inside, NamesInput, Keys
  <2> QED  BY <1>1, <2>1, <2>2
<1>5. CASE ~IsList(p) /\ IsMap(p) /\ Keys(p) = {"parameter"} /\ IsText(p.map["parameter"])
  <2>1. CASE name \in JsonInputs(metric)
    <3>1. name \in DOMAIN card.values /\ Plain(card.values[name])
      BY <2>1 DEF FilledFrom
    <3>2. Get(Get(Get(metric, "parameters"), name), "type") = Text("json_value")
      BY <2>1, Tags DEF JsonInputs, Get, Keys
    <3>3. r = Map([__dashmarkParameterValue |-> card.values[name]])
      BY <1>1, <1>2, <1>5, <3>1, <3>2 DEF JsonOf
    <3>4. PICK fields : fields = [__dashmarkParameterValue |-> card.values[name]]
      OBVIOUS
    <3>5. IsMap(r) /\ r.map = fields /\ Keys(r) = {"__dashmarkParameterValue"} /\ ~IsText(r)
      BY <3>3, <3>4, Tags DEF IsText, IsMap
    <3>6. Inside(r) = {card.values[name]}
      BY <3>4, <3>5 DEF Inside, Keys
    <3>7. ~NamesInput(r, metric)
      BY <3>5 DEF NamesInput
    <3> QED  BY <1>1, <3>1, <3>5, <3>6, <3>7
  <2>2. CASE name \notin JsonInputs(metric)
    <3>1. r = p \/ r = Map([__dashmarkParameterValue |-> card.values[name]])
      BY <1>1, <1>2, <1>5 DEF JsonOf
    <3>2. r = p
      <4>1. CASE Get(Get(Get(metric, "parameters"), name), "type") = Text("json_value")
        <5>1. PICK parameters : parameters = Get(metric, "parameters")
          OBVIOUS
        <5>2. Get(parameters, name) # Absent
          BY <4>1, <5>1, Tags DEF Get, Text, Absent
        <5>3. name \in Keys(parameters) /\ Get(parameters, name) = parameters.map[name]
          BY <5>2, Tags DEF Get, Keys
        <5> QED  BY <2>2, <4>1, <5>1, <5>3 DEF JsonInputs
      <4>2. CASE Get(Get(Get(metric, "parameters"), name), "type") # Text("json_value")
        BY <1>1, <1>2, <1>5, <4>2 DEF JsonOf
      <4> QED  BY <4>1, <4>2
    <3>3. Inside(r) = {p.map["parameter"]} /\ Plain(p.map["parameter"])
      BY <1>5, <3>2 DEF Inside, Keys, Plain, Scalar
    <3>4. ~NamesInput(r, metric)
      BY <1>2, <2>2, <3>2 DEF NamesInput, OneOf
    <3> QED  BY <1>1, <1>5, <3>2, <3>3, <3>4 DEF IsText, IsMap
  <2> QED  BY <2>1, <2>2
<1>6. CASE ~IsList(p) /\ IsMap(p) /\ ~(Keys(p) = {"parameter"} /\ IsText(p.map["parameter"]))
  <2>1. PICK added : added = LabelValue(p, card.labels)
    OBVIOUS
  <2>2. PICK own : own = [n \in Keys(p) |-> inside[p.map[n]]]
    OBVIOUS
  <2>3. PICK fields : fields = Spread(own, added)
    OBVIOUS
  <2>4. r = Map(fields)
    BY <1>1, <1>6, <2>1, <2>2, <2>3 DEF JsonOf
  <2>5. IsMap(r) /\ r.map = fields /\ Keys(r) = DOMAIN fields /\ ~IsText(r)
    BY <2>4, Tags DEF IsText, IsMap
  <2>6. DOMAIN added \subseteq {"value"} /\ \A n \in DOMAIN added : Plain(added[n])
    BY <2>1, LabelValuePlain
  <2>7. DOMAIN fields = Keys(p) \cup DOMAIN added
    BY <2>2, <2>3 DEF Spread
  <2>8. \A n \in DOMAIN fields : IF n \in DOMAIN added THEN fields[n] = added[n] ELSE n \in Keys(p) /\ fields[n] = inside[p.map[n]]
    BY <2>2, <2>3, <2>7 DEF Spread
  <2>9. \A n \in Keys(p) : p.map[n] \in Inside(p)
    BY <1>6 DEF Inside, Keys
  <2>10. ASSUME NEW y \in Inside(r) PROVE Plain(y) \/ \E q \in Inside(p) : y = inside[q]
    <3>1. PICK n \in DOMAIN fields : y = fields[n]
      BY <2>5 DEF Inside, Keys
    <3> QED  BY <2>6, <2>8, <2>9, <3>1
  <2>11. ASSUME NamesInput(r, metric) PROVE \E q \in Inside(p) : ~IsText(q) /\ IsText(inside[q])
    <3>1. DOMAIN fields = {"parameter"} /\ IsText(fields["parameter"])
      BY <2>5, <2>11 DEF NamesInput, OneOf
    <3>2. "parameter" \notin DOMAIN added /\ DOMAIN added = {}
      BY <2>6, <2>7, <3>1
    <3>3. Keys(p) = {"parameter"} /\ fields["parameter"] = inside[p.map["parameter"]]
      BY <2>7, <2>8, <3>1, <3>2
    <3> QED  BY <1>6, <2>9, <3>1, <3>3
  <2> QED  BY <1>1, <2>5, <2>10, <2>11
<1> QED  BY <1>3, <1>4, <1>5, <1>6

\* However deep, no value of a body names an input once it is resolved.
LEMMA JsonFilled ==
    ASSUME NEW v, NEW metric, NEW card, FilledFrom(metric, card), NEW x \in Parts(ResolvedJson(v, metric, card))
    PROVE  ~NamesInput(x, metric)
<1>1. PICK at : ResolvedJson(v, metric, card) = at[MaxDepth][v] /\ JsonBy(at, v, metric, card)
  BY JsonLevels
<1> DEFINE Clean(d) == \A p \in Levels(v)[MaxDepth - d] : \A e \in 0..d : \A y \in Levels(at[d][p])[e] : ~NamesInput(y, metric)
           Texts(d) == \A p \in Levels(v)[MaxDepth - d] : IsText(at[d][p]) => IsText(p)
           Reached == {d \in Nat : d \in 0..MaxDepth => Clean(d)}
<1>2. ASSUME NEW d \in 0..MaxDepth PROVE Texts(d)
  <2>1. ASSUME NEW p \in Levels(v)[MaxDepth - d], IsText(at[d][p]) PROVE IsText(p)
    <3>1. PICK inside : at[d][p] = JsonOf(p, inside, metric, card)
      BY <1>1 DEF JsonBy
    <3> QED  BY <2>1, <3>1, JsonOfInside
  <2> QED  BY <2>1
<1>3. ASSUME NEW d \in 0..MaxDepth, d # 0 => Clean(d - 1) PROVE Clean(d)
  <2> SUFFICES ASSUME NEW p \in Levels(v)[MaxDepth - d], NEW e \in 0..d, NEW y \in Levels(at[d][p])[e]
               PROVE  ~NamesInput(y, metric)
    OBVIOUS
  <2>1. PICK inside : /\ at[d][p] = JsonOf(p, inside, metric, card)
                      /\ \A q \in Inside(p) : inside[q] = IF d = 0 THEN q ELSE at[d - 1][q]
    BY <1>1 DEF JsonBy
  <2>2. PICK r : r = at[d][p]
    OBVIOUS
  <2>3. /\ \A z \in Inside(r) : Plain(z) \/ \E q \in Inside(p) : z = inside[q]
        /\ NamesInput(r, metric) => \E q \in Inside(p) : ~IsText(q) /\ IsText(inside[q])
    BY <2>1, <2>2, JsonOfInside
  <2>4. d # 0 => \A q \in Inside(p) : q \in Levels(v)[MaxDepth - (d - 1)] /\ d - 1 \in 0..MaxDepth
    <3>1. d # 0 => d \in 1..MaxDepth /\ d - 1 \in 0..MaxDepth
      BY DepthAssumption
    <3> QED  BY <3>1, LevelBelow
  <2>5. CASE e = 0
    <3>1. y = r
      BY <2>2, <2>5, LevelsOf
    <3>2. ASSUME NEW q \in Inside(p), ~IsText(q), IsText(inside[q]) PROVE FALSE
      <4>1. CASE d = 0
        BY <2>1, <3>2, <4>1
      <4>2. CASE d # 0
        <5>1. inside[q] = at[d - 1][q] /\ q \in Levels(v)[MaxDepth - (d - 1)] /\ d - 1 \in 0..MaxDepth
          BY <2>1, <2>4, <4>2
        <5>2. Texts(d - 1)
          BY <1>2, <5>1
        <5> QED  BY <3>2, <5>1, <5>2
      <4> QED  BY <4>1, <4>2
    <3> QED  BY <2>3, <3>1, <3>2
  <2>6. CASE e # 0
    <3>1. e \in 1..MaxDepth /\ e - 1 \in 0..MaxDepth /\ d # 0 /\ e - 1 \in 0..(d - 1)
      BY <2>6, DepthAssumption
    <3>2. PICK z \in Inside(r) : y \in Levels(z)[e - 1]
      BY <2>2, <3>1, LevelWithin
    <3>3. CASE Plain(z)
      BY <3>1, <3>2, <3>3, LevelsOfPlain DEF Kinless, NamesInput
    <3>4. CASE \E q \in Inside(p) : z = inside[q]
      <4>1. PICK q \in Inside(p) : z = inside[q]
        BY <3>4
      <4>2. z = at[d - 1][q] /\ q \in Levels(v)[MaxDepth - (d - 1)]
        BY <2>1, <2>4, <3>1, <4>1
      <4>3. Clean(d - 1)
        BY <1>3, <3>1
      <4> QED  BY <3>1, <3>2, <4>2, <4>3
    <3> QED  BY <2>3, <3>3, <3>4
  <2> QED  BY <2>5, <2>6
<1>4. MaxDepth \in Nat
  BY DepthAssumption
<1> HIDE DEF Clean
<1>5. 0 \in Reached
  BY <1>3, <1>4
<1>6. ASSUME NEW d \in Nat, d \in Reached PROVE d + 1 \in Reached
  <2>1. d + 1 \in 0..MaxDepth => d \in 0..MaxDepth /\ (d + 1) - 1 = d
    BY <1>4
  <2>2. d + 1 \in 0..MaxDepth => Clean(d + 1)
    BY <1>3, <1>6, <2>1
  <2> QED  BY <2>2
<1> HIDE DEF Reached
<1>7. MaxDepth \in Reached
  BY <1>4, <1>5, <1>6, SetInduction
<1>8. Clean(MaxDepth)
  BY <1>4, <1>7 DEF Reached
<1>9. v \in Levels(v)[MaxDepth - MaxDepth]
  BY <1>4, LevelsOf
<1>10. PICK e \in 0..MaxDepth : x \in Levels(at[MaxDepth][v])[e]
  BY <1>1 DEF Parts
<1> QED  BY <1>8, <1>9, <1>10 DEF Clean

\* All inputs of a metric are given, and none is left in its URL.
LEMMA InputsGiven ==
    ASSUME NEW key, NEW metric, NEW labels, NEW inputs,
           NEW values, values = ParameterValues(key, metric, labels, inputs), values # Failed,
           \A n \in DOMAIN inputs : Scalar(inputs[n]), \A l \in Keys(labels) : Plain(labels.map[l])
    PROVE  /\ Keys(Get(metric, "parameters")) \subseteq DOMAIN values
           /\ \A n \in DOMAIN values : Plain(values[n])
           /\ \A text : \A n \in (DOMAIN Filling(text, metric, values)) \cap Keys(Get(metric, "parameters")) :
                Filling(text, metric, values)[n] # [left |-> n]
<1>1. PICK declared : declared = Keys(Get(metric, "parameters"))
  OBVIOUS
<1>2. \E labelled, given : /\ values = Spread(inputs, given) /\ declared \subseteq DOMAIN values
                           /\ DOMAIN given = labelled /\ \A n \in labelled : \E l \in Keys(labels) : given[n] = labels.map[l]
  <2>1. PICK labelled : labelled = {n \in declared : Has(labels, InputLabel(key, n))}
    OBVIOUS
  <2>2. PICK given : given = [n \in labelled |-> labels.map[InputLabel(key, n)]]
    OBVIOUS
  <2>3. PICK all : all = Spread(inputs, given)
    OBVIOUS
  <2>4. values = IF declared \subseteq DOMAIN all THEN all ELSE Failed
    BY <1>1, <2>1, <2>2, <2>3 DEF ParameterValues
  <2>5. \A n \in labelled : InputLabel(key, n) \in Keys(labels) /\ given[n] = labels.map[InputLabel(key, n)]
    BY <2>1, <2>2 DEF Has
  <2>6. DOMAIN given = labelled
    BY <2>2
  <2> QED  BY <2>3, <2>4, <2>5, <2>6
<1>3. PICK labelled, given : /\ values = Spread(inputs, given) /\ declared \subseteq DOMAIN values
                             /\ DOMAIN given = labelled /\ \A n \in labelled : \E l \in Keys(labels) : given[n] = labels.map[l]
  BY <1>2
<1>4. \A n \in DOMAIN values : Plain(values[n])
  BY <1>3 DEF Spread, Plain
<1>5. ASSUME NEW text, NEW n \in DOMAIN Filling(text, metric, values), n \in declared
      PROVE  Filling(text, metric, values)[n] # [left |-> n]
  <2>1. Filling(text, metric, values)[n] = Formatted(metric, n, values)
    BY <1>5 DEF Filling
  <2>2. Has(Get(metric, "parameters"), n) /\ n \in DOMAIN values
    BY <1>1, <1>3, <1>5 DEF Has
  <2>3. PICK transform : Formatted(metric, n, values) = [input |-> values[n], transform |-> transform]
    BY <2>2 DEF Formatted
  <2> QED  BY <2>1, <2>3
<1> QED  BY <1>1, <1>3, <1>4, <1>5

(* A metric is asked for with all of its inputs: no name in braces of its  *)
(* own is left in a URL, and none in a field of a body, however deep, for  *)
(* every metric, configuration and labels                                  *)
(* (metric-source-resolution.ts:86, 116).                                  *)
THEOREM InputsFilled == Spec => []NothingSentUnfilled
<1>1. WorldInv => NothingSentUnfilled
  <2> SUFFICES ASSUME WorldInv, Ready, NEW a \in Askable
               PROVE  LET source == a.metric.map["source"]
                          body == Get(source, "json")
                          typed == {n \in Keys(Get(a.metric, "parameters")) : Get(a.metric.map["parameters"].map[n], "type") = Text("json_value")}
                      IN  /\ \A n \in (DOMAIN source.map["url"].filling) \cap Keys(Get(a.metric, "parameters")) :
                                  source.map["url"].filling[n] # [left |-> n]
                          /\ \A f \in Keys(body) : \A v \in Parts(body.map[f]) : Keys(v) = {"parameter"} => ~OneOf(v.map["parameter"], typed)
    BY DEF NothingSentUnfilled
  <2>1. PICK c \in world.containers : \E k, m, url, sources, inputs :
                /\ Readable(m) /\ a.labels = c.labels /\ \A n \in DOMAIN inputs : Scalar(inputs[n])
                /\ a.metric = ResolvedMetric(k, Built(m), url, sources, c.labels, inputs) /\ a.metric # Failed
    BY AskableResolved
  <2>2. PICK k, m, url, sources, inputs :
                /\ Readable(m) /\ a.labels = c.labels /\ \A n \in DOMAIN inputs : Scalar(inputs[n])
                /\ a.metric = ResolvedMetric(k, Built(m), url, sources, c.labels, inputs) /\ a.metric # Failed
    BY <2>1
  <2>3. PICK metric : metric = Built(m)
    OBVIOUS
  <2>4. PICK card : card = CardOf(k, metric, url, sources, c.labels, inputs)
    OBVIOUS
  <2>5. PICK source : source = a.metric.map["source"]
    OBVIOUS
  <2>6. PICK body : body = Get(source, "json")
    OBVIOUS
  <2>7. PICK parameters : parameters = Get(metric, "parameters")
    OBVIOUS
  <2>8. IsMap(metric) /\ IsMap(Get(metric, "source"))
    BY <2>2, <2>3, SourceOfReadable
  <2>9. /\ card.values # Failed /\ ResolvedSource(metric, card) # Failed
        /\ source = ResolvedSource(metric, card) /\ Get(a.metric, "parameters") = parameters
    BY <2>2, <2>3, <2>4, <2>5, <2>7, <2>8, PartsOfResolved
  <2>10. \A l \in Keys(c.labels) : Plain(c.labels.map[l])
    <3>1. PICK w \in Worlds : Accounted(w)
      BY ReadyAccounted
    <3>2. c \in w.containers
      BY <3>1 DEF Accounted
    <3>3. \A l \in Keys(c.labels) : IsStringList(c.labels.map[l])
      BY <3>2, ContainersAssumption
    <3> QED  BY <3>3 DEF IsStringList, Plain, Scalar
  <2>11. /\ Keys(parameters) \subseteq DOMAIN card.values
         /\ \A n \in DOMAIN card.values : Plain(card.values[n])
         /\ \A text : \A n \in (DOMAIN Filling(text, metric, card.values)) \cap Keys(parameters) :
                Filling(text, metric, card.values)[n] # [left |-> n]
    <3>1. PICK labels : labels = c.labels
      OBVIOUS
    <3>2. PICK values : values = card.values
      OBVIOUS
    <3>3. values = ParameterValues(k, metric, labels, inputs) /\ values # Failed
      BY <2>4, <2>9, <3>1, <3>2 DEF CardOf
    <3>4. /\ \A n \in DOMAIN inputs : Scalar(inputs[n])
          /\ \A l \in Keys(labels) : Plain(labels.map[l])
      BY <2>2, <2>10, <3>1
    <3> QED  BY <2>7, <3>2, <3>3, <3>4, InputsGiven
  <2>12. FilledFrom(metric, card)
    BY <2>4, <2>7, <2>10, <2>11 DEF FilledFrom, JsonInputs, CardOf
  <2>13. ASSUME NEW n \in (DOMAIN source.map["url"].filling) \cap Keys(parameters)
         PROVE  source.map["url"].filling[n] # [left |-> n]
    <3>1. PICK written : written = Get(Get(metric, "source"), "url")
      OBVIOUS
    <3>2. source.map["url"] = ResolvedUrl(written, metric, card) /\ source.map["url"] # Failed
      BY <2>8, <2>9, <3>1, FieldsOfSource
    <3>3. source.map["url"].filling = Filling(written.text, metric, card.values)
      BY <3>2 DEF ResolvedUrl
    <3> QED  BY <2>11, <2>13, <3>3
  <2>14. ASSUME NEW f \in Keys(body), NEW v \in Parts(body.map[f]), Keys(v) = {"parameter"}
         PROVE  ~OneOf(v.map["parameter"], JsonInputs(metric))
    <3>1. PICK json : json = Get(Get(metric, "source"), "json")
      OBVIOUS
    <3>2. body = IF IsMap(json) THEN Map([n \in Keys(json) |-> ResolvedJson(json.map[n], metric, card)]) ELSE json
      BY <2>6, <2>8, <2>9, <3>1, FieldsOfSource
    <3>3. IsMap(json)
      BY <2>14, <3>2 DEF Keys
    <3>4. body.map[f] = ResolvedJson(json.map[f], metric, card)
      BY <2>14, <3>2, <3>3, Tags
    <3>5. ~NamesInput(v, metric)
      BY <2>12, <2>14, <3>4, JsonFilled
    <3> QED  BY <2>14, <3>5 DEF NamesInput
  <2>15. {n \in Keys(Get(a.metric, "parameters")) : Get(a.metric.map["parameters"].map[n], "type") = Text("json_value")} = JsonInputs(metric)
    <3>1. Keys(parameters) # {} => a.metric.map["parameters"] = parameters
      BY <2>9, Tags DEF Get
    <3> QED  BY <2>7, <2>9, <3>1 DEF JsonInputs
  <2> QED  BY <2>5, <2>6, <2>9, <2>13, <2>14, <2>15
<1> QED  BY <1>1, WorldKept, PTL


-----------------------------------------------------------------------------
(* The browser understands what it is sent.                                *)

MessageBy(at, v) ==
    \A d \in 0..MaxDepth : \A p \in Levels(v)[MaxDepth - d] : \E inside :
        /\ at[d][p] = JsonText(p, inside)
        /\ \A q \in Inside(p) : inside[q] = IF d = 0 THEN q ELSE at[d - 1][q]

\* So is the JSON of a message.
LEMMA MessageLevels ==
    ASSUME NEW v
    PROVE  \E at : AsJson(v) = at[MaxDepth][v] /\ MessageBy(at, v)
<1> DEFINE made(d, below) == [p \in Levels(v)[MaxDepth - d] |->
                                 JsonText(p, IF d = 0 THEN [q \in Inside(p) |-> q] ELSE below)]
           Upto(k, f) == f = [d \in 0..k |-> made(d, f[d - 1])]
           Reached == {k \in Nat : \E f : Upto(k, f)}
<1>1. MaxDepth \in Nat
  BY DepthAssumption
<1>2. \A x, y : made(0, x) = made(0, y)
  OBVIOUS
<1>3. \E f : Upto(MaxDepth, f)
  <2> HIDE DEF made
  <2>1. 0 \in Reached
    <3>1. Upto(0, [d \in 0..0 |-> made(0, 0)])
      <4> DEFINE g == [d \in 0..0 |-> made(0, 0)]
      <4>1. \A d \in 0..0 : g[d] = made(d, g[d - 1])
        BY <1>2
      <4>2. g = [d \in 0..0 |-> made(d, g[d - 1])]
        BY <1>2
      <4> QED  BY <4>2
    <3> QED  BY <3>1
  <2>2. ASSUME NEW k \in Nat, k \in Reached PROVE k + 1 \in Reached
    <3>1. PICK f : Upto(k, f)
      BY <2>2
    <3> DEFINE g == [d \in 0..(k + 1) |-> IF d = k + 1 THEN made(k + 1, f[k]) ELSE f[d]]
    <3>2. \A d \in 0..k : f[d] = made(d, f[d - 1])
      BY <3>1
    <3>3. ASSUME NEW d \in 0..(k + 1) PROVE g[d] = made(d, g[d - 1])
      <4>1. CASE d = k + 1
        <5>1. g[d] = made(k + 1, f[k]) /\ d - 1 = k /\ k \in 0..(k + 1) /\ g[k] = f[k]
          BY <4>1
        <5> QED  BY <4>1, <5>1
      <4>2. CASE d # k + 1 /\ d # 0
        <5>1. d \in 0..k /\ d - 1 \in 0..k /\ g[d] = f[d] /\ g[d - 1] = f[d - 1]
          BY <4>2
        <5> QED  BY <3>2, <5>1
      <4>3. CASE d = 0
        <5>1. g[d] = f[d] /\ d \in 0..k
          BY <4>3
        <5> QED  BY <1>2, <3>2, <4>3, <5>1
      <4> QED  BY <4>1, <4>2, <4>3
    <3>4. g = [d \in 0..(k + 1) |-> made(d, g[d - 1])]
      <4>1. g = [d \in 0..(k + 1) |-> g[d]]
        OBVIOUS
      <4> HIDE DEF g
      <4> QED  BY <3>3, <4>1
    <3> HIDE DEF g
    <3>5. Upto(k + 1, g) /\ k + 1 \in Nat
      BY <3>4
    <3> QED  BY <3>5
  <2> HIDE DEF Reached
  <2>3. MaxDepth \in Reached
    BY <1>1, <2>1, <2>2, SetInduction
  <2> QED  BY <2>3 DEF Reached
<1>4. PICK at : Upto(MaxDepth, at) /\ AsJson(v) = at[MaxDepth][v]
  BY <1>3 DEF AsJson, Rebuilt, Upwards
<1>5. ASSUME NEW d \in 0..MaxDepth PROVE at[d] = made(d, at[d - 1])
  <2> HIDE DEF made
  <2> QED  BY <1>4
<1>6. ASSUME NEW d \in 0..MaxDepth, NEW p \in Levels(v)[MaxDepth - d]
      PROVE  \E inside : /\ at[d][p] = JsonText(p, inside)
                         /\ \A q \in Inside(p) : inside[q] = IF d = 0 THEN q ELSE at[d - 1][q]
  <2>1. PICK inside : inside = IF d = 0 THEN [q \in Inside(p) |-> q] ELSE at[d - 1]
    OBVIOUS
  <2>2. made(d, at[d - 1])[p] = JsonText(p, inside)
    BY <2>1
  <2>3. \A q \in Inside(p) : inside[q] = IF d = 0 THEN q ELSE at[d - 1][q]
    BY <2>1
  <2> HIDE DEF made
  <2> QED  BY <1>5, <2>2, <2>3
<1>7. MessageBy(at, v)
  BY <1>6 DEF MessageBy
<1> QED  BY <1>4, <1>7

\* What JSON leaves as it is.
Simple(x) == IsText(x) \/ IsNum(x) \/ IsFlag(x) \/ x \in {Null, Absent}

\* `sent` is the JSON of every part of a message, by its level.
SentAs(sent, v) ==
    \A k \in 0..7 : \A p \in Levels(v)[k] :
        /\ IsMap(p) => /\ IsMap(sent[k][p])
                       /\ \A f : Has(sent[k][p], f) => Has(p, f)
                       /\ \A f : Get(p, f) = Absent => Get(sent[k][p], f) = Absent
                       /\ \A f : Get(p, f) # Absent =>
                                    /\ Get(p, f) \in Levels(v)[k + 1]
                                    /\ Has(sent[k][p], f) /\ Get(sent[k][p], f) = sent[k + 1][Get(p, f)]
        /\ IsList(p) => /\ IsList(sent[k][p]) /\ DOMAIN sent[k][p].list = DOMAIN p.list
                        /\ \A i \in DOMAIN p.list :
                                p.list[i] \in Levels(v)[k + 1] /\ sent[k][p].list[i] = sent[k + 1][p.list[i]]
        /\ Simple(p) => sent[k][p] = p

LEMMA PartsSent ==
    ASSUME NEW v
    PROVE  \E sent : AsJson(v) = sent[0][v] /\ v \in Levels(v)[0] /\ SentAs(sent, v)
<1>1. PICK at : AsJson(v) = at[MaxDepth][v] /\ MessageBy(at, v)
  BY MessageLevels
<1>2. PICK sent : sent = [k \in 0..MaxDepth |-> at[MaxDepth - k]]
  OBVIOUS
<1>3. ASSUME NEW k \in 0..7, NEW p \in Levels(v)[k]
      PROVE  \E inside : /\ sent[k][p] = JsonText(p, inside)
                         /\ \A q \in Inside(p) : inside[q] = sent[k + 1][q] /\ q \in Levels(v)[k + 1]
  <2>1. PICK d \in 0..MaxDepth : d = MaxDepth - k /\ d # 0 /\ MaxDepth - d = k /\ d - 1 = MaxDepth - (k + 1)
    BY DepthAssumption
  <2>2. k \in 0..MaxDepth /\ k + 1 \in 0..MaxDepth /\ k + 1 \in 1..MaxDepth /\ (k + 1) - 1 = k
    BY DepthAssumption
  <2>3. sent[k] = at[d] /\ sent[k + 1] = at[d - 1]
    BY <1>2, <2>1, <2>2
  <2>4. PICK inside : at[d][p] = JsonText(p, inside) /\ \A q \in Inside(p) : inside[q] = at[d - 1][q]
    BY <1>1, <2>1 DEF MessageBy
  <2>5. \A q \in Inside(p) : q \in Levels(v)[k + 1]
    BY <2>2, LevelsOf
  <2> QED  BY <2>3, <2>4, <2>5
<1>4. ASSUME NEW k \in 0..7, NEW p \in Levels(v)[k], IsMap(p)
      PROVE  /\ IsMap(sent[k][p])
             /\ \A f : Has(sent[k][p], f) => Has(p, f)
             /\ \A f : Get(p, f) = Absent => Get(sent[k][p], f) = Absent
             /\ \A f : Get(p, f) # Absent =>
                        /\ Get(p, f) \in Levels(v)[k + 1]
                        /\ Has(sent[k][p], f) /\ Get(sent[k][p], f) = sent[k + 1][Get(p, f)]
  <2>1. PICK inside : sent[k][p] = JsonText(p, inside) /\ \A q \in Inside(p) : inside[q] = sent[k + 1][q] /\ q \in Levels(v)[k + 1]
    BY <1>3
  <2>2. p # Infinite /\ ~IsList(p)
    BY <1>4 DEF IsMap, IsList, Infinite
  <2>3. PICK y : y = sent[k][p] /\ y = Map([f \in {g \in Keys(p) : p.map[g] # Absent} |-> inside[p.map[f]]])
    BY <1>4, <2>1, <2>2 DEF JsonText
  <2>4. /\ IsMap(y) /\ Keys(y) = {g \in Keys(p) : p.map[g] # Absent}
        /\ \A f \in Keys(y) : y.map[f] = inside[p.map[f]]
    BY <2>3 DEF Map, IsMap, Keys
  <2>5. \A f \in Keys(p) : p.map[f] \in Inside(p)
    BY <1>4 DEF Inside, Keys
  <2>6. \A f : Get(p, f) # Absent => f \in Keys(p) /\ Get(p, f) = p.map[f]
    BY DEF Get, Keys
  <2>7. \A f \in Keys(p) : Get(p, f) = p.map[f]
    BY DEF Get, Keys
  <2>8. \A f \in Keys(y) : Get(y, f) = y.map[f]
    BY DEF Get, Keys
  <2>9. \A f : f \notin Keys(y) => Get(y, f) = Absent
    BY <2>4 DEF Get, Keys
  <2> QED  BY <2>1, <2>3, <2>4, <2>5, <2>6, <2>7, <2>8, <2>9 DEF Has
<1>5. ASSUME NEW k \in 0..7, NEW p \in Levels(v)[k], IsList(p)
      PROVE  /\ IsList(sent[k][p]) /\ DOMAIN sent[k][p].list = DOMAIN p.list
             /\ \A i \in DOMAIN p.list :
                    p.list[i] \in Levels(v)[k + 1] /\ sent[k][p].list[i] = sent[k + 1][p.list[i]]
  <2>1. PICK inside : sent[k][p] = JsonText(p, inside) /\ \A q \in Inside(p) : inside[q] = sent[k + 1][q] /\ q \in Levels(v)[k + 1]
    BY <1>3
  <2>2. p # Infinite /\ ~IsMap(p)
    BY <1>5 DEF IsMap, IsList, Infinite
  <2>3. sent[k][p] = List([i \in DOMAIN p.list |-> inside[p.list[i]]])
    BY <1>5, <2>1, <2>2 DEF JsonText
  <2>4. \A i \in DOMAIN p.list : p.list[i] \in Inside(p)
    BY <1>5, <2>2 DEF Inside, Keys
  <2> QED  BY <2>1, <2>3, <2>4 DEF List, IsList
<1>6. ASSUME NEW k \in 0..7, NEW p \in Levels(v)[k], Simple(p)
      PROVE  sent[k][p] = p
  <2>1. p # Infinite /\ ~IsMap(p) /\ ~IsList(p)
    BY <1>6 DEF Simple, IsMap, IsList, Infinite, IsText, IsNum, IsFlag, Null, Absent
  <2> QED  BY <1>3, <2>1 DEF JsonText
<1>7. sent[0] = at[MaxDepth] /\ v \in Levels(v)[0]
  BY <1>2, LevelsOf, DepthAssumption
<1>8. SentAs(sent, v)
  BY <1>4, <1>5, <1>6 DEF SentAs
<1> QED  BY <1>1, <1>7, <1>8

\* A simple field is sent as it is.
LEMMA FieldSent ==
    ASSUME NEW sent, NEW v, SentAs(sent, v), NEW k \in 0..6, NEW p \in Levels(v)[k], IsMap(p), NEW f, Simple(Get(p, f))
    PROVE  Get(sent[k][p], f) = Get(p, f)
<1>1. k \in 0..7 /\ k + 1 \in 0..7
  OBVIOUS
<1>2. Get(p, f) # Absent => Get(p, f) \in Levels(v)[k + 1] /\ Get(sent[k][p], f) = sent[k + 1][Get(p, f)]
  BY <1>1 DEF SentAs
<1>3. Get(p, f) = Absent => Get(sent[k][p], f) = Absent
  BY <1>1 DEF SentAs
<1>4. \A q \in Levels(v)[k + 1] : Simple(q) => sent[k + 1][q] = q
  BY <1>1 DEF SentAs
<1> QED  BY <1>2, <1>3, <1>4

\* What holds for a part of a message holds for its JSON.
LEMMA ResourcesSent ==
    ASSUME NEW sent, NEW v, SentAs(sent, v), NEW k \in 0..6, NEW p \in Levels(v)[k], IsContainerResources(p)
    PROVE  IsContainerResources(sent[k][p])
<1>1. IsMap(p) /\ IsMap(sent[k][p])
  BY DEF IsContainerResources, SentAs
<1>2. \A f \in {"cpuPercent", "memoryUsage", "memoryLimit", "receivedBytesPerSecond", "sentBytesPerSecond"} :
        Get(p, f) = Absent \/ IsNum(Get(p, f))
  BY DEF IsContainerResources, Opt
<1>3. Get(p, "networkRatePending") = Absent \/ IsFlag(Get(p, "networkRatePending"))
  BY DEF IsContainerResources, Opt
<1>4. \A f \in {"cpuPercent", "memoryUsage", "memoryLimit", "receivedBytesPerSecond", "sentBytesPerSecond", "networkRatePending"} :
        Get(sent[k][p], f) = Get(p, f)
  BY <1>1, <1>2, <1>3, FieldSent DEF Simple
<1> QED  BY <1>1, <1>2, <1>3, <1>4 DEF IsContainerResources, Opt

LEMMA ResourceSampleSent ==
    ASSUME NEW sent, NEW v, SentAs(sent, v), NEW k \in 0..6, NEW p \in Levels(v)[k], IsResourceMetricSample(p)
    PROVE  IsResourceMetricSample(sent[k][p])
<1>1. IsMap(p) /\ Simple(Get(p, "timestamp")) /\ IsContainerResources(sent[k][p])
  BY ResourcesSent DEF IsResourceMetricSample, IsContainerResources, Simple
<1>2. Get(sent[k][p], "timestamp") = Get(p, "timestamp")
  BY <1>1, FieldSent
<1> QED  BY <1>1, <1>2 DEF IsResourceMetricSample

LEMMA SampleSent ==
    ASSUME NEW sent, NEW v, SentAs(sent, v), NEW k \in 0..6, NEW p \in Levels(v)[k], IsMap(p), IsCustomMetricSample(p)
    PROVE  IsCustomMetricSample(sent[k][p])
<1>1. Simple(Get(p, "timestamp")) /\ Simple(Get(p, "value"))
  BY DEF IsCustomMetricSample, Simple
<1>2. Get(sent[k][p], "timestamp") = Get(p, "timestamp") /\ Get(sent[k][p], "value") = Get(p, "value")
  BY <1>1, FieldSent
<1> QED  BY <1>2 DEF IsCustomMetricSample

LEMMA UnitSent ==
    ASSUME NEW sent, NEW v, SentAs(sent, v), NEW k \in 0..6, NEW p \in Levels(v)[k], IsCustomMetricUnit(p)
    PROVE  IsCustomMetricUnit(sent[k][p])
<1>1. CASE IsText(p)
  <2>1. sent[k][p] = p
    BY <1>1 DEF SentAs, Simple
  <2> QED  BY <2>1
<1>2. CASE ~IsText(p)
  <2>1. IsText(Get(p, "suffix"))
    BY <1>2 DEF IsCustomMetricUnit, OneOf
  <2>2. IsMap(p)
    BY <2>1 DEF Get, IsText, Absent
  <2>3. Get(sent[k][p], "suffix") = Get(p, "suffix")
    BY <2>1, <2>2, FieldSent DEF Simple
  <2> QED  BY <2>1, <2>3 DEF IsCustomMetricUnit
<1> QED  BY <1>1, <1>2

LEMMA ErrorSent ==
    ASSUME NEW sent, NEW v, SentAs(sent, v), NEW k \in 0..6, NEW p \in Levels(v)[k], IsMetricError(p)
    PROVE  IsMetricError(sent[k][p])
<1>1. IsMap(p)
  BY DEF IsMetricError, Get, IsText, Absent
<1>2. Simple(Get(p, "key")) /\ Simple(Get(p, "code"))
  BY DEF IsMetricError, Simple, OneOf
<1>3. Get(sent[k][p], "key") = Get(p, "key") /\ Get(sent[k][p], "code") = Get(p, "code")
  BY <1>1, <1>2, FieldSent
<1> QED  BY <1>3 DEF IsMetricError

LEMMA StateSent ==
    ASSUME NEW sent, NEW v, SentAs(sent, v), NEW k \in 0..6, NEW p \in Levels(v)[k], IsMap(p), IsCustomMetricState(p)
    PROVE  IsCustomMetricState(sent[k][p])
<1>1. /\ IsText(Get(p, "value"))
      /\ Get(p, "color") = Absent \/ OneOf(Get(p, "color"), Colors)
      /\ Get(p, "valueLabel") = Absent \/ IsText(Get(p, "valueLabel"))
  BY DEF IsCustomMetricState, Opt
<1>2. Simple(Get(p, "value")) /\ Simple(Get(p, "color")) /\ Simple(Get(p, "valueLabel"))
  BY <1>1 DEF Simple, OneOf
<1>3. /\ Get(sent[k][p], "value") = Get(p, "value") /\ Get(sent[k][p], "color") = Get(p, "color")
      /\ Get(sent[k][p], "valueLabel") = Get(p, "valueLabel")
  BY <1>2, FieldSent
<1> QED  BY <1>1, <1>3 DEF IsCustomMetricState, Opt

\* The samples of a history are maps, the numbers and units of a metric are as the browser wants them.
LEMMA NumberSent ==
    ASSUME NEW sent, NEW v, SentAs(sent, v), NEW k \in 0..4, NEW p \in Levels(v)[k], IsMap(p), IsCustomMetricNumber(p)
    PROVE  IsCustomMetricNumber(sent[k][p])
<1>1. PICK y : y = sent[k][p]
  OBVIOUS
<1>2. PICK span : span = Get(p, "historyPeriodMs")
  OBVIOUS
<1>3. /\ IsNum(Get(p, "value")) /\ IsCustomMetricUnit(Get(p, "unit")) /\ OneOf(Get(p, "chart"), Charts)
      /\ Get(p, "chartGroup") = Absent \/ IsText(Get(p, "chartGroup"))
      /\ Get(p, "pending") \in {Absent, Flag(TRUE)}
      /\ IsNum(span) /\ span.num > 0
  BY <1>2 DEF IsCustomMetricNumber, Opt, OptTrue
<1>4. IsFlag(Flag(TRUE)) /\ k \in 0..6 /\ k \in 0..7 /\ k + 1 \in 0..6 /\ k + 1 \in 0..7 /\ (k + 1) + 1 \in 0..6
  BY DEF Flag, IsFlag
<1>5. \A f \in {"value", "chart", "chartGroup", "pending", "historyPeriodMs"} : Simple(Get(p, f))
  BY <1>2, <1>3, <1>4 DEF Simple, OneOf
<1>6. \A f \in {"value", "chart", "chartGroup", "pending", "historyPeriodMs"} : Get(y, f) = Get(p, f)
  BY <1>1, <1>4, <1>5, FieldSent
<1>7. IsCustomMetricUnit(Get(y, "unit"))
  <2>1. PICK unit : unit = Get(p, "unit")
    OBVIOUS
  <2>2. unit # Absent
    BY <1>3, <2>1, Tags DEF IsCustomMetricUnit, OneOf, IsText, Absent, Get, IsMap
  <2>3. unit \in Levels(v)[k + 1] /\ Get(y, "unit") = sent[k + 1][unit]
    BY <1>1, <1>4, <2>1, <2>2 DEF SentAs
  <2> QED  BY <1>3, <1>4, <2>1, <2>3, UnitSent
<1>8. EveryIn(Get(y, "history"), IsCustomMetricSample)
  <2>1. PICK history : history = Get(p, "history")
    OBVIOUS
  <2>2. IsList(history) /\ \A i \in DOMAIN history.list : IsCustomMetricSample(history.list[i])
    BY <2>1 DEF IsCustomMetricNumber, EveryIn
  <2>3. history # Absent
    BY <2>2 DEF IsList, Absent
  <2>4. history \in Levels(v)[k + 1] /\ Get(y, "history") = sent[k + 1][history]
    BY <1>1, <1>4, <2>1, <2>3 DEF SentAs
  <2>5. PICK told : told = sent[k + 1][history]
    OBVIOUS
  <2>6. /\ IsList(told) /\ DOMAIN told.list = DOMAIN history.list
        /\ \A i \in DOMAIN history.list :
                history.list[i] \in Levels(v)[(k + 1) + 1] /\ told.list[i] = sent[(k + 1) + 1][history.list[i]]
    BY <1>4, <2>2, <2>4, <2>5 DEF SentAs
  <2>7. \A s : IsCustomMetricSample(s) => IsMap(s)
    BY DEF IsCustomMetricSample, Get, IsNum, Absent
  <2>8. \A i \in DOMAIN history.list : IsCustomMetricSample(told.list[i])
    BY <1>4, <2>2, <2>6, <2>7, SampleSent
  <2> QED  BY <2>4, <2>5, <2>6, <2>8 DEF EveryIn
<1>9. PICK given : given = Get(y, "historyPeriodMs") /\ given = span
  BY <1>2, <1>6
<1> QED  BY <1>1, <1>3, <1>6, <1>7, <1>8, <1>9 DEF IsCustomMetricNumber, Opt, OptTrue

LEMMA MetricSent ==
    ASSUME NEW sent, NEW v, SentAs(sent, v), NEW k \in 0..4, NEW p \in Levels(v)[k], IsCustomMetric(p)
    PROVE  IsCustomMetric(sent[k][p])
<1>1. k \in 0..6 /\ k \in 0..7
  OBVIOUS
<1>2. IsMap(p) /\ IsText(Get(p, "key")) /\ IsText(Get(p, "label")) /\ (IsCustomMetricState(p) \/ IsCustomMetricNumber(p))
  BY DEF IsCustomMetric
<1>3. Get(sent[k][p], "key") = Get(p, "key") /\ Get(sent[k][p], "label") = Get(p, "label")
  BY <1>1, <1>2, FieldSent DEF Simple
<1>4. IsCustomMetricState(sent[k][p]) \/ IsCustomMetricNumber(sent[k][p])
  BY <1>1, <1>2, StateSent, NumberSent
<1>5. IsMap(sent[k][p])
  BY <1>1, <1>2 DEF SentAs
<1> QED  BY <1>2, <1>3, <1>4, <1>5 DEF IsCustomMetric


\* What the browser accepts it accepts as JSON, which leaves out what is undefined.
LEMMA MessageSent ==
    ASSUME NEW v, IsServerMessage(v)
    PROVE  IsServerMessage(AsJson(v))
<1>1. PICK sent : AsJson(v) = sent[0][v] /\ v \in Levels(v)[0] /\ SentAs(sent, v)
  BY PartsSent
<1>2. PICK y : y = sent[0][v]
  OBVIOUS
<1>3. PICK m : m = Get(v, "metrics")
  OBVIOUS
<1>4. IsMap(v)
  BY DEF IsServerMessage, Get, IsText, Absent
<1>5. \A f \in {"type", "version", "cardId"} : Get(y, f) = Get(v, f)
  <2>1. \A f \in {"type", "version", "cardId"} : Simple(Get(v, f))
    BY DEF IsServerMessage, Simple
  <2> QED  BY <1>1, <1>2, <1>4, <2>1, FieldSent
<1>6. IsMap(m) /\ m # Absent
  BY <1>3 DEF IsServerMessage, IsMetricsResponse, Has, Keys, Absent, IsMap
<1>7. m \in Levels(v)[1] /\ Get(y, "metrics") = sent[1][m]
  <2>1. 0 \in 0..7 /\ 0 + 1 = 1
    OBVIOUS
  <2> QED  BY <1>1, <1>2, <1>3, <1>4, <1>6, <2>1 DEF SentAs
<1>8. PICK r : r = sent[1][m]
  OBVIOUS
<1>9. /\ IsMap(r)
      /\ \A f : Get(m, f) = Absent => Get(r, f) = Absent
      /\ \A f : Get(m, f) # Absent =>
                    /\ Get(m, f) \in Levels(v)[2]
                    /\ Has(r, f) /\ Get(r, f) = sent[2][Get(m, f)]
  <2>1. 1 \in 0..7 /\ 1 + 1 = 2
    OBVIOUS
  <2> QED  BY <1>1, <1>6, <1>7, <1>8, <2>1 DEF SentAs
<1>10. \A p \in Levels(v)[2] :
        /\ IsMap(p) => IsMap(sent[2][p]) /\ \A f : Has(sent[2][p], f) => Has(p, f)
        /\ IsList(p) => /\ IsList(sent[2][p]) /\ DOMAIN sent[2][p].list = DOMAIN p.list
                        /\ \A i \in DOMAIN p.list :
                                p.list[i] \in Levels(v)[3] /\ sent[2][p].list[i] = sent[3][p.list[i]]
        /\ Simple(p) => sent[2][p] = p
  <2>1. 2 \in 0..7 /\ 2 + 1 = 3
    OBVIOUS
  <2> QED  BY <1>1, <2>1 DEF SentAs
<1>11. IsMetricsResponse(m)
  BY <1>3 DEF IsServerMessage
<1>12. Has(r, "resource") /\ (Get(r, "resource") = Null \/ IsContainerResources(Get(r, "resource")))
  <2>1. PICK p : p = Get(m, "resource")
    OBVIOUS
  <2>2. p = Null \/ IsContainerResources(p)
    BY <1>11, <2>1 DEF IsMetricsResponse
  <2>3. p # Absent
    BY <2>2 DEF IsContainerResources, IsMap, Null, Absent
  <2>4. p \in Levels(v)[2] /\ Has(r, "resource") /\ Get(r, "resource") = sent[2][p]
    BY <1>9, <2>1, <2>3
  <2>5. p = Null => sent[2][p] = Null
    BY <1>10, <2>4 DEF Simple
  <2>6. IsContainerResources(p) => IsContainerResources(sent[2][p])
    BY <1>1, <2>4, ResourcesSent
  <2> QED  BY <2>2, <2>4, <2>5, <2>6
<1>13. Opt(r, "history", LAMBDA h : EveryIn(h, IsResourceMetricSample))
  <2>1. PICK p : p = Get(m, "history")
    OBVIOUS
  <2>2. CASE p = Absent
    BY <1>9, <2>1, <2>2 DEF Opt
  <2>3. CASE p # Absent
    <3>1. IsList(p) /\ \A i \in DOMAIN p.list : IsResourceMetricSample(p.list[i])
      BY <1>11, <2>1, <2>3 DEF IsMetricsResponse, Opt, EveryIn
    <3>2. p \in Levels(v)[2] /\ Get(r, "history") = sent[2][p]
      BY <1>9, <2>1, <2>3
    <3>3. PICK h : h = sent[2][p]
      OBVIOUS
    <3>4. IsList(h) /\ \A i \in DOMAIN h.list : i \in DOMAIN p.list /\ p.list[i] \in Levels(v)[3] /\ h.list[i] = sent[3][p.list[i]]
      BY <1>10, <3>1, <3>2, <3>3
    <3>5. \A i \in DOMAIN h.list : IsResourceMetricSample(h.list[i])
      BY <1>1, <3>1, <3>4, ResourceSampleSent
    <3> QED  BY <3>2, <3>3, <3>4, <3>5 DEF Opt, EveryIn
  <2> QED  BY <2>2, <2>3
<1>14. PICK span : span = Get(m, "historyPeriodMs")
  OBVIOUS
<1>15. span = Absent \/ (IsNum(span) /\ span.num > 0)
  BY <1>11, <1>14 DEF IsMetricsResponse, Opt
<1>16. Get(m, "pending") = Absent \/ IsFlag(Get(m, "pending"))
  BY <1>11 DEF IsMetricsResponse, Opt
<1>17. Get(r, "historyPeriodMs") = span /\ Get(r, "pending") = Get(m, "pending")
  BY <1>9, <1>10, <1>14, <1>15, <1>16 DEF Simple
<1>18. Opt(r, "historyPeriodMs", LAMBDA p : IsNum(p) /\ p.num > 0) /\ Opt(r, "pending", IsFlag)
  <2>1. PICK p : p = Get(r, "historyPeriodMs") /\ p = span
    BY <1>17
  <2> QED  BY <1>15, <1>16, <1>17, <2>1 DEF Opt
<1>19. Opt(r, "metricRecovery", LAMBDA x : IsMap(x) /\ \A k \in Keys(x) : OneOf(x.map[k], {"recovering", "retrying"}))
  <2>1. PICK p : p = Get(m, "metricRecovery")
    OBVIOUS
  <2>2. CASE p = Absent
    BY <1>9, <2>1, <2>2 DEF Opt
  <2>3. CASE p # Absent
    <3>1. IsMap(p) /\ \A k \in Keys(p) : OneOf(p.map[k], {"recovering", "retrying"})
      BY <1>11, <2>1, <2>3 DEF IsMetricsResponse, Opt
    <3>2. p \in Levels(v)[2] /\ Get(r, "metricRecovery") = sent[2][p]
      BY <1>9, <2>1, <2>3
    <3>3. PICK x : x = sent[2][p]
      OBVIOUS
    <3>4. IsMap(x) /\ \A k \in Keys(x) : k \in Keys(p)
      BY <1>10, <3>1, <3>2, <3>3 DEF Has
    <3>5. ASSUME NEW k \in Keys(x) PROVE OneOf(x.map[k], {"recovering", "retrying"})
      <4>1. Get(x, k) = x.map[k] /\ Get(p, k) = p.map[k]
        BY <3>4, <3>5 DEF Get, Keys
      <4>2. Simple(Get(p, k)) /\ OneOf(Get(p, k), {"recovering", "retrying"})
        BY <3>1, <3>4, <3>5, <4>1 DEF Simple, OneOf
      <4>3. Get(x, k) = Get(p, k)
        BY <1>1, <3>1, <3>2, <3>3, <4>2, FieldSent
      <4> QED  BY <4>1, <4>2, <4>3
    <3> QED  BY <3>2, <3>3, <3>4, <3>5 DEF Opt
  <2> QED  BY <2>2, <2>3
<1>20. EveryIn(Get(r, "customMetrics"), IsCustomMetric) /\ EveryIn(Get(r, "metricErrors"), IsMetricError)
  <2>1. ASSUME NEW f, IsList(Get(m, f))
        PROVE  \E p, h : /\ p = Get(m, f) /\ h = Get(r, f) /\ IsList(h)
                         /\ \A i \in DOMAIN h.list :
                                i \in DOMAIN p.list /\ p.list[i] \in Levels(v)[3] /\ h.list[i] = sent[3][p.list[i]]
    <3>1. Get(m, f) # Absent
      BY <2>1 DEF IsList, Absent
    <3> QED  BY <1>9, <1>10, <2>1, <3>1
  <2>2. IsList(Get(m, "customMetrics")) /\ IsList(Get(m, "metricErrors"))
    BY <1>11 DEF IsMetricsResponse, EveryIn
  <2>3. EveryIn(Get(r, "customMetrics"), IsCustomMetric)
    <3>1. PICK p, h : /\ p = Get(m, "customMetrics") /\ h = Get(r, "customMetrics") /\ IsList(h)
                      /\ \A i \in DOMAIN h.list :
                             i \in DOMAIN p.list /\ p.list[i] \in Levels(v)[3] /\ h.list[i] = sent[3][p.list[i]]
      BY <2>1, <2>2
    <3>2. \A i \in DOMAIN p.list : IsCustomMetric(p.list[i])
      BY <1>11, <3>1 DEF IsMetricsResponse, EveryIn
    <3>3. \A i \in DOMAIN h.list : IsCustomMetric(h.list[i])
      BY <1>1, <3>1, <3>2, MetricSent
    <3> QED  BY <3>1, <3>3 DEF EveryIn
  <2>4. EveryIn(Get(r, "metricErrors"), IsMetricError)
    <3>1. PICK p, h : /\ p = Get(m, "metricErrors") /\ h = Get(r, "metricErrors") /\ IsList(h)
                      /\ \A i \in DOMAIN h.list :
                             i \in DOMAIN p.list /\ p.list[i] \in Levels(v)[3] /\ h.list[i] = sent[3][p.list[i]]
      BY <2>1, <2>2
    <3>2. \A i \in DOMAIN p.list : IsMetricError(p.list[i])
      BY <1>11, <3>1 DEF IsMetricsResponse, EveryIn
    <3>3. \A i \in DOMAIN h.list : IsMetricError(h.list[i])
      BY <1>1, <3>1, <3>2, ErrorSent
    <3> QED  BY <3>1, <3>3 DEF EveryIn
  <2> QED  BY <2>3, <2>4
<1>21. IsMetricsResponse(r)
  BY <1>12, <1>13, <1>18, <1>19, <1>20 DEF IsMetricsResponse
<1> QED  BY <1>1, <1>2, <1>5, <1>7, <1>8, <1>21 DEF IsServerMessage


\* What a metric of a card may tell besides its value.
LEMMA AskedFields ==
    ASSUME NEW m \in AskedMetrics
    PROVE  /\ IsText(Get(m, "label"))
           /\ m.map["value_type"].text = "number" =>
                    /\ IsCustomMetricUnit(Get(m, "unit")) /\ OneOf(Get(m, "chart"), Charts)
                    /\ Get(m, "chart_group") = Absent \/ IsText(Get(m, "chart_group"))
           /\ \A s : Get(Get(m, "state_labels"), s) = Absent \/ IsText(Get(Get(m, "state_labels"), s))
           /\ \A s : Get(Get(m, "state_colors"), s) = Absent \/ OneOf(Get(Get(m, "state_colors"), s), Colors)
           /\ Get(m, "color") = Absent \/ OneOf(Get(m, "color"), Colors)
<1>1. /\ Accepted(m) /\ Has(m, "value_type") /\ Absent \notin Inside(m)
      /\ m.map["value_type"].text = "number" => {"unit", "chart"} \subseteq Keys(m)
  BY AskedAssumption
<1>2. IsMap(m)
  BY <1>1 DEF Has, Keys
<1>3. \A k \in Keys(m) : Get(m, k) # Absent
  BY <1>1, <1>2 DEF Inside, Keys, Get
<1>4. FormattingAccepted(m) /\ TypeAccepted(m) /\ NonEmptyText(Get(m, "label"))
  BY <1>1 DEF Accepted
<1>5. IsText(Get(m, "label"))
  BY <1>4 DEF NonEmptyText
<1>6. ASSUME m.map["value_type"].text = "number"
      PROVE  IsCustomMetricUnit(Get(m, "unit")) /\ OneOf(Get(m, "chart"), Charts)
  <2>1. ValueType(m).text = "number"
    BY <1>1, <1>6 DEF ValueType, Has, Keys, Get
  <2>2. Opt(m, "unit", IsUnit)
    BY <1>4, <2>1 DEF TypeAccepted
  <2>3. IsUnit(Get(m, "unit")) /\ OneOf(Get(m, "chart"), Charts)
    BY <1>1, <1>3, <1>4, <1>6, <2>2 DEF Opt, FormattingAccepted, IsChart
  <2>4. IsUnit(Get(m, "unit")) => IsCustomMetricUnit(Get(m, "unit"))
    BY DEF IsUnit, IsCustomMetricUnit, NonEmptyText, OneOf, Units
  <2> QED  BY <2>3, <2>4
<1>7. Get(m, "chart_group") = Absent \/ IsText(Get(m, "chart_group"))
  BY <1>4 DEF FormattingAccepted, Opt, OneOf
<1>8. \A s : Get(Get(m, "state_labels"), s) = Absent \/ IsText(Get(Get(m, "state_labels"), s))
  <2>1. PICK labels : labels = Get(m, "state_labels")
    OBVIOUS
  <2>2. labels = Absent \/ StateLabels(labels)
    BY <1>4, <2>1 DEF FormattingAccepted, Opt
  <2> QED  BY <2>1, <2>2 DEF StateLabels, Get, Keys, Filled, IsMap, Absent
<1>9. \A s : Get(Get(m, "state_colors"), s) = Absent \/ OneOf(Get(Get(m, "state_colors"), s), Colors)
  <2>1. PICK colors : colors = Get(m, "state_colors")
    OBVIOUS
  <2>2. colors = Absent \/ StateColors(colors)
    BY <1>4, <2>1 DEF FormattingAccepted, Opt
  <2> QED  BY <2>1, <2>2 DEF StateColors, Get, Keys, IsColor, IsMap, Absent
<1>10. Get(m, "color") = Absent \/ OneOf(Get(m, "color"), Colors)
  BY <1>4 DEF FormattingAccepted, Opt, IsColor
<1> QED  BY <1>5, <1>6, <1>7, <1>8, <1>9, <1>10

\* Only a sum over items that no transform follows is too great.
LEMMA InfiniteSums ==
    ASSUME NEW m \in AskedMetrics, NEW reply \in Replies[m] \ {Failed}, m.map["value_type"].text = "number",
           Transformed(m, ExtractedValue(m, reply)) = Infinite
    PROVE  Has(m, "for_each") /\ ~Has(m, "transform")
<1>1. Accepted(m) /\ Has(m, "value_type")
  BY AskedAssumption
<1>2. ~Textual(m)
  BY <1>1, TextualTypes
<1>3. ~OneOf(Get(m, "value_type"), {"uptime"})
  BY <1>1 DEF Has, Keys, Get, OneOf
<1>4. PICK value : value = ExtractedValue(m, reply)
  OBVIOUS
<1>5. ~Has(m, "for_each") => value \in {TextValue(m, reply.text), JqValue(m, reply.jq), PrometheusValue(m, reply.lines)}
  BY <1>3, <1>4 DEF ExtractedValue
<1>6. TextValue(m, reply.text) # Infinite
  BY <1>2, Kinds DEF TextValue, Infinite, Failed
<1>7. JqValue(m, reply.jq) # Infinite
  BY <1>2, Kinds DEF JqValue, Infinite, Failed
<1>8. PrometheusValue(m, reply.lines) # Infinite
  BY <1>2, Kinds DEF PrometheusValue, Infinite, Failed
<1>9. ~Has(m, "for_each") => value # Infinite
  BY <1>5, <1>6, <1>7, <1>8
<1>10. Failed # Infinite
  BY DEF Failed, Infinite
<1>11. Transformed(m, value) = Infinite => value = Infinite /\ ~Has(m, "transform")
  <2>1. ~Has(m, "transform") => Transformed(m, value) = value
    BY DEF Transformed
  <2>2. Has(m, "transform") => Transformed(m, value) # Infinite
    <3>1. CASE IsNum(value) \/ value = Infinite
      BY <3>1, <1>10 DEF Transformed
    <3>2. CASE ~(IsNum(value) \/ value = Infinite)
      BY <3>2 DEF Transformed
    <3> QED  BY <3>1, <3>2
  <2> QED  BY <2>1, <2>2
<1> QED  BY <1>4, <1>9, <1>11


\* A metric on a card as it is before its history is put in.
CardMetric(x) ==
    /\ IsMap(x) /\ IsText(Get(x, "key")) /\ IsText(Get(x, "label"))
    /\ \/ IsCustomMetricState(x) /\ ~Has(x, "unit") /\ ~Has(x, "rate")
       \/ /\ Has(x, "unit") /\ {"history", "historyPeriodMs"} \cap Keys(x) = {}
          /\ IsCustomMetricUnit(Get(x, "unit")) /\ OneOf(Get(x, "chart"), Charts)
          /\ Opt(x, "chartGroup", IsText) /\ OptTrue(x, "pending")
          /\ Has(x, "value") /\ Number(Get(x, "value"))

LEMMA NormalTold ==
    ASSUME NEW m \in AskedMetrics, NEW value, NormalizedValue(m, value) # Absent
    PROVE  /\ CardMetric(NormalizedValue(m, value))
           /\ Get(NormalizedValue(m, value), "value") = value
           /\ value = Infinite => m.map["value_type"].text = "number"
           /\ Get(NormalizedValue(m, value), "rate") # Absent => Has(m, "rate")
<1>1. PICK x : x = NormalizedValue(m, value)
  OBVIOUS
<1>2. PICK label : label = Get(m, "label") /\ IsText(label)
  BY AskedFields
<1>3. PICK type : type = m.map["value_type"].text
  OBVIOUS
<1>4. IsText(Text(Key)) /\ \A f : IsMap(Map(f)) /\ Map(f).map = f
  BY DEF Text, IsText, Map, IsMap
<1>5. \A p, k : IsMap(p) => Get(p, k) = IF k \in DOMAIN p.map THEN p.map[k] ELSE Absent
  BY DEF Get
<1>6. \A p : IsMap(p) => Keys(p) = DOMAIN p.map
  BY DEF Keys
<1>7. CASE type = "string"
  <2>1. x = Map([key |-> Text(Key), label |-> label, value |-> value]) /\ IsText(value)
    BY <1>1, <1>2, <1>3, <1>7 DEF NormalizedValue
  <2>2. /\ IsMap(x) /\ Get(x, "key") = Text(Key) /\ Get(x, "label") = label /\ Get(x, "value") = value
        /\ Get(x, "color") = Absent /\ Get(x, "valueLabel") = Absent /\ Get(x, "rate") = Absent /\ ~Has(x, "rate") /\ ~Has(x, "unit")
    BY <1>4, <1>5, <1>6, <2>1 DEF Has
  <2> QED  BY <1>1, <1>2, <1>4, <2>1, <2>2, Kinds DEF CardMetric, IsCustomMetricState, Opt
<1>8. CASE type = "state"
  <2>1. PICK text : text = Get(Get(m, "state_labels"), value.text) /\ (text = Absent \/ IsText(text))
    BY AskedFields
  <2>2. PICK color : color = Else(Get(Get(m, "state_colors"), value.text), Get(m, "color")) /\ (color = Absent \/ OneOf(color, Colors))
    BY AskedFields DEF Else
  <2>3. x = Map(Spread([key |-> Text(Key), label |-> label, value |-> value], [valueLabel |-> text, color |-> color])) /\ IsText(value)
    BY <1>1, <1>2, <1>3, <1>8, <2>1, <2>2 DEF NormalizedValue
  <2>4. /\ IsMap(x) /\ Get(x, "key") = Text(Key) /\ Get(x, "label") = label /\ Get(x, "value") = value
        /\ Get(x, "color") = color /\ Get(x, "valueLabel") = text /\ Get(x, "rate") = Absent /\ ~Has(x, "rate") /\ ~Has(x, "unit")
    BY <1>4, <1>5, <1>6, <2>3 DEF Has, Spread
  <2> QED  BY <1>1, <1>2, <1>4, <2>1, <2>2, <2>3, <2>4, Kinds DEF CardMetric, IsCustomMetricState, Opt
<1>9. CASE type = "number"
  <2>1. PICK unit, chart, group, rate :
            /\ unit = Get(m, "unit") /\ chart = Get(m, "chart") /\ group = Get(m, "chart_group") /\ rate = Get(m, "rate")
    OBVIOUS
  <2>2. IsCustomMetricUnit(unit) /\ OneOf(chart, Charts) /\ (group = Absent \/ IsText(group))
    BY <1>3, <1>9, <2>1, AskedFields
  <2>3. x = Map(Spread([key |-> Text(Key), label |-> label, value |-> value],
                       [unit |-> unit, chart |-> chart, chartGroup |-> group, rate |-> rate])) /\ Number(value)
    BY <1>1, <1>2, <1>3, <1>9, <2>1 DEF NormalizedValue, Number
  <2>4. /\ IsMap(x) /\ Get(x, "key") = Text(Key) /\ Get(x, "label") = label /\ Get(x, "value") = value
        /\ Get(x, "unit") = unit /\ Get(x, "chart") = chart /\ Get(x, "chartGroup") = group /\ Get(x, "rate") = rate
        /\ Get(x, "pending") = Absent /\ Has(x, "unit") /\ Has(x, "value")
        /\ {"history", "historyPeriodMs"} \cap Keys(x) = {}
    BY <1>4, <1>5, <1>6, <2>3 DEF Has, Spread
  <2>5. rate # Absent => Has(m, "rate")
    BY <2>1 DEF Get, Has, Keys
  <2>6. CardMetric(x)
    BY <1>2, <1>4, <2>2, <2>3, <2>4 DEF CardMetric, Opt, OptTrue
  <2> QED  BY <1>1, <1>3, <1>9, <2>4, <2>5, <2>6
<1>10. type \in {"string", "state", "number"}
  BY <1>1, <1>3 DEF NormalizedValue
<1> QED  BY <1>7, <1>8, <1>9, <1>10

LEMMA RateTold ==
    ASSUME NEW x, NEW at, CardMetric(x)
    PROVE  /\ CardMetric(RateMetric(x, at))
           /\ Get(RateMetric(x, at), "value") = Infinite => Get(x, "value") = Infinite \/ Get(x, "rate") # Absent
<1>1. CASE Get(x, "rate") = Absent
  <2>1. RateMetric(x, at) = x
    BY <1>1 DEF RateMetric
  <2> QED  BY <1>1, <2>1
<1>2. CASE Get(x, "rate") # Absent
  <2>1. IsMap(x) /\ Has(x, "rate")
    BY <1>2 DEF CardMetric, Get, Has, Keys
  <2>2. PICK y : y = RateMetric(x, at)
    OBVIOUS
  <2>3. \A f : IsMap(Map(f)) /\ Map(f).map = f
    BY DEF Map, IsMap
  <2>4. /\ Has(x, "unit") /\ {"history", "historyPeriodMs"} \cap Keys(x) = {} /\ Has(x, "value") /\ Number(Get(x, "value"))
        /\ IsText(Get(x, "key")) /\ IsText(Get(x, "label"))
        /\ IsCustomMetricUnit(Get(x, "unit")) /\ OneOf(Get(x, "chart"), Charts)
        /\ Get(x, "chartGroup") = Absent \/ IsText(Get(x, "chartGroup"))
        /\ Get(x, "pending") \in {Absent, Flag(TRUE)}
    BY <2>1 DEF CardMetric, Opt, OptTrue
  <2>5. /\ IsMap(y) /\ Keys(y) \in {Keys(x), Keys(x) \cup {"value", "pending"}} /\ Number(Get(y, "value"))
        /\ \A k \in Keys(x) \ {"value", "pending"} : Get(y, k) = Get(x, k)
        /\ Get(y, "pending") \in {Get(x, "pending"), Flag(TRUE)}
    <3>1. CASE y = Map(Spread(x.map, [value |-> Num(0), pending |-> Flag(TRUE)]))
      <4>1. IsMap(y) /\ y.map = Spread(x.map, [value |-> Num(0), pending |-> Flag(TRUE)])
        BY <2>3, <3>1
      <4>2. /\ DOMAIN y.map = Keys(x) \cup {"value", "pending"} /\ y.map["value"] = Num(0) /\ y.map["pending"] = Flag(TRUE)
            /\ \A k \in Keys(x) \ {"value", "pending"} : y.map[k] = x.map[k]
        BY <2>1, <4>1 DEF Spread, Keys
      <4>3. Keys(y) = Keys(x) \cup {"value", "pending"}
        BY <4>1, <4>2 DEF Keys
      <4>4. Get(y, "value") = Num(0) /\ Get(y, "pending") = Flag(TRUE)
        BY <4>1, <4>2 DEF Get
      <4>5. \A k \in Keys(x) \ {"value", "pending"} : Get(y, k) = Get(x, k)
        BY <2>1, <4>1, <4>2 DEF Get, Keys
      <4> QED  BY <4>1, <4>3, <4>4, <4>5, Kinds DEF Number
    <3>2. CASE y # Map(Spread(x.map, [value |-> Num(0), pending |-> Flag(TRUE)]))
      <4>1. PICK value : Number(value) /\ y = Map([x.map EXCEPT !["value"] = value])
        <5>1. \A a, b : Number(Quotient(a, b)) /\ Number(Infinite)
          BY FiniteNumber DEF Quotient, Number
        <5>2. PICK grown, elapsed, infinite :
                y = Map([x.map EXCEPT !["value"] = IF infinite = 1 THEN Infinite ELSE Quotient(IF grown > 0 THEN grown ELSE 0, elapsed)])
          <6>1. PICK infinite : infinite = IF Infinite \in {x.map["value"], counts.value} THEN 1 ELSE 0
            OBVIOUS
          <6> QED  BY <1>2, <2>2, <3>2, <6>1 DEF RateMetric
        <5> QED  BY <5>1, <5>2
      <4>2. Keys(y) = Keys(x) /\ IsMap(y) /\ \A k \in Keys(x) : Get(y, k) = IF k = "value" THEN value ELSE Get(x, k)
        BY <2>1, <2>3, <4>1 DEF Get, Keys
      <4>3. Get(y, "pending") = Get(x, "pending")
        BY <2>1, <4>2 DEF Get, Keys
      <4>4. Get(y, "value") = value
        BY <2>4, <4>2 DEF Has
      <4> QED  BY <4>1, <4>2, <4>3, <4>4
    <3> QED  BY <3>1, <3>2
  <2>6. \A k : k \notin Keys(x) \cup {"value", "pending"} => Get(y, k) = Absent
    BY <2>1, <2>5 DEF Get, Keys
  <2>7. \A k \in {"key", "label", "unit", "chart", "chartGroup"} : Get(y, k) = Get(x, k)
    <3>1. \A k : k \notin Keys(x) => Get(x, k) = Absent
      BY <2>1 DEF Get, Keys
    <3> QED  BY <2>5, <2>6, <3>1
  <2>8. Has(y, "unit") /\ {"history", "historyPeriodMs"} \cap Keys(y) = {} /\ Has(y, "value")
    BY <2>4, <2>5 DEF Has
  <2>9. CardMetric(y)
    BY <2>4, <2>5, <2>7, <2>8 DEF CardMetric, Opt, OptTrue
  <2> QED  BY <1>2, <2>2, <2>9
<1> QED  BY <1>1, <1>2

\* A number is shown with its history, which the browser expects.
Charted(x) == IF Has(x, "unit") THEN Map(Spread([history |-> List(saved), historyPeriodMs |-> Num(1)], x.map)) ELSE x

LEMMA ChartedShown ==
    ASSUME NEW x, CardMetric(x), Get(x, "value") # Infinite, \A i \in DOMAIN saved : IsCustomMetricSample(saved[i])
    PROVE  IsCustomMetric(Charted(x))
<1>1. IsMap(x) /\ IsText(Get(x, "key")) /\ IsText(Get(x, "label"))
  BY DEF CardMetric
<1>2. CASE ~Has(x, "unit")
  BY <1>1, <1>2 DEF Charted, CardMetric, IsCustomMetric
<1>3. CASE Has(x, "unit")
  <2>1. /\ {"history", "historyPeriodMs"} \cap Keys(x) = {}
        /\ IsCustomMetricUnit(Get(x, "unit")) /\ OneOf(Get(x, "chart"), Charts)
        /\ Get(x, "chartGroup") = Absent \/ IsText(Get(x, "chartGroup"))
        /\ Get(x, "pending") \in {Absent, Flag(TRUE)}
        /\ IsNum(Get(x, "value"))
    BY <1>3 DEF CardMetric, Number, Opt, OptTrue
  <2>2. PICK y : y = Charted(x) /\ y = Map(Spread([history |-> List(saved), historyPeriodMs |-> Num(1)], x.map))
    BY <1>3 DEF Charted
  <2>3. IsMap(y) /\ \A k : k \notin {"history", "historyPeriodMs"} => Get(y, k) = Get(x, k)
    BY <1>1, <2>2 DEF Map, IsMap, Spread, Get
  <2>4. Get(y, "history") = List(saved) /\ Get(y, "historyPeriodMs") = Num(1)
    BY <1>1, <2>1, <2>2 DEF Map, IsMap, Spread, Get, Keys
  <2>5. EveryIn(List(saved), IsCustomMetricSample)
    BY DEF EveryIn, List, IsList
  <2>6. PICK span : span = Get(y, "historyPeriodMs") /\ IsNum(span) /\ span.num > 0
    BY <2>4 DEF Num, IsNum
  <2>7. \A k \in {"key", "label", "value", "unit", "chart", "chartGroup", "pending"} : Get(y, k) = Get(x, k)
    BY <2>3
  <2>8. IsCustomMetricNumber(y)
    BY <2>1, <2>4, <2>5, <2>6, <2>7 DEF IsCustomMetricNumber, Opt, OptTrue
  <2> QED  BY <1>1, <2>2, <2>3, <2>7, <2>8 DEF IsCustomMetric
<1> QED  BY <1>2, <1>3


\* Counters that rates are made from.
Countable(v) == IsNum(v) /\ v.num \in 0..MaxNumber

TrafficInv ==
    clock \in Nat /\ (traffic # Absent => traffic.timestamp \in Nat /\ Countable(traffic.received) /\ Countable(traffic.sent))

LEMMA QuotientWithin == \A x \in Nat, d \in Nat : d > 0 => x \div d \in 0..x
OBVIOUS

LEMMA CountersOfStats ==
    ASSUME NEW reply \in StatsReplies, NEW stats, stats = ParsedStats(reply), stats # Failed
    PROVE  /\ stats.received = Absent \/ Countable(stats.received)
           /\ stats.sent = Absent \/ Countable(stats.sent)
           /\ stats.memoryUsage = Absent \/ IsNum(stats.memoryUsage)
           /\ stats.memoryLimit = Absent \/ IsNum(stats.memoryLimit)
           /\ CpuPercent(stats) = Absent \/ IsNum(CpuPercent(stats))
<1>1. /\ MaxNumber \in Nat /\ Infinite \notin {stats.received, stats.sent, CpuPercent(stats)}
      /\ Counted(stats.received) = stats.received /\ Counted(stats.sent) = stats.sent
  BY StatsAssumption
<1>2. \A networks, field : NetworkBytes(networks, field) \in {Absent, Infinite} \cup {Num(n) : n \in -MaxNumber..MaxNumber}
  BY DEF NetworkBytes, Finite
<1>3. \E networks : /\ stats.received = NetworkBytes(networks, "rx_bytes") /\ stats.sent = NetworkBytes(networks, "tx_bytes")
                    /\ \E u, l : stats.memoryUsage = Counted(u) /\ stats.memoryLimit = Counted(l)
  BY DEF ParsedStats
<1>4. stats.received \in {Absent} \cup {Num(n) : n \in -MaxNumber..MaxNumber} /\ stats.sent \in {Absent} \cup {Num(n) : n \in -MaxNumber..MaxNumber}
  BY <1>1, <1>2, <1>3
<1>5. \A n \in -MaxNumber..MaxNumber : Counted(Num(n)) = Num(n) => Countable(Num(n))
  BY <1>1 DEF Counted, Countable, Num, IsNum, Absent
<1>6. \A v \in {Absent} \cup {Num(n) : n \in -MaxNumber..MaxNumber} : Counted(v) = v => v = Absent \/ Countable(v)
  BY <1>5
<1>7. \A v : Counted(v) = Absent \/ IsNum(Counted(v))
  BY DEF Counted
<1>8. CpuPercent(stats) = Absent \/ Number(CpuPercent(stats))
  BY FiniteNumber DEF CpuPercent, Quotient, Number
<1> QED  BY <1>1, <1>3, <1>4, <1>6, <1>7, <1>8 DEF Number

LEMMA RateOfTraffic ==
    ASSUME TrafficInv, NEW bytes, bytes = Absent \/ Countable(bytes), NEW before, traffic # Absent => Countable(before)
    PROVE  NetworkRate(bytes, before, clock) = Absent \/ IsNum(NetworkRate(bytes, before, clock))
<1>1. CASE traffic = Absent \/ clock <= traffic.timestamp \/ bytes = Absent
  BY <1>1 DEF NetworkRate
<1>2. CASE ~(traffic = Absent \/ clock <= traffic.timestamp \/ bytes = Absent)
  <2>1. PICK elapsed : elapsed = clock - traffic.timestamp /\ elapsed \in Nat /\ elapsed > 0
    BY <1>2 DEF TrafficInv
  <2>2. Countable(bytes) /\ Countable(before) /\ bytes # Infinite /\ before # Infinite /\ MaxNumber \in Nat
    BY <1>2, StatsAssumption DEF Countable, IsNum, Infinite
  <2>3. PICK grown \in 0..MaxNumber : grown = IF bytes.num - before.num > 0 THEN bytes.num - before.num ELSE 0
    BY <2>2 DEF Countable
  <2>4. NetworkRate(bytes, before, clock) = Finite(grown \div elapsed)
    BY <1>2, <2>1, <2>2, <2>3 DEF NetworkRate
  <2>5. grown \div elapsed \in -MaxNumber..MaxNumber
    BY <2>1, <2>2, QuotientWithin
  <2> QED  BY <2>4, <2>5, Kinds DEF Finite
<1> QED  BY <1>1, <1>2

LEMMA ResourcesCollected ==
    ASSUME TrafficInv, NEW reply \in StatsReplies, ParsedStats(reply) # Failed
    PROVE  LET r == CollectedResources(ParsedStats(reply), clock) IN
           /\ IsContainerResources(r)
           /\ IsResourceMetricSample(Map(Spread([timestamp |-> Num(clock)], Without(r, {"networkRatePending"}).map)))
<1>1. PICK stats : stats = ParsedStats(reply)
  OBVIOUS
<1>2. PICK before : before = [f \in {"received", "sent"} |-> IF traffic = Absent THEN Absent ELSE traffic[f]]
  OBVIOUS
<1>3. PICK r : r = CollectedResources(stats, clock)
  OBVIOUS
<1>4. PICK in, out : in = NetworkRate(stats.received, before["received"], clock) /\ out = NetworkRate(stats.sent, before["sent"], clock)
  OBVIOUS
<1>5. (in = Absent \/ IsNum(in)) /\ (out = Absent \/ IsNum(out))
  <2>1. traffic # Absent => Countable(before["received"]) /\ Countable(before["sent"])
    BY <1>2 DEF TrafficInv
  <2>2. (stats.received = Absent \/ Countable(stats.received)) /\ (stats.sent = Absent \/ Countable(stats.sent))
    BY <1>1, CountersOfStats
  <2> QED  BY <1>4, <2>1, <2>2, RateOfTraffic
<1>6. PICK cpu : cpu = CpuPercent(stats) /\ (cpu = Absent \/ IsNum(cpu))
  BY <1>1, CountersOfStats
<1>7. \E b : /\ IsMap(r)
             /\ r.map = [cpuPercent |-> IF "cpu" \in selection THEN cpu ELSE Absent,
                         memoryUsage |-> IF "memory" \in selection THEN stats.memoryUsage ELSE Absent,
                         memoryLimit |-> IF "memory" \in selection THEN stats.memoryLimit ELSE Absent,
                         receivedBytesPerSecond |-> IF "network" \in selection THEN in ELSE Absent,
                         sentBytesPerSecond |-> IF "network" \in selection THEN out ELSE Absent,
                         networkRatePending |-> Flag(b)]
  <2>1. /\ before["received"] = IF traffic = Absent THEN Absent ELSE traffic["received"]
        /\ before["sent"] = IF traffic = Absent THEN Absent ELSE traffic["sent"]
    BY <1>2
  <2>2. \A f : IsMap(Map(f)) /\ Map(f).map = f
    BY DEF Map, IsMap
  <2> QED  BY <1>3, <1>4, <1>6, <2>1, <2>2 DEF CollectedResources
<1>8. \A b : IsFlag(Flag(b))
  BY DEF Flag, IsFlag
<1>9. IsMap(r)
  BY <1>7
<1>10. \A f \in {"cpuPercent", "memoryUsage", "memoryLimit", "receivedBytesPerSecond", "sentBytesPerSecond"} :
        Get(r, f) = Absent \/ IsNum(Get(r, f))
  <2>1. (stats.memoryUsage = Absent \/ IsNum(stats.memoryUsage)) /\ (stats.memoryLimit = Absent \/ IsNum(stats.memoryLimit))
    BY <1>1, CountersOfStats
  <2> QED  BY <1>5, <1>6, <1>7, <2>1 DEF Get
<1>11. IsFlag(Get(r, "networkRatePending")) /\ Get(r, "timestamp") = Absent
  BY <1>7, <1>8 DEF Get
<1>12. IsContainerResources(r)
  BY <1>9, <1>10, <1>11 DEF IsContainerResources, Opt
<1>13. PICK s : s = Map(Spread([timestamp |-> Num(clock)], Without(r, {"networkRatePending"}).map))
  OBVIOUS
<1>14. /\ IsMap(s) /\ Get(s, "timestamp") = Num(clock) /\ Get(s, "networkRatePending") = Absent
       /\ \A f : f \notin {"timestamp", "networkRatePending"} => Get(s, f) = Get(r, f)
  <2>1. /\ IsMap(s) /\ s.map = Spread([timestamp |-> Num(clock)], [k \in DOMAIN r.map \ {"networkRatePending"} |-> r.map[k]])
    BY <1>13 DEF Map, IsMap, Without
  <2>2. DOMAIN r.map = {"cpuPercent", "memoryUsage", "memoryLimit", "receivedBytesPerSecond", "sentBytesPerSecond", "networkRatePending"}
    BY <1>7
  <2>3. /\ DOMAIN s.map = {"timestamp"} \cup (DOMAIN r.map \ {"networkRatePending"}) /\ s.map["timestamp"] = Num(clock)
        /\ \A k \in DOMAIN r.map \ {"networkRatePending"} : s.map[k] = r.map[k]
    BY <2>1, <2>2 DEF Spread
  <2> QED  BY <1>9, <2>1, <2>2, <2>3 DEF Get
<1>15. IsResourceMetricSample(s)
  BY <1>10, <1>14, Kinds DEF IsResourceMetricSample, IsContainerResources, Opt
<1> QED  BY <1>1, <1>3, <1>12, <1>13, <1>15

\* What a viewer may see of resources is what the browser accepts.
LEMMA VisibleShown ==
    ASSUME NEW x, IsContainerResources(x), NEW visible
    PROVE  /\ IsContainerResources(VisibleResource(x, visible))
           /\ Get(VisibleResource(x, visible), "timestamp") = Get(x, "timestamp")
<1>1. PICK y : y = VisibleResource(x, visible)
  OBVIOUS
<1>2. IsMap(x)
  BY DEF IsContainerResources
<1>3. /\ IsMap(y) /\ Keys(y) = Keys(x)
      /\ \A f \in Keys(x) : y.map[f] \in {x.map[f], Absent} /\ (f \notin DOMAIN ResourceOf => y.map[f] = x.map[f])
  BY <1>1, <1>2 DEF VisibleResource, Map, IsMap, Keys
<1>4. \A f : Get(y, f) \in {Get(x, f), Absent} /\ (f \notin DOMAIN ResourceOf => Get(y, f) = Get(x, f))
  BY <1>2, <1>3 DEF Get, Keys
<1>5. "timestamp" \notin DOMAIN ResourceOf
  BY DEF ResourceOf
<1> QED  BY <1>1, <1>3, <1>4, <1>5 DEF IsContainerResources, Opt


SavedInv ==
    \E S : saved \in Seq(S) /\ \A r \in S : IF asked = Absent THEN IsResourceMetricSample(r) ELSE IsCustomMetricSample(r)

UsageInv ==
    latestUsage # Absent =>
        /\ latestUsage.resource = Absent \/ IsContainerResources(latestUsage.resource)
        /\ asked = Absent => latestUsage.metrics = <<>>
        /\ \A i \in DOMAIN latestUsage.metrics :
                CardMetric(latestUsage.metrics[i]) /\ (Get(latestUsage.metrics[i], "value") = Infinite => Unchecked)
        /\ \A i \in DOMAIN latestUsage.errors : latestUsage.errors[i] = Text("collection_failed")

ValuesInv == AskedInv /\ TrafficInv /\ SavedInv /\ UsageInv

LEMMA SampleAdded ==
    ASSUME SavedInv, NEW r, saved' = Append(saved, r), asked' = asked,
           IF asked = Absent THEN IsResourceMetricSample(r) ELSE IsCustomMetricSample(r)
    PROVE  SavedInv'
<1>1. PICK S : saved \in Seq(S) /\ \A x \in S : IF asked = Absent THEN IsResourceMetricSample(x) ELSE IsCustomMetricSample(x)
  BY DEF SavedInv
<1>2. PICK T : T = S \cup {r}
  OBVIOUS
<1>3. saved \in Seq(T) /\ r \in T
  BY <1>1, <1>2
<1>4. saved' \in Seq(T)
  BY <1>3
<1>5. \A x \in T : IF asked = Absent THEN IsResourceMetricSample(x) ELSE IsCustomMetricSample(x)
  BY <1>1, <1>2
<1> QED  BY <1>4, <1>5 DEF SavedInv

\* An answer leaves a usage that can be shown.
LEMMA AnswerKept ==
    ASSUME ValuesInv, asked # Absent, asked' = asked, NEW reply \in Replies[asked],
           AnswerTold(IF reply = Failed THEN Failed ELSE Transformed(asked, ExtractedValue(asked, reply)))
    PROVE  SavedInv' /\ UsageInv'
<1>1. PICK m \in AskedMetrics : m = asked
  BY DEF ValuesInv, AskedInv
<1>2. PICK value : value = IF reply = Failed THEN Failed ELSE Transformed(asked, ExtractedValue(asked, reply))
  OBVIOUS
<1>3. "observations" \notin DOMAIN Failed
  BY DEF Failed
<1>4. \A metrics, uptime, errors : Told(metrics, uptime, errors) # Absent
  BY DEF Told, Absent
<1>5. saved' = saved => SavedInv'
  BY DEF ValuesInv, SavedInv
<1>6. Unchecked' = Unchecked
  BY DEF Unchecked
<1>7. CASE value = Failed
  <2>1. ErrorTold
    BY <1>2, <1>3, <1>7 DEF AnswerTold
  <2>2. \A i \in DOMAIN <<Text("collection_failed")>> : <<Text("collection_failed")>>[i] = Text("collection_failed")
    OBVIOUS
  <2> QED  BY <1>5, <2>1, <2>2 DEF ErrorTold, UsageInv, Told
<1>8. CASE value # Failed /\ "observations" \in DOMAIN value
  <2>1. ObservationsTold(LatestOf(value.observations))
    BY <1>2, <1>8 DEF AnswerTold
  <2> QED  BY <1>5, <2>1 DEF ObservationsTold, UsageInv, Told
<1>9. CASE value # Failed /\ "observations" \notin DOMAIN value
  <2>1. PICK normal : normal = NormalizedValue(m, value)
    OBVIOUS
  <2>2. IF normal = Absent THEN NothingTold ELSE ValueTold(normal, RateMetric(normal, clock))
    BY <1>1, <1>2, <1>9, <2>1 DEF AnswerTold
  <2>3. CASE normal = Absent
    BY <1>5, <2>2, <2>3 DEF NothingTold, UsageInv, ValuesInv, Unchecked
  <2>4. CASE normal # Absent
    <3>1. PICK metric : metric = RateMetric(normal, clock)
      OBVIOUS
    <3>2. CardMetric(normal) /\ Get(normal, "value") = value /\ (Get(normal, "rate") # Absent => Has(m, "rate"))
      BY <2>1, <2>4, NormalTold
    <3>3. CardMetric(metric) /\ (Get(metric, "value") = Infinite => value = Infinite \/ Get(normal, "rate") # Absent)
      BY <3>1, <3>2, RateTold
    <3>4. value = Infinite => Has(m, "for_each") /\ ~Has(m, "transform")
      <4>1. value = Infinite => m.map["value_type"].text = "number"
        BY <2>1, <2>4, NormalTold
      <4>2. reply \in Replies[m] \ {Failed} /\ value = Transformed(m, ExtractedValue(m, reply))
        BY <1>1, <1>2, <1>9
      <4> QED  BY <4>1, <4>2, InfiniteSums
    <3>5. Get(metric, "value") = Infinite => Unchecked
      BY <1>1, <3>2, <3>3, <3>4 DEF Unchecked
    <3>6. /\ latestUsage' = Told(<<metric>>, <<>>, <<>>)
          /\ saved' = IF IsNum(Get(metric, "value")) /\ ~Has(metric, "pending")
                      THEN Append(saved, Map([timestamp |-> Num(clock), value |-> metric.map["value"]])) ELSE saved
      BY <2>2, <2>4, <3>1 DEF ValueTold
    <3>7. UsageInv'
      BY <1>6, <3>3, <3>5, <3>6 DEF UsageInv, Told
    <3>8. SavedInv'
      <4>1. CASE IsNum(Get(metric, "value"))
        <5>1. PICK r : r = Map([timestamp |-> Num(clock), value |-> metric.map["value"]])
          OBVIOUS
        <5>2. Get(metric, "value") = metric.map["value"]
          BY <4>1 DEF Get, IsNum, Absent
        <5>3. Get(r, "timestamp") = Num(clock) /\ Get(r, "value") = Get(metric, "value")
          BY <5>1, <5>2 DEF Get, Map, IsMap
        <5>4. IsCustomMetricSample(r)
          BY <4>1, <5>3, Kinds DEF IsCustomMetricSample
        <5> QED  BY <1>5, <3>6, <5>1, <5>4, SampleAdded DEF ValuesInv
      <4>2. CASE ~IsNum(Get(metric, "value"))
        BY <1>5, <3>6, <4>2
      <4> QED  BY <4>1, <4>2
    <3> QED  BY <3>7, <3>8
  <2> QED  BY <2>3, <2>4
<1> QED  BY <1>7, <1>8, <1>9

\* So do statistics.
LEMMA StatsKept ==
    ASSUME ValuesInv, NEW reply \in StatsReplies, StatsCollected(reply)
    PROVE  ValuesInv'
<1>1. asked = Absent /\ asked' = asked /\ clock' = clock
  BY DEF StatsCollected
<1>2. PICK stats : stats = ParsedStats(reply)
  OBVIOUS
<1>3. AskedInv' /\ Unchecked' = Unchecked
  BY <1>1 DEF ValuesInv, AskedInv, Unchecked
<1>4. CASE stats = Failed
  <2>1. UNCHANGED <<asked, clock, latestUsage, traffic, saved>>
    BY <1>1, <1>2, <1>4 DEF StatsCollected
  <2> QED  BY <1>3, <2>1 DEF ValuesInv, TrafficInv, SavedInv, UsageInv
<1>5. CASE stats # Failed
  <2>1. PICK r : r = CollectedResources(stats, clock)
    OBVIOUS
  <2>2. PICK s : s = Map(Spread([timestamp |-> Num(clock)], Without(r, {"networkRatePending"}).map))
    OBVIOUS
  <2>3. /\ traffic' = IF HasCounters(stats) THEN [received |-> stats.received, sent |-> stats.sent, timestamp |-> clock] ELSE traffic
        /\ latestUsage' = [resource |-> r, metrics |-> <<>>, uptime |-> <<>>, errors |-> <<>>]
        /\ saved' = Append(saved, s)
    BY <1>2, <1>5, <2>1, <2>2 DEF StatsCollected
  <2>4. IsContainerResources(r) /\ IsResourceMetricSample(s)
    BY <1>2, <1>5, <2>1, <2>2, ResourcesCollected DEF ValuesInv
  <2>5. TrafficInv'
    <3>1. HasCounters(stats) => Countable(stats.received) /\ Countable(stats.sent)
      BY <1>2, <1>5, CountersOfStats DEF HasCounters
    <3> QED  BY <1>1, <2>3, <3>1 DEF ValuesInv, TrafficInv, Countable
  <2>6. SavedInv'
    BY <1>1, <2>3, <2>4, SampleAdded DEF ValuesInv
  <2>7. UsageInv'
    BY <1>1, <2>3, <2>4 DEF UsageInv
  <2> QED  BY <1>3, <2>5, <2>6, <2>7 DEF ValuesInv
<1> QED  BY <1>4, <1>5


\* What the values are, so that the message that tells of them can be shown.
LEMMA ValuesKept == ValuesInv /\ [Next]_vars => ValuesInv'
<1> SUFFICES ASSUME ValuesInv, [Next]_vars PROVE ValuesInv'
  OBVIOUS
<1>1. CASE UNCHANGED valueVars
  BY <1>1 DEF ValuesInv, AskedInv, TrafficInv, SavedInv, UsageInv, Unchecked, valueVars
<1>2. CASE follows = "values" /\ ValuesNext
  <2>1. ASSUME NEW reply \in Replies[asked], MetricCollected(reply) PROVE ValuesInv'
    <3>1. asked # Absent /\ asked' = asked /\ clock' = clock /\ traffic' = traffic
      BY <2>1 DEF MetricCollected
    <3>2. AnswerTold(IF reply = Failed THEN Failed ELSE Transformed(asked, ExtractedValue(asked, reply)))
      BY <2>1 DEF MetricCollected
    <3>3. SavedInv' /\ UsageInv'
      BY <3>1, <3>2, AnswerKept
    <3> QED  BY <3>1, <3>3 DEF ValuesInv, AskedInv, TrafficInv
  <2>2. ASSUME Waits PROVE ValuesInv'
    BY <2>2 DEF Waits, ValuesInv, AskedInv, TrafficInv, SavedInv, UsageInv, Unchecked
  <2> QED  BY <1>2, <2>1, <2>2, StatsKept DEF ValuesNext
<1>3. UNCHANGED vars => UNCHANGED valueVars
  BY DEF vars, besides
<1> QED  BY <1>1, <1>2, <1>3 DEF Next, Publish, EditFile, RemoveFile, Load, besides

\* With a usage that can be shown, the browser accepts what a viewer is sent.
LEMMA SnapshotShown ==
    ASSUME ValuesInv, NEW visible, NEW recovering \in {Absent, Text("recovering"), Text("retrying")},
           latestUsage # Absent => \A i \in DOMAIN latestUsage.metrics : Get(latestUsage.metrics[i], "value") # Infinite
    PROVE  IsServerMessage(SnapshotMessage(visible, recovering))
<1>1. PICK usage : usage = IF latestUsage = Absent THEN [resource |-> Absent, metrics |-> <<>>, uptime |-> <<>>, errors |-> <<>>] ELSE latestUsage
  OBVIOUS
<1>2. PICK metrics : metrics = IF Key \in visible THEN usage.metrics ELSE <<>>
  OBVIOUS
<1>3. PICK errors : errors = IF Key \in visible THEN usage.errors ELSE <<>>
  OBVIOUS
<1>4. PICK history : history = IF asked = Absent THEN saved ELSE <<>>
  OBVIOUS
<1>5. PICK resource : resource = IF usage.resource = Absent THEN Null ELSE VisibleResource(usage.resource, visible)
  OBVIOUS
<1>6. PICK shown : shown = [i \in DOMAIN metrics |-> Charted(metrics[i])]
  OBVIOUS
<1>7. PICK told : told = [i \in DOMAIN history |-> VisibleResource(history[i], visible)]
  OBVIOUS
<1>8. PICK failures : failures = [i \in DOMAIN errors |-> Map([key |-> Text(Key), code |-> errors[i]])]
  OBVIOUS
<1>9. PICK recovery : recovery = Map([k \in IF recovering # Absent /\ Key \in visible THEN {Key} ELSE {} |-> recovering])
  OBVIOUS
<1>10. PICK pending : pending = Flag(latestUsage = Absent)
  OBVIOUS
<1>11. PICK m : m = MetricsSnapshot(visible, recovering)
  OBVIOUS
<1>12. \E uptime : m = Map([resource |-> resource, history |-> List(told), historyPeriodMs |-> Num(1), pending |-> pending,
                            customMetrics |-> List(shown), metricRecovery |-> recovery, uptimeMetrics |-> uptime,
                            metricErrors |-> List(failures)])
  BY <1>1, <1>2, <1>3, <1>4, <1>5, <1>6, <1>7, <1>8, <1>9, <1>10, <1>11 DEF MetricsSnapshot, Charted
<1>13. /\ IsMap(m) /\ Has(m, "resource") /\ Get(m, "resource") = resource /\ Get(m, "history") = List(told)
       /\ Get(m, "historyPeriodMs") = Num(1) /\ Get(m, "pending") = pending /\ Get(m, "customMetrics") = List(shown)
       /\ Get(m, "metricRecovery") = recovery /\ Get(m, "metricErrors") = List(failures)
  <2>1. \A f : IsMap(Map(f)) /\ Map(f).map = f
    BY DEF Map, IsMap
  <2> QED  BY <1>12, <2>1 DEF Get, Has, Keys
<1>14. \A s : IsList(List(s)) /\ List(s).list = s
  BY DEF List, IsList
<1>15. \A i \in DOMAIN saved : IF asked = Absent THEN IsResourceMetricSample(saved[i]) ELSE IsCustomMetricSample(saved[i])
  BY DEF ValuesInv, SavedInv
<1>16. resource = Null \/ IsContainerResources(resource)
  <2>1. usage.resource = Absent \/ IsContainerResources(usage.resource)
    BY <1>1 DEF ValuesInv, UsageInv
  <2> QED  BY <1>5, <2>1, VisibleShown
<1>17. EveryIn(List(told), IsResourceMetricSample)
  <2>1. \A i \in DOMAIN history : IsResourceMetricSample(history[i])
    BY <1>4, <1>15
  <2>2. \A i \in DOMAIN history : IsResourceMetricSample(VisibleResource(history[i], visible))
    BY <2>1, VisibleShown DEF IsResourceMetricSample
  <2> QED  BY <1>7, <1>14, <2>2 DEF EveryIn
<1>18. EveryIn(List(shown), IsCustomMetric)
  <2>1. \A i \in DOMAIN metrics : asked # Absent /\ CardMetric(metrics[i]) /\ Get(metrics[i], "value") # Infinite
    BY <1>1, <1>2 DEF ValuesInv, UsageInv
  <2>2. asked # Absent => \A i \in DOMAIN saved : IsCustomMetricSample(saved[i])
    BY <1>15
  <2>3. \A i \in DOMAIN metrics : IsCustomMetric(Charted(metrics[i]))
    BY <2>1, <2>2, ChartedShown
  <2> QED  BY <1>6, <1>14, <2>3 DEF EveryIn
<1>19. EveryIn(List(failures), IsMetricError)
  <2>1. \A i \in DOMAIN errors : errors[i] = Text("collection_failed")
    BY <1>1, <1>3 DEF ValuesInv, UsageInv
  <2>2. PICK e : e = Map([key |-> Text(Key), code |-> Text("collection_failed")])
    OBVIOUS
  <2>3. Get(e, "key") = Text(Key) /\ Get(e, "code") = Text("collection_failed")
    BY <2>2 DEF Map, IsMap, Get
  <2>4. IsMetricError(e)
    BY <2>3, Kinds DEF IsMetricError, OneOf
  <2>5. \A i \in DOMAIN failures : failures[i] = e
    BY <1>8, <2>1, <2>2
  <2> QED  BY <1>14, <2>4, <2>5 DEF EveryIn
<1>20. IsMap(recovery) /\ \A k \in Keys(recovery) : OneOf(recovery.map[k], {"recovering", "retrying"})
  <2>1. \A k \in Keys(recovery) : recovery.map[k] = recovering /\ recovering # Absent
    BY <1>9 DEF Map, IsMap, Keys
  <2>2. recovering # Absent => OneOf(recovering, {"recovering", "retrying"})
    BY Kinds DEF OneOf
  <2> QED  BY <1>9, <2>1, <2>2 DEF Map, IsMap
<1>21. IsFlag(pending) /\ IsNum(Num(1)) /\ Num(1).num > 0
  BY <1>10 DEF Flag, IsFlag, Num, IsNum
<1>22. IsMetricsResponse(m)
  BY <1>13, <1>16, <1>17, <1>18, <1>19, <1>20, <1>21 DEF IsMetricsResponse, Opt
<1>23. PICK v : v = SnapshotMessage(visible, recovering)
  OBVIOUS
<1>24. Get(v, "type") = Text("metrics_snapshot") /\ Get(v, "version") = Num(1) /\ Get(v, "cardId") = Text("card") /\ Get(v, "metrics") = m
  BY <1>11, <1>23 DEF SnapshotMessage, Map, IsMap, Get
<1> QED  BY <1>22, <1>23, <1>24, Kinds DEF IsServerMessage

(* Whatever a provider answers and whoever is told, the browser accepts    *)
(* the message, unless it tells a sum over items or a rate that is no      *)
(* number (status.ts:168).                                                 *)
THEOREM MessagesAccepted == Spec => []MessagesUnderstood
<1>1. Init => ValuesInv
  <2> SUFFICES ASSUME Init PROVE ValuesInv
    OBVIOUS
  <2>1. AskedInv /\ clock = 0 /\ traffic = Absent /\ latestUsage = Absent /\ saved = <<>>
    BY DEF Init, ValuesInit, AskedInv
  <2>2. <<>> \in Seq({})
    OBVIOUS
  <2> QED  BY <2>1, <2>2 DEF ValuesInv, TrafficInv, SavedInv, UsageInv
<1>2. ValuesInv => MessagesUnderstood
  <2> SUFFICES ASSUME ValuesInv, NEW visible, NEW recovering \in {Absent, Text("recovering"), Text("retrying")}
      PROVE  \/ IsServerMessage(AsJson(SnapshotMessage(visible, recovering)))
             \/ Unchecked /\ latestUsage # Absent /\ \E i \in DOMAIN latestUsage.metrics : latestUsage.metrics[i].map["value"] = Infinite
    BY DEF MessagesUnderstood
  <2>1. CASE latestUsage # Absent /\ \E i \in DOMAIN latestUsage.metrics : Get(latestUsage.metrics[i], "value") = Infinite
    <3>1. PICK i \in DOMAIN latestUsage.metrics : Get(latestUsage.metrics[i], "value") = Infinite
      BY <2>1
    <3>2. PICK x : x = latestUsage.metrics[i]
      OBVIOUS
    <3>3. Get(x, "value") = Infinite => x.map["value"] = Infinite
      BY DEF Get, Infinite, Absent
    <3> QED  BY <2>1, <3>1, <3>2, <3>3 DEF ValuesInv, UsageInv
  <2>2. CASE ~(latestUsage # Absent /\ \E i \in DOMAIN latestUsage.metrics : Get(latestUsage.metrics[i], "value") = Infinite)
    <3>1. PICK v : v = SnapshotMessage(visible, recovering) /\ IsServerMessage(v)
      BY <2>2, SnapshotShown
    <3> QED  BY <3>1, MessageSent
  <2> QED  BY <2>1, <2>2
<1> QED  BY <1>1, <1>2, ValuesKept, PTL DEF Spec

-----------------------------------------------------------------------------
(* What a service says is not what labels say.                             *)

\* Labels that differ, if at all, in these.
SameBut(a, b, gone) ==
    \A k : k \notin gone => /\ Get(a, k) = Get(b, k) /\ (Has(a, k) <=> Has(b, k))
                            /\ Has(b, k) => a.map[k] = b.map[k]

LEMMA LabelsWithout ==
    ASSUME NEW labels, IsMap(labels), NEW gone
    PROVE  SameBut(Without(labels, gone), labels, gone)
<1>1. PICK fields : fields = [k \in DOMAIN labels.map \ gone |-> labels.map[k]]
  OBVIOUS
<1>2. Without(labels, gone) = Map(fields)
  BY <1>1 DEF Without
<1>3. \A k : k \notin gone => /\ k \in DOMAIN fields <=> k \in DOMAIN labels.map
                              /\ k \in DOMAIN labels.map => fields[k] = labels.map[k]
  BY <1>1
<1> QED  BY <1>2, <1>3, Tags DEF SameBut, Get, Has, Keys

\* The label of one field is none of another's.
LEMMA LabelsApart ==
    ASSUME NEW f \in ServiceFields
    PROVE  /\ f # "title" => {"title", "homepage.name"} \cap LabelsOf(f) = {}
           /\ f # "url" => {"url", "homepage.href"} \cap LabelsOf(f) = {}
           /\ f # "category" => {"category", "homepage.group"} \cap LabelsOf(f) = {}
           /\ f # "order" => {"order", "homepage.weight"} \cap LabelsOf(f) = {}
           /\ f # "description" => {"description", "homepage.description"} \cap LabelsOf(f) = {}
           /\ f # "icon" => {"icon", "homepage.icon"} \cap LabelsOf(f) = {}
           /\ \A k \in {"hidden", "show_status", "metrics", "access", "search_aliases"} : f # k => k \notin LabelsOf(f)
           /\ {"metrics_poll_interval", "metrics_history_period", "traefik"} \cap LabelsOf(f) = {}
<1>1. f \in {"title", "description", "url", "category", "host", "hidden", "show_status", "access", "search_aliases",
             "icon", "order", "metrics"}
  BY DEF ServiceFields, ServiceTexts, ServiceFlags, ServiceLists
<1>2. LabelsOf(f) = IF f = "title" THEN {"title", "homepage.name"}
                    ELSE IF f = "url" THEN {"url", "homepage.href"}
                    ELSE IF f = "category" THEN {"category", "homepage.group"}
                    ELSE IF f = "order" THEN {"order", "homepage.weight"} ELSE {f}
  BY DEF LabelsOf
<1> QED  BY <1>1, <1>2

\* The fields of labels that those of a service's field decide.
FieldsFrom(f) == IF f = "metrics" THEN {"metrics", "resourceStats"} ELSE {f}

\* A label, or that of Homepage.
Either(labels, fallback, key, homepage) == Else(Get(labels, key), IF fallback THEN Get(labels, homepage) ELSE Absent)
Restricted(labels) == {m \in MetricKeys : Has(labels, AccessLabel(m))}
SourcesIn(labels) == {p \in Names : OneOf(Get(labels, SourceLabel(p)), HttpUrls)}
MetricsIn(labels) == LET requested == NamesLabel(Get(labels, "metrics")) IN IF "none" \in requested THEN {} ELSE requested
StatsIn(labels) ==
    IF MetricsIn(labels) # {} \/ "none" \in NamesLabel(Get(labels, "metrics")) THEN Some(MetricsIn(labels) \cap Resources) ELSE Absent
ListedIn(labels) == IF MetricsIn(labels) # {} THEN Some(MetricsIn(labels)) ELSE Absent
UrlsIn(labels) == [p \in SourcesIn(labels) |-> Get(labels, SourceLabel(p))]
GroupsAllowed(labels) == [m \in Restricted(labels) |-> NamesLabel(Get(labels, AccessLabel(m)))]
IconIn(labels, fallback) ==
    LET icon == Get(labels, "homepage.icon") IN
    Else(Get(labels, "icon"), IF fallback /\ OneOf(icon, HomepageIcons) THEN icon ELSE Absent)

LEMMA FieldsParsed ==
    ASSUME NEW labels, NEW fallback
    PROVE  LET parsed == ParsedLabels(labels, fallback) IN
           /\ parsed["hidden"] = Flag(FlagLabel(Get(labels, "hidden")) = Flag(TRUE))
           /\ parsed["url"] = Either(labels, fallback, "url", "homepage.href")
           /\ parsed["title"] = Either(labels, fallback, "title", "homepage.name")
           /\ parsed["description"] = Either(labels, fallback, "description", "homepage.description")
           /\ parsed["icon"] = IconIn(labels, fallback)
           /\ parsed["category"] = Either(labels, fallback, "category", "homepage.group")
           /\ parsed["order"] = NumberLabel(Either(labels, fallback, "order", "homepage.weight"))
           /\ parsed["show_status"] = FlagLabel(Get(labels, "show_status"))
           /\ parsed["resourceStats"] = StatsIn(labels) /\ parsed["metrics"] = ListedIn(labels)
           /\ parsed["interval"] = PeriodLabel(Get(labels, "metrics_poll_interval"))
           /\ parsed["retention"] = PeriodLabel(Get(labels, "metrics_history_period"))
           /\ parsed["access"] = NamesLabel(Get(labels, "access"))
           /\ parsed["search_aliases"] = NamesLabel(Get(labels, "search_aliases"))
           /\ parsed["sources"] = UrlsIn(labels)
           /\ parsed["metricsAccess"] = GroupsAllowed(labels)
BY DEF ParsedLabels, Either, Restricted, SourcesIn, MetricsIn, IconIn, StatsIn, ListedIn, UrlsIn, GroupsAllowed

\* Labels of a service's field change no other field.
LEMMA ParsedBut ==
    ASSUME NEW f \in ServiceFields, NEW a, NEW b, SameBut(a, b, LabelsOf(f)), NEW fallback
    PROVE  \A k \in LabelFields \ FieldsFrom(f) : ParsedLabels(a, fallback)[k] = ParsedLabels(b, fallback)[k]
<1>1. PICK x : x = ParsedLabels(a, fallback)
  OBVIOUS
<1>2. PICK y : y = ParsedLabels(b, fallback)
  OBVIOUS
<1>3. \A k : k \notin LabelsOf(f) => Get(a, k) = Get(b, k) /\ (Has(a, k) <=> Has(b, k))
  BY DEF SameBut
<1>4. f # "title" => x["title"] = y["title"]
  <2>1. f # "title" => Get(a, "title") = Get(b, "title") /\ Get(a, "homepage.name") = Get(b, "homepage.name")
    BY <1>3, LabelsApart
  <2>2. x["title"] = Either(a, fallback, "title", "homepage.name") /\ y["title"] = Either(b, fallback, "title", "homepage.name")
    BY <1>1, <1>2, FieldsParsed
  <2> QED  BY <2>1, <2>2 DEF Either
<1>5. f # "url" => x["url"] = y["url"]
  <2>1. f # "url" => Get(a, "url") = Get(b, "url") /\ Get(a, "homepage.href") = Get(b, "homepage.href")
    BY <1>3, LabelsApart
  <2>2. x["url"] = Either(a, fallback, "url", "homepage.href") /\ y["url"] = Either(b, fallback, "url", "homepage.href")
    BY <1>1, <1>2, FieldsParsed
  <2> QED  BY <2>1, <2>2 DEF Either
<1>6. f # "category" => x["category"] = y["category"]
  <2>1. f # "category" => Get(a, "category") = Get(b, "category") /\ Get(a, "homepage.group") = Get(b, "homepage.group")
    BY <1>3, LabelsApart
  <2>2. x["category"] = Either(a, fallback, "category", "homepage.group") /\ y["category"] = Either(b, fallback, "category", "homepage.group")
    BY <1>1, <1>2, FieldsParsed
  <2> QED  BY <2>1, <2>2 DEF Either
<1>7. f # "order" => x["order"] = y["order"]
  <2>1. f # "order" => Get(a, "order") = Get(b, "order") /\ Get(a, "homepage.weight") = Get(b, "homepage.weight")
    BY <1>3, LabelsApart
  <2>2. /\ x["order"] = NumberLabel(Either(a, fallback, "order", "homepage.weight"))
        /\ y["order"] = NumberLabel(Either(b, fallback, "order", "homepage.weight"))
    BY <1>1, <1>2, FieldsParsed
  <2> QED  BY <2>1, <2>2 DEF Either
<1>8. f # "description" => x["description"] = y["description"]
  <2>1. f # "description" => Get(a, "description") = Get(b, "description") /\ Get(a, "homepage.description") = Get(b, "homepage.description")
    BY <1>3, LabelsApart
  <2>2. x["description"] = Either(a, fallback, "description", "homepage.description") /\ y["description"] = Either(b, fallback, "description", "homepage.description")
    BY <1>1, <1>2, FieldsParsed
  <2> QED  BY <2>1, <2>2 DEF Either
<1>9. f # "icon" => x["icon"] = y["icon"]
  <2>1. f # "icon" => Get(a, "icon") = Get(b, "icon") /\ Get(a, "homepage.icon") = Get(b, "homepage.icon")
    BY <1>3, LabelsApart
  <2>2. x["icon"] = IconIn(a, fallback) /\ y["icon"] = IconIn(b, fallback)
    BY <1>1, <1>2, FieldsParsed
  <2> QED  BY <2>1, <2>2 DEF IconIn
<1>10. \A k \in {"hidden", "show_status", "metrics", "access", "search_aliases"} : f # k => Get(a, k) = Get(b, k)
  BY <1>3, LabelsApart
<1>11. f # "hidden" => x["hidden"] = y["hidden"]
  <2>1. x["hidden"] = Flag(FlagLabel(Get(a, "hidden")) = Flag(TRUE)) /\ y["hidden"] = Flag(FlagLabel(Get(b, "hidden")) = Flag(TRUE))
    BY <1>1, <1>2, FieldsParsed
  <2>2. f # "hidden" => Get(a, "hidden") = Get(b, "hidden")
    BY <1>10
  <2> QED  BY <2>1, <2>2, Zenon
<1>12. f # "show_status" => x["show_status"] = y["show_status"]
  <2>1. x["show_status"] = FlagLabel(Get(a, "show_status")) /\ y["show_status"] = FlagLabel(Get(b, "show_status"))
    BY <1>1, <1>2, FieldsParsed
  <2> QED  BY <1>10, <2>1
<1>13. f # "metrics" => x["metrics"] = y["metrics"] /\ x["resourceStats"] = y["resourceStats"]
  <2>1. f # "metrics" => Get(a, "metrics") = Get(b, "metrics")
    BY <1>10
  <2>2. x["metrics"] = ListedIn(a) /\ x["resourceStats"] = StatsIn(a)
    BY <1>1, FieldsParsed
  <2>3. y["metrics"] = ListedIn(b) /\ y["resourceStats"] = StatsIn(b)
    BY <1>2, FieldsParsed
  <2>4. f # "metrics" => MetricsIn(a) = MetricsIn(b)
    BY <2>1 DEF MetricsIn
  <2> QED  BY <2>1, <2>2, <2>3, <2>4 DEF ListedIn, StatsIn
<1>14. /\ f # "access" => x["access"] = y["access"]
       /\ f # "search_aliases" => x["search_aliases"] = y["search_aliases"]
  <2>1. x["access"] = NamesLabel(Get(a, "access")) /\ y["access"] = NamesLabel(Get(b, "access"))
    BY <1>1, <1>2, FieldsParsed
  <2>2. x["search_aliases"] = NamesLabel(Get(a, "search_aliases")) /\ y["search_aliases"] = NamesLabel(Get(b, "search_aliases"))
    BY <1>1, <1>2, FieldsParsed
  <2> QED  BY <1>10, <2>1, <2>2
<1>15. x["interval"] = y["interval"] /\ x["retention"] = y["retention"]
  <2>1. \A k \in {"metrics_poll_interval", "metrics_history_period"} : Get(a, k) = Get(b, k)
    BY <1>3, LabelsApart
  <2>2. x["interval"] = PeriodLabel(Get(a, "metrics_poll_interval")) /\ y["interval"] = PeriodLabel(Get(b, "metrics_poll_interval"))
    BY <1>1, <1>2, FieldsParsed
  <2>3. x["retention"] = PeriodLabel(Get(a, "metrics_history_period")) /\ y["retention"] = PeriodLabel(Get(b, "metrics_history_period"))
    BY <1>1, <1>2, FieldsParsed
  <2> QED  BY <2>1, <2>2, <2>3
<1>16. x["sources"] = y["sources"]
  <2>1. \A p \in Names : Get(a, SourceLabel(p)) = Get(b, SourceLabel(p))
    BY <1>3, LabelNamesAssumption
  <2>2. SourcesIn(a) = SourcesIn(b)
    BY <2>1 DEF SourcesIn
  <2>3. UrlsIn(a) = UrlsIn(b)
    BY <2>1, <2>2 DEF SourcesIn, UrlsIn
  <2>4. x["sources"] = UrlsIn(a) /\ y["sources"] = UrlsIn(b)
    BY <1>1, <1>2, FieldsParsed
  <2> QED  BY <2>3, <2>4
<1>17. x["metricsAccess"] = y["metricsAccess"]
  <2>1. \A m \in MetricKeys : Get(a, AccessLabel(m)) = Get(b, AccessLabel(m)) /\ (Has(a, AccessLabel(m)) <=> Has(b, AccessLabel(m)))
    BY <1>3, LabelNamesAssumption
  <2>2. Restricted(a) = Restricted(b)
    BY <2>1 DEF Restricted
  <2>3. GroupsAllowed(a) = GroupsAllowed(b)
    BY <2>1, <2>2 DEF Restricted, GroupsAllowed
  <2>4. x["metricsAccess"] = GroupsAllowed(a) /\ y["metricsAccess"] = GroupsAllowed(b)
    BY <1>1, <1>2, FieldsParsed
  <2> QED  BY <2>3, <2>4
<1> QED
  BY <1>1, <1>2, <1>4, <1>5, <1>6, <1>7, <1>8, <1>9, <1>11, <1>12, <1>13, <1>14, <1>15, <1>16, <1>17 DEF LabelFields, FieldsFrom

\* A field of a service decides what becomes of the labels it is merged with.
LEMMA MergedBut ==
    ASSUME NEW f \in ServiceFields, NEW x, NEW y, NEW service, DOMAIN x = LabelFields, DOMAIN y = LabelFields,
           \A k \in LabelFields \ FieldsFrom(f) : x[k] = y[k], service[f] # Absent
    PROVE  MergeWithYaml(x, service) = MergeWithYaml(y, service)
<1> DEFINE plain == {"hidden", "url", "title", "description", "icon", "category", "order", "show_status"}
           laid(labels) == [k \in DOMAIN labels |->
                              CASE k \in plain -> Overlaid(service, labels, k)
                                [] k \in ServiceLists -> IF service[k] = Absent THEN labels[k] ELSE service[k].some
                                [] OTHER -> labels[k]]
<1>1. PICK a : a = laid(x)
  OBVIOUS
<1>2. PICK b : b = laid(y)
  OBVIOUS
<1>3. DOMAIN a = LabelFields /\ DOMAIN b = LabelFields
  BY <1>1, <1>2
<1>4. ASSUME NEW k \in LabelFields, ~(f = "metrics" /\ k \in {"metrics", "resourceStats"}) PROVE a[k] = b[k]
  <2>1. CASE k \in plain
    <3>1. a[k] = Overlaid(service, x, k) /\ b[k] = Overlaid(service, y, k)
      BY <1>1, <1>2, <2>1 DEF ServiceLists
    <3>2. k # f => x[k] = y[k]
      BY <2>1 DEF FieldsFrom
    <3> QED  BY <3>1, <3>2 DEF Overlaid, Else
  <2>2. CASE k \in ServiceLists
    <3>1. /\ a[k] = IF service[k] = Absent THEN x[k] ELSE service[k].some
          /\ b[k] = IF service[k] = Absent THEN y[k] ELSE service[k].some
      BY <1>1, <1>2, <2>2 DEF ServiceLists
    <3>2. k # f => x[k] = y[k]
      BY <2>2 DEF FieldsFrom, ServiceLists
    <3> QED  BY <3>1, <3>2
  <2>3. CASE k \notin plain /\ k \notin ServiceLists
    <3>1. a[k] = x[k] /\ b[k] = y[k]
      BY <1>1, <1>2, <2>3
    <3>2. k # f
      BY <1>4, <2>3 DEF ServiceFields, ServiceTexts, ServiceFlags, LabelFields
    <3>3. k \notin FieldsFrom(f)
      BY <1>4, <3>2 DEF FieldsFrom
    <3> QED  BY <3>1, <3>3
  <2> QED  BY <2>1, <2>2, <2>3
<1>5. CASE service["metrics"] = Absent
  <2>1. f # "metrics"
    BY <1>5
  <2>2. MergeWithYaml(x, service) = a /\ MergeWithYaml(y, service) = b
    BY <1>1, <1>2, <1>5 DEF MergeWithYaml
  <2>3. a = [k \in LabelFields |-> a[k]] /\ b = [k \in LabelFields |-> b[k]]
    BY <1>1, <1>2
  <2> HIDE DEF laid
  <2>4. \A k \in LabelFields : a[k] = b[k]
    BY <1>4, <2>1
  <2> QED  BY <2>2, <2>3, <2>4
<1>6. CASE service["metrics"] # Absent
  <2>1. PICK metrics : metrics = service["metrics"].some
    OBVIOUS
  <2> DEFINE replaced(labels, merged) ==
            [merged EXCEPT
                !.sources = Spread(labels.sources, IF metrics.sources = Absent THEN <<>> ELSE metrics.sources.map),
                !.resourceStats = IF metrics.entries = Absent THEN Some({}) ELSE Some(metrics.entries.some \cap Resources),
                !.metrics = metrics.entries,
                !.interval = Else(metrics.interval, labels.interval),
                !.retention = Else(metrics.retention, labels.retention),
                !.metricsAccess = IF DOMAIN metrics.access # {} THEN metrics.access ELSE labels.metricsAccess]
  <2>2. MergeWithYaml(x, service) = replaced(x, a) /\ MergeWithYaml(y, service) = replaced(y, b)
    BY <1>1, <1>2, <1>6, <2>1 DEF MergeWithYaml
  <2>3. x.sources = y.sources /\ x.interval = y.interval /\ x.retention = y.retention /\ x.metricsAccess = y.metricsAccess
    BY DEF LabelFields, FieldsFrom, ServiceFields, ServiceTexts, ServiceFlags, ServiceLists
  <2> HIDE DEF laid
  <2>4. \A k \in LabelFields \ {"metrics", "resourceStats"} : a[k] = b[k]
    BY <1>4
  <2>5. PICK p : p = replaced(x, a)
    OBVIOUS
  <2>6. PICK q : q = replaced(y, b)
    OBVIOUS
  <2>7. p = [k \in LabelFields |-> p[k]] /\ q = [k \in LabelFields |-> q[k]]
    BY <1>3, <2>5, <2>6
  <2>8. \A k \in LabelFields : p[k] = q[k]
    BY <1>3, <2>3, <2>4, <2>5, <2>6
  <2> HIDE DEF replaced
  <2> QED  BY <2>2, <2>5, <2>6, <2>7, <2>8
<1> QED  BY <1>5, <1>6

\* Cards that differ, if at all, in the labels of their containers.
SameCard(d, e) == d.url = e.url /\ d.sources = e.sources /\ d.values = e.values /\ d.provider = e.provider

LEMMA MapsSucceed == \A f : Map(f) # Failed /\ Map(f) # Absent
BY DEF Map, Failed, Absent

LEMMA GetMerged ==
    ASSUME NEW a, NEW b, NEW k, IsMap(a), IsMap(b), ~Has(b, k)
    PROVE  IsMap(Merged(a, b)) /\ Get(Merged(a, b), k) = Get(a, k)
<1>1. PICK fields : fields = Spread(a.map, b.map)
  OBVIOUS
<1>2. Merged(a, b) = Map(fields)
  BY <1>1 DEF Merged
<1>3. /\ k \in DOMAIN fields <=> k \in DOMAIN a.map
      /\ k \in DOMAIN a.map => fields[k] = a.map[k]
  BY <1>1 DEF Spread, Has, Keys
<1> QED  BY <1>2, <1>3, Tags DEF Get

LEMMA SameFilling ==
    ASSUME NEW x, NEW y, NEW text, NEW values, Get(x, "parameters") = Get(y, "parameters")
    PROVE  Filling(text, x, values) = Filling(text, y, values)
<1>1. PICK parameters : parameters = Get(x, "parameters")
  OBVIOUS
<1>2. \A m, n : Get(m, "parameters") = parameters =>
          Formatted(m, n, values) = IF Has(parameters, n) /\ n \in DOMAIN values
                                    THEN [input |-> values[n], transform |-> Get(parameters.map[n], "transform")]
                                    ELSE [left |-> n]
  <2> SUFFICES ASSUME NEW m, NEW n, Get(m, "parameters") = parameters
               PROVE  Formatted(m, n, values) = IF Has(parameters, n) /\ n \in DOMAIN values
                                                THEN [input |-> values[n], transform |-> Get(parameters.map[n], "transform")]
                                                ELSE [left |-> n]
    OBVIOUS
  <2>1. Has(parameters, n) => m.map["parameters"] = parameters
    <3>1. parameters # Absent => m.map["parameters"] = parameters
      BY DEF Get
    <3> QED  BY <3>1, Tags DEF Has
  <2> QED  BY <2>1 DEF Formatted
<1>3. \A n : Formatted(x, n, values) = Formatted(y, n, values)
  BY <1>1, <1>2
<1> QED  BY <1>3 DEF Filling

LEMMA SameUrl ==
    ASSUME NEW d, NEW e, SameCard(d, e), NEW x, NEW y, NEW url, Get(x, "parameters") = Get(y, "parameters")
    PROVE  ResolvedUrl(url, x, d) = ResolvedUrl(url, y, e)
<1>1. Filling(url.text, x, d.values) = Filling(url.text, y, e.values)
  BY SameFilling DEF SameCard
<1> QED  BY <1>1 DEF SameCard, ResolvedUrl

\* Labels do not decide whether a request has a URL.
LEMMA RequestFails ==
    ASSUME NEW d, NEW e, SameCard(d, e), NEW metric, NEW request
    PROVE  ResolvedRequest(request, metric, d) = Failed <=> ResolvedRequest(request, metric, e) = Failed
<1>1. PICK url : url = ResolvedUrl(Get(request, "url"), metric, d)
  OBVIOUS
<1>2. url = ResolvedUrl(Get(request, "url"), metric, e)
  BY <1>1, SameUrl
<1>3. \E fields : ResolvedRequest(request, metric, d) = IF url = Failed THEN Failed ELSE Map(fields)
  BY <1>1 DEF ResolvedRequest
<1>4. \E fields : ResolvedRequest(request, metric, e) = IF url = Failed THEN Failed ELSE Map(fields)
  BY <1>2 DEF ResolvedRequest
<1> QED  BY <1>3, <1>4, MapsSucceed

LEMMA AuthenticationFails ==
    ASSUME NEW d, NEW e, SameCard(d, e), NEW metric, NEW v
    PROVE  ResolvedAuthentication(v, metric, d) = Failed <=> ResolvedAuthentication(v, metric, e) = Failed
<1>1. CASE v = Absent
  BY <1>1 DEF ResolvedAuthentication
<1>2. CASE v # Absent /\ Get(v, "kind") \in {Text("basic"), Text("token")}
  <2>1. \E fields : ResolvedAuthentication(v, metric, d) = Map(fields)
    BY <1>2 DEF ResolvedAuthentication
  <2>2. \E fields : ResolvedAuthentication(v, metric, e) = Map(fields)
    BY <1>2 DEF ResolvedAuthentication
  <2> QED  BY <2>1, <2>2, MapsSucceed
<1>3. CASE v # Absent /\ Get(v, "kind") \notin {Text("basic"), Text("token")}
  <2>1. PICK all : all = v.map["requests"].list
    OBVIOUS
  <2>2. PICK a : a = [i \in 1..Len(all) |-> ResolvedRequest(all[i], metric, d)]
    OBVIOUS
  <2>3. PICK b : b = [i \in 1..Len(all) |-> ResolvedRequest(all[i], metric, e)]
    OBVIOUS
  <2>4. ResolvedAuthentication(v, metric, d) = StepsWith(v, a) /\ ResolvedAuthentication(v, metric, e) = StepsWith(v, b)
    BY <1>3, <2>1, <2>2, <2>3 DEF ResolvedAuthentication
  <2>5. DOMAIN a = DOMAIN b /\ \A i \in DOMAIN a : a[i] = Failed <=> b[i] = Failed
    BY <2>2, <2>3, RequestFails
  <2>6. \A steps : StepsWith(v, steps) = Failed <=> \E i \in DOMAIN steps : steps[i] = Failed
    BY MapsSucceed DEF StepsWith
  <2> QED  BY <2>4, <2>5, <2>6
<1> QED  BY <1>1, <1>2, <1>3

LEMMA SourceFails ==
    ASSUME NEW d, NEW e, SameCard(d, e), NEW metric
    PROVE  ResolvedSource(metric, d) = Failed <=> ResolvedSource(metric, e) = Failed
<1>1. PICK source : source = Get(metric, "source")
  OBVIOUS
<1>2. \A card : ResolvedSource(metric, card) = Failed <=>
                    \/ ResolvedRequest(source, metric, card) = Failed
                    \/ ResolvedAuthentication(Get(source, "authentication"), metric, card) = Failed
  <2> SUFFICES ASSUME NEW card
               PROVE  ResolvedSource(metric, card) = Failed <=>
                            \/ ResolvedRequest(source, metric, card) = Failed
                            \/ ResolvedAuthentication(Get(source, "authentication"), metric, card) = Failed
    OBVIOUS
  <2>1. PICK request : request = ResolvedRequest(source, metric, card)
    OBVIOUS
  <2>2. PICK auth : auth = ResolvedAuthentication(Get(source, "authentication"), metric, card)
    OBVIOUS
  <2>3. ResolvedSource(metric, card) = SourceWith(source, card.labels, request, auth)
    BY <1>1, <2>1, <2>2 DEF ResolvedSource
  <2>4. \E fields : SourceWith(source, card.labels, request, auth) = IF request = Failed \/ auth = Failed THEN Failed ELSE Map(fields)
    BY DEF SourceWith
  <2> QED  BY <2>1, <2>2, <2>3, <2>4, MapsSucceed
<1> QED  BY <1>2, RequestFails, AuthenticationFails

LEMMA PagesFail ==
    ASSUME NEW d, NEW e, SameCard(d, e), NEW x, NEW y, IsMap(x), IsMap(y),
           \A k \in {"parameters", "pagination"} : Get(x, k) = Get(y, k)
    PROVE  ResolvedPages(x, d) = Failed <=> ResolvedPages(y, e) = Failed
<1>1. PICK pages : pages = Get(x, "pagination")
  OBVIOUS
<1>2. CASE ~Has(pages, "bulk")
  <2>1. ResolvedPages(x, d) = x /\ ResolvedPages(y, e) = y
    BY <1>1, <1>2 DEF ResolvedPages
  <2> QED  BY <2>1 DEF IsMap, Failed
<1>3. CASE Has(pages, "bulk")
  <2>1. x.map["pagination"] = pages /\ y.map["pagination"] = pages
    <3>1. pages # Absent
      BY <1>3, Tags DEF Has
    <3> QED  BY <1>1, <3>1 DEF Get
  <2>2. PICK bulk : bulk = pages.map["bulk"]
    OBVIOUS
  <2>3. PICK url : url = ResolvedUrl(bulk.map["url"], x, d)
    OBVIOUS
  <2>4. PICK key : key = Filling(bulk.map["key"].text, x, d.values)
    OBVIOUS
  <2>5. url = ResolvedUrl(bulk.map["url"], y, e) /\ key = Filling(bulk.map["key"].text, y, e.values)
    BY <2>3, <2>4, SameUrl, SameFilling DEF SameCard
  <2>6. \E f : ResolvedPages(x, d) = IF url = Failed \/ \E n \in DOMAIN key : key[n] = [left |-> n] THEN Failed ELSE Map(f)
    BY <1>1, <1>3, <2>1, <2>2, <2>3, <2>4 DEF ResolvedPages, Merged
  <2>7. \E f : ResolvedPages(y, e) = IF url = Failed \/ \E n \in DOMAIN key : key[n] = [left |-> n] THEN Failed ELSE Map(f)
    BY <1>1, <1>3, <2>1, <2>2, <2>5 DEF ResolvedPages, Merged
  <2> QED  BY <2>6, <2>7, MapsSucceed
<1> QED  BY <1>2, <1>3

LEMMA SameItems ==
    ASSUME NEW d, NEW e, SameCard(d, e), NEW metric, IsMap(metric)
    PROVE  /\ ResolvedItems(metric, d) = ResolvedItems(metric, e)
           /\ LET items == ResolvedItems(metric, d) IN
              items = Failed \/ (IsMap(items) /\ \A k : k # "for_each" => Get(items, k) = Get(metric, k))
<1>1. PICK each : each = metric.map["for_each"]
  OBVIOUS
<1>2. PICK url : url = ResolvedUrl(each.map["request"].map["url"], metric, d)
  OBVIOUS
<1>3. url = ResolvedUrl(each.map["request"].map["url"], metric, e)
  BY <1>2, SameUrl
<1>4. PICK item : item = Merged(each.map["request"], Map([url |-> url]))
  OBVIOUS
<1>5. PICK asking : asking = Merged(each, Map([request |-> item]))
  OBVIOUS
<1>6. \A card : url = ResolvedUrl(each.map["request"].map["url"], metric, card) =>
          ResolvedItems(metric, card) = IF ~Has(metric, "for_each") THEN metric ELSE IF url = Failed THEN Failed
                                        ELSE Merged(metric, Map([for_each |-> asking]))
  BY <1>1, <1>4, <1>5 DEF ResolvedItems
<1>7. PICK items : items = ResolvedItems(metric, d)
  OBVIOUS
<1>8. items = IF ~Has(metric, "for_each") THEN metric ELSE IF url = Failed THEN Failed ELSE Merged(metric, Map([for_each |-> asking]))
  BY <1>2, <1>6, <1>7
<1>9. ResolvedItems(metric, e) = items
  BY <1>3, <1>6, <1>8
<1>10. PICK added : added = Map([for_each |-> asking])
  OBVIOUS
<1>11. IsMap(added) /\ \A k : k # "for_each" => ~Has(added, k)
  BY <1>10, Tags DEF Has
<1>12. IsMap(Merged(metric, added)) /\ \A k : k # "for_each" => Get(Merged(metric, added), k) = Get(metric, k)
  <2>1. IsMap(Merged(metric, added))
    BY Tags DEF Merged
  <2> QED  BY <1>11, <2>1, GetMerged
<1>13. items = Failed \/ (IsMap(items) /\ \A k : k # "for_each" => Get(items, k) = Get(metric, k))
  BY <1>8, <1>10, <1>12
<1> QED  BY <1>7, <1>9, <1>13

LEMMA SourcedItems ==
    ASSUME NEW items, IsMap(items), NEW source
    PROVE  LET sourced == Merged(items, Map([source |-> source])) IN
           IsMap(sourced) /\ \A k : k # "source" => Get(sourced, k) = Get(items, k)
<1>1. PICK added : added = Map([source |-> source])
  OBVIOUS
<1>2. IsMap(added) /\ \A k : k # "source" => ~Has(added, k)
  BY <1>1, Tags DEF Has
<1>3. IsMap(Merged(items, added))
  BY Tags DEF Merged
<1> QED  BY <1>1, <1>2, <1>3, GetMerged

\* Whether a metric can be asked for does not depend on labels that are no inputs of it.
LEMMA MetricFails ==
    ASSUME NEW key, NEW metric, IsMap(metric), NEW url, NEW sources, NEW a, NEW b, NEW inputs,
           ParameterValues(key, metric, a, inputs) = ParameterValues(key, metric, b, inputs)
    PROVE  ResolvedMetric(key, metric, url, sources, a, inputs) = Failed <=> ResolvedMetric(key, metric, url, sources, b, inputs) = Failed
<1>1. PICK d : d = CardOf(key, metric, url, sources, a, inputs)
  OBVIOUS
<1>2. PICK e : e = CardOf(key, metric, url, sources, b, inputs)
  OBVIOUS
<1>3. SameCard(d, e)
  BY <1>1, <1>2 DEF CardOf, SameCard
<1>4. PICK items : items = ResolvedItems(metric, d) /\ items = ResolvedItems(metric, e)
  BY <1>3, SameItems
<1>5. PICK s : s = ResolvedSource(metric, d)
  OBVIOUS
<1>6. PICK t : t = ResolvedSource(metric, e)
  OBVIOUS
<1>7. s = Failed <=> t = Failed
  BY <1>3, <1>5, <1>6, SourceFails
<1>8. ResolvedMetric(key, metric, url, sources, a, inputs) = IF d.values = Failed THEN Failed ELSE MetricWith(d, items, s)
  BY <1>1, <1>4, <1>5 DEF ResolvedMetric, CardOf
<1>9. ResolvedMetric(key, metric, url, sources, b, inputs) = IF e.values = Failed THEN Failed ELSE MetricWith(e, items, t)
  BY <1>2, <1>4, <1>6 DEF ResolvedMetric, CardOf
<1>10. d.values = e.values
  BY <1>3 DEF SameCard
<1>11. MetricWith(d, items, s) = Failed <=> MetricWith(e, items, t) = Failed
  <2>1. CASE items = Failed \/ s = Failed
    BY <1>7, <2>1 DEF MetricWith
  <2>2. CASE items # Failed /\ s # Failed
    <3>1. PICK x : x = Merged(items, Map([source |-> s]))
      OBVIOUS
    <3>2. PICK y : y = Merged(items, Map([source |-> t]))
      OBVIOUS
    <3>3. MetricWith(d, items, s) = ResolvedPages(x, d) /\ MetricWith(e, items, t) = ResolvedPages(y, e)
      BY <1>7, <2>2, <3>1, <3>2 DEF MetricWith
    <3>4. IsMap(items)
      BY <1>3, <1>4, <2>2, SameItems
    <3>5. IsMap(x) /\ \A k : k # "source" => Get(x, k) = Get(items, k)
      BY <3>1, <3>4, SourcedItems
    <3>6. IsMap(y) /\ \A k : k # "source" => Get(y, k) = Get(items, k)
      BY <3>2, <3>4, SourcedItems
    <3>7. \A k \in {"parameters", "pagination"} : Get(x, k) = Get(y, k)
      BY <3>5, <3>6
    <3> QED  BY <1>3, <3>3, <3>5, <3>6, <3>7, PagesFail
  <2> QED  BY <2>1, <2>2
<1> QED  BY <1>8, <1>9, <1>10, <1>11

\* Resolved, a metric has the type of value that it had.
LEMMA TypeOfResolved ==
    ASSUME NEW key, NEW metric, IsMap(metric), NEW url, NEW sources, NEW labels, NEW inputs,
           ResolvedMetric(key, metric, url, sources, labels, inputs) # Failed
    PROVE  Get(ResolvedMetric(key, metric, url, sources, labels, inputs), "value_type") = Get(metric, "value_type")
<1>1. PICK card : card = CardOf(key, metric, url, sources, labels, inputs)
  OBVIOUS
<1>2. SameCard(card, card)
  BY DEF SameCard
<1>3. PICK items : items = ResolvedItems(metric, card)
  OBVIOUS
<1>4. PICK source : source = ResolvedSource(metric, card)
  OBVIOUS
<1>5. PICK r : r = ResolvedMetric(key, metric, url, sources, labels, inputs)
  OBVIOUS
<1>6. r = MetricWith(card, items, source)
  BY <1>1, <1>3, <1>4, <1>5 DEF ResolvedMetric, CardOf
<1>7. items # Failed /\ source # Failed
  BY <1>5, <1>6 DEF MetricWith
<1>8. PICK sourced : sourced = Merged(items, Map([source |-> source]))
  OBVIOUS
<1>9. r = ResolvedPages(sourced, card)
  BY <1>6, <1>7, <1>8 DEF MetricWith
<1>10. IsMap(items) /\ Get(items, "value_type") = Get(metric, "value_type")
  BY <1>2, <1>3, <1>7, SameItems
<1>11. IsMap(sourced) /\ Get(sourced, "value_type") = Get(metric, "value_type")
  BY <1>8, <1>10, SourcedItems
<1>12. r = sourced \/ \E pages : r = Merged(sourced, Map([pagination |-> pages]))
  BY <1>5, <1>9 DEF ResolvedPages
<1>13. ASSUME NEW pages, r = Merged(sourced, Map([pagination |-> pages]))
       PROVE  Get(r, "value_type") = Get(sourced, "value_type")
  <2>1. PICK added : added = Map([pagination |-> pages])
    OBVIOUS
  <2>2. IsMap(added) /\ ~Has(added, "value_type")
    BY <2>1, Tags DEF Has
  <2> QED  BY <1>11, <1>13, <2>1, <2>2, GetMerged
<1> QED  BY <1>5, <1>11, <1>12, <1>13

LEMMA ValuesBut ==
    ASSUME NEW key, NEW metric, NEW a, NEW b, NEW inputs, NEW gone, SameBut(a, b, gone),
           \A n \in Keys(Get(metric, "parameters")) : InputLabel(key, n) \notin gone
    PROVE  ParameterValues(key, metric, a, inputs) = ParameterValues(key, metric, b, inputs)
<1>1. PICK declared : declared = Keys(Get(metric, "parameters"))
  OBVIOUS
<1>2. \A n \in declared : /\ Has(a, InputLabel(key, n)) <=> Has(b, InputLabel(key, n))
                          /\ Has(b, InputLabel(key, n)) => a.map[InputLabel(key, n)] = b.map[InputLabel(key, n)]
  BY <1>1 DEF SameBut
<1>3. PICK labelled : labelled = {n \in declared : Has(a, InputLabel(key, n))}
  OBVIOUS
<1>4. labelled = {n \in declared : Has(b, InputLabel(key, n))}
  BY <1>2, <1>3
<1>5. PICK given : given = [n \in labelled |-> a.map[InputLabel(key, n)]]
  OBVIOUS
<1>6. given = [n \in labelled |-> b.map[InputLabel(key, n)]]
  BY <1>2, <1>4, <1>5
<1>7. PICK values : values = Spread(inputs, given)
  OBVIOUS
<1>8. ParameterValues(key, metric, a, inputs) = IF declared \subseteq DOMAIN values THEN values ELSE Failed
  BY <1>1, <1>3, <1>5, <1>7 DEF ParameterValues
<1>9. ParameterValues(key, metric, b, inputs) = IF declared \subseteq DOMAIN values THEN values ELSE Failed
  BY <1>1, <1>4, <1>6, <1>7 DEF ParameterValues
<1> QED  BY <1>8, <1>9

\* Metrics that can be asked for, as far as a card shows them.
SameTypes(x, y) == DOMAIN x = DOMAIN y /\ \A k \in DOMAIN x : Get(x[k], "value_type") = Get(y[k], "value_type")

LEMMA CustomBut ==
    ASSUME NEW definitions, \A k \in DOMAIN definitions : IsMap(definitions[k]),
           NEW url, NEW sources, NEW a, NEW b, NEW inputs, NEW gone, SameBut(a, b, gone),
           \A k \in DOMAIN definitions : \A n \in Keys(Get(definitions[k], "parameters")) : InputLabel(k, n) \notin gone
    PROVE  SameTypes(ResolvedMetrics(definitions, url, sources, a, inputs), ResolvedMetrics(definitions, url, sources, b, inputs))
<1> DEFINE given(k) == IF k \in DOMAIN inputs THEN inputs[k].map ELSE <<>>
<1>1. PICK f : f = [k \in DOMAIN definitions |-> ResolvedMetric(k, definitions[k], url, sources, a, given(k))]
  OBVIOUS
<1>2. PICK g : g = [k \in DOMAIN definitions |-> ResolvedMetric(k, definitions[k], url, sources, b, given(k))]
  OBVIOUS
<1>3. ResolvedMetrics(definitions, url, sources, a, inputs) = Resolvable(f)
  BY <1>1 DEF ResolvedMetrics
<1>4. ResolvedMetrics(definitions, url, sources, b, inputs) = Resolvable(g)
  BY <1>2 DEF ResolvedMetrics
<1> HIDE DEF given
<1>5. ASSUME NEW k \in DOMAIN definitions
      PROVE  /\ f[k] = Failed <=> g[k] = Failed
             /\ f[k] # Failed => Get(f[k], "value_type") = Get(g[k], "value_type")
  <2>1. PICK metric : metric = definitions[k]
    OBVIOUS
  <2>2. PICK values : values = given(k)
    OBVIOUS
  <2>3. f[k] = ResolvedMetric(k, metric, url, sources, a, values) /\ g[k] = ResolvedMetric(k, metric, url, sources, b, values)
    BY <1>1, <1>2, <2>1, <2>2
  <2>4. IsMap(metric) /\ \A n \in Keys(Get(metric, "parameters")) : InputLabel(k, n) \notin gone
    BY <2>1
  <2>5. ParameterValues(k, metric, a, values) = ParameterValues(k, metric, b, values)
    BY <2>4, ValuesBut
  <2>6. f[k] = Failed <=> g[k] = Failed
    BY <2>3, <2>4, <2>5, MetricFails
  <2>7. f[k] # Failed => Get(f[k], "value_type") = Get(metric, "value_type")
    BY <2>3, <2>4, TypeOfResolved
  <2>8. g[k] # Failed => Get(g[k], "value_type") = Get(metric, "value_type")
    BY <2>3, <2>4, TypeOfResolved
  <2> QED  BY <2>6, <2>7, <2>8
<1>6. DOMAIN f = DOMAIN definitions /\ DOMAIN g = DOMAIN definitions
  BY <1>1, <1>2
<1>7. SameTypes(Resolvable(f), Resolvable(g))
  BY <1>5, <1>6 DEF SameTypes, Resolvable
<1> QED  BY <1>3, <1>4, <1>7

KeysKnown == Names \cup DOMAIN LibraryFiles

\* A metric of a service has the key of one of the library or a name.
LEMMA KeysOfService ==
    ASSUME NEW v, NEW shared, v = Absent \/ MetricsAccepted(v, Library)
    PROVE  DOMAIN ParsedServiceMetrics(v, Library, shared).metrics \subseteq KeysKnown
<1>1. PICK entries : entries = IF v = Text("none") THEN Map(<<>>) ELSE Get(v, "entries")
  OBVIOUS
<1>2. PICK charts : charts = ParsedCharts(Get(v, "charts"))
  OBVIOUS
<1>3. PICK own : own = IF IsMap(entries) THEN ParsedOwn(entries, Library, charts, shared) ELSE <<>>
  OBVIOUS
<1>4. PICK overrides : overrides = IF IsMap(entries) THEN ParsedOverrides(entries, Library, charts) ELSE <<>>
  OBVIOUS
<1>5. ParsedServiceMetrics(v, Library, shared) = KeptMetrics(v, entries, Library, own, overrides)
  BY <1>1, <1>2, <1>3, <1>4 DEF ParsedServiceMetrics
<1>6. ParsedServiceMetrics(v, Library, shared).metrics = Spread(overrides, own)
  BY <1>5 DEF KeptMetrics
<1>7. \A n \in Keys(entries) : EntryAccepted(n, entries.map[n], Library)
  <2>1. CASE v = Text("none")
    BY <1>1, <2>1, Tags
  <2>2. CASE v = Absent
    BY <1>1, <2>2, Tags DEF Get
  <2>3. CASE v # Text("none") /\ v # Absent
    <3>1. Opt(v, "entries", LAMBDA e : EntriesAccepted(e, Library, ParsedCharts(Get(v, "charts"))))
      BY <2>3 DEF MetricsAccepted
    <3>2. entries = Absent \/ EntriesAccepted(entries, Library, charts)
      BY <1>1, <1>2, <2>3, <3>1 DEF Opt
    <3> QED  BY <3>2, Tags DEF EntriesAccepted
  <2> QED  BY <2>1, <2>2, <2>3
<1>8. \A values, library, partial, sources : DOMAIN ParsedMetrics(values, library, charts, partial, sources) \subseteq DOMAIN values
  BY DEF ParsedMetrics, Consistent, AcceptedOnly
<1>9. DOMAIN own \subseteq KeysKnown
  <2>1. DOMAIN own \subseteq OwnEntries(entries, Library)
    <3>1. CASE IsMap(entries)
      <4>1. PICK values : values = [n \in OwnEntries(entries, Library) |-> Without(entries.map[n], {"visible_to"})]
        OBVIOUS
      <4>2. own = ParsedMetrics(values, Library, charts, FALSE, shared)
        BY <1>3, <3>1, <4>1 DEF ParsedOwn
      <4>3. DOMAIN own \subseteq DOMAIN values
        BY <1>8, <4>2
      <4> QED  BY <4>1, <4>3
    <3>2. CASE ~IsMap(entries)
      BY <1>3, <3>2
    <3> QED  BY <3>1, <3>2
  <2>2. ASSUME NEW n \in OwnEntries(entries, Library) PROVE n \in Names
    <3>1. n \in Keys(entries) /\ n \notin Resources /\ n \notin DOMAIN Library
      BY <2>2 DEF OwnEntries
    <3>2. EntryAccepted(n, entries.map[n], Library)
      BY <1>7, <3>1
    <3> QED  BY <3>1, <3>2 DEF EntryAccepted
  <2> QED  BY <2>1, <2>2 DEF KeysKnown
<1>10. DOMAIN overrides \subseteq KeysKnown
  <2>1. DOMAIN overrides \subseteq Overridden(entries, Library)
    <3>1. CASE IsMap(entries)
      <4>1. PICK values : values = [n \in Overridden(entries, Library) |-> Get(entries.map[n], "overrides")]
        OBVIOUS
      <4>2. overrides = ParsedMetrics(values, Library, charts, TRUE, Absent)
        BY <1>4, <3>1, <4>1 DEF ParsedOverrides
      <4>3. DOMAIN overrides \subseteq DOMAIN values
        BY <1>8, <4>2
      <4> QED  BY <4>1, <4>3
    <3>2. CASE ~IsMap(entries)
      BY <1>4, <3>2
    <3> QED  BY <3>1, <3>2
  <2>2. Overridden(entries, Library) \subseteq DOMAIN Library
    BY DEF Overridden
  <2>3. DOMAIN Library = DOMAIN LibraryFiles
    BY DEF Library
  <2> QED  BY <2>1, <2>2, <2>3 DEF KeysKnown
<1> QED  BY <1>6, <1>9, <1>10 DEF Spread

\* An accepted metric takes parameters that are named as such.
LEMMA ParametersNamed ==
    ASSUME NEW m, Readable(m)
    PROVE  IsMap(Built(m)) /\ Keys(Get(Built(m), "parameters")) \subseteq ParameterNames
<1>1. PICK parameters : parameters = Get(m, "parameters")
  OBVIOUS
<1>2. IsMap(Built(m)) /\ Get(Built(m), "parameters") = parameters
  BY <1>1, SourceOfReadable
<1>3. parameters = Absent \/ Parameters(parameters, Absent)
  BY <1>1 DEF Readable, Accepted, FormattingAccepted, Opt
<1>4. Keys(parameters) \subseteq ParameterNames
  BY <1>3, Tags DEF Parameters
<1> QED  BY <1>2, <1>4

\* What is shown of a card.
LEMMA SameShown ==
    ASSUME NEW cfg, NEW c, NEW d, NEW r, NEW s,
           \A k \in {"id", "host", "name", "state", "health"} : c[k] = d[k],
           r.labels = s.labels, r.url = s.url, r.definitions = s.definitions, r.errors = s.errors, SameTypes(r.custom, s.custom)
    PROVE  Hidden(r) = Hidden(s) /\ CardFromContainer(cfg, c, r, FALSE) = CardFromContainer(cfg, d, s, FALSE)
<1>1. Hidden(r) = Hidden(s)
  BY DEF Hidden
<1>2. /\ Shown(r) = Shown(s) /\ SelectedLabels(r) = SelectedLabels(s) /\ SelectedErrors(r) = SelectedErrors(s)
      /\ SelectedMetrics(r) = SelectedMetrics(s) /\ SelectedMetrics(r) \subseteq DOMAIN r.custom
  BY DEF Shown, SelectedLabels, SelectedErrors, SelectedMetrics, SameTypes
<1>3. \A type : OfType(r, type) = OfType(s, type)
  BY <1>2 DEF OfType, SameTypes
<1>4. Details(r, cfg, TRUE).pollIntervalMs = Details(s, cfg, TRUE).pollIntervalMs
  BY DEF Details
<1>5. MetricFields(r, cfg) = MetricFields(s, cfg)
  BY <1>2, <1>3, <1>4 DEF MetricFields
<1>6. DockerId(c) = DockerId(d)
  BY DEF DockerId
<1>7. CardFromContainer(cfg, c, r, FALSE) = CardFromContainer(cfg, d, s, FALSE)
  BY <1>5, <1>6 DEF CardFromContainer
<1> QED  BY <1>1, <1>7

\* What cards are made of: the definitions of accepted metrics, under keys that are known.
KnownMetrics(metrics) == AllBuilt(metrics) /\ DOMAIN metrics \subseteq KeysKnown

LEMMA MetricsKnown ==
    ASSUME NEW w \in Worlds, Accounted(w), NEW n \in DOMAIN config.services
    PROVE  LET own == config.services[n]["metrics"] IN own = Absent \/ KnownMetrics(own.some.metrics)
<1>1. PICK shared : shared = ParsedSharedSources(Get(w.content, "shared_metric_sources"))
  OBVIOUS
<1>2. PICK v : v = w.content.map[n]
  OBVIOUS
<1>3. config.services[n] = ParsedService(v, Library, shared) /\ ServiceAccepted(v, Library)
  BY <1>1, <1>2, ServicesOfFile DEF Accounted
<1>4. PICK metrics : metrics = Get(v, "metrics")
  OBVIOUS
<1>5. config.services[n]["metrics"] = IF Has(v, "metrics") THEN Some(ParsedServiceMetrics(metrics, Library, shared)) ELSE Absent
  BY <1>3, <1>4, FieldsOfService
<1>6. metrics = Absent \/ MetricsAccepted(metrics, Library)
  BY <1>3, <1>4 DEF ServiceAccepted, Opt
<1>7. PICK parsed : parsed = ParsedServiceMetrics(metrics, Library, shared)
  OBVIOUS
<1>8. KnownMetrics(parsed.metrics)
  BY <1>6, <1>7, ServiceBuilt, KeysOfService DEF KnownMetrics
<1> QED  BY <1>5, <1>7, <1>8, Tags

\* Of two containers whose labels differ only in what the service decides, the same is shown.
Stripped(d, c, f) ==
    /\ \A k \in {"id", "host", "name", "compose", "state", "health", "current"} : c[k] = d[k]
    /\ SameBut(d.labels, c.labels, LabelsOf(f))

\* A service that says the field f itself, with metrics the library knows.
Says(service, f) ==
    /\ service # Absent /\ service[f] # Absent
    /\ service["metrics"] = Absent \/ KnownMetrics(service["metrics"].some.metrics)

ShownAlike(services, c, d, fallback, cfg) ==
    LET r == ResolveContainer(services, c, fallback, Catalog)
        s == ResolveContainer(services, d, fallback, Catalog)
    IN  Hidden(s) = Hidden(r) /\ CardFromContainer(cfg, d, s, FALSE) = CardFromContainer(cfg, c, r, FALSE)

LEMMA ResolvedBut ==
    ASSUME NEW services, NEW c, NEW d, NEW f \in ServiceFields, NEW fallback, NEW cfg, NEW service, Stripped(d, c, f),
           LookupYamlService(services, c) # Absent, service = services[LookupYamlService(services, c).text],
           Says(service, f)
    PROVE  ShownAlike(services, c, d, fallback, cfg)
<1> USE DEF Stripped, Says
<1>1. PICK r : r = ResolveContainer(services, c, fallback, Catalog)
  OBVIOUS
<1>2. PICK s : s = ResolveContainer(services, d, fallback, Catalog)
  OBVIOUS
<1>4. c.current = d.current /\ LookupYamlService(services, d) = LookupYamlService(services, c)
  BY DEF LookupYamlService
<1>5. PICK x : x = ParsedLabels(c.labels, fallback /\ ~c.current)
  OBVIOUS
<1>6. PICK y : y = ParsedLabels(d.labels, fallback /\ ~c.current)
  OBVIOUS
<1>7. MergeWithYaml(y, service) = MergeWithYaml(x, service)
  <2>2. \A k \in LabelFields \ FieldsFrom(f) : y[k] = x[k]
    BY <1>5, <1>6, ParsedBut
  <2>3. DOMAIN x = LabelFields /\ DOMAIN y = LabelFields
    BY <1>5, <1>6, FieldsOfLabels
  <2> QED  BY <2>2, <2>3, MergedBut
<1>8. PICK merged : merged = MergeWithYaml(x, service)
  OBVIOUS
<1>9. PICK labels : labels = IF c.current THEN [merged EXCEPT !.hidden = Flag(TRUE)] ELSE merged
  OBVIOUS
<1>10. PICK url : url = CardUrl(labels.url, c.labels, TRUE)
  OBVIOUS
<1>11. r = WithMetrics(labels, service, url, c.labels, Catalog)
  BY <1>1, <1>5, <1>8, <1>9, <1>10 DEF ResolveContainer
<1>12. url = CardUrl(labels.url, d.labels, TRUE)
  <2>1. Get(c.labels, "traefik") = Get(d.labels, "traefik")
    BY LabelsApart DEF SameBut
  <2> QED  BY <1>10, <2>1 DEF CardUrl
<1>13. s = WithMetrics(labels, service, url, d.labels, Catalog)
  BY <1>2, <1>4, <1>6, <1>7, <1>8, <1>9, <1>12 DEF ResolveContainer
<1>14. PICK own : own = service["metrics"]
  OBVIOUS
<1>15. ServiceMetrics(service) = own
  BY <1>14 DEF ServiceMetrics
<1>16. PICK picked : picked = IF labels.metrics = Absent THEN {} ELSE labels.metrics.some \cap DOMAIN Catalog
  OBVIOUS
<1>17. PICK parsed : parsed = IF own = Absent THEN <<>> ELSE own.some.metrics
  OBVIOUS
<1>18. PICK definitions : definitions = Spread([k \in picked |-> Catalog[k]], parsed)
  OBVIOUS
<1>19. PICK inputs : inputs = IF own = Absent THEN <<>> ELSE own.some.inputs
  OBVIOUS
<1>20. /\ r.labels = labels /\ r.url = url /\ r.definitions = definitions
       /\ r.custom = ResolvedMetrics(definitions, url, labels.sources, c.labels, inputs)
       /\ r.errors = IF own = Absent THEN {} ELSE own.some.errors
  BY <1>11, <1>15, <1>16, <1>17, <1>18, <1>19 DEF WithMetrics
<1>21. /\ s.labels = labels /\ s.url = url /\ s.definitions = definitions
       /\ s.custom = ResolvedMetrics(definitions, url, labels.sources, d.labels, inputs)
       /\ s.errors = IF own = Absent THEN {} ELSE own.some.errors
  BY <1>13, <1>15, <1>16, <1>17, <1>18, <1>19 DEF WithMetrics
<1>22. KnownMetrics(definitions)
  <2>1. AllBuilt(Catalog) /\ picked \subseteq DOMAIN Catalog
    BY <1>16, AcceptedBuilt DEF Catalog
  <2>2. DOMAIN Catalog \subseteq KeysKnown
    BY DEF Catalog, AcceptedOnly, Library, KeysKnown
  <2>3. KnownMetrics(parsed)
    <3>1. KnownMetrics(<<>>)
      BY DEF KnownMetrics, AllBuilt
    <3> QED  BY <1>14, <1>17, <3>1
  <2>4. PICK chosen : chosen = [k \in picked |-> Catalog[k]]
    OBVIOUS
  <2>5. KnownMetrics(chosen)
    BY <2>1, <2>2, <2>4 DEF KnownMetrics, AllBuilt
  <2>6. definitions = Spread(chosen, parsed)
    BY <1>18, <2>4
  <2> QED  BY <2>3, <2>5, <2>6 DEF KnownMetrics, AllBuilt, Spread
<1>23. ASSUME NEW k \in DOMAIN definitions
       PROVE  IsMap(definitions[k]) /\ \A n \in Keys(Get(definitions[k], "parameters")) : InputLabel(k, n) \notin LabelsOf(f)
  <2>1. PICK m : Readable(m) /\ definitions[k] = Built(m)
    BY <1>22 DEF KnownMetrics, AllBuilt
  <2>2. IsMap(definitions[k]) /\ Keys(Get(definitions[k], "parameters")) \subseteq ParameterNames
    BY <2>1, ParametersNamed
  <2>3. k \in Names \cup DOMAIN LibraryFiles
    BY <1>22 DEF KnownMetrics, KeysKnown
  <2> QED  BY <2>2, <2>3, LabelNamesAssumption
<1>24. SameTypes(s.custom, r.custom)
  <2>1. PICK sources : sources = labels.sources
    OBVIOUS
  <2>2. SameTypes(ResolvedMetrics(definitions, url, sources, d.labels, inputs), ResolvedMetrics(definitions, url, sources, c.labels, inputs))
    BY <1>23, CustomBut
  <2> QED  BY <1>20, <1>21, <2>1, <2>2
<1>25. s.labels = r.labels /\ s.url = r.url /\ s.definitions = r.definitions /\ s.errors = r.errors
  BY <1>20, <1>21
<1>26. \A k \in {"id", "host", "name", "state", "health"} : d[k] = c[k]
  OBVIOUS
<1>27. Hidden(s) = Hidden(r) /\ CardFromContainer(cfg, d, s, FALSE) = CardFromContainer(cfg, c, r, FALSE)
  BY <1>24, <1>25, <1>26, SameShown
<1> QED  BY <1>1, <1>2, <1>27 DEF ShownAlike

(* What a service says of a container's card is not what its labels say,   *)
(* whatever the service, the labels and the library: taking the labels of  *)
(* a field away that the service has changes no card                       *)
(* (docker-card-resolution.ts:41).                                         *)
THEOREM ServiceDecides == Spec => []ServiceOverLabels
<1>1. WorldInv => ServiceOverLabels
  <2> DEFINE seen(d) == ResolveContainer(config.services, d, Settings.homepageLabelFallback, Catalog)
             shown(d) == <<Hidden(seen(d)), CardFromContainer(Settings, d, seen(d), FALSE)>>
  <2> SUFFICES ASSUME WorldInv, Ready, NEW c \in world.containers, NEW n, n = LookupYamlService(config.services, c), n # Absent,
                      NEW f \in DOMAIN config.services[n.text], config.services[n.text][f] # Absent,
                      NEW bare, bare = [c EXCEPT !.labels = Without(@, LabelsOf(f))]
               PROVE  /\ Hidden(seen(bare)) = Hidden(seen(c))
                      /\ CardFromContainer(Settings, c, seen(bare), FALSE) = CardFromContainer(Settings, c, seen(c), FALSE)
    BY DEF ServiceOverLabels, ResolvedAs
  <2>1. PICK w \in Worlds : Accounted(w)
    BY ReadyAccounted
  <2>2. c \in w.containers
    BY <2>1 DEF Accounted
  <2>3. {"id", "host", "name", "compose", "labels", "state", "health", "current"} \subseteq DOMAIN c /\ IsMap(c.labels)
    BY <2>2, ContainersAssumption
  <2>4. /\ \A k \in {"id", "host", "name", "compose", "state", "health", "current"} : c[k] = bare[k]
        /\ bare.labels = Without(c.labels, LabelsOf(f))
    BY <2>3
  <2>5. SameBut(bare.labels, c.labels, LabelsOf(f))
    BY <2>3, <2>4, LabelsWithout
  <2>6. n.text \in DOMAIN config.services
    BY ServiceFound
  <2>7. PICK service : service = config.services[n.text]
    OBVIOUS
  <2>8. DOMAIN service = ServiceFields /\ service # Absent
    <3>1. PICK v, shared : service = ParsedService(v, Library, shared)
      BY <2>1, <2>6, <2>7, ServicesOfFile DEF Accounted
    <3> QED  BY <3>1, FieldsOfService DEF ServiceFields, Absent
  <2>9. service["metrics"] = Absent \/ KnownMetrics(service["metrics"].some.metrics)
    BY <2>1, <2>6, <2>7, MetricsKnown
  <2>10. f \in ServiceFields /\ service[f] # Absent
    BY <2>7, <2>8
  <2>11. PICK services : services = config.services
    OBVIOUS
  <2>12. PICK fallback : fallback = Settings.homepageLabelFallback
    OBVIOUS
  <2>13. PICK cfg : cfg = Settings
    OBVIOUS
  <2>14. LookupYamlService(services, c) # Absent /\ service = services[LookupYamlService(services, c).text]
    BY <2>7, <2>11
  <2>15. Stripped(bare, c, f)
    BY <2>4, <2>5 DEF Stripped
  <2>16. Says(service, f)
    BY <2>8, <2>9, <2>10 DEF Says
  <2>17. ShownAlike(services, c, bare, fallback, cfg)
    <3> HIDE DEF seen, shown
    <3>1. PICK d : d = bare
      OBVIOUS
    <3>2. Stripped(d, c, f)
      BY <2>15, <3>1
    <3>3. ShownAlike(services, c, d, fallback, cfg)
      BY <2>10, <2>14, <2>16, <3>2, ResolvedBut
    <3> QED  BY <3>1, <3>3
  <2>18. \A r : CardFromContainer(cfg, bare, r, FALSE) = CardFromContainer(cfg, c, r, FALSE)
    BY <2>4 DEF CardFromContainer, DockerId
  <2> QED  BY <2>11, <2>12, <2>13, <2>17, <2>18 DEF ShownAlike
<1> QED  BY <1>1, WorldKept, PTL

=============================================================================
