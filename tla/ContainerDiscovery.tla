------------------------- MODULE ContainerDiscovery -------------------------
(***************************************************************************)
(* How a change in Docker reaches the cards: the event stream of each host *)
(* (watchContainerEvents), the shared cache of container lists             *)
(* (getCachedContainers), the builds that read it (buildAllCards, run by   *)
(* the coordinator's refresh and by page requests) and the debounce of the *)
(* discovery coordinator.                                                  *)
(*                                                                         *)
(* The list of a host's containers is abstracted to its version, the       *)
(* number of changes Docker made to it; every change sends one event on an *)
(* open stream.  The events in transit are those after `seen` up to        *)
(* `version`.  A host has one card, present in every version of its list.  *)
(***************************************************************************)
EXTENDS Integers, FiniteSets

CONSTANTS
    Hosts,          \* DOCKER_HOSTS
    Pages,          \* page requests that may build cards at the same time
    None,           \* not cached, no request, no card
    MaxVersion,     \* bound: changes of one host
    MaxDisconnects, \* bound: event streams that end
    MaxFailures,    \* bound: list requests that fail, invalid configurations
    MayHang         \* a connection may close in the middle of an answer

ASSUME ParameterAssumption ==
    /\ Hosts # {}
    /\ "coordinator" \notin Pages
    /\ None \notin Int
    /\ MaxVersion \in Nat /\ MaxDisconnects \in Nat /\ MaxFailures \in Nat
    /\ MayHang \in BOOLEAN

Builds == {"coordinator"} \cup Pages
Versions == 0..MaxVersion

\* What a build knows of one host.  While it awaits a list, `version` is the
\* version when the request was sent, the oldest one the answer can hold.
\*   shared  it awaits the request in containerListRequests
\*   orphan  it awaits a request an event has removed from there
\*   hung    it awaits a request that will never settle
Result == [state: {"shared", "orphan", "hung", "listed", "failed"}, version: Versions]
Failed == [state |-> "failed", version |-> 0]
Listed(v) == [state |-> "listed", version |-> v]

VARIABLES
    version,        \* Docker: the version of each host's list
    up,             \* the event stream is open
    before,         \* connectedHosts: the stream was open before
    seen,           \* events up to this one were delivered, or sent to no one
    told,           \* the last event delivered
    cache,          \* containerListCache
    request,        \* containerListRequests: the version when it was sent
    hung,           \* hosts whose registered request will never settle
    building,       \* the builds in progress
    got,            \* what each of them knows
    timer,          \* refreshTimer is set
    refreshPending,
    cards,          \* the coordinator's cards: the version they were built of
    targets,        \* discoveredMetricTargets
    error,          \* the coordinator's error
    history,        \* hosts whose card has metric history or recovery rows
    disconnects, failures

docker == <<version, up, before, seen, told>>
lists == <<cache, request, hung>>
coordinator == <<timer, refreshPending, cards, error>>
vars == <<docker, lists, building, got, coordinator, targets, history, disconnects, failures>>

refreshing == "coordinator" \in building

-----------------------------------------------------------------------------
\* Wrong variant: a request that is not there is joined.
Begin_Unchecked(h) ==
    IF cache[h] # None THEN Listed(cache[h]) ELSE [state |-> "shared", version |-> request[h]]

\* What a build that begins now knows of host h: getCachedContainers.
Begin(h) ==
    IF cache[h] # None THEN Listed(cache[h])
    ELSE [state   |-> IF h \in hung THEN "hung" ELSE "shared",
          version |-> IF request[h] # None THEN request[h] ELSE version[h]]

\* The build b begins; the lists neither cached nor requested are requested.
StartBuild(b) ==
    /\ building' = building \cup {b}
    /\ got' = [got EXCEPT ![b] = [h \in Hosts |-> Begin(h)]]
    /\ request' = [h \in Hosts |->
                      IF cache[h] = None /\ request[h] = None THEN version[h] ELSE request[h]]
    /\ UNCHANGED <<cache, hung, failures>>

\* loadYamlConfig fails: no list is asked for, and the build ends as if no host
\* had answered.
StartInvalid(b) ==
    /\ failures < MaxFailures
    /\ failures' = failures + 1
    /\ building' = building \cup {b}
    /\ got' = [got EXCEPT ![b] = [h \in Hosts |-> Failed]]
    /\ UNCHANGED lists

\* Wrong variant: an event during a refresh is dropped.
ScheduleRefresh_Dropped ==
    /\ UNCHANGED refreshPending
    /\ timer' = (timer \/ ~refreshing)

\* scheduleRefresh
ScheduleRefresh ==
    /\ refreshPending' = (refreshPending \/ refreshing)
    /\ timer' = (timer \/ ~refreshing)

Init ==
    /\ version = [h \in Hosts |-> 0]
    /\ up = [h \in Hosts |-> FALSE]
    /\ before = [h \in Hosts |-> FALSE]
    /\ seen = [h \in Hosts |-> 0]
    /\ told = [h \in Hosts |-> 0]
    /\ cache = [h \in Hosts |-> None]
    /\ request = [h \in Hosts |-> 0]
    /\ hung = {}
    \* start() has called refresh().
    /\ building = {"coordinator"}
    /\ got = [b \in Builds |-> [h \in Hosts |->
                 IF b = "coordinator" THEN [state |-> "shared", version |-> 0] ELSE Failed]]
    /\ timer = FALSE
    /\ refreshPending = FALSE
    /\ cards = [h \in Hosts |-> None]
    /\ targets = [h \in Hosts |-> None]
    /\ error = FALSE
    \* The database may hold the history of an earlier process.
    /\ history \in SUBSET Hosts
    /\ disconnects = 0
    /\ failures = 0

-----------------------------------------------------------------------------
(* Docker and the event streams.                                           *)

Change(h) ==
    /\ version[h] < MaxVersion
    /\ version' = [version EXCEPT ![h] = @ + 1]
    \* On a closed stream nobody is sent the event.
    /\ seen' = IF up[h] THEN seen ELSE [seen EXCEPT ![h] = version[h] + 1]
    /\ UNCHANGED <<up, before, told, lists, building, got, coordinator, targets, history,
                   disconnects, failures>>

\* The response of the events request: onChange only if it is not the first.
Connect(h) ==
    /\ ~up[h]
    /\ up' = [up EXCEPT ![h] = TRUE]
    /\ before' = [before EXCEPT ![h] = TRUE]
    /\ IF before[h] THEN ScheduleRefresh ELSE UNCHANGED <<timer, refreshPending>>
    /\ UNCHANGED <<version, seen, told, lists, building, got, cards, error, targets, history,
                   disconnects, failures>>

\* 'end' or 'error': what was in transit is lost, and scheduleReconnect.
Disconnect(h) ==
    /\ up[h]
    /\ disconnects < MaxDisconnects
    /\ disconnects' = disconnects + 1
    /\ up' = [up EXCEPT ![h] = FALSE]
    /\ seen' = [seen EXCEPT ![h] = version[h]]
    /\ UNCHANGED <<version, before, told, lists, building, got, coordinator, targets, history,
                   failures>>

\* The builds that await the request of h go on awaiting it.
Orphaned(h) ==
    [b \in Builds |-> [got[b] EXCEPT ![h] = IF @.state = "shared" THEN [@ EXCEPT !.state = "orphan"]
                                                                  ELSE @]]

\* An event arrives: the list and the request of its host are dropped.
Deliver(h) ==
    /\ up[h]
    /\ seen[h] < version[h]
    /\ seen' = [seen EXCEPT ![h] = @ + 1]
    /\ told' = [told EXCEPT ![h] = seen[h] + 1]
    /\ cache' = [cache EXCEPT ![h] = None]
    /\ request' = [request EXCEPT ![h] = None]
    /\ hung' = hung \ {h}
    /\ got' = Orphaned(h)
    /\ ScheduleRefresh
    /\ UNCHANGED <<version, up, before, building, cards, error, targets, history, disconnects,
                   failures>>

-----------------------------------------------------------------------------
(* Lists.                                                                  *)

\* Every build that awaits the list of h in this way receives r.
Answered(h, how, r) ==
    [b \in Builds |-> [got[b] EXCEPT ![h] = IF @.state = how THEN r ELSE @]]

\* The registered request is answered with a list of any time since it was sent.
ListAnswered(h) ==
    /\ request[h] # None /\ h \notin hung
    /\ \E v \in request[h]..version[h] :
          /\ cache' = [cache EXCEPT ![h] = v]
          /\ got' = Answered(h, "shared", Listed(v))
    /\ request' = [request EXCEPT ![h] = None]
    /\ UNCHANGED <<docker, hung, building, coordinator, targets, history, disconnects, failures>>

ListFails(h) ==
    /\ request[h] # None /\ h \notin hung
    /\ failures < MaxFailures
    /\ failures' = failures + 1
    /\ got' = Answered(h, "shared", Failed)
    /\ request' = [request EXCEPT ![h] = None]
    /\ UNCHANGED <<docker, cache, hung, building, coordinator, targets, history, disconnects>>

\* The connection closes after the headers of the answer: Node then reports the
\* error on the response, where rawDockerRequest does not listen, and neither
\* 'end' nor the request's 'error' follows.  The request stays registered.
ListHangs(h) ==
    /\ MayHang
    /\ request[h] # None /\ h \notin hung
    /\ failures < MaxFailures
    /\ failures' = failures + 1
    /\ hung' = hung \cup {h}
    /\ got' = [b \in Builds |-> [got[b] EXCEPT ![h] = IF @.state = "shared" THEN [@ EXCEPT !.state = "hung"]
                                                                          ELSE @]]
    /\ UNCHANGED <<docker, cache, request, building, coordinator, targets, history, disconnects>>

\* Wrong variant: the answer is cached whatever request is registered.
CacheAfterOrphan_Kept(h, v) == [cache EXCEPT ![h] = v]

\* A request that is not registered any more answers its waiting builds, and
\* leaves the cache alone.
CacheAfterOrphan(h, v) == cache

OrphanAnswered(h, b) ==
    /\ got[b][h].state = "orphan"
    /\ \E v \in got[b][h].version..version[h] :
          /\ got' = [got EXCEPT ![b][h] = Listed(v)]
          /\ cache' = CacheAfterOrphan(h, v)
    /\ UNCHANGED <<docker, request, hung, building, coordinator, targets, history, disconnects,
                   failures>>

OrphanFails(h, b) ==
    /\ got[b][h].state = "orphan"
    /\ failures < MaxFailures
    /\ failures' = failures + 1
    /\ got' = [got EXCEPT ![b][h] = Failed]
    /\ UNCHANGED <<docker, lists, building, coordinator, targets, history, disconnects>>

OrphanHangs(h, b) ==
    /\ MayHang
    /\ got[b][h].state = "orphan"
    /\ failures < MaxFailures
    /\ failures' = failures + 1
    /\ got' = [got EXCEPT ![b][h].state = "hung"]
    /\ UNCHANGED <<docker, lists, building, coordinator, targets, history, disconnects>>

\* The cached list is DOCKER_STATUS_CACHE_TTL_MS old.
Expire(h) ==
    /\ cache[h] # None
    /\ cache' = [cache EXCEPT ![h] = None]
    /\ UNCHANGED <<docker, request, hung, building, got, coordinator, targets, history, disconnects,
                   failures>>

-----------------------------------------------------------------------------
(* Builds.                                                                 *)

TimerFires ==
    /\ timer
    /\ timer' = FALSE
    /\ StartBuild("coordinator") \/ StartInvalid("coordinator")
    /\ UNCHANGED <<docker, refreshPending, cards, error, targets, history, disconnects>>

PageRequested(b) ==
    /\ b \notin building
    /\ StartBuild(b) \/ StartInvalid(b)
    /\ UNCHANGED <<docker, coordinator, targets, history, disconnects>>

Settled(b) == \A h \in Hosts : got[b][h].state \in {"listed", "failed"}
Reached(b) == {h \in Hosts : got[b][h].state = "listed"}
Built(b) == [h \in Hosts |-> IF h \in Reached(b) THEN got[b][h].version ELSE None]

BuildEnds(b) ==
    /\ building' = building \ {b}
    /\ got' = [got EXCEPT ![b] = [h \in Hosts |-> Failed]]

\* Wrong variant: the flag is cleared and nothing is scheduled.
RefreshEnds_NotScheduled ==
    /\ UNCHANGED timer
    /\ refreshPending' = FALSE

\* The refresh's finally block.
RefreshEnds ==
    /\ timer' = (timer \/ refreshPending)
    /\ refreshPending' = FALSE

\* refresh: the cards of the hosts that answered replace all others, and
\* refreshMetricRetention deletes the rows of every card that is not one of them.
RefreshFinished ==
    /\ refreshing
    /\ Settled("coordinator")
    /\ BuildEnds("coordinator")
    /\ RefreshEnds
    /\ IF Reached("coordinator") = {}
         THEN error' = TRUE /\ UNCHANGED <<cards, targets, history>>
         ELSE /\ error' = FALSE
              /\ cards' = Built("coordinator")
              /\ targets' = Built("coordinator")
              /\ history' = history \cap Reached("coordinator")
    /\ UNCHANGED <<docker, lists, disconnects, failures>>

\* A page request replaces the metric targets too.
PageFinished(b) ==
    /\ b \in building \ {"coordinator"}
    /\ Settled(b)
    /\ BuildEnds(b)
    /\ targets' = IF Reached(b) = {} THEN targets ELSE Built(b)
    /\ UNCHANGED <<docker, lists, coordinator, history, disconnects, failures>>

\* The metrics collection saves samples of the targets.
Collect(h) ==
    /\ targets[h] # None
    /\ history' = history \cup {h}
    /\ UNCHANGED <<docker, lists, building, got, coordinator, targets, disconnects, failures>>

DockerNext(h) == Change(h) \/ Connect(h) \/ Disconnect(h) \/ Deliver(h)
ListNext(h) ==
    \/ ListAnswered(h) \/ ListFails(h) \/ ListHangs(h) \/ Expire(h)
    \/ \E b \in Builds : OrphanAnswered(h, b) \/ OrphanFails(h, b) \/ OrphanHangs(h, b)
BuildNext ==
    \/ TimerFires \/ RefreshFinished
    \/ \E b \in Pages : PageRequested(b) \/ PageFinished(b)

Next ==
    \/ \E h \in Hosts : DockerNext(h) \/ ListNext(h) \/ Collect(h)
    \/ BuildNext

Spec == Init /\ [][Next]_vars

\* Timers fire, list requests have a timeout (a hung one has none any more), streams
\* deliver what they carry.
Fairness ==
    /\ \A h \in Hosts :
          /\ WF_vars(Connect(h)) /\ WF_vars(Deliver(h))
          /\ WF_vars(ListAnswered(h) \/ ListFails(h))
          /\ WF_vars(OrphanAnswered(h, "coordinator") \/ OrphanFails(h, "coordinator"))
    /\ WF_vars(TimerFires) /\ WF_vars(RefreshFinished)

FairSpec == Spec /\ Fairness

-----------------------------------------------------------------------------
(* Properties.                                                             *)

\* Every variable has its type.
TypeOK ==
    /\ version \in [Hosts -> Versions]
    /\ up \in [Hosts -> BOOLEAN]
    /\ before \in [Hosts -> BOOLEAN]
    /\ seen \in [Hosts -> Versions]
    /\ told \in [Hosts -> Versions]
    /\ cache \in [Hosts -> Versions \cup {None}]
    /\ request \in [Hosts -> Versions \cup {None}]
    /\ hung \subseteq Hosts
    /\ building \subseteq Builds
    /\ got \in [Builds -> [Hosts -> Result]]
    /\ timer \in BOOLEAN
    /\ refreshPending \in BOOLEAN
    /\ cards \in [Hosts -> Versions \cup {None}]
    /\ targets \in [Hosts -> Versions \cup {None}]
    /\ error \in BOOLEAN
    /\ history \subseteq Hosts
    /\ disconnects \in 0..MaxDisconnects
    /\ failures \in 0..MaxFailures

\* A list that was on its way when an event arrived is never kept: neither the
\* cache nor the request a later build joins can be older than the last event
\* (the `=== request` checks of getCachedContainers).
CacheFollowsEvents ==
    \A h \in Hosts :
        /\ cache[h] # None => cache[h] >= told[h]
        /\ request[h] # None => request[h] >= told[h]

\* What the coordinator shows of h takes the last event of h into account.
Current(h) == cards[h] = None \/ cards[h] >= told[h]

\* No event is forgotten, whenever it arrives during a refresh: cards older than
\* the last event are shown only with an error, or while a refresh is scheduled,
\* or in progress on a list that is new enough (refreshPending, the single timer
\* and the invalidated cache together).
EventNotForgotten ==
    \A h \in Hosts :
        \/ Current(h) \/ error \/ timer \/ refreshPending
        \/ refreshing /\ (got["coordinator"][h].state = "failed"
                          \/ got["coordinator"][h].version >= told[h])

\* No request for the list of h is left without an end.
NeverHangs(h) == [](h \notin hung /\ \A b \in Builds : got[b][h].state # "hung")

EventsOfHostShown(h) ==
    \A n \in 1..MaxVersion :
        told[h] = n ~> (cards[h] # None /\ cards[h] >= n) \/ cards[h] = None \/ error

\* Every delivered event reaches the cards, unless the refresh finds the host,
\* or every host, unavailable, however events, page requests, failures and
\* reconnections interleave with the refresh.  Every list request must settle.
EventsReachCards ==
    (\A h \in Hosts : NeverHangs(h)) => \A h \in Hosts : EventsOfHostShown(h)

-----------------------------------------------------------------------------
(* What the documentation promises and the code does not keep.             *)

\* Nothing is left to do: no stream is to be connected or read, no refresh runs.
Quiet == (\A h \in Hosts : up[h] /\ seen[h] = version[h]) /\ ~timer /\ building = {}

\* "Dashmark keeps a container event stream open to refresh cards after Docker
\* changes": with open streams and no refresh to come the cards are Docker's,
\* also after a reconnection.  They are not: the refresh that makes up for the
\* events lost meanwhile reads the list cache, which only events invalidate.
ReconnectCatchesUp ==
    disconnects > 0 => \A h \in Hosts : Quiet /\ cards[h] # None /\ ~error => cards[h] = version[h]

\* "An unavailable host does not hide cards from healthy hosts": the events of
\* a host whose requests settle reach the cards, whatever the others do.  They do
\* not: a refresh awaits all hosts, and one request without an end ends discovery.
HealthyHostsShown == \A h \in Hosts : NeverHangs(h) => EventsOfHostShown(h)

\* A refresh deletes history only for "confirmed discovery": never for the cards
\* of a host that did not answer.
HistoryKept == [][\A h \in history : got["coordinator"][h].state # "listed" => h \in history']_vars
=============================================================================
