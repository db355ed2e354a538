---------------------- MODULE ContainerDiscoveryProofs ----------------------
(***************************************************************************)
(* For any number of hosts, page requests, changes, disconnections and     *)
(* failures: the caches follow the events, and no event is forgotten.      *)
(*                                                                         *)
(* EventNotForgotten alone is not inductive: it may hold because of the    *)
(* old cards or the old error when a refresh ends and replaces both.       *)
(* RefreshFresh adds that a refresh nobody will repeat works, at every     *)
(* host, with lists that are new enough; it rests on CacheFollowsEvents,   *)
(* which says so of everything a refresh can begin with.                   *)
(***************************************************************************)
EXTENDS ContainerDiscovery, TLAPS

Fresh(h) == got["coordinator"][h].state = "failed" \/ got["coordinator"][h].version >= told[h]

EventsInOrder == \A h \in Hosts : told[h] <= version[h] /\ seen[h] <= version[h]

RefreshFresh == refreshing => timer \/ refreshPending \/ (\A h \in Hosts : Fresh(h))

IInv == TypeOK /\ EventsInOrder /\ CacheFollowsEvents /\ EventNotForgotten /\ RefreshFresh

\* What a build begins with is a result, and new enough.
LEMMA BeginIsFresh ==
    ASSUME IInv, NEW h \in Hosts
    PROVE  Begin(h) \in Result /\ (Begin(h).state # "failed" => Begin(h).version >= told[h])
  <1> USE ParameterAssumption
  <1>1. CASE cache[h] # None
    BY <1>1 DEF IInv, TypeOK, CacheFollowsEvents, Begin, Listed, Result, Versions
  <1>2. CASE cache[h] = None /\ request[h] # None
    BY <1>2 DEF IInv, TypeOK, CacheFollowsEvents, Begin, Result, Versions
  <1>3. CASE cache[h] = None /\ request[h] = None
    BY <1>3 DEF IInv, TypeOK, EventsInOrder, Begin, Result, Versions
  <1> QED BY <1>1, <1>2, <1>3

LEMMA InitHolds == Init => IInv
  <1> SUFFICES ASSUME Init PROVE IInv
    OBVIOUS
  <1> USE ParameterAssumption DEF Init
  <1>1. TypeOK
    <2>1. [state |-> "shared", version |-> 0] \in Result /\ Failed \in Result
      BY DEF Result, Failed, Versions
    <2>2. got \in [Builds -> [Hosts -> Result]]
      BY <2>1
    <2>3. 0 \in Versions /\ {"coordinator"} \subseteq Builds
      BY DEF Versions, Builds
    <2>4. /\ version \in [Hosts -> Versions] /\ seen \in [Hosts -> Versions]
          /\ told \in [Hosts -> Versions] /\ request \in [Hosts -> Versions \cup {None}]
      BY <2>3
    <2>5. /\ cache \in [Hosts -> Versions \cup {None}] /\ cards \in [Hosts -> Versions \cup {None}]
          /\ targets \in [Hosts -> Versions \cup {None}]
      OBVIOUS
    <2>6. up \in [Hosts -> BOOLEAN] /\ before \in [Hosts -> BOOLEAN]
      OBVIOUS
    <2>7. building \subseteq Builds /\ hung \subseteq Hosts
      BY <2>3
    <2>8. timer \in BOOLEAN /\ refreshPending \in BOOLEAN /\ error \in BOOLEAN
      OBVIOUS
    <2>9. history \subseteq Hosts
      OBVIOUS
    <2>10. disconnects \in 0..MaxDisconnects /\ failures \in 0..MaxFailures
      OBVIOUS
    <2> QED BY ONLY <2>2, <2>4, <2>5, <2>6, <2>7, <2>8, <2>9, <2>10 DEF TypeOK
  <1>2. EventsInOrder /\ CacheFollowsEvents
    BY DEF EventsInOrder, CacheFollowsEvents
  <1>3. EventNotForgotten /\ RefreshFresh
    BY DEF EventNotForgotten, RefreshFresh, Fresh, Current, Builds
  <1> QED BY <1>1, <1>2, <1>3 DEF IInv

\* A build begins: the refresh, or a page request.
LEMMA StartKeeps ==
    ASSUME IInv, NEW b \in Builds, StartBuild(b) \/ StartInvalid(b)
    PROVE  /\ got' \in [Builds -> [Hosts -> Result]]
           /\ request' \in [Hosts -> Versions \cup {None}]
           /\ cache' = cache /\ hung' = hung
           /\ failures' \in 0..MaxFailures
           /\ building' = building \cup {b}
           /\ \A h \in Hosts : request'[h] # None => request'[h] >= told[h]
           /\ \A h \in Hosts : got'[b][h] \in Result
                               /\ (got'[b][h].state = "failed" \/ got'[b][h].version >= told[h])
           /\ \A c \in Builds : c # b => got'[c] = got[c]
  <1> USE ParameterAssumption DEF IInv, TypeOK
  <1>1. CASE StartBuild(b)
    <2>1. got' = [got EXCEPT ![b] = [h \in Hosts |-> Begin(h)]]
      BY <1>1 DEF StartBuild
    <2>2. [h \in Hosts |-> Begin(h)] \in [Hosts -> Result]
      BY BeginIsFresh
    <2>3. got' \in [Builds -> [Hosts -> Result]]
      BY <2>1, <2>2
    <2>4. \A h \in Hosts : got'[b][h] = Begin(h)
      BY <2>1
    <2>5. \A h \in Hosts : request'[h] # None => request'[h] >= told[h]
      BY <1>1 DEF StartBuild, EventsInOrder, CacheFollowsEvents, Versions
    <2>6. request' \in [Hosts -> Versions \cup {None}]
      BY <1>1 DEF StartBuild
    <2> QED BY <1>1, <2>1, <2>3, <2>4, <2>5, <2>6, BeginIsFresh DEF StartBuild
  <1>2. CASE StartInvalid(b)
    <2>1. Failed \in Result /\ Failed.state = "failed"
      BY DEF Failed, Result, Versions
    <2>2. got' = [got EXCEPT ![b] = [h \in Hosts |-> Failed]]
      BY <1>2 DEF StartInvalid
    <2>3. request' = request /\ cache' = cache /\ hung' = hung /\ building' = building \cup {b}
      BY <1>2 DEF StartInvalid, lists
    <2>4. failures' \in 0..MaxFailures
      BY <1>2 DEF StartInvalid
    <2> QED BY <2>1, <2>2, <2>3, <2>4 DEF CacheFollowsEvents
  <1> QED BY <1>1, <1>2

\* Steps that change nothing EventNotForgotten and RefreshFresh speak of.
LEMMA ShownUnchanged ==
    ASSUME IInv, UNCHANGED <<told, building, got, timer, refreshPending, cards, error>>
    PROVE  EventNotForgotten' /\ RefreshFresh'
  BY DEF IInv, EventNotForgotten, RefreshFresh, Fresh, Current, refreshing

\* An answer replaces what some builds know of one host, by something as new.
LEMMA AnswerKeeps ==
    ASSUME IInv, NEW h \in Hosts, got' \in [Builds -> [Hosts -> Result]],
           UNCHANGED <<told, building, timer, refreshPending, cards, error>>,
           \A b \in Builds, k \in Hosts :
              \/ got'[b][k] = got[b][k]
              \/ got'[b][k].state = "failed"
              \/ got'[b][k].version >= told[k]
    PROVE  EventNotForgotten' /\ RefreshFresh'
  <1>1. "coordinator" \in Builds
    BY DEF Builds
  <1>2. \A k \in Hosts : Fresh(k) => Fresh(k)'
    BY <1>1 DEF Fresh
  <1>3. RefreshFresh'
    BY <1>2 DEF IInv, RefreshFresh, refreshing
  <1>4. EventNotForgotten'
    BY <1>2 DEF IInv, EventNotForgotten, Current, Fresh, refreshing
  <1> QED BY <1>3, <1>4

\* A request that hangs takes nothing back: its answer would have been as new.
LEMMA SameVersionKeeps ==
    ASSUME IInv, UNCHANGED <<told, building, timer, refreshPending, cards, error>>,
           \A b \in Builds, k \in Hosts :
              got'[b][k] = got[b][k] \/ (got[b][k].state # "failed" /\ got'[b][k].version = got[b][k].version)
    PROVE  EventNotForgotten' /\ RefreshFresh'
  <1>1. \A k \in Hosts : Fresh(k) => Fresh(k)'
    BY DEF Fresh, Builds
  <1>2. RefreshFresh'
    BY <1>1 DEF IInv, RefreshFresh, refreshing
  <1>3. EventNotForgotten'
    BY <1>1 DEF IInv, EventNotForgotten, Current, Fresh, refreshing
  <1> QED BY <1>2, <1>3

LEMMA DockerKeeps ==
    ASSUME IInv, NEW h \in Hosts, DockerNext(h)
    PROVE  IInv'
  <1> USE ParameterAssumption
  <1>1. CASE Change(h)
    <2> USE <1>1 DEF Change, Versions
    <2>1. TypeOK'
      BY DEF IInv, TypeOK, lists, coordinator
    <2>2. EventsInOrder'
      BY DEF IInv, TypeOK, EventsInOrder
    <2>3. CacheFollowsEvents'
      BY DEF IInv, CacheFollowsEvents, lists
    <2> QED BY <2>1, <2>2, <2>3, ShownUnchanged DEF IInv, coordinator
  <1>2. CASE Connect(h)
    <2> USE <1>2 DEF Connect
    <2>1. timer' \in BOOLEAN /\ refreshPending' \in BOOLEAN
      BY DEF IInv, TypeOK, ScheduleRefresh
    <2>2. TypeOK'
      BY <2>1 DEF IInv, TypeOK, lists
    <2>3. EventsInOrder' /\ CacheFollowsEvents'
      BY DEF IInv, EventsInOrder, CacheFollowsEvents, lists
    <2>4. (timer => timer') /\ (refreshPending => refreshPending')
      BY DEF ScheduleRefresh
    <2>5. EventNotForgotten' /\ RefreshFresh'
      BY <2>4 DEF IInv, EventNotForgotten, RefreshFresh, Fresh, Current, refreshing
    <2> QED BY <2>2, <2>3, <2>5 DEF IInv
  <1>3. CASE Disconnect(h)
    <2> USE <1>3 DEF Disconnect
    <2>1. TypeOK'
      BY DEF IInv, TypeOK, lists, coordinator
    <2>2. EventsInOrder' /\ CacheFollowsEvents'
      BY DEF IInv, TypeOK, Versions, EventsInOrder, CacheFollowsEvents, lists
    <2> QED BY <2>1, <2>2, ShownUnchanged DEF IInv, coordinator
  <1>4. CASE Deliver(h)
    <2> USE <1>4 DEF Deliver
    <2>1. seen[h] + 1 \in Versions /\ seen[h] + 1 <= version[h]
      BY DEF IInv, TypeOK, Versions
    <2>2. timer' \in BOOLEAN /\ refreshPending' \in BOOLEAN
      BY DEF IInv, TypeOK, ScheduleRefresh
    <2>3. got' \in [Builds -> [Hosts -> Result]]
      <3>1. got \in [Builds -> [Hosts -> Result]]
        BY DEF IInv, TypeOK
      <3>2. \A b \in Builds : got[b][h] \in Result
        BY <3>1
      <3>3. \A r \in Result : [r EXCEPT !.state = "orphan"] \in Result
        BY DEF Result
      <3> QED BY <3>1, <3>2, <3>3 DEF Orphaned
    <2>4. TypeOK'
      BY <2>1, <2>2, <2>3 DEF IInv, TypeOK
    <2>5. EventsInOrder'
      BY <2>1 DEF IInv, TypeOK, EventsInOrder
    <2>6. CacheFollowsEvents'
      BY DEF IInv, TypeOK, CacheFollowsEvents
    <2>7. timer' \/ refreshPending'
      BY DEF ScheduleRefresh
    <2> QED BY <2>4, <2>5, <2>6, <2>7 DEF IInv, EventNotForgotten, RefreshFresh
  <1> QED BY <1>1, <1>2, <1>3, <1>4 DEF DockerNext

\* Everything that awaits the list of h in this way receives r.
LEMMA AnsweredTypes ==
    ASSUME IInv, NEW h \in Hosts, NEW how, NEW r \in Result
    PROVE  /\ Answered(h, how, r) \in [Builds -> [Hosts -> Result]]
           /\ \A b \in Builds, k \in Hosts :
                 \/ Answered(h, how, r)[b][k] = got[b][k]
                 \/ k = h /\ Answered(h, how, r)[b][k] = r
  BY DEF IInv, TypeOK, Answered

\* Results as the answers make them.
LEMMA ResultTypes == Failed \in Result /\ (\A v \in Versions : Listed(v) \in Result)
  BY ParameterAssumption DEF Failed, Listed, Result, Versions

LEMMA ListKeeps ==
    ASSUME IInv, NEW h \in Hosts, ListNext(h)
    PROVE  IInv'
  <1> USE ParameterAssumption
  <1>1. CASE ListAnswered(h)
    <2>1. PICK v \in request[h]..version[h] :
             cache' = [cache EXCEPT ![h] = v] /\ got' = Answered(h, "shared", Listed(v))
      BY <1>1 DEF ListAnswered
    <2>2. request[h] \in Versions /\ request[h] >= told[h] /\ told[h] \in Versions
      BY <1>1 DEF ListAnswered, IInv, TypeOK, CacheFollowsEvents
    <2>3. v \in Versions /\ v >= told[h]
      BY <2>1, <2>2 DEF IInv, TypeOK, Versions
    <2>4. got' \in [Builds -> [Hosts -> Result]]
      BY <2>1, <2>3, ResultTypes, AnsweredTypes
    <2>5. \A b \in Builds, k \in Hosts : got'[b][k] = got[b][k] \/ got'[b][k].version >= told[k]
      <3>1. Listed(v) \in Result /\ Listed(v).version = v
        BY <2>3, ResultTypes DEF Listed
      <3> QED BY <2>1, <2>3, <3>1, AnsweredTypes
    <2>6. EventNotForgotten' /\ RefreshFresh'
      BY <1>1, <2>4, <2>5, AnswerKeeps DEF ListAnswered, docker, coordinator
    <2>7. TypeOK'
      BY <1>1, <2>1, <2>3, <2>4 DEF ListAnswered, IInv, TypeOK, docker, coordinator
    <2>8. EventsInOrder' /\ CacheFollowsEvents'
      BY <1>1, <2>1, <2>3 DEF ListAnswered, IInv, TypeOK, EventsInOrder, CacheFollowsEvents, docker
    <2> QED BY <2>6, <2>7, <2>8 DEF IInv
  <1>2. CASE ListFails(h)
    <2>1. got' = Answered(h, "shared", Failed) /\ Failed.state = "failed"
      BY <1>2 DEF ListFails, Failed
    <2>2. got' \in [Builds -> [Hosts -> Result]]
      BY <2>1, ResultTypes, AnsweredTypes
    <2>3. \A b \in Builds, k \in Hosts : got'[b][k] = got[b][k] \/ got'[b][k].state = "failed"
      BY <2>1, ResultTypes, AnsweredTypes
    <2>4. EventNotForgotten' /\ RefreshFresh'
      BY <1>2, <2>2, <2>3, AnswerKeeps DEF ListFails, docker, coordinator
    <2>5. TypeOK'
      BY <1>2, <2>2 DEF ListFails, IInv, TypeOK, docker, coordinator
    <2>6. EventsInOrder' /\ CacheFollowsEvents'
      BY <1>2 DEF ListFails, IInv, TypeOK, EventsInOrder, CacheFollowsEvents, docker
    <2> QED BY <2>4, <2>5, <2>6 DEF IInv
  <1>6. CASE ListHangs(h)
    <2>1. \A b \in Builds : got[b] \in [Hosts -> Result] /\ got[b][h] \in Result
      BY DEF IInv, TypeOK
    <2>2. \A r \in Result : [r EXCEPT !.state = "hung"] \in Result
                           /\ [r EXCEPT !.state = "hung"].version = r.version
      BY DEF Result
    <2>3. got' \in [Builds -> [Hosts -> Result]]
      BY <1>6, <2>1, <2>2 DEF ListHangs
    <2>4. \A b \in Builds, k \in Hosts :
             got'[b][k] = got[b][k] \/ (got[b][k].state # "failed" /\ got'[b][k].version = got[b][k].version)
      BY <1>6, <2>1, <2>2 DEF ListHangs
    <2>5. UNCHANGED <<told, building, timer, refreshPending, cards, error, cache, request>>
      BY <1>6 DEF ListHangs, docker, coordinator
    <2>6. EventNotForgotten' /\ RefreshFresh'
      BY <2>4, <2>5, SameVersionKeeps
    <2>7. TypeOK'
      BY <1>6, <2>3 DEF ListHangs, IInv, TypeOK, docker, coordinator
    <2>8. EventsInOrder' /\ CacheFollowsEvents'
      BY <1>6 DEF ListHangs, IInv, EventsInOrder, CacheFollowsEvents, docker
    <2> QED BY <2>6, <2>7, <2>8 DEF IInv
  <1>7. ASSUME NEW b \in Builds, OrphanHangs(h, b)
        PROVE  IInv'
    <2>1. got[b] \in [Hosts -> Result] /\ got[b][h] \in Result
      BY DEF IInv, TypeOK
    <2>2. [got[b][h] EXCEPT !.state = "hung"] \in Result
          /\ [got[b][h] EXCEPT !.state = "hung"].version = got[b][h].version
      BY <2>1 DEF Result
    <2>3. got' = [got EXCEPT ![b][h] = [got[b][h] EXCEPT !.state = "hung"]]
      BY <1>7, <2>1 DEF OrphanHangs, IInv, TypeOK
    <2>4. got' \in [Builds -> [Hosts -> Result]]
      BY <2>2, <2>3 DEF IInv, TypeOK
    <2>5. \A c \in Builds, k \in Hosts :
             got'[c][k] = got[c][k] \/ (got[c][k].state # "failed" /\ got'[c][k].version = got[c][k].version)
      BY <1>7, <2>1, <2>2, <2>3 DEF OrphanHangs, IInv, TypeOK
    <2>6. UNCHANGED <<told, building, timer, refreshPending, cards, error, cache, request>>
      BY <1>7 DEF OrphanHangs, docker, lists, coordinator
    <2>7. EventNotForgotten' /\ RefreshFresh'
      BY <2>5, <2>6, SameVersionKeeps
    <2>8. TypeOK'
      BY <1>7, <2>4 DEF OrphanHangs, IInv, TypeOK, docker, lists, coordinator
    <2>9. EventsInOrder' /\ CacheFollowsEvents'
      BY <1>7 DEF OrphanHangs, IInv, EventsInOrder, CacheFollowsEvents, docker, lists
    <2> QED BY <2>7, <2>8, <2>9 DEF IInv
  <1>3. CASE Expire(h)
    <2>1. TypeOK'
      BY <1>3 DEF Expire, IInv, TypeOK, docker, coordinator
    <2>2. EventsInOrder' /\ CacheFollowsEvents'
      BY <1>3 DEF Expire, IInv, TypeOK, EventsInOrder, CacheFollowsEvents, docker
    <2> QED BY <1>3, <2>1, <2>2, ShownUnchanged DEF Expire, IInv, docker, coordinator
  <1>4. ASSUME NEW b \in Builds, OrphanAnswered(h, b)
        PROVE  IInv'
    <2>1. PICK v \in got[b][h].version..version[h] : got' = [got EXCEPT ![b][h] = Listed(v)]
      BY <1>4 DEF OrphanAnswered
    <2>2. got[b] \in [Hosts -> Result] /\ got[b][h] \in Result
      BY DEF IInv, TypeOK
    <2>3. got[b][h].version \in Versions /\ version[h] \in Versions
      BY <2>2 DEF IInv, TypeOK, Result
    <2>4. v \in Versions /\ v >= got[b][h].version
      BY <2>1, <2>3 DEF Versions
    <2>5. Listed(v) \in Result /\ Listed(v).version = v
      BY <2>4, ResultTypes DEF Listed
    <2>6. got' \in [Builds -> [Hosts -> Result]]
      BY <2>1, <2>5 DEF IInv, TypeOK
    <2>7. UNCHANGED <<told, building, timer, refreshPending, cards, error, cache, request>>
      BY <1>4 DEF OrphanAnswered, CacheAfterOrphan, docker, coordinator
    <2>8. Fresh(h) => Fresh(h)' \/ b # "coordinator"
      <3>1. CASE b = "coordinator"
        <4>1. got[b][h].state # "failed"
          BY <1>4 DEF OrphanAnswered
        <4>2. got'[b][h] = Listed(v)
          BY <2>1, <2>2 DEF IInv, TypeOK
        <4>3. told[h] \in Int /\ told'[h] = told[h]
          BY <2>7 DEF IInv, TypeOK, Versions
        <4> QED BY <2>3, <2>4, <2>5, <3>1, <4>1, <4>2, <4>3 DEF Fresh, Versions
      <3> QED BY <3>1
    <2>9. \A k \in Hosts : Fresh(k) => Fresh(k)'
      <3>1. \A c \in Builds, k \in Hosts : c # b \/ k # h => got'[c][k] = got[c][k]
        BY <2>1 DEF IInv, TypeOK
      <3>2. "coordinator" \in Builds
        BY DEF Builds
      <3> QED BY <2>7, <2>8, <3>1, <3>2 DEF Fresh
    <2>10. RefreshFresh'
      BY <2>7, <2>9 DEF IInv, RefreshFresh, refreshing
    <2>11. EventNotForgotten'
      BY <2>7, <2>9 DEF IInv, EventNotForgotten, Current, Fresh, refreshing
    <2>12. TypeOK'
      BY <1>4, <2>6, <2>7 DEF OrphanAnswered, IInv, TypeOK, docker, coordinator
    <2>13. EventsInOrder' /\ CacheFollowsEvents'
      BY <1>4, <2>7 DEF OrphanAnswered, IInv, EventsInOrder, CacheFollowsEvents, docker
    <2> QED BY <2>10, <2>11, <2>12, <2>13 DEF IInv
  <1>5. ASSUME NEW b \in Builds, OrphanFails(h, b)
        PROVE  IInv'
    <2>1. got' = [got EXCEPT ![b][h] = Failed] /\ Failed.state = "failed"
      BY <1>5 DEF OrphanFails, Failed
    <2>2. got' \in [Builds -> [Hosts -> Result]]
      BY <2>1, ResultTypes DEF IInv, TypeOK
    <2>3. \A c \in Builds, k \in Hosts : got'[c][k] = got[c][k] \/ got'[c][k].state = "failed"
      BY <2>1 DEF IInv, TypeOK
    <2>4. EventNotForgotten' /\ RefreshFresh'
      BY <1>5, <2>2, <2>3, AnswerKeeps DEF OrphanFails, docker, coordinator
    <2>5. TypeOK'
      BY <1>5, <2>2 DEF OrphanFails, IInv, TypeOK, docker, lists, coordinator
    <2>6. EventsInOrder' /\ CacheFollowsEvents'
      BY <1>5 DEF OrphanFails, IInv, EventsInOrder, CacheFollowsEvents, docker, lists
    <2> QED BY <2>4, <2>5, <2>6 DEF IInv
  <1> QED BY <1>1, <1>2, <1>3, <1>4, <1>5, <1>6, <1>7 DEF ListNext

\* A build ends: what it knows is dropped, its cards may be shown.
LEMMA BuiltTypes ==
    ASSUME IInv, NEW b \in Builds
    PROVE  /\ Built(b) \in [Hosts -> Versions \cup {None}]
           /\ \A h \in Hosts : Built(b)[h] = None \/ (got[b][h].state = "listed"
                                                       /\ Built(b)[h] = got[b][h].version)
           /\ [h \in Hosts |-> Failed] \in [Hosts -> Result]
  <1>1. \A h \in Hosts : got[b][h] \in Result
    BY DEF IInv, TypeOK
  <1>2. \A h \in Hosts : got[b][h].version \in Versions
    BY <1>1 DEF Result
  <1> QED BY <1>2, ResultTypes DEF Built, Reached

LEMMA BuildKeeps ==
    ASSUME IInv, BuildNext
    PROVE  IInv'
  <1> USE ParameterAssumption
  <1>0. "coordinator" \in Builds /\ (\A b \in Pages : b \in Builds /\ b # "coordinator")
    BY DEF Builds
  <1>1. CASE TimerFires
    <2> DEFINE b == "coordinator"
    <2>1. StartBuild(b) \/ StartInvalid(b)
      BY <1>1 DEF TimerFires
    <2>2. /\ got' \in [Builds -> [Hosts -> Result]]
          /\ request' \in [Hosts -> Versions \cup {None}]
          /\ cache' = cache /\ hung' = hung /\ failures' \in 0..MaxFailures
          /\ building' = building \cup {b}
          /\ \A h \in Hosts : request'[h] # None => request'[h] >= told[h]
          /\ \A h \in Hosts : got'[b][h].state = "failed" \/ got'[b][h].version >= told[h]
      BY <1>0, <2>1, StartKeeps
    <2>3. building' \subseteq Builds /\ refreshing'
      BY <1>0, <2>2 DEF IInv, TypeOK, refreshing
    <2>4. TypeOK'
      BY <1>1, <2>2, <2>3 DEF TimerFires, IInv, TypeOK, docker
    <2>5. EventsInOrder' /\ CacheFollowsEvents'
      BY <1>1, <2>2 DEF TimerFires, IInv, EventsInOrder, CacheFollowsEvents, docker
    <2>6. \A h \in Hosts : Fresh(h)'
      BY <1>1, <2>2 DEF TimerFires, Fresh, docker
    <2>7. EventNotForgotten' /\ RefreshFresh'
      BY <2>3, <2>6 DEF EventNotForgotten, RefreshFresh, Fresh
    <2> QED BY <2>4, <2>5, <2>7 DEF IInv
  <1>2. ASSUME NEW b \in Pages, PageRequested(b)
        PROVE  IInv'
    <2>1. StartBuild(b) \/ StartInvalid(b)
      BY <1>2 DEF PageRequested
    <2>2. /\ got' \in [Builds -> [Hosts -> Result]]
          /\ request' \in [Hosts -> Versions \cup {None}]
          /\ cache' = cache /\ hung' = hung /\ failures' \in 0..MaxFailures
          /\ building' = building \cup {b}
          /\ \A h \in Hosts : request'[h] # None => request'[h] >= told[h]
          /\ \A c \in Builds : c # b => got'[c] = got[c]
      BY <1>0, <2>1, StartKeeps
    <2>3. building' \subseteq Builds /\ refreshing' = refreshing
      BY <1>0, <2>2 DEF IInv, TypeOK, refreshing
    <2>4. got'["coordinator"] = got["coordinator"]
      BY <1>0, <2>2
    <2>5. UNCHANGED <<docker, coordinator, targets, history, disconnects>>
      BY <1>2 DEF PageRequested
    <2>6. TypeOK'
      BY <2>2, <2>3, <2>5 DEF IInv, TypeOK, docker, coordinator
    <2>7. EventsInOrder' /\ CacheFollowsEvents'
      BY <2>2, <2>5 DEF IInv, EventsInOrder, CacheFollowsEvents, docker
    <2>8. EventNotForgotten' /\ RefreshFresh'
      BY <2>3, <2>4, <2>5 DEF IInv, EventNotForgotten, RefreshFresh, Fresh, Current, docker, coordinator
    <2> QED BY <2>6, <2>7, <2>8 DEF IInv
  <1>3. CASE RefreshFinished
    <2> DEFINE c == "coordinator"
    <2>1. /\ refreshing /\ building' = building \ {c}
          /\ got' = [got EXCEPT ![c] = [h \in Hosts |-> Failed]]
          /\ timer' = (timer \/ refreshPending) /\ refreshPending' = FALSE
          /\ UNCHANGED <<docker, lists, disconnects, failures>>
      BY <1>3 DEF RefreshFinished, BuildEnds, RefreshEnds
    <2>2. \/ error' = TRUE /\ UNCHANGED <<cards, targets, history>>
          \/ error' = FALSE /\ cards' = Built(c) /\ targets' = Built(c) /\ history' \subseteq history
      BY <1>3 DEF RefreshFinished
    <2>3. building' \subseteq Builds /\ ~refreshing'
      BY <2>1 DEF IInv, TypeOK, refreshing
    <2>4. got' \in [Builds -> [Hosts -> Result]]
      BY <1>0, <2>1, BuiltTypes DEF IInv, TypeOK
    <2>5. timer' \in BOOLEAN
      BY <2>1 DEF IInv, TypeOK
    <2>6. /\ cards' \in [Hosts -> Versions \cup {None}] /\ targets' \in [Hosts -> Versions \cup {None}]
          /\ error' \in BOOLEAN /\ history' \subseteq Hosts
      BY <1>0, <2>2, BuiltTypes DEF IInv, TypeOK
    <2>7. TypeOK'
      BY <2>1, <2>3, <2>4, <2>5, <2>6 DEF IInv, TypeOK, docker, lists
    <2>8. EventsInOrder' /\ CacheFollowsEvents'
      BY <2>1 DEF IInv, EventsInOrder, CacheFollowsEvents, docker, lists
    <2>9. timer' \/ error' \/ \A h \in Hosts : Current(h)'
      <3>1. CASE timer \/ refreshPending
        BY <2>1, <3>1
      <3>2. CASE error'
        BY <3>2
      <3>3. CASE ~timer /\ ~refreshPending /\ ~error'
        <4>1. \A h \in Hosts : Fresh(h)
          BY <2>1, <3>3 DEF IInv, RefreshFresh
        <4>2. cards' = Built(c)
          BY <2>2, <3>3
        <4>3. told' = told
          BY <2>1 DEF docker
        <4> QED BY <1>0, <4>1, <4>2, <4>3, BuiltTypes DEF Current, Fresh
      <3> QED BY <3>1, <3>2, <3>3
    <2>10. EventNotForgotten' /\ RefreshFresh'
      BY <2>3, <2>9 DEF EventNotForgotten, RefreshFresh
    <2> QED BY <2>7, <2>8, <2>10 DEF IInv
  <1>4. ASSUME NEW b \in Pages, PageFinished(b)
        PROVE  IInv'
    <2>1. /\ building' = building \ {b}
          /\ got' = [got EXCEPT ![b] = [h \in Hosts |-> Failed]]
          /\ UNCHANGED <<docker, lists, coordinator, history, disconnects, failures>>
      BY <1>4 DEF PageFinished, BuildEnds
    <2>2. targets' \in [Hosts -> Versions \cup {None}]
      BY <1>0, <1>4, BuiltTypes DEF PageFinished, IInv, TypeOK
    <2>3. refreshing' = refreshing /\ building' \subseteq Builds
      BY <1>0, <2>1 DEF IInv, TypeOK, refreshing
    <2>4. got' \in [Builds -> [Hosts -> Result]] /\ got'["coordinator"] = got["coordinator"]
      BY <1>0, <2>1, BuiltTypes DEF IInv, TypeOK
    <2>5. TypeOK'
      BY <2>1, <2>2, <2>3, <2>4 DEF IInv, TypeOK, docker, lists, coordinator
    <2>6. EventsInOrder' /\ CacheFollowsEvents'
      BY <2>1 DEF IInv, EventsInOrder, CacheFollowsEvents, docker, lists
    <2>7. EventNotForgotten' /\ RefreshFresh'
      BY <2>1, <2>3, <2>4 DEF IInv, EventNotForgotten, RefreshFresh, Fresh, Current, docker, coordinator
    <2> QED BY <2>5, <2>6, <2>7 DEF IInv
  <1> QED BY <1>1, <1>2, <1>3, <1>4 DEF BuildNext

LEMMA StepKeeps == IInv /\ [Next]_vars => IInv'
  <1> SUFFICES ASSUME IInv, [Next]_vars PROVE IInv'
    OBVIOUS
  <1>1. ASSUME NEW h \in Hosts, Collect(h) PROVE IInv'
    <2>1. TypeOK'
      BY <1>1 DEF Collect, IInv, TypeOK, docker, lists, coordinator
    <2>2. EventsInOrder' /\ CacheFollowsEvents'
      BY <1>1 DEF Collect, IInv, EventsInOrder, CacheFollowsEvents, docker, lists
    <2> QED BY <1>1, <2>1, <2>2, ShownUnchanged DEF Collect, IInv, docker, coordinator
  <1>2. CASE UNCHANGED vars
    <2>1. UNCHANGED <<docker, lists, coordinator>> /\ UNCHANGED <<building, got, targets, history,
                                                                 disconnects, failures>>
      BY <1>2 DEF vars
    <2>2. TypeOK' /\ EventsInOrder' /\ CacheFollowsEvents'
      BY <2>1 DEF IInv, TypeOK, EventsInOrder, CacheFollowsEvents, docker, lists, coordinator
    <2> QED BY <2>1, <2>2, ShownUnchanged DEF IInv, docker, coordinator
  <1> QED BY <1>1, <1>2, DockerKeeps, ListKeeps, BuildKeeps DEF Next

LEMMA Inductive == Spec => []IInv
  BY InitHolds, StepKeeps, PTL DEF Spec

\* The variables of the event streams, the caches, the builds and the
\* coordinator keep their types, in every run of any size.
THEOREM DiscoveryTypeCorrect == Spec => []TypeOK
  <1>1. IInv => TypeOK
    BY DEF IInv
  <1> QED BY <1>1, Inductive, PTL

\* Neither the list cache nor the request a build would join is ever older than
\* the last event, however many requests were in flight when it arrived.
THEOREM CachesFollowEvents == Spec => []CacheFollowsEvents
  <1>1. IInv => CacheFollowsEvents
    BY DEF IInv
  <1> QED BY <1>1, Inductive, PTL

\* Whenever an event arrives, a refresh that takes it into account is shown,
\* scheduled or in progress, or the discovery reports an error.
THEOREM NoEventForgotten == Spec => []EventNotForgotten
  <1>1. IInv => EventNotForgotten
    BY DEF IInv
  <1> QED BY <1>1, Inductive, PTL
=============================================================================
