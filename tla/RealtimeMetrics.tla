-------------------------- MODULE RealtimeMetrics --------------------------
(***************************************************************************)
(* How the metrics of one card reach the browsers that look at it: the     *)
(* server's subscriptions, snapshots and deltas (realtime-server.ts), the  *)
(* outbound queue of a socket (realtime-socket-lifecycle.ts) and the       *)
(* client's copy of the history (realtime-client.ts).                      *)
(*                                                                         *)
(* A sample is its timestamp and the number of its row.  The signature of  *)
(* a history is the history period the card's access gives; no access      *)
(* means the card is not discovered.  One past uptime bucket stands for    *)
(* all buckets and is abstracted to the number of its changes.  The hour   *)
(* does not change, so a bucket window never rolls.  Every client asks for *)
(* incremental histories, as the pages of this release do.  A collection   *)
(* that was under way when its card was removed saves nothing here.        *)
(***************************************************************************)
EXTENDS Integers, Sequences, SequencesExt

CONSTANTS
    Clients,
    Periods,        \* history periods discovery may give the card
    None,           \* no access, no subscription, nothing shown, not sent
    MaxTime,        \* bound: the clock
    MaxSamples,     \* bound: samples ever saved
    MaxUptime,      \* bound: changes of the uptime bucket
    MaxEvents,      \* REALTIME_MAX_OUTBOUND_EVENTS
    MaxTransit,     \* bound: messages to a client in the network
    MaxRequests,    \* bound: messages of a client not yet handled
    MaxChanges      \* bound: how often discovery changes or loses the card

ASSUME ParameterAssumption ==
    /\ Periods # {} /\ Periods \subseteq Nat
    /\ {MaxTime, MaxSamples, MaxUptime, MaxChanges} \subseteq Nat
    /\ MaxEvents \in Nat \ {0} /\ MaxTransit \in Nat \ {0} /\ MaxRequests \in Nat \ {0}

VARIABLES
    now,
    samples,        \* the rows of the card in resource_metrics, in order
    recorded,       \* how many were ever inserted
    uptime,         \* the uptime bucket as SQLite has it
    usage,          \* latestMetricUsage has the card
    access,         \* getMetricAccess: the history period, or None
    changes,        \* how often discovery changed it
    published,      \* publishedUptimeBuckets
    sub,            \* client.metrics: the subscription of each socket
    out,            \* messages given to socket.send, not yet written
    net,            \* messages written, not yet received
    toServer,       \* messages of the client, not yet received
    connected,      \* the socket is open
    greeted,        \* incrementalHistory is known
    viewing,        \* metricListeners has the card
    shown           \* RealtimeClient.metrics

data == <<now, samples, recorded, uptime, usage, access, changes>>
page == <<greeted, viewing, shown>>
vars == <<data, published, sub, out, net, toServer, connected, page>>

Sample == [id : 1..MaxSamples, time : 0..MaxTime]
History == Seq(Sample)
Buckets == 0..MaxUptime \cup {None}
Cursor == [time : 0..MaxTime, period : Periods]

\* A subscription: its snapshot waits in snapshotQueues, is being written, or
\* was written ("ready"); "unserved" when that snapshot had no access.  `first`
\* tells the snapshot of the subscribe message from one of a publication.
Subscription == [state : {"queued", "sending", "ready", "unserved"}, first : BOOLEAN, cursor : Cursor \cup {None}]

\* `cursor` of a snapshot is what its callback sets, None once the subscription
\* it was sent for is gone.
Message ==
    [type : {"status"}]
        \cup [type : {"snapshot"}, history : History, buckets : Buckets, cursor : Cursor \cup {None}]
        \cup [type : {"delta"}, history : History, buckets : Buckets, replaceFrom : 0..MaxTime, cutoff : Int]
        \cup [type : {"bucket"}, buckets : 0..MaxUptime]

\* What a client keeps of a card: an entry of RealtimeClient.metrics.
Copy == [history : History, buckets : Buckets]

\* undefined is no number and no object.
ASSUME NoneAssumption == None \notin Int /\ None \notin Cursor \cup Subscription \cup Copy

-----------------------------------------------------------------------------
(* Histories. *)

Larger(a, b) == IF a > b THEN a ELSE b

\* The rows of a history that are wanted.
Only(history, wanted) ==
    LET kept[n \in 0..Len(history)] ==
            IF n = 0 THEN <<>>
            ELSE IF history[n] \in wanted THEN Append(kept[n - 1], history[n])
            ELSE kept[n - 1]
    IN  kept[Len(history)]

Since(history, from) == Only(history, {s \in Sample : s.time >= from})

\* The rows of the last `period`, from `from` on.
Stored(period, from) == Since(samples, Larger(now - period, from))

\* Wrong variant: the row at the boundary is kept and sent again.
MergeHistory_KeepsBoundary(previous, updates, replaceFrom, cutoff) ==
    Only(previous, {s \in Sample : s.time >= cutoff /\ s.time <= replaceFrom})
        \o Since(updates, Larger(replaceFrom, cutoff))

\* The rows from `replaceFrom` on, the boundary included, are replaced.
MergeHistory(previous, updates, replaceFrom, cutoff) ==
    Only(previous, {s \in Sample : s.time >= cutoff /\ s.time < replaceFrom})
        \o Since(updates, Larger(replaceFrom, cutoff))

\* What a message does to the copy of a client that looks at the card.
Applied(copy, m) ==
    CASE m.type = "snapshot" -> [history |-> m.history, buckets |-> m.buckets]
      [] m.type = "delta" /\ copy # None ->
            [history |-> MergeHistory(copy.history, m.history, m.replaceFrom, m.cutoff),
             buckets |-> IF m.buckets = None THEN copy.buckets ELSE m.buckets]
      [] m.type = "bucket" /\ copy # None /\ copy.buckets # None -> [copy EXCEPT !.buckets = m.buckets]
      [] OTHER -> copy

\* What the copy is after each of the messages that are on their way.
After(copy, way) ==
    LET after[n \in 0..Len(way)] == IF n = 0 THEN copy ELSE Applied(after[n - 1], way[n])
    IN  after

-----------------------------------------------------------------------------
(* Helpers of the server. *)

SnapshotBuckets == IF usage THEN uptime ELSE None

\* Wrong variant: one message more is queued.
Full_ByOne(queue, messages) == Len(queue) + Len(messages) > MaxEvents + 1

\* `send` closes a socket rather than queue more than its limit.
Full(queue, messages) == Len(queue) + Len(messages) > MaxEvents

\* Wrong variant: the time at which the snapshot was written.
CursorOf_Written(snapshot) == [snapshot.cursor EXCEPT !.time = now]

\* What the callback of a snapshot sets: the time at which its rows were read,
\* not the one at which it was written.
CursorOf(snapshot) == snapshot.cursor

\* releaseUnusedMetrics
Released(subs, buckets) == IF \A c \in Clients : subs[c] = None THEN None ELSE buckets

\* The snapshots of a subscription that is gone are still written.
Orphaned(queue) == [i \in DOMAIN queue |-> IF queue[i].type = "snapshot" THEN [queue[i] EXCEPT !.cursor = None] ELSE queue[i]]

\* closeClient, and the close event on the client's side
Closing(closing) ==
    /\ connected' = [c \in Clients |-> connected[c] /\ c \notin closing]
    /\ net' = [c \in Clients |-> IF c \in closing THEN <<>> ELSE net[c]]
    /\ toServer' = [c \in Clients |-> IF c \in closing THEN <<>> ELSE toServer[c]]

CloseSocket(c) ==
    /\ Closing({c})
    /\ out' = [out EXCEPT ![c] = <<>>]
    /\ sub' = [sub EXCEPT ![c] = None]
    /\ published' = Released(sub', published)

Send(c, message) == IF connected[c] THEN [toServer EXCEPT ![c] = Append(@, message)] ELSE toServer

-----------------------------------------------------------------------------
Init ==
    /\ now = 0 /\ samples = <<>> /\ recorded = 0 /\ uptime = 0 /\ usage = FALSE
    /\ access \in Periods /\ changes = 0
    /\ published = None
    /\ sub = [c \in Clients |-> None]
    /\ out = [c \in Clients |-> <<>>]
    /\ net = [c \in Clients |-> <<>>]
    /\ toServer = [c \in Clients |-> <<>>]
    /\ connected = [c \in Clients |-> FALSE]
    /\ greeted = [c \in Clients |-> FALSE]
    /\ viewing = [c \in Clients |-> FALSE]
    /\ shown = [c \in Clients |-> None]

(* The data. *)

Tick ==
    /\ now < MaxTime
    /\ now' = now + 1
    /\ UNCHANGED <<samples, recorded, uptime, usage, access, changes, published, sub, out, net, toServer, connected, page>>

\* A recovered page of history is saved; nobody is told before the next poll.
Recover ==
    /\ access # None
    /\ uptime < MaxUptime
    /\ uptime' = uptime + 1
    /\ UNCHANGED <<now, samples, recorded, usage, access, changes, published, sub, out, net, toServer, connected, page>>

\* Discovery gives the card another period, or finds it again.
SetAccess ==
    /\ access # None => changes < MaxChanges
    /\ access' \in Periods \ {access}
    /\ changes' = IF access = None THEN changes ELSE changes + 1
    /\ UNCHANGED <<now, samples, recorded, uptime, usage, published, sub, out, net, toServer, connected, page>>

\* Discovery no longer finds the card: its history, its usage and its
\* published buckets are discarded, and the observations of the bucket if it
\* has any.
RemoveCard ==
    /\ access # None
    /\ changes < MaxChanges
    /\ access' = None
    /\ samples' = <<>>
    /\ usage' = FALSE
    /\ uptime' \in {uptime, uptime + 1} \cap 0..MaxUptime
    /\ published' = None
    /\ changes' = changes + 1
    /\ UNCHANGED <<now, recorded, sub, out, net, toServer, connected, page>>

(* The server. *)

\* What publishMetricsDelta sends to a client with a valid cursor.
Delta(c, rows, uptimes, rolled) ==
    LET cutoff == now - access
        since == sub[c].cursor.time
    IN  [type |-> "delta", history |-> Since(rows, Larger(cutoff, since)),
         buckets |-> IF rolled THEN uptimes ELSE None, replaceFrom |-> since, cutoff |-> cutoff]

Publish(rows, uptimes) ==
    LET ready == {c \in Clients : sub[c] # None /\ sub[c].state = "ready"}
        outdated == {c \in ready : sub[c].cursor.period # access}
        changed == published \notin {None, uptimes}
        sent == [c \in ready \ outdated |->
                    <<Delta(c, rows, uptimes, published = None)>>
                        \o IF changed THEN <<[type |-> "bucket", buckets |-> uptimes]>> ELSE <<>>]
        full == {c \in ready \ outdated : Full(out[c], sent[c])}
        served == ready \ (outdated \cup full)
    IN  /\ Closing(full)
        /\ out' = [c \in Clients |->
                    IF c \in full THEN <<>> ELSE IF c \in served THEN out[c] \o sent[c] ELSE out[c]]
        /\ sub' = [c \in Clients |->
                    IF c \in full THEN None
                    ELSE IF c \in outdated THEN [sub[c] EXCEPT !.state = "queued", !.first = FALSE]
                    ELSE IF c \in served THEN [sub[c] EXCEPT !.cursor.time = now]
                    ELSE sub[c]]
        /\ published' = IF ready = {} THEN None ELSE Released(sub', uptimes)

\* A collection is saved and published.  Without a sample, as when the
\* container does not run, it still publishes.
Poll(sampled, observed) ==
    LET rows == Since(IF sampled THEN Append(samples, [id |-> recorded + 1, time |-> now]) ELSE samples, now - access)
        uptimes == IF observed THEN uptime + 1 ELSE uptime
    IN  /\ access # None
        /\ sampled => recorded < MaxSamples
        /\ observed => uptime < MaxUptime
        /\ samples' = rows
        /\ recorded' = IF sampled THEN recorded + 1 ELSE recorded
        /\ uptime' = uptimes
        /\ usage' = TRUE
        /\ Publish(rows, uptimes)
        /\ UNCHANGED <<now, access, changes, page>>

\* The head of snapshotQueues: the previous snapshot of the socket was written.
SendSnapshot(c) ==
    /\ sub[c] # None
    /\ sub[c].state = "queued"
    /\ \A i \in DOMAIN out[c] : out[c][i].type # "snapshot"
    /\ IF access = None
       THEN /\ sub' = [sub EXCEPT ![c] = IF @.first THEN None ELSE [@ EXCEPT !.state = "unserved"]]
            /\ published' = Released(sub', published)
            /\ UNCHANGED <<out, net, toServer, connected>>
       ELSE LET message == [type |-> "snapshot", history |-> Stored(access, 0), buckets |-> SnapshotBuckets,
                            cursor |-> [time |-> now, period |-> access]]
            IN  IF Full(out[c], <<message>>)
                THEN CloseSocket(c)
                ELSE /\ out' = [out EXCEPT ![c] = Append(@, message)]
                     /\ sub' = [sub EXCEPT ![c].state = "sending"]
                     /\ UNCHANGED <<published, net, toServer, connected>>
    /\ UNCHANGED <<data, page>>

\* A message is written; the callback of a snapshot makes its subscription
\* ready.
Written(c) ==
    /\ out[c] # <<>>
    /\ Len(net[c]) < MaxTransit
    /\ out' = [out EXCEPT ![c] = Tail(@)]
    /\ net' = [net EXCEPT ![c] = Append(@, Head(out[c]))]
    /\ sub' = IF Head(out[c]).type = "snapshot" /\ Head(out[c]).cursor # None
              THEN [sub EXCEPT ![c] = [@ EXCEPT !.state = "ready", !.cursor = CursorOf(Head(out[c]))]]
              ELSE sub
    /\ UNCHANGED <<data, published, toServer, connected, page>>

HandleMessage(c) ==
    /\ toServer[c] # <<>>
    /\ toServer' = [toServer EXCEPT ![c] = Tail(@)]
    /\ sub' = [sub EXCEPT ![c] = IF Head(toServer[c]) = "subscribe"
                                 THEN [state |-> "queued", first |-> TRUE, cursor |-> None] ELSE None]
    /\ out' = [out EXCEPT ![c] = Orphaned(@)]
    /\ published' = IF Head(toServer[c]) = "subscribe" THEN published ELSE Released(sub', published)
    /\ UNCHANGED <<data, net, connected, page>>

(* The client. *)

\* The reconnect timer fires, or the page becomes visible.
Connect(c) ==
    /\ ~connected[c]
    /\ connected' = [connected EXCEPT ![c] = TRUE]
    /\ greeted' = [greeted EXCEPT ![c] = FALSE]
    /\ out' = [out EXCEPT ![c] = <<[type |-> "status"]>>]
    /\ UNCHANGED <<data, published, sub, net, toServer, viewing, shown>>

\* The network, the socket's lifetime or a hidden page closes the socket.
Disconnect(c) ==
    /\ connected[c]
    /\ CloseSocket(c)
    /\ UNCHANGED <<data, page>>

View(c) ==
    /\ ~viewing[c]
    /\ Len(toServer[c]) < MaxRequests
    /\ viewing' = [viewing EXCEPT ![c] = TRUE]
    /\ toServer' = IF greeted[c] THEN Send(c, "subscribe") ELSE toServer
    /\ UNCHANGED <<data, published, sub, out, net, connected, greeted, shown>>

Leave(c) ==
    /\ viewing[c]
    /\ Len(toServer[c]) < MaxRequests
    /\ viewing' = [viewing EXCEPT ![c] = FALSE]
    /\ shown' = [shown EXCEPT ![c] = None]
    /\ toServer' = Send(c, "unsubscribe")
    /\ UNCHANGED <<data, published, sub, out, net, connected, greeted>>

\* Wrong variant: a view opened before the capabilities are known never asks.
Asks_WithoutHistory(c, m) == viewing[c] /\ m.type = "delta" /\ shown[c] = None

\* A client subscribes when it learns the server's capabilities, and again
\* when a delta arrives for which it has no history.
Asks(c, m) == viewing[c] /\ (m.type = "status" \/ (m.type = "delta" /\ shown[c] = None))

Receive(c) ==
    /\ net[c] # <<>>
    /\ Len(toServer[c]) < MaxRequests
    /\ net' = [net EXCEPT ![c] = Tail(@)]
    /\ LET m == Head(net[c])
       IN  /\ greeted' = [greeted EXCEPT ![c] = @ \/ m.type = "status"]
           /\ shown' = [shown EXCEPT ![c] = IF viewing[c] THEN Applied(@, m) ELSE @]
           /\ toServer' = IF Asks(c, m) THEN Send(c, "subscribe") ELSE toServer
    /\ UNCHANGED <<data, published, sub, out, connected, viewing>>

-----------------------------------------------------------------------------
Next ==
    \/ Tick \/ Recover \/ SetAccess \/ RemoveCard
    \/ \E sampled, observed \in BOOLEAN : Poll(sampled, observed)
    \/ \E c \in Clients :
        \/ SendSnapshot(c) \/ Written(c) \/ HandleMessage(c)
        \/ Connect(c) \/ Disconnect(c) \/ View(c) \/ Leave(c) \/ Receive(c)

Spec == Init /\ [][Next]_vars

\* Polls go on, timers fire, and sockets that stay open carry their messages.
Fairness ==
    /\ WF_vars(\E sampled, observed \in BOOLEAN : Poll(sampled, observed))
    /\ \A c \in Clients :
        WF_vars(SendSnapshot(c)) /\ WF_vars(Written(c)) /\ WF_vars(HandleMessage(c))
            /\ WF_vars(Connect(c)) /\ WF_vars(Receive(c))

FairSpec == Spec /\ Fairness

-----------------------------------------------------------------------------
(* Properties. *)

\* Every variable keeps its type, and no queue is longer than its limit.
TypeOK ==
    /\ now \in 0..MaxTime /\ recorded \in 0..MaxSamples /\ uptime \in 0..MaxUptime
    /\ samples \in History /\ usage \in BOOLEAN
    /\ access \in Periods \cup {None} /\ changes \in 0..MaxChanges
    /\ published \in Buckets
    /\ sub \in [Clients -> Subscription \cup {None}]
    /\ connected \in [Clients -> BOOLEAN]
    /\ greeted \in [Clients -> BOOLEAN] /\ viewing \in [Clients -> BOOLEAN]
    /\ out \in [Clients -> Seq(Message)] /\ net \in [Clients -> Seq(Message)]
    /\ toServer \in [Clients -> Seq({"subscribe", "unsubscribe"})]
    /\ shown \in [Clients -> Copy \cup {None}]
    /\ \A c \in Clients :
        /\ Len(out[c]) <= MaxEvents /\ Len(net[c]) <= MaxTransit /\ Len(toServer[c]) <= MaxRequests
        /\ shown[c] # None => viewing[c]

\* What a client will show once everything sent to it has arrived.
Arrived(c) == LET way == net[c] \o out[c] IN After(shown[c], way)[Len(way)]

\* The server takes the client for served, and the client has not asked again.
Served(c) ==
    /\ sub[c] # None
    /\ sub[c].state = "ready"
    /\ viewing[c]
    /\ toServer[c] = <<>>

\* No sample is lost on the way: a client that is served has, or will receive,
\* every retained sample up to the cursor; the server sends those from the
\* cursor on with the next delta.
HistoryComplete ==
    \A c \in Clients : Served(c) =>
        /\ Arrived(c) # None
        /\ \A s \in ToSet(samples) :
            access # None /\ s.time >= now - sub[c].cursor.period /\ s.time < sub[c].cursor.time
                => s \in ToSet(Arrived(c).history)

\* No sample is shown twice or out of order, at any moment of any sequence of
\* snapshots, deltas, subscriptions and reconnections.
HistoryInOrder ==
    \A c \in Clients : shown[c] # None =>
        LET h == shown[c].history
        IN  \A i, j \in DOMAIN h : i < j => h[i].id < h[j].id

\* While the card stays discovered, and once sockets stay open, a sample that
\* is retained reaches every client that goes on looking at the card.
SamplesShown ==
    [](access # None) /\ <>[][\A c \in Clients : connected[c] => connected'[c]]_vars =>
        \A c \in Clients : \A n \in 1..MaxSamples :
            viewing[c] /\ (\E s \in ToSet(samples) : s.id = n)
                ~> \/ ~viewing[c]
                   \/ \A s \in ToSet(samples) : s.id # n
                   \/ shown[c] # None /\ \E s \in ToSet(shown[c].history) : s.id = n

\* "Updates follow normal polling": a client that is served has, or will
\* receive, every bucket the last poll published.
BucketsFollowPolling ==
    \A c \in Clients : Served(c) /\ published # None =>
        Arrived(c).buckets # None /\ Arrived(c).buckets >= published
=============================================================================
