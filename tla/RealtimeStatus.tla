--------------------------- MODULE RealtimeStatus ---------------------------
(***************************************************************************)
(* The states of containers on their way to one browser: discovery compares*)
(* what it finds with what it found before (discovery-coordinator.ts), the *)
(* server sends a socket one snapshot and then what changes                *)
(* (realtime-server.ts), the page merges what it receives and connects     *)
(* again when the socket is lost or the page comes back into view          *)
(* (realtime-client.ts).                                                   *)
(***************************************************************************)
EXTENDS Integers, Sequences, FiniteSets

CONSTANTS
    CardIds,
    ContainerStatuses,  \* states with healths
    NoStatus,           \* of a card without container, or no card
    Discoveries,        \* what a discovery may find: statuses, and the cards the viewer may see
    MaxOutbound,        \* REALTIME_MAX_OUTBOUND_EVENTS
    UnavailableAfter,   \* REALTIME_UNAVAILABLE_AFTER_ATTEMPTS
    MaxVersion

StatusMaps == [CardIds -> ContainerStatuses \cup {NoStatus}]

ASSUME StatusAssumption ==
    /\ IsFiniteSet(CardIds) /\ NoStatus \notin ContainerStatuses
    /\ Discoveries \subseteq [status : StatusMaps, viewable : SUBSET CardIds]
    /\ MaxOutbound \in Nat /\ UnavailableAfter \in Nat /\ MaxVersion \in Nat

VARIABLES
    found,        \* cards, as discovery last found them
    statuses,     \* statuses
    failing,      \* error
    initialised,  \* initialRefresh has ended
    issued,       \* version
    sights,       \* visibleStatusCards of the socket
    greeted,      \* its snapshot has been sent
    transit,      \* messages on their way, which are its pendingEvents
    page,         \* whether the page retains statuses, and is in view
    socket, timer, attempts, unavailable, latest,  \* fields of RealtimeClient
    display,      \* its statuses
    untold        \* what the server never tells: seen anew without a change, or missed by a snapshot in error

serverVars == <<found, statuses, failing, initialised, issued>>
socketVars == <<sights, greeted, transit>>
clientVars == <<timer, attempts, unavailable, latest, display>>
statusVars == <<serverVars, socketVars, page, socket, clientVars, untold>>

NoStatuses == [c \in CardIds |-> NoStatus]
NoCards == [status |-> NoStatuses, viewable |-> {}]
Unknown == {"unknown"}

-----------------------------------------------------------------------------
(* The server.                                                             *)

KeysOf(s) == {c \in CardIds : s[c] # NoStatus}

\* getStatusSnapshot: nothing while discovery is in error.
StatusesSeen(cards, current, error) ==
    [c \in CardIds |-> IF ~error /\ c \in cards.viewable THEN current[c] ELSE NoStatus]

\* Wrong variant: who sees what is looked up once for a socket.
Forgotten_Kept(known) == known

\* onCardsChange.
Forgotten(known) == Unknown

\* publishStatusDelta looks up who sees what once, with the first change.
Sights(known, seen) == IF known = Unknown THEN seen ELSE known

\* The cards whose listeners refresh calls.
ChangedStatuses(previous, next) == {c \in KeysOf(next) : previous[c] # next[c]}

\* The listeners are called in the order of discovery.
Orders(S) == {o \in [1..Cardinality(S) -> S] : \A c \in S : \E i \in 1..Cardinality(S) : o[i] = c}

Deltas(order, next) ==
    [i \in 1..Len(order) |->
        [kind |-> "status_delta", version |-> issued + i, card |-> order[i], status |-> next[order[i]]]]

\* The timer of scheduleReconnect, after which the page counts as disconnected.
ScheduleReconnect ==
    /\ timer' = TRUE
    /\ attempts' = IF attempts < UnavailableAfter THEN attempts + 1 ELSE attempts
    /\ unavailable' = (unavailable \/ attempts + 1 >= UnavailableAfter)
    /\ UNCHANGED <<latest, display>>

SocketGone == socket' = "none" /\ sights' = Unknown /\ greeted' = FALSE /\ transit' = <<>>

\* send for one message after another: a full queue closes the socket.
Send(messages) ==
    IF Len(transit) + Len(messages) <= MaxOutbound
    THEN /\ issued' = issued + Len(messages) /\ transit' = transit \o messages
         /\ UNCHANGED <<socket, clientVars>>
    ELSE /\ issued' = issued + (MaxOutbound - Len(transit)) + 1
         /\ SocketGone /\ ScheduleReconnect

\* sendStatusSnapshot, once ready() has resolved.
SendStatusSnapshot ==
    /\ socket = "open" /\ ~greeted /\ initialised
    /\ LET seen == StatusesSeen(found, statuses, failing) IN
       /\ Send(<<[kind |-> "status_snapshot", version |-> issued + 1, statuses |-> seen]>>)
       /\ socket' = "open" => greeted' = TRUE /\ sights' = KeysOf(seen)
    /\ untold' = IF failing THEN found.viewable ELSE {}
    /\ UNCHANGED <<found, statuses, failing, initialised, page>>

\* refresh that finds cards.  Bound: issued.
Refresh(discovered) ==
    /\ issued < MaxVersion
    /\ found' = discovered /\ statuses' = discovered.status
    /\ failing' = FALSE /\ initialised' = TRUE
    /\ LET changed == ChangedStatuses(statuses, discovered.status)
           known == Forgotten(sights)
           seen == Sights(known, KeysOf(StatusesSeen(discovered, discovered.status, FALSE)))
       IN  /\ IF socket # "open" THEN UNCHANGED <<issued, socketVars, socket, clientVars>>
              ELSE \E order \in Orders(changed \cap seen) :
                      /\ Send(Deltas(order, discovered.status))
                      /\ socket' = "open" => greeted' = greeted /\ sights' = IF changed = {} THEN known ELSE seen
           /\ untold' = ((untold \cup (discovered.viewable \ found.viewable)) \cap discovered.viewable) \ changed
    /\ UNCHANGED page

\* refresh that ends with an error keeps what was found.
RefreshFails ==
    /\ failing' = TRUE /\ initialised' = TRUE
    /\ UNCHANGED <<found, statuses, issued, socketVars, page, socket, clientVars, untold>>

\* The process ends and starts again.
ServerRestarts ==
    /\ found' = NoCards /\ statuses' = NoStatuses /\ failing' = FALSE /\ initialised' = FALSE
    /\ issued' = 0 /\ untold' = {}
    /\ SocketGone
    /\ IF socket = "none" THEN UNCHANGED clientVars ELSE ScheduleReconnect
    /\ UNCHANGED page

-----------------------------------------------------------------------------
(* The page.                                                               *)

\* connect, of a page in view without socket or timer.
Connect(waits) == socket' = IF socket = "none" /\ ~waits THEN "opening" ELSE socket

\* retainStatus, and stopIfUnused when the view that shows statuses goes.
RetainStatus(shown) ==
    /\ page = "left"
    /\ page' = shown
    /\ IF shown = "visible" THEN Connect(timer) ELSE UNCHANGED socket
    /\ UNCHANGED <<serverVars, socketVars, clientVars, untold>>

Close == SocketGone /\ timer' = FALSE /\ UNCHANGED <<serverVars, attempts, unavailable, latest, untold>>

ReleaseStatus ==
    /\ page # "left"
    /\ page' = "left"
    /\ Close /\ display' = NoStatuses

\* handleVisibilityChange.
Hide ==
    /\ page = "visible"
    /\ page' = "hidden"
    /\ Close /\ UNCHANGED display

Show ==
    /\ page = "hidden"
    /\ page' = "visible"
    /\ Connect(timer)
    /\ UNCHANGED <<serverVars, socketVars, clientVars, untold>>

\* The socket opens, for both sides.  Bound: issued.
Opened ==
    /\ socket = "opening" /\ issued < MaxVersion
    /\ socket' = "open"
    /\ attempts' = 0 /\ unavailable' = FALSE /\ latest' = 0
    /\ UNCHANGED <<serverVars, socketVars, page, timer, display, untold>>

\* It fails to open, is lost, or has reached the end of its lifetime.
Lost ==
    /\ socket # "none"
    /\ SocketGone /\ ScheduleReconnect
    /\ UNCHANGED <<serverVars, page, untold>>

ReconnectTimer ==
    /\ timer
    /\ timer' = FALSE
    /\ Connect(FALSE)
    /\ UNCHANGED <<serverVars, socketVars, page, attempts, unavailable, latest, display, untold>>

Displayed(message) ==
    IF message.kind = "status_snapshot" THEN message.statuses
    ELSE [display EXCEPT ![message.card] = message.status]

\* handleMessage drops what is not newer than the last message.
HandleMessage ==
    /\ transit # <<>>
    /\ transit' = Tail(transit)
    /\ LET message == Head(transit) IN
       IF message.version <= latest THEN UNCHANGED <<latest, display>>
       ELSE latest' = message.version /\ display' = Displayed(message)
    /\ UNCHANGED <<serverVars, sights, greeted, page, socket, timer, attempts, unavailable, untold>>

-----------------------------------------------------------------------------
(* Behaviour.                                                              *)

StatusInit ==
    /\ found = NoCards /\ statuses = NoStatuses /\ failing = FALSE /\ initialised = FALSE /\ issued = 0
    /\ sights = Unknown /\ greeted = FALSE /\ transit = <<>>
    /\ page = "left" /\ socket = "none" /\ timer = FALSE /\ attempts = 0 /\ unavailable = FALSE
    /\ latest = 0 /\ display = NoStatuses /\ untold = {}

StatusNext ==
    \/ SendStatusSnapshot
    \/ \E discovered \in Discoveries : Refresh(discovered)
    \/ RefreshFails
    \/ ServerRestarts
    \/ \E shown \in {"hidden", "visible"} : RetainStatus(shown)
    \/ ReleaseStatus
    \/ Hide
    \/ Show
    \/ Opened
    \/ Lost
    \/ ReconnectTimer
    \/ HandleMessage

StatusSpec == StatusInit /\ [][StatusNext]_statusVars

-----------------------------------------------------------------------------
(* A page in view has a socket or will open one, and when it has received  *)
(* all it was sent it shows the state of every container its viewer may    *)
(* see, through lost sockets, full queues, errors and restarts; except     *)
(* what the server never tells: a container whose access alone has changed,*)
(* and what a snapshot missed while discovery was in error, until the next *)
(* change; and that a container is gone                                    *)
(* (realtime-server.ts:116, 207, discovery-coordinator.ts:71, 107).        *)
StatusesFollow ==
    /\ page = "visible" => socket # "none" \/ timer
    /\ greeted /\ transit = <<>> => \A c \in (KeysOf(statuses) \cap found.viewable) \ untold : display[c] = statuses[c]
=============================================================================
