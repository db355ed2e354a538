------------------------ MODULE RealtimeStatusProofs ------------------------
(***************************************************************************)
(* Proofs about container statuses: whatever is lost, closed, restarted or *)
(* in error, a page shows what the server has found, for every set of      *)
(* cards, queue limit and number of messages.                              *)
(***************************************************************************)
EXTENDS RealtimeStatus, FiniteSetTheorems, TLAPS

StatusMessages ==
    [kind : {"status_snapshot"}, version : Nat, statuses : StatusMaps]
    \cup [kind : {"status_delta"}, version : Nat, card : CardIds, status : ContainerStatuses \cup {NoStatus}]

StatusTypes ==
    /\ found \in [status : StatusMaps, viewable : SUBSET CardIds]
    /\ issued \in Nat /\ latest \in Nat
    /\ transit \in Seq(StatusMessages)
    /\ greeted \in BOOLEAN
    /\ display \in StatusMaps

\* A socket that is not open carries nothing, an open one what fits its queue, and a page in
\* view is about to have one.
Lively ==
    /\ Len(transit) <= MaxOutbound
    /\ socket # "open" => transit = <<>> /\ ~greeted
    /\ page = "visible" => socket # "none" \/ timer

\* Versions grow along the way, so that the page drops nothing.
Rising ==
    /\ socket = "open" => latest <= issued
    /\ \A i \in 1..Len(transit) : latest < transit[i].version /\ transit[i].version <= issued
    /\ \A i, j \in 1..Len(transit) : i < j => transit[i].version < transit[j].version

Speaks(message, c) == message.kind = "status_snapshot" \/ message.card = c
Word(message, c) == IF message.kind = "status_snapshot" THEN message.statuses[c] ELSE message.status

\* What the page shows, or a message on its way says, is so, and nothing after it says otherwise.
Confirmed(c, s) == \A j \in 1..Len(transit) : Speaks(transit[j], c) => Word(transit[j], c) = s
Announced(c, s) ==
    \E i \in 1..Len(transit) :
        /\ Speaks(transit[i], c)
        /\ \A j \in i..Len(transit) : Speaks(transit[j], c) => Word(transit[j], c) = s
Current(c, s) == Announced(c, s) \/ (display[c] = s /\ Confirmed(c, s))

Owed == (KeysOf(statuses) \cap found.viewable) \ untold

StatusInv ==
    /\ StatusTypes
    /\ statuses = found.status
    /\ Lively
    /\ Rising
    /\ greeted => \A c \in Owed : Current(c, statuses[c])

LEMMA Empty == Len(<<>>) = 0 /\ \A S : <<>> \in Seq(S)
OBVIOUS

LEMMA StatusInitInv == StatusInit => StatusInv
<1> SUFFICES ASSUME StatusInit PROVE StatusInv
  OBVIOUS
<1>1. NoStatuses \in StatusMaps
  BY DEF NoStatuses, StatusMaps
<1>2. StatusTypes
  BY <1>1, Empty DEF StatusInit, StatusTypes, NoCards
<1>3. Lively /\ Rising
  BY Empty, StatusAssumption DEF StatusInit, Lively, Rising
<1> QED
  BY <1>2, <1>3 DEF StatusInit, StatusInv, NoCards

-----------------------------------------------------------------------------
(* What each step does to the invariant.                                   *)

\* A socket that goes leaves nothing that could be wrong.
LEMMA GoneInv ==
    ASSUME StatusTypes, SocketGone
    PROVE  transit' \in Seq(StatusMessages) /\ greeted' = FALSE /\ Rising'
BY Empty DEF SocketGone, Rising

LEMMA ClosedInv ==
    ASSUME StatusInv, SocketGone, UNCHANGED <<serverVars, latest>>, display' \in StatusMaps,
           page' = "visible" => timer'
    PROVE  StatusInv'
<1>1. StatusTypes'
  BY GoneInv DEF StatusInv, StatusTypes, serverVars
<1>2. Lively'
  BY Empty, StatusAssumption DEF Lively, SocketGone
<1> QED
  BY <1>1, <1>2, GoneInv DEF StatusInv, serverVars

\* Steps that leave what is on its way, and at most connect.
LEMMA PageInv ==
    ASSUME StatusInv, UNCHANGED <<serverVars, socketVars, latest, display, untold>>,
           socket' = socket \/ (socket = "none" /\ socket' = "opening"),
           page' = "visible" => socket' # "none" \/ timer'
    PROVE  StatusInv'
<1>1. StatusTypes' /\ Rising' /\ statuses' = found'.status
  BY DEF StatusInv, StatusTypes, Rising, serverVars, socketVars
<1>2. Lively'
  BY DEF StatusInv, Lively, serverVars, socketVars
<1>3. greeted' => \A c \in Owed' : Current(c, statuses[c])'
  BY DEF StatusInv, Owed, Current, Announced, Confirmed, serverVars, socketVars
<1> QED
  BY <1>1, <1>2, <1>3 DEF StatusInv

LEMMA OpenedInv == StatusInv /\ Opened => StatusInv'
<1> SUFFICES ASSUME StatusInv, Opened PROVE StatusInv'
  OBVIOUS
<1>1. transit = <<>> /\ ~greeted
  BY DEF StatusInv, Lively, Opened
<1>2. StatusTypes' /\ statuses' = found'.status
  BY DEF StatusInv, StatusTypes, Opened, serverVars, socketVars
<1>3. Lively' /\ Rising'
  BY <1>1, Empty DEF StatusInv, StatusTypes, Lively, Rising, Opened, serverVars, socketVars
<1> QED
  BY <1>1, <1>2, <1>3 DEF StatusInv, Opened, socketVars

LEMMA HandleInv == StatusInv /\ HandleMessage => StatusInv'
<1> SUFFICES ASSUME StatusInv, HandleMessage PROVE StatusInv'
  OBVIOUS
<1> DEFINE message == Head(transit)
<1>1. /\ transit \in Seq(StatusMessages) /\ transit # <<>> /\ transit' = Tail(transit)
      /\ latest \in Nat /\ issued \in Nat /\ UNCHANGED <<serverVars, greeted, page, socket, timer, untold>>
  BY DEF StatusInv, StatusTypes, HandleMessage, serverVars
<1>2. /\ Len(transit) \in Nat \ {0} /\ Len(transit') = Len(transit) - 1
      /\ transit' \in Seq(StatusMessages)
      /\ \A i \in 1..Len(transit') : transit'[i] = transit[i + 1]
      /\ message = transit[1] /\ message \in StatusMessages
  BY <1>1
<1>3. message.version > latest /\ message.version \in Nat
  BY <1>1, <1>2 DEF StatusInv, Rising, StatusMessages
<1>4. latest' = message.version /\ display' = Displayed(message)
  BY <1>1, <1>3 DEF HandleMessage
<1>5. display' \in StatusMaps
  <2>1. CASE message.kind = "status_snapshot"
    BY <1>2, <1>4, <2>1 DEF Displayed, StatusMessages
  <2>2. CASE message.kind # "status_snapshot"
    <3>1. message.card \in CardIds /\ message.status \in ContainerStatuses \cup {NoStatus}
      BY <1>2, <2>2 DEF StatusMessages
    <3> QED
      BY <1>4, <2>2, <3>1 DEF Displayed, StatusInv, StatusTypes, StatusMaps
  <2> QED
    BY <2>1, <2>2
<1>6. StatusTypes' /\ statuses' = found'.status
  BY <1>1, <1>2, <1>3, <1>4, <1>5 DEF StatusInv, StatusTypes, serverVars
<1>7. Lively'
  BY <1>1, <1>2, StatusAssumption DEF StatusInv, Lively
<1>8. Rising'
  <2>1. \A i \in 1..Len(transit) : transit[i].version \in Nat
    BY <1>1 DEF StatusMessages
  <2>2. \A i \in 1..Len(transit') : i + 1 \in 1..Len(transit) /\ 1 < i + 1
    BY <1>2
  <2>3. ASSUME NEW i \in 1..Len(transit')
        PROVE  latest' < transit'[i].version /\ transit'[i].version <= issued
    <3>1. 1 \in 1..Len(transit) /\ i + 1 \in 1..Len(transit) /\ 1 < i + 1 /\ transit'[i] = transit[i + 1]
      BY <1>2, <2>2
    <3>2. transit[1].version < transit[i + 1].version /\ transit[i + 1].version <= issued
      BY <3>1 DEF StatusInv, Rising
    <3> QED
      BY <1>2, <1>4, <3>1, <3>2
  <2>4. \A i, j \in 1..Len(transit') : i < j => transit'[i].version < transit'[j].version
    BY <1>2, <2>2 DEF StatusInv, Rising
  <2>5. latest' <= issued
    BY <1>2, <1>4 DEF StatusInv, Rising
  <2> QED
    BY <1>1, <2>3, <2>4, <2>5 DEF Rising, serverVars
<1>9. ASSUME greeted, NEW c \in Owed PROVE Current(c, statuses[c])'
  <2> DEFINE s == statuses[c]
  <2>0. c \in CardIds
    BY DEF Owed, KeysOf
  <2>1. Current(c, s)
    BY <1>9 DEF StatusInv
  <2>2. statuses' = statuses
    BY <1>1 DEF serverVars
  <2>3. ASSUME Speaks(message, c), Word(message, c) = s PROVE display'[c] = s
    <3>1. CASE message.kind = "status_snapshot"
      BY <1>4, <2>3, <3>1 DEF Displayed, Word
    <3>2. CASE message.kind # "status_snapshot"
      BY <1>4, <2>0, <2>3, <3>2 DEF Displayed, Word, Speaks, StatusInv, StatusTypes, StatusMaps
    <3> QED
      BY <3>1, <3>2
  <2>4. ASSUME ~Speaks(message, c) PROVE display'[c] = display[c]
    BY <1>2, <1>4, <2>0, <2>4 DEF Displayed, Speaks, StatusMessages, StatusInv, StatusTypes, StatusMaps
  <2>5. CASE display[c] = s /\ Confirmed(c, s)
    <3>1. \A j \in 1..Len(transit') : Speaks(transit'[j], c) => Word(transit'[j], c) = s
      BY <1>2, <2>5 DEF Confirmed
    <3>2. display'[c] = s
      BY <1>2, <2>3, <2>4, <2>5 DEF Confirmed
    <3> QED
      BY <2>2, <3>1, <3>2 DEF Current, Confirmed
  <2>6. CASE Announced(c, s)
    <3>1. PICK i \in 1..Len(transit) :
              /\ Speaks(transit[i], c)
              /\ \A j \in i..Len(transit) : Speaks(transit[j], c) => Word(transit[j], c) = s
      BY <2>6 DEF Announced
    <3>2. CASE i = 1
      <4>1. \A j \in 1..Len(transit') : Speaks(transit'[j], c) => Word(transit'[j], c) = s
        BY <1>2, <3>1, <3>2
      <4>2. display'[c] = s
        BY <1>2, <2>3, <3>1, <3>2
      <4> QED
        BY <2>2, <4>1, <4>2 DEF Current, Confirmed
    <3>3. CASE i # 1
      <4>1. i - 1 \in 1..Len(transit') /\ transit'[i - 1] = transit[i]
        BY <1>2, <3>3
      <4>2. \A j \in (i - 1)..Len(transit') : Speaks(transit'[j], c) => Word(transit'[j], c) = s
        BY <1>2, <3>1, <3>3
      <4> QED
        BY <2>2, <3>1, <4>1, <4>2 DEF Current, Announced
    <3> QED
      BY <3>2, <3>3
  <2> QED
    BY <2>1, <2>5, <2>6 DEF Current
<1>10. Owed' = Owed /\ greeted' = greeted
  BY <1>1 DEF Owed, KeysOf, serverVars
<1> QED
  BY <1>6, <1>7, <1>8, <1>9, <1>10 DEF StatusInv

-----------------------------------------------------------------------------
(* What the server sends.                                                  *)

\* Messages added at the end of the way, with the versions that follow.
LEMMA SentRising ==
    ASSUME StatusTypes, Rising, socket = "open", UNCHANGED latest,
           NEW messages \in Seq(StatusMessages),
           \A i \in 1..Len(messages) : messages[i].version = issued + i,
           transit' = transit \o messages, issued' = issued + Len(messages), socket' = "open"
    PROVE  Rising' /\ transit' \in Seq(StatusMessages) /\ issued' \in Nat
<1> DEFINE n == Len(transit)
           m == Len(messages)
<1>1. /\ n \in Nat /\ m \in Nat /\ Len(transit') = n + m /\ transit' \in Seq(StatusMessages)
      /\ issued \in Nat /\ latest \in Nat /\ latest <= issued
  BY DEF StatusTypes, Rising
<1>2. \A i \in 1..n : transit'[i] = transit[i]
  BY <1>1 DEF StatusTypes
<1>3. ASSUME NEW i \in 1..(n + m), i > n PROVE transit'[i] = messages[i - n] /\ transit'[i].version = issued + (i - n)
  <2>1. i - n \in 1..m
    BY <1>1, <1>3
  <2>2. transit'[i] = messages[i - n]
    BY <1>1, <1>3 DEF StatusTypes
  <2> QED
    BY <2>1, <2>2
<1>4. \A i \in 1..n : transit[i].version \in Int /\ latest < transit[i].version /\ transit[i].version <= issued
  <2>1. \A i \in 1..n : transit[i] \in StatusMessages
    BY <1>1 DEF StatusTypes
  <2> QED
    BY <2>1 DEF Rising, StatusMessages
<1>5. \A i \in 1..(n + m) : latest < transit'[i].version /\ transit'[i].version <= issued + m
  BY <1>1, <1>2, <1>3, <1>4
<1>6. ASSUME NEW i \in 1..(n + m), NEW j \in 1..(n + m), i < j
      PROVE  transit'[i].version < transit'[j].version
  <2>1. CASE j <= n
    BY <1>1, <1>2, <1>6, <2>1 DEF Rising
  <2>2. CASE j > n /\ i > n
    BY <1>1, <1>3, <1>6, <2>2
  <2>3. CASE j > n /\ i <= n
    <3>1. i \in 1..n /\ transit'[i] = transit[i]
      BY <1>1, <1>2, <2>3
    <3>2. transit[i].version \in Int /\ transit[i].version <= issued
      BY <1>4, <3>1
    <3>3. transit'[j].version = issued + (j - n)
      BY <1>3, <2>3
    <3> QED
      BY <1>1, <2>3, <3>1, <3>2, <3>3
  <2>4. i \in Int /\ j \in Int /\ n \in Int
    BY <1>1
  <2> QED
    BY <1>6, <2>1, <2>2, <2>3, <2>4
<1> QED
  BY <1>1, <1>5, <1>6 DEF Rising

LEMMA SnapshotInv == StatusInv /\ SendStatusSnapshot => StatusInv'
<1> SUFFICES ASSUME StatusInv, SendStatusSnapshot PROVE StatusInv'
  OBVIOUS
<1> DEFINE seen == StatusesSeen(found, statuses, failing)
           snapshot == [kind |-> "status_snapshot", version |-> issued + 1, statuses |-> seen]
<1>1. /\ socket = "open" /\ Send(<<snapshot>>)
      /\ socket' = "open" => greeted' = TRUE /\ sights' = KeysOf(seen)
      /\ untold' = IF failing THEN found.viewable ELSE {}
      /\ UNCHANGED <<found, statuses, failing, initialised, page>>
  BY DEF SendStatusSnapshot
<1>2. seen \in StatusMaps /\ snapshot \in StatusMessages
  BY DEF StatusInv, StatusTypes, StatusMessages, StatusesSeen, StatusMaps
<1>3. CASE Len(transit) + Len(<<snapshot>>) <= MaxOutbound
  <2>1. /\ issued' = issued + Len(<<snapshot>>) /\ transit' = transit \o <<snapshot>>
        /\ UNCHANGED <<socket, clientVars>>
    BY <1>1, <1>3 DEF Send
  <2>2. <<snapshot>> \in Seq(StatusMessages) /\ Len(<<snapshot>>) = 1 /\ <<snapshot>>[1] = snapshot
        /\ \A i \in 1..1 : i = 1 /\ <<snapshot>>[i].version = issued + i
    BY <1>2
  <2>3. Rising' /\ transit' \in Seq(StatusMessages) /\ issued' \in Nat
    BY <1>1, <2>1, <2>2, SentRising DEF StatusInv, clientVars
  <2>4. StatusTypes' /\ statuses' = found'.status
    BY <1>1, <2>1, <2>3 DEF StatusInv, StatusTypes, clientVars
  <2>5. Lively'
    <3>1. Len(transit') <= MaxOutbound
      BY <1>3, <2>1, <2>2 DEF StatusInv, StatusTypes
    <3> QED
      BY <1>1, <2>1, <3>1 DEF StatusInv, Lively, clientVars
  <2>6. ASSUME NEW c \in Owed' PROVE Current(c, statuses[c])'
    <3>1. ~failing /\ c \in found.viewable /\ c \in CardIds
      BY <1>1, <2>6 DEF Owed, KeysOf
    <3>2. Len(transit') \in 1..Len(transit') /\ transit'[Len(transit')] = snapshot
      BY <2>1, <2>2 DEF StatusInv, StatusTypes
    <3>3. Speaks(snapshot, c) /\ Word(snapshot, c) = statuses[c]
      BY <3>1 DEF Speaks, Word, StatusesSeen
    <3>4. \A j \in Len(transit')..Len(transit') : j = Len(transit')
      BY <3>2
    <3> QED
      BY <1>1, <3>2, <3>3, <3>4 DEF Current, Announced
  <2> QED
    BY <2>3, <2>4, <2>5, <2>6 DEF StatusInv
<1>4. CASE ~(Len(transit) + Len(<<snapshot>>) <= MaxOutbound)
  <2>1. SocketGone /\ timer' = TRUE /\ UNCHANGED <<latest, display>>
        /\ issued' = issued + (MaxOutbound - Len(transit)) + 1
    BY <1>1, <1>4 DEF Send, ScheduleReconnect
  <2>2. issued' \in Nat
    <3>1. Len(<<snapshot>>) = 1 /\ Len(transit) \in Nat /\ Len(transit) <= MaxOutbound /\ issued \in Nat
      BY DEF StatusInv, StatusTypes, Lively
    <3> QED
      BY <2>1, <3>1, StatusAssumption
  <2>3. StatusTypes' /\ Rising' /\ ~greeted'
    BY <1>1, <2>1, <2>2, GoneInv DEF StatusInv, StatusTypes
  <2>4. Lively'
    BY <2>1, Empty, StatusAssumption DEF Lively, SocketGone
  <2> QED
    BY <1>1, <2>3, <2>4 DEF StatusInv
<1> QED
  BY <1>3, <1>4

\* A full queue: what was to be sent is lost with the socket.
LEMMA FullInv ==
    ASSUME StatusInv, SocketGone, ScheduleReconnect, UNCHANGED page,
           found' \in [status : StatusMaps, viewable : SUBSET CardIds], statuses' = found'.status,
           issued' = issued + (MaxOutbound - Len(transit)) + 1
    PROVE  StatusInv'
<1>1. issued' \in Nat
  <2>1. Len(transit) \in Nat /\ Len(transit) <= MaxOutbound /\ issued \in Nat
    BY DEF StatusInv, StatusTypes, Lively
  <2> QED
    BY <2>1, StatusAssumption
<1>2. StatusTypes' /\ Rising' /\ ~greeted'
  BY <1>1, GoneInv DEF StatusInv, StatusTypes, ScheduleReconnect
<1>3. Lively'
  BY Empty, StatusAssumption DEF Lively, SocketGone, ScheduleReconnect
<1> QED
  BY <1>2, <1>3 DEF StatusInv

LEMMA OrderLength ==
    ASSUME NEW S \in SUBSET CardIds, NEW order \in Orders(S)
    PROVE  /\ order \in Seq(S) /\ Len(order) \in Nat
           /\ \A i \in 1..Len(order) : order[i] \in S
           /\ \A c \in S : \E i \in 1..Len(order) : order[i] = c
<1>1. Cardinality(S) \in Nat
  BY StatusAssumption, FS_Subset, FS_CardinalityType
<1>2. order \in [1..Cardinality(S) -> S] /\ Len(order) = Cardinality(S)
  BY <1>1 DEF Orders
<1> QED
  BY <1>1, <1>2 DEF Orders

LEMMA DeltasSent ==
    ASSUME StatusTypes, NEW S \in SUBSET CardIds, NEW order \in Orders(S), NEW next \in StatusMaps
    PROVE  /\ Deltas(order, next) \in Seq(StatusMessages)
           /\ Len(Deltas(order, next)) = Len(order)
           /\ \A i \in 1..Len(order) :
                  Deltas(order, next)[i] =
                      [kind |-> "status_delta", version |-> issued + i, card |-> order[i], status |-> next[order[i]]]
<1> DEFINE delta(i) == [kind |-> "status_delta", version |-> issued + i, card |-> order[i], status |-> next[order[i]]]
<1>1. ASSUME NEW i \in 1..Len(order) PROVE delta(i) \in StatusMessages
  <2>1. order[i] \in CardIds /\ issued + i \in Nat
    BY OrderLength DEF StatusTypes
  <2>2. next[order[i]] \in ContainerStatuses \cup {NoStatus}
    BY <2>1 DEF StatusMaps
  <2> QED
    BY <2>1, <2>2 DEF StatusMessages
<1>2. Deltas(order, next) = [i \in 1..Len(order) |-> delta(i)]
  BY DEF Deltas
<1>3. Len(order) \in Nat
  BY OrderLength
<1> HIDE DEF delta
<1>4. Deltas(order, next) \in Seq(StatusMessages) /\ Len(Deltas(order, next)) = Len(order)
  BY <1>1, <1>2, <1>3
<1>5. \A i \in 1..Len(order) : Deltas(order, next)[i] = delta(i)
  BY <1>2
<1> QED
  BY <1>4, <1>5 DEF delta

LEMMA RefreshInv ==
    ASSUME StatusInv, NEW discovered \in Discoveries, Refresh(discovered)
    PROVE  StatusInv'
<1> DEFINE next == discovered.status
           changed == ChangedStatuses(statuses, next)
           seen == KeysOf(StatusesSeen(discovered, next, FALSE))
<1>1. /\ found' = discovered /\ statuses' = next /\ UNCHANGED page
      /\ untold' = ((untold \cup (discovered.viewable \ found.viewable)) \cap discovered.viewable) \ changed
      /\ Sights(Forgotten(sights), seen) = seen
  BY DEF Refresh, Sights, Forgotten
<1>2. discovered \in [status : StatusMaps, viewable : SUBSET CardIds] /\ next \in StatusMaps
  BY StatusAssumption
<1>3. CASE socket # "open"
  <2>1. UNCHANGED <<issued, socketVars, socket, clientVars>>
    BY <1>3 DEF Refresh
  <2>2. transit = <<>> /\ ~greeted
    BY <1>3 DEF StatusInv, Lively
  <2>3. StatusTypes' /\ Rising' /\ Lively'
    BY <1>1, <1>2, <2>1 DEF StatusInv, StatusTypes, Rising, Lively, socketVars, clientVars
  <2> QED
    BY <1>1, <2>1, <2>2, <2>3 DEF StatusInv, socketVars
<1>4. CASE socket = "open"
  <2>1. PICK order \in Orders(changed \cap seen) :
            /\ Send(Deltas(order, next))
            /\ socket' = "open" => greeted' = greeted
    BY <1>1, <1>4 DEF Refresh
  <2> DEFINE deltas == Deltas(order, next)
             n == Len(transit)
  <2>2. changed \cap seen \in SUBSET CardIds
    BY DEF KeysOf
  <2>3. /\ deltas \in Seq(StatusMessages) /\ Len(deltas) = Len(order) /\ Len(order) \in Nat
        /\ \A i \in 1..Len(order) :
              deltas[i] = [kind |-> "status_delta", version |-> issued + i, card |-> order[i], status |-> next[order[i]]]
    BY <1>2, <2>2, DeltasSent, OrderLength DEF StatusInv
  <2> HIDE DEF deltas
  <2>4. ASSUME NEW i \in 1..Len(order)
        PROVE  /\ deltas[i].kind = "status_delta" /\ deltas[i].card = order[i]
               /\ deltas[i].status = next[order[i]] /\ deltas[i].version = issued + i
    <3>1. deltas[i] = [kind |-> "status_delta", version |-> issued + i, card |-> order[i], status |-> next[order[i]]]
      BY <2>3
    <3> QED
      BY <3>1
  <2>5. \A i \in 1..Len(deltas) : deltas[i].version = issued + i
    BY <2>3, <2>4
  <2>6. CASE ~(n + Len(deltas) <= MaxOutbound)
    <3>1. SocketGone /\ ScheduleReconnect /\ issued' = issued + (MaxOutbound - n) + 1
      BY <2>1, <2>6 DEF Send, deltas
    <3> QED
      BY <1>1, <1>2, <3>1, FullInv
  <2>7. CASE n + Len(deltas) <= MaxOutbound
    <3>1. /\ issued' = issued + Len(deltas) /\ transit' = transit \o deltas
          /\ UNCHANGED <<socket, clientVars, greeted>>
      BY <1>4, <2>1, <2>7 DEF Send, deltas
    <3>2. Rising' /\ transit' \in Seq(StatusMessages) /\ issued' \in Nat
      BY <1>4, <2>3, <2>5, <3>1, SentRising DEF StatusInv, clientVars
    <3>3. StatusTypes' /\ statuses' = found'.status
      BY <1>1, <1>2, <3>1, <3>2 DEF StatusInv, StatusTypes, clientVars
    <3>4. /\ n \in Nat /\ Len(transit') = n + Len(order)
          /\ \A i \in 1..n : transit'[i] = transit[i]
          /\ \A i \in 1..Len(order) : transit'[n + i] = deltas[i]
      <4>1. transit \in Seq(StatusMessages) /\ deltas \in Seq(StatusMessages)
        BY <2>3 DEF StatusInv, StatusTypes
      <4> QED
        BY <2>3, <3>1, <4>1
    <3>5. Lively'
      BY <1>1, <1>4, <2>3, <2>7, <3>1, <3>4 DEF StatusInv, Lively, clientVars
    <3>6. \A i \in 1..Len(transit') : i <= n \/ (i - n \in 1..Len(order) /\ transit'[i] = deltas[i - n])
      BY <2>3, <3>4
    <3>7. ASSUME greeted, NEW c \in Owed' PROVE Current(c, statuses[c])'
      <4>1. c \in CardIds /\ next[c] # NoStatus /\ c \in discovered.viewable /\ c \notin untold'
        BY <1>1, <3>7 DEF Owed, KeysOf
      <4>2. \A i \in 1..Len(order) : Speaks(deltas[i], c) => c = order[i] /\ Word(deltas[i], c) = next[c]
        BY <2>4 DEF Speaks, Word
      <4>3. CASE c \in changed
        <5>1. c \in seen
          BY <4>1 DEF KeysOf, StatusesSeen
        <5>2. PICK k \in 1..Len(order) : order[k] = c
          BY <2>2, <4>3, <5>1, OrderLength
        <5>3. n + k \in 1..Len(transit') /\ Speaks(transit'[n + k], c)
          <6>1. n + k \in 1..Len(transit') /\ transit'[n + k] = deltas[k]
            BY <2>3, <3>4, <5>2
          <6> QED
            BY <2>4, <5>2, <6>1 DEF Speaks
        <5>4. \A j \in (n + k)..Len(transit') : Speaks(transit'[j], c) => Word(transit'[j], c) = next[c]
          <6>1. ASSUME NEW j \in (n + k)..Len(transit') PROVE j \in 1..Len(transit') /\ ~(j <= n)
            BY <2>3, <3>4
          <6> QED
            BY <3>6, <4>2, <6>1
        <5> QED
          BY <1>1, <5>3, <5>4 DEF Current, Announced
      <4>4. CASE c \notin changed
        <5>1. statuses[c] = next[c]
          BY <4>1, <4>4 DEF ChangedStatuses, KeysOf
        <5>2. c \in Owed
          BY <1>1, <4>1, <4>4, <5>1 DEF Owed, KeysOf
        <5>3. Current(c, next[c])
          BY <3>7, <5>1, <5>2 DEF StatusInv
        <5>4. \A i \in 1..Len(order) : ~Speaks(deltas[i], c)
          <6>1. \A i \in 1..Len(order) : order[i] \in changed
            BY <2>2, OrderLength
          <6> QED
            BY <4>2, <4>4, <6>1
        <5>5. CASE display[c] = next[c] /\ Confirmed(c, next[c])
          <6>1. \A j \in 1..Len(transit') : Speaks(transit'[j], c) => Word(transit'[j], c) = next[c]
            BY <3>4, <3>6, <5>4, <5>5 DEF Confirmed
          <6> QED
            BY <1>1, <3>1, <5>5, <6>1 DEF Current, Confirmed, clientVars
        <5>6. CASE Announced(c, next[c])
          <6>1. PICK k \in 1..n :
                    /\ Speaks(transit[k], c)
                    /\ \A j \in k..n : Speaks(transit[j], c) => Word(transit[j], c) = next[c]
            BY <5>6 DEF Announced
          <6>2. k \in 1..Len(transit') /\ Speaks(transit'[k], c)
            BY <2>3, <3>4, <6>1
          <6>3. \A j \in k..Len(transit') : Speaks(transit'[j], c) => Word(transit'[j], c) = next[c]
            BY <3>4, <3>6, <5>4, <6>1
          <6> QED
            BY <1>1, <6>2, <6>3 DEF Current, Announced
        <5> QED
          BY <5>3, <5>5, <5>6 DEF Current
      <4> QED
        BY <4>3, <4>4
    <3> QED
      BY <3>1, <3>2, <3>3, <3>5, <3>7 DEF StatusInv
  <2> QED
    BY <2>6, <2>7
<1> QED
  BY <1>3, <1>4

-----------------------------------------------------------------------------
(* Every step.                                                             *)

LEMMA RestartInv == StatusInv /\ ServerRestarts => StatusInv'
<1> SUFFICES ASSUME StatusInv, ServerRestarts PROVE StatusInv'
  OBVIOUS
<1>1. NoStatuses \in StatusMaps
  BY DEF NoStatuses, StatusMaps
<1>2. UNCHANGED <<latest, display>> /\ SocketGone
  BY DEF ServerRestarts, ScheduleReconnect, clientVars
<1>3. StatusTypes' /\ statuses' = found'.status
  BY <1>1, <1>2, GoneInv DEF ServerRestarts, StatusInv, StatusTypes, NoCards
<1>4. Lively'
  BY Empty, StatusAssumption DEF StatusInv, Lively, ServerRestarts, SocketGone, ScheduleReconnect, clientVars
<1> QED
  BY <1>2, <1>3, <1>4, GoneInv DEF StatusInv

LEMMA StatusNextInv == StatusInv /\ [StatusNext]_statusVars => StatusInv'
<1> SUFFICES ASSUME StatusInv, [StatusNext]_statusVars PROVE StatusInv'
  OBVIOUS
<1> USE DEF clientVars
<1>0. NoStatuses \in StatusMaps /\ display \in StatusMaps
  BY DEF NoStatuses, StatusMaps, StatusInv, StatusTypes
<1>1. CASE SendStatusSnapshot
  BY <1>1, SnapshotInv
<1>2. CASE \E discovered \in Discoveries : Refresh(discovered)
  BY <1>2, RefreshInv
<1>3. CASE RefreshFails
  <2>1. StatusTypes' /\ Rising' /\ Lively' /\ statuses' = found'.status
    BY <1>3 DEF RefreshFails, StatusInv, StatusTypes, Rising, Lively, socketVars
  <2>2. greeted' => \A c \in Owed' : Current(c, statuses[c])'
    BY <1>3 DEF RefreshFails, StatusInv, Owed, KeysOf, Current, Announced, Confirmed, socketVars
  <2> QED
    BY <2>1, <2>2 DEF StatusInv
<1>4. CASE ServerRestarts
  BY <1>4, RestartInv
<1>5. CASE \E shown \in {"hidden", "visible"} : RetainStatus(shown)
  BY <1>5, PageInv DEF RetainStatus, Connect
<1>6. CASE ReleaseStatus
  BY <1>0, <1>6, ClosedInv DEF ReleaseStatus, Close
<1>7. CASE Hide
  BY <1>0, <1>7, ClosedInv DEF Hide, Close
<1>8. CASE Show
  BY <1>8, PageInv DEF Show, Connect
<1>9. CASE Opened
  BY <1>9, OpenedInv
<1>10. CASE Lost
  BY <1>0, <1>10, ClosedInv DEF Lost, ScheduleReconnect
<1>11. CASE ReconnectTimer
  BY <1>11, PageInv DEF ReconnectTimer, Connect
<1>12. CASE HandleMessage
  BY <1>12, HandleInv
<1>13. CASE UNCHANGED statusVars
  BY <1>13, PageInv DEF statusVars, StatusInv, Lively
<1> QED
  BY <1>1, <1>2, <1>3, <1>4, <1>5, <1>6, <1>7, <1>8, <1>9, <1>10, <1>11, <1>12, <1>13 DEF StatusNext

(* What a page shows, or a message on its way last says of a container, is *)
(* what the server has found, and no message on its way is one the page    *)
(* would drop for its version (realtime-client.ts:231).                    *)
THEOREM StatusInvariant == StatusSpec => []StatusInv
BY StatusInitInv, StatusNextInv, PTL DEF StatusSpec

(* A page in view keeps its connection, and once it has received all it was*)
(* sent it shows every state its viewer may see, but for what the server   *)
(* never tells (realtime-server.ts:212, realtime-client.ts:190).           *)
THEOREM StatusesAlwaysFollow == StatusSpec => []StatusesFollow
<1>1. ASSUME StatusInv PROVE StatusesFollow
  <2>1. page = "visible" => socket # "none" \/ timer
    BY <1>1 DEF StatusInv, Lively
  <2>2. ASSUME greeted, transit = <<>>, NEW c \in Owed PROVE display[c] = statuses[c]
    <3>1. Current(c, statuses[c])
      BY <1>1, <2>2 DEF StatusInv
    <3> QED
      BY <2>2, <3>1, Empty DEF Current, Announced
  <2> QED
    BY <2>1, <2>2 DEF StatusesFollow, Owed
<1> QED
  BY <1>1, StatusInvariant, PTL

(* Nobody is sent the state of a container whose card they may not see     *)
(* when it is sent, whoever saw it before (realtime-server.ts:208, 220).   *)
THEOREM OnlySeenIsSent ==
    StatusSpec =>
        [][\A i \in (Len(transit) + 1)..Len(transit'), c \in CardIds :
              Speaks(transit'[i], c) /\ Word(transit'[i], c) # NoStatus => c \in found'.viewable]_statusVars
<1> DEFINE Allowed(message, cards) ==
        \A c \in CardIds : Speaks(message, c) /\ Word(message, c) # NoStatus => c \in cards.viewable
<1>1. ASSUME StatusInv, [StatusNext]_statusVars, NEW i \in (Len(transit) + 1)..Len(transit')
      PROVE  Allowed(transit'[i], found')
  <2>0. transit \in Seq(StatusMessages) /\ Len(transit) \in Nat
    BY <1>1 DEF StatusInv, StatusTypes
  <2>1. CASE SendStatusSnapshot
    <3> DEFINE snapshot == [kind |-> "status_snapshot", version |-> issued + 1,
                            statuses |-> StatusesSeen(found, statuses, failing)]
    <3>1. snapshot \in StatusMessages
      BY <1>1 DEF StatusInv, StatusTypes, StatusMessages, StatusesSeen, StatusMaps
    <3>2. transit' = transit \o <<snapshot>> \/ transit' = <<>>
      BY <2>1 DEF SendStatusSnapshot, Send, SocketGone
    <3>3. transit'[i] = snapshot
      <4>1. transit' # <<>>
        BY <1>1, <2>0, Empty
      <4>2. <<snapshot>> \in Seq(StatusMessages) /\ Len(<<snapshot>>) = 1 /\ <<snapshot>>[1] = snapshot
        BY <3>1
      <4>3. Len(transit') = Len(transit) + 1
        BY <2>0, <3>2, <4>1, <4>2
      <4> QED
        BY <1>1, <2>0, <3>2, <4>1, <4>2, <4>3
    <3>4. found' = found
      BY <2>1 DEF SendStatusSnapshot
    <3> QED
      BY <3>3, <3>4 DEF Speaks, Word, StatusesSeen
  <2>2. ASSUME NEW discovered \in Discoveries, Refresh(discovered)
        PROVE  Allowed(transit'[i], found')
    <3> DEFINE next == discovered.status
               changed == ChangedStatuses(statuses, next)
               seen == KeysOf(StatusesSeen(discovered, next, FALSE))
    <3>1. found' = discovered /\ next \in StatusMaps /\ changed \cap seen \in SUBSET CardIds
      BY <2>2, StatusAssumption DEF Refresh, KeysOf
    <3>2. PICK order \in Orders(changed \cap seen) : Send(Deltas(order, next))
      <4>1. socket = "open"
        <5>1. transit' # transit
          BY <1>1, <2>0
        <5> QED
          BY <2>2, <5>1 DEF Refresh, socketVars
      <4> QED
        BY <2>2, <4>1 DEF Refresh, Sights, Forgotten
    <3> DEFINE deltas == Deltas(order, next)
    <3>3. deltas \in Seq(StatusMessages) /\ Len(deltas) = Len(order) /\ Len(order) \in Nat
      BY <1>1, <3>1, DeltasSent, OrderLength DEF StatusInv
    <3>4. ASSUME NEW k \in 1..Len(order) PROVE Allowed(deltas[k], discovered)
      <4>1. deltas[k] = [kind |-> "status_delta", version |-> issued + k, card |-> order[k], status |-> next[order[k]]]
        BY <1>1, <3>1, DeltasSent DEF StatusInv
      <4>2. order[k] \in seen
        BY <3>1, OrderLength
      <4>3. order[k] \in discovered.viewable
        BY <4>2 DEF KeysOf, StatusesSeen
      <4> HIDE DEF deltas
      <4>4. deltas[k].kind = "status_delta" /\ deltas[k].card = order[k]
        BY <4>1
      <4> QED
        BY <4>3, <4>4 DEF Speaks
    <3> HIDE DEF deltas
    <3>5. transit' = transit \o deltas \/ transit' = <<>>
      BY <3>2 DEF Send, SocketGone, deltas
    <3>6. transit' = transit \o deltas
      BY <1>1, <2>0, <3>5, Empty
    <3>7. i - Len(transit) \in 1..Len(order) /\ transit'[i] = deltas[i - Len(transit)]
      BY <1>1, <2>0, <3>3, <3>6
    <3> HIDE DEF Allowed
    <3> QED
      BY <3>1, <3>4, <3>7
  <2>3. transit' # transit /\ transit' # <<>> /\ (transit # <<>> => transit' # Tail(transit))
    <3>1. transit # <<>> => Len(Tail(transit)) = Len(transit) - 1
      BY <2>0
    <3> QED
      BY <1>1, <2>0, <3>1, Empty
  <2>4. ~UNCHANGED socketVars /\ ~SocketGone /\ ~HandleMessage
    BY <2>3 DEF socketVars, SocketGone, HandleMessage
  <2>5. SendStatusSnapshot \/ \E discovered \in Discoveries : Refresh(discovered)
    BY <1>1, <2>4
    DEF StatusNext, statusVars, RefreshFails, ServerRestarts, RetainStatus, ReleaseStatus, Close, Hide, Show, Opened,
        Lost, ReconnectTimer
  <2> QED
    BY <2>1, <2>2, <2>5
<1>2. StatusInv /\ [StatusNext]_statusVars
      => [\A i \in (Len(transit) + 1)..Len(transit'), c \in CardIds :
            Speaks(transit'[i], c) /\ Word(transit'[i], c) # NoStatus => c \in found'.viewable]_statusVars
  BY <1>1
<1> QED
  BY <1>2, StatusInvariant, PTL DEF StatusSpec
=============================================================================
