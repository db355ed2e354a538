------------------------ MODULE RealtimeMetricsProofs ------------------------
(***************************************************************************)
(* Proofs about the metrics of a card on their way to the browsers, for    *)
(* every set of clients, set of history periods and bound: the types, that *)
(* no history is ever shown out of order or with a sample twice, and that  *)
(* a client that is served misses no sample.                               *)
(***************************************************************************)
EXTENDS RealtimeMetrics, SequenceTheorems, WellFoundedInduction, TLAPS

(* Induction and recursion over the natural numbers, without operator      *)
(* parameters: a property is the set of the numbers that have it.          *)

LEMMA SetInduction ==
    ASSUME NEW S, 0 \in S, \A n \in Nat : n \in S => n + 1 \in S
    PROVE  \A n \in Nat : n \in S
<1> DEFINE T == Nat \ S
<1> SUFFICES ASSUME T # {} PROVE FALSE
  OBVIOUS
<1>1. PICK x \in T : \A y \in T : ~(<<y, x>> \in OpToRel(<, Nat))
  BY NatLessThanWellFounded, WFMin
<1>2. \A y \in T : ~(y < x)
  BY <1>1 DEF OpToRel
<1>3. x - 1 \in Nat /\ x - 1 \in S /\ (x - 1) + 1 = x
  BY <1>2
<1> QED
  BY <1>3

\* Each value is what its step makes of the value before it.
Follows(f, n, base, step) == f[0] = base /\ \A i \in 1..n : f[i] = step[i][f[i - 1]]

LEMMA Recursion ==
    ASSUME NEW n \in Nat, NEW S, NEW base \in S, NEW step \in [1..n -> [S -> S]]
    PROVE  \E f \in [0..n -> S] : Follows(f, n, base, step)
<1> DEFINE Steps(k, f) == f[0] = base /\ \A i \in 1..k : f[i] = step[i][f[i - 1]]
           Reached == {k \in Nat : k <= n => \E f \in [0..k -> S] : Steps(k, f)}
<1>1. 0 \in Reached
  <2>1. [i \in 0..0 |-> base] \in [0..0 -> S] /\ Steps(0, [i \in 0..0 |-> base])
    OBVIOUS
  <2> QED
    BY <2>1
<1>2. ASSUME NEW k \in Nat, k \in Reached PROVE k + 1 \in Reached
  <2> SUFFICES ASSUME k + 1 <= n PROVE \E f \in [0..(k + 1) -> S] : Steps(k + 1, f)
    OBVIOUS
  <2>1. PICK f \in [0..k -> S] : Steps(k, f)
    BY <1>2
  <2>2. k \in 0..k /\ k + 1 \in 1..n /\ f[k] \in S
    OBVIOUS
  <2>3. step[k + 1][f[k]] \in S
    BY <2>2
  <2> DEFINE g == [i \in 0..(k + 1) |-> IF i = k + 1 THEN step[k + 1][f[k]] ELSE f[i]]
  <2>4. g \in [0..(k + 1) -> S]
    BY <2>3
  <2>5. g[0] = base
    BY <2>1
  <2>6. ASSUME NEW i \in 1..(k + 1) PROVE g[i] = step[i][g[i - 1]]
    <3>1. CASE i = k + 1
      <4>1. g[i - 1] = f[k] /\ g[i] = step[k + 1][f[k]]
        BY <3>1
      <4> QED
        BY <3>1, <4>1
    <3>2. CASE i # k + 1
      <4>1. i \in 1..k /\ g[i] = f[i] /\ g[i - 1] = f[i - 1]
        BY <3>2
      <4> QED
        BY <2>1, <4>1
    <3> QED
      BY <3>1, <3>2
  <2> QED
    BY <2>4, <2>5, <2>6
<1>3. n \in Reached
  <2> HIDE DEF Reached
  <2> QED
    BY <1>1, <1>2, SetInduction
<1> QED
  BY <1>3 DEF Follows

-----------------------------------------------------------------------------
(* Histories.                                                              *)

LEMMA Bounds ==
    /\ MaxTime \in Nat /\ MaxSamples \in Nat /\ MaxUptime \in Nat /\ MaxChanges \in Nat
    /\ MaxEvents \in Nat \ {0} /\ MaxTransit \in Nat \ {0} /\ MaxRequests \in Nat \ {0}
    /\ Periods \subseteq Nat
BY ParameterAssumption

LEMMA SampleFields == \A s \in Sample : s.id \in 1..MaxSamples /\ s.time \in 0..MaxTime /\ s.id \in Nat /\ s.time \in Nat
BY Bounds DEF Sample

LEMMA CursorFields ==
    \A cursor \in Cursor : /\ cursor.time \in 0..MaxTime /\ cursor.period \in Periods
                          /\ cursor.time \in Nat /\ cursor.period \in Nat
<1>1. \A cursor \in Cursor : cursor.time \in 0..MaxTime /\ cursor.period \in Periods
  BY DEF Cursor
<1>2. (\A n \in 0..MaxTime : n \in Nat) /\ (\A p \in Periods : p \in Nat)
  BY Bounds
<1> QED
  BY <1>1, <1>2

LEMMA Numbers ==
    ASSUME TypeOK
    PROVE  /\ now \in Nat /\ recorded \in Nat /\ uptime \in Nat /\ now <= MaxTime
           /\ access # None => access \in Periods /\ access \in Nat
BY Bounds DEF TypeOK

InOrder(h) == \A i, j \in 1..Len(h) : i < j => h[i].id < h[j].id

\* The recursion of Only is well defined.
LEMMA OnlySteps ==
    ASSUME NEW h \in History, NEW wanted
    PROVE  \E kept \in [0..Len(h) -> History] :
             /\ Only(h, wanted) = kept[Len(h)]
             /\ kept[0] = <<>>
             /\ \A n \in 1..Len(h) :
                  kept[n] = IF h[n] \in wanted THEN Append(kept[n - 1], h[n]) ELSE kept[n - 1]
<1> DEFINE N == Len(h)
           Next1(kept, n) == IF h[n] \in wanted THEN Append(kept[n - 1], h[n]) ELSE kept[n - 1]
           Steps(kept) == [n \in 0..N |-> IF n = 0 THEN <<>>
                                         ELSE IF h[n] \in wanted THEN Append(kept[n - 1], h[n])
                                         ELSE kept[n - 1]]
           step == [n \in 1..N |-> [k \in History |-> IF h[n] \in wanted THEN Append(k, h[n]) ELSE k]]
<1>1. N \in Nat /\ <<>> \in History /\ \A n \in 1..N : h[n] \in Sample
  BY DEF History
<1>2. step \in [1..N -> [History -> History]]
  <2>1. \A n \in 1..N, k \in History : (IF h[n] \in wanted THEN Append(k, h[n]) ELSE k) \in History
    BY <1>1 DEF History
  <2> QED
    BY <2>1
<1>3. \E f \in [0..N -> History] : Follows(f, N, <<>>, step)
  <2>1. N \in Nat /\ <<>> \in History
    BY <1>1
  <2> HIDE DEF step, N
  <2> QED
    BY <2>1, <1>2, Recursion
<1>4. PICK f \in [0..N -> History] : f[0] = <<>> /\ \A n \in 1..N : f[n] = step[n][f[n - 1]]
  BY <1>3 DEF Follows
<1>5. \A n \in 1..N : f[n] = Next1(f, n)
  <2> TAKE n \in 1..N
  <2>1. n - 1 \in 0..N /\ f[n - 1] \in History
    BY <1>1
  <2> QED
    BY <1>4, <2>1
<1>6. ASSUME NEW k, NEW n \in 1..N PROVE Steps(k)[n] = Next1(k, n)
  OBVIOUS
<1>7. \A k : Steps(k)[0] = <<>>
  BY <1>1
<1>8. f = Steps(f)
  <2>1. \A n \in 0..N : n = 0 \/ n \in 1..N
    BY <1>1
  <2>2. f = [n \in 0..N |-> f[n]] /\ Steps(f) = [n \in 0..N |-> Steps(f)[n]]
    OBVIOUS
  <2> HIDE DEF Steps, Next1, step
  <2>3. \A n \in 0..N : f[n] = Steps(f)[n]
    BY <1>4, <1>5, <1>6, <1>7, <2>1
  <2> QED
    BY <2>2, <2>3
<1> DEFINE kept == CHOOSE k : k = Steps(k)
<1>9. Only(h, wanted) = kept[N]
  BY DEF Only
<1>10. kept = Steps(kept)
  <2> HIDE DEF Steps
  <2> QED
    BY <1>8
<1>11. kept = [n \in 0..N |-> kept[n]]
  <2>1. \A k : k = Steps(k) => k = [n \in 0..N |-> k[n]]
    OBVIOUS
  <2> HIDE DEF Steps, kept
  <2> QED
    BY <1>10, <2>1
<1>12. kept[0] = <<>> /\ \A n \in 1..N : kept[n] = Next1(kept, n)
  <2> HIDE DEF kept, Steps, Next1
  <2> QED
    BY <1>6, <1>7, <1>10
<1>13. kept \in [0..N -> History]
  <2> HIDE DEF kept
  <2> DEFINE Typed == {n \in Nat : n <= N => kept[n] \in History}
  <2>1. 0 \in Typed
    BY <1>1, <1>12
  <2>2. ASSUME NEW n \in Nat, n \in Typed PROVE n + 1 \in Typed
    <3> SUFFICES ASSUME n + 1 <= N PROVE kept[n + 1] \in History
      OBVIOUS
    <3>1. kept[n] \in Seq(Sample) /\ h[n + 1] \in Sample /\ n + 1 \in 1..N /\ (n + 1) - 1 = n
      BY <1>1, <2>2 DEF History
    <3>2. kept[n + 1] = Next1(kept, n + 1)
      BY <1>12, <3>1
    <3> QED
      BY <3>1, <3>2 DEF History
  <2>3. \A n \in Nat : n \in Typed
    <3> HIDE DEF Typed
    <3> QED
      BY <2>1, <2>2, SetInduction
  <2>4. \A n \in 0..N : kept[n] \in History
    BY <1>1, <2>3
  <2> QED
    BY <1>11, <2>4
<1> QED
  <2> HIDE DEF kept
  <2> QED
    BY <1>9, <1>12, <1>13

\* What is kept are the wanted rows, each once, and in the order of the history.
LEMMA OnlyKeeps ==
    ASSUME NEW h \in History, NEW wanted
    PROVE  /\ Only(h, wanted) \in History
           /\ ToSet(Only(h, wanted)) = {s \in ToSet(h) : s \in wanted}
           /\ InOrder(h) => InOrder(Only(h, wanted))
<1> DEFINE N == Len(h)
<1>1. N \in Nat /\ h \in Seq(Sample) /\ \A n \in 1..N : h[n] \in Sample /\ h[n].id \in Int
  BY SampleFields DEF History
<1>2. PICK kept \in [0..N -> History] :
         /\ Only(h, wanted) = kept[N]
         /\ kept[0] = <<>>
         /\ \A n \in 1..N :
              kept[n] = IF h[n] \in wanted THEN Append(kept[n - 1], h[n]) ELSE kept[n - 1]
  BY OnlySteps
<1>3. \A n \in 0..N : kept[n] \in Seq(Sample) /\ Len(kept[n]) \in Nat
  BY <1>2 DEF History
<1> DEFINE Source(n) == \A j \in 1..Len(kept[n]) : \E i \in 1..n : h[i] \in wanted /\ kept[n][j] = h[i]
           Target(n) == \A i \in 1..n : h[i] \in wanted => \E j \in 1..Len(kept[n]) : kept[n][j] = h[i]
           Order(n) == InOrder(h) => InOrder(kept[n])
           Kept == {n \in Nat : n <= N => Source(n) /\ Target(n) /\ Order(n)}
<1>4. 0 \in Kept
  BY <1>2 DEF InOrder
<1>5. ASSUME NEW n \in Nat, n \in Kept PROVE n + 1 \in Kept
  <2> SUFFICES ASSUME n + 1 <= N PROVE Source(n + 1) /\ Target(n + 1) /\ Order(n + 1)
    OBVIOUS
  <2>1. n \in 0..N /\ n + 1 \in 1..N /\ (n + 1) - 1 = n /\ Source(n) /\ Target(n) /\ Order(n)
    BY <1>1, <1>5
  <2>2. CASE h[n + 1] \notin wanted
    <3>1. kept[n + 1] = kept[n]
      BY <1>2, <2>1, <2>2
    <3>2. \A i \in 1..(n + 1) : h[i] \in wanted => i \in 1..n
      BY <2>2
    <3>3. \A i \in 1..n : i \in 1..(n + 1)
      OBVIOUS
    <3> QED
      BY <2>1, <3>1, <3>2, <3>3
  <2>3. CASE h[n + 1] \in wanted
    <3> DEFINE L == Len(kept[n])
    <3>1. /\ kept[n + 1] = Append(kept[n], h[n + 1]) /\ kept[n] \in Seq(Sample) /\ L \in Nat
          /\ h[n + 1] \in Sample
      BY <1>1, <1>2, <1>3, <2>1, <2>3
    <3>2. /\ Len(kept[n + 1]) = L + 1 /\ kept[n + 1][L + 1] = h[n + 1]
          /\ \A j \in 1..L : kept[n + 1][j] = kept[n][j]
      BY <3>1
    <3>3. /\ \A j \in 1..(L + 1) : j \in 1..L \/ j = L + 1
          /\ \A i \in 1..(n + 1) : i \in 1..n \/ i = n + 1
          /\ n + 1 \in 1..(n + 1) /\ L + 1 \in 1..(L + 1)
          /\ 1..n \subseteq 1..(n + 1) /\ 1..L \subseteq 1..(L + 1)
      BY <3>1
    <3>4. Source(n + 1)
      BY <2>1, <2>3, <3>2, <3>3
    <3>5. Target(n + 1)
      BY <2>1, <3>2, <3>3
    <3>6. ASSUME InOrder(h), NEW j \in 1..(L + 1), NEW k \in 1..(L + 1), j < k
          PROVE  kept[n + 1][j].id < kept[n + 1][k].id
      <4>1. CASE k \in 1..L
        <5>1. j \in 1..L
          BY <3>1, <3>6, <4>1
        <5> QED
          BY <2>1, <3>2, <3>6, <4>1, <5>1 DEF InOrder
      <4>2. CASE k = L + 1
        <5>1. j \in 1..L
          BY <3>1, <3>6, <4>2
        <5>2. PICK i \in 1..n : kept[n][j] = h[i]
          BY <2>1, <5>1
        <5>3. i \in 1..N /\ i < n + 1 /\ h[i].id < h[n + 1].id
          BY <1>1, <2>1, <3>6 DEF InOrder
        <5> QED
          BY <3>2, <4>2, <5>1, <5>2, <5>3
      <4> QED
        BY <3>3, <4>1, <4>2
    <3> QED
      BY <3>2, <3>4, <3>5, <3>6 DEF InOrder
  <2> QED
    BY <2>2, <2>3
<1>6. N \in Kept
  <2> HIDE DEF Kept
  <2> QED
    BY <1>1, <1>4, <1>5, SetInduction
<1>7. Source(N) /\ Target(N) /\ Order(N)
  BY <1>1, <1>6
<1>8. Len(kept[N]) \in Nat /\ DOMAIN kept[N] = 1..Len(kept[N]) /\ DOMAIN h = 1..N
  BY <1>1, <1>3
<1>9. ToSet(kept[N]) = {s \in ToSet(h) : s \in wanted}
  <2>1. ASSUME NEW x \in ToSet(kept[N]) PROVE x \in ToSet(h) /\ x \in wanted
    <3>1. PICK j \in 1..Len(kept[N]) : x = kept[N][j]
      BY <1>8 DEF ToSet
    <3> QED
      BY <1>7, <1>8, <3>1 DEF ToSet
  <2>2. ASSUME NEW x \in ToSet(h), x \in wanted PROVE x \in ToSet(kept[N])
    <3>1. PICK i \in 1..N : x = h[i]
      BY <1>8 DEF ToSet
    <3> QED
      BY <1>7, <1>8, <2>2, <3>1 DEF ToSet
  <2> QED
    BY <2>1, <2>2
<1> QED
  BY <1>1, <1>2, <1>7, <1>9

LEMMA SinceKeeps ==
    ASSUME NEW h \in History, NEW from \in Int
    PROVE  /\ Since(h, from) \in History
           /\ ToSet(Since(h, from)) = {s \in ToSet(h) : s.time >= from}
           /\ InOrder(h) => InOrder(Since(h, from))
<1>1. \A s \in ToSet(h) : s \in Sample
  BY DEF ToSet, History
<1> QED
  BY <1>1, OnlyKeeps DEF Since

\* A merged history has the rows before the boundary and the updates from it on, and is in
\* order when rows with a later time have a later number.
LEMMA MergeKeeps ==
    ASSUME NEW previous \in History, NEW updates \in History, NEW replaceFrom \in Nat, NEW cutoff \in Int
    PROVE  LET merged == MergeHistory(previous, updates, replaceFrom, cutoff)
           IN  /\ merged \in History
               /\ \A s : s \in ToSet(merged) <=>
                    \/ s \in ToSet(previous) /\ s.time >= cutoff /\ s.time < replaceFrom
                    \/ s \in ToSet(updates) /\ s.time >= replaceFrom /\ s.time >= cutoff
               /\ InOrder(previous) /\ InOrder(updates)
                  /\ (\A x \in ToSet(previous), y \in ToSet(updates) : x.time < y.time => x.id < y.id)
                    => InOrder(merged)
<1> DEFINE early == Only(previous, {s \in Sample : s.time >= cutoff /\ s.time < replaceFrom})
           late == Since(updates, Larger(replaceFrom, cutoff))
           merged == early \o late
<1>1. \A h \in History : \A s \in ToSet(h) : s \in Sample /\ s.time \in Nat
  BY SampleFields DEF ToSet, History
<1>2. early \in History /\ (InOrder(previous) => InOrder(early))
  BY OnlyKeeps
<1>3. ToSet(early) = {s \in ToSet(previous) : s.time >= cutoff /\ s.time < replaceFrom}
  BY <1>1, OnlyKeeps
<1>4. Larger(replaceFrom, cutoff) \in Int
  BY DEF Larger
<1>5. late \in History /\ (InOrder(updates) => InOrder(late))
  BY <1>4, SinceKeeps
<1>6. ToSet(late) = {s \in ToSet(updates) : s.time >= replaceFrom /\ s.time >= cutoff}
  <2>1. ToSet(late) = {s \in ToSet(updates) : s.time >= Larger(replaceFrom, cutoff)}
    BY <1>4, SinceKeeps
  <2>2. \A s \in ToSet(updates) : s.time >= Larger(replaceFrom, cutoff) <=> s.time >= replaceFrom /\ s.time >= cutoff
    BY <1>1 DEF Larger
  <2> QED
    BY <2>1, <2>2
<1> HIDE DEF early, late
<1> DEFINE E == Len(early)
           L == Len(late)
<1>7. early \in Seq(Sample) /\ late \in Seq(Sample) /\ E \in Nat /\ L \in Nat
  BY <1>2, <1>5 DEF History
<1>8. /\ merged \in Seq(Sample) /\ Len(merged) = E + L
      /\ \A i \in 1..E : merged[i] = early[i]
      /\ \A i \in (E + 1)..(E + L) : merged[i] = late[i - E] /\ i - E \in 1..L
      /\ \A i \in 1..(E + L) : i \in 1..E \/ i \in (E + 1)..(E + L)
  BY <1>7
<1>9. ToSet(merged) = ToSet(early) \cup ToSet(late)
  <2>1. DOMAIN merged = 1..(E + L) /\ DOMAIN early = 1..E /\ DOMAIN late = 1..L
    BY <1>7, <1>8
  <2>2. \A i \in 1..E : i \in 1..(E + L)
    BY <1>7
  <2>3. \A i \in 1..L : i + E \in 1..(E + L) /\ merged[i + E] = late[i]
    BY <1>7, <1>8
  <2> QED
    BY <1>8, <2>1, <2>2, <2>3 DEF ToSet
<1>10. ASSUME InOrder(previous), InOrder(updates),
              \A x \in ToSet(previous), y \in ToSet(updates) : x.time < y.time => x.id < y.id
       PROVE  InOrder(merged)
  <2> SUFFICES ASSUME NEW i \in 1..(E + L), NEW j \in 1..(E + L), i < j
               PROVE  merged[i].id < merged[j].id
    BY <1>8 DEF InOrder
  <2>1. InOrder(early) /\ InOrder(late)
    BY <1>2, <1>5, <1>10
  <2>2. CASE j \in 1..E
    <3>1. i \in 1..E
      BY <1>7, <2>2
    <3> QED
      BY <1>8, <2>1, <2>2, <3>1 DEF InOrder
  <2>3. CASE i \in (E + 1)..(E + L)
    <3>1. j \in (E + 1)..(E + L) /\ i - E < j - E
      BY <1>7, <2>3
    <3> QED
      BY <1>8, <2>1, <2>3, <3>1 DEF InOrder
  <2>4. CASE i \in 1..E /\ j \in (E + 1)..(E + L)
    <3>1. merged[i] \in ToSet(early) /\ merged[j] \in ToSet(late)
      BY <1>7, <1>8, <2>4 DEF ToSet
    <3>2. merged[i] \in ToSet(previous) /\ merged[i].time < replaceFrom
      BY <1>3, <3>1
    <3>3. merged[j] \in ToSet(updates) /\ merged[j].time >= replaceFrom
      BY <1>6, <3>1
    <3>4. merged[i].time < merged[j].time
      BY <1>1, <3>2, <3>3
    <3> QED
      BY <1>10, <3>2, <3>3, <3>4
  <2> QED
    BY <1>8, <2>2, <2>3, <2>4
<1>11. MergeHistory(previous, updates, replaceFrom, cutoff) = merged
  BY DEF MergeHistory, early, late
<1> QED
  BY <1>3, <1>6, <1>8, <1>9, <1>10, <1>11 DEF History

Copies == Copy \cup {None}

LEMMA AppliedCopy == ASSUME NEW copy \in Copies, NEW m \in Message PROVE Applied(copy, m) \in Copies
<1>1. CASE m.type = "snapshot"
  BY <1>1 DEF Applied, Message, Copies, Copy
<1>2. CASE m.type = "delta"
  <2>1. CASE copy = None
    BY <1>2, <2>1 DEF Applied
  <2>2. CASE copy # None
    <3>1. copy \in Copy /\ copy.history \in History /\ copy.buckets \in Buckets
      BY <2>2 DEF Copies, Copy
    <3>2. m.history \in History /\ m.buckets \in Buckets /\ m.replaceFrom \in Nat /\ m.cutoff \in Int
      BY <1>2, Bounds DEF Message
    <3>3. MergeHistory(copy.history, m.history, m.replaceFrom, m.cutoff) \in History
      BY <3>1, <3>2, MergeKeeps
    <3>4. Applied(copy, m) = [history |-> MergeHistory(copy.history, m.history, m.replaceFrom, m.cutoff),
                              buckets |-> IF m.buckets = None THEN copy.buckets ELSE m.buckets]
      BY <1>2, <2>2 DEF Applied
    <3> QED
      BY <3>1, <3>2, <3>3, <3>4 DEF Copies, Copy
  <2> QED
    BY <2>1, <2>2
<1>3. CASE m.type = "bucket"
  <2>1. m.buckets \in Buckets
    BY <1>3 DEF Message, Buckets
  <2> QED
    BY <1>3, <2>1 DEF Applied, Copies, Copy
<1>4. CASE m.type = "status"
  BY <1>4 DEF Applied
<1> QED
  BY <1>1, <1>2, <1>3, <1>4 DEF Message

-----------------------------------------------------------------------------
(* What has arrived after the messages on the way.                         *)

\* The recursion of After is well defined.
LEMMA AfterSteps ==
    ASSUME NEW copy \in Copies, NEW way \in Seq(Message)
    PROVE  /\ After(copy, way)[0] = copy
           /\ \A n \in 1..Len(way) : After(copy, way)[n] = Applied(After(copy, way)[n - 1], way[n])
           /\ \A n \in 0..Len(way) : After(copy, way)[n] \in Copies
<1> DEFINE N == Len(way)
           Steps(f) == [n \in 0..N |-> IF n = 0 THEN copy ELSE Applied(f[n - 1], way[n])]
           step == [n \in 1..N |-> [k \in Copies |-> Applied(k, way[n])]]
<1>1. N \in Nat /\ \A n \in 1..N : way[n] \in Message
  OBVIOUS
<1>2. step \in [1..N -> [Copies -> Copies]]
  <2>1. \A n \in 1..N, k \in Copies : Applied(k, way[n]) \in Copies
    BY <1>1, AppliedCopy
  <2> QED
    BY <2>1
<1>3. \E f \in [0..N -> Copies] : Follows(f, N, copy, step)
  <2> HIDE DEF step, N
  <2> QED
    BY <1>1, <1>2, Recursion
<1>4. PICK f \in [0..N -> Copies] : f[0] = copy /\ \A n \in 1..N : f[n] = step[n][f[n - 1]]
  BY <1>3 DEF Follows
<1>5. \A n \in 1..N : f[n] = Applied(f[n - 1], way[n])
  <2> TAKE n \in 1..N
  <2>1. n - 1 \in 0..N /\ f[n - 1] \in Copies
    BY <1>1
  <2> QED
    BY <1>4, <2>1
<1>6. \A k : Steps(k)[0] = copy /\ \A n \in 1..N : Steps(k)[n] = Applied(k[n - 1], way[n])
  BY <1>1
<1>7. f = Steps(f)
  <2>1. \A n \in 0..N : n = 0 \/ n \in 1..N
    BY <1>1
  <2>2. f = [n \in 0..N |-> f[n]] /\ Steps(f) = [n \in 0..N |-> Steps(f)[n]]
    OBVIOUS
  <2> HIDE DEF Steps, step
  <2>3. \A n \in 0..N : f[n] = Steps(f)[n]
    BY <1>4, <1>5, <1>6, <2>1
  <2> QED
    BY <2>2, <2>3
<1> DEFINE after == CHOOSE k : k = Steps(k)
<1>8. After(copy, way) = after
  BY DEF After
<1>9. after = Steps(after)
  <2> HIDE DEF Steps
  <2> QED
    BY <1>7
<1>10. after[0] = copy /\ \A n \in 1..N : after[n] = Applied(after[n - 1], way[n])
  <2> HIDE DEF after, Steps
  <2> QED
    BY <1>6, <1>9
<1> HIDE DEF after
<1> DEFINE Typed == {n \in Nat : n <= N => after[n] \in Copies}
<1>11. 0 \in Typed
  BY <1>10
<1>12. ASSUME NEW n \in Nat, n \in Typed PROVE n + 1 \in Typed
  <2> SUFFICES ASSUME n + 1 <= N PROVE after[n + 1] \in Copies
    OBVIOUS
  <2>1. after[n] \in Copies /\ n + 1 \in 1..N /\ way[n + 1] \in Message /\ (n + 1) - 1 = n
    BY <1>1, <1>12
  <2> QED
    BY <1>10, <2>1, AppliedCopy
<1>13. \A n \in Nat : n \in Typed
  <2> HIDE DEF Typed
  <2> QED
    BY <1>11, <1>12, SetInduction
<1> QED
  BY <1>1, <1>8, <1>10, <1>13

Final(copy, way) == After(copy, way)[Len(way)]

LEMMA FinalCopy ==
    ASSUME NEW copy \in Copies, NEW way \in Seq(Message)
    PROVE  Final(copy, way) \in Copies /\ (way = <<>> => Final(copy, way) = copy)
BY AfterSteps DEF Final

\* The last message is applied last.
LEMMA FinalAppend ==
    ASSUME NEW copy \in Copies, NEW way \in Seq(Message), NEW m \in Message
    PROVE  Final(copy, Append(way, m)) = Applied(Final(copy, way), m)
<1> DEFINE N == Len(way)
           more == Append(way, m)
           Same == {n \in Nat : n <= N => After(copy, more)[n] = After(copy, way)[n]}
<1>1. /\ more \in Seq(Message) /\ Len(more) = N + 1 /\ N \in Nat
      /\ more[N + 1] = m /\ \A n \in 1..N : more[n] = way[n]
  OBVIOUS
<1> HIDE DEF more
<1>2. 0 \in Same
  BY <1>1, AfterSteps
<1>3. ASSUME NEW n \in Nat, n \in Same PROVE n + 1 \in Same
  <2> SUFFICES ASSUME n + 1 <= N PROVE After(copy, more)[n + 1] = After(copy, way)[n + 1]
    OBVIOUS
  <2>1. n + 1 \in 1..N /\ n + 1 \in 1..Len(more) /\ (n + 1) - 1 = n /\ After(copy, more)[n] = After(copy, way)[n]
    BY <1>1, <1>3
  <2>2. After(copy, more)[n + 1] = Applied(After(copy, more)[n], more[n + 1])
    BY <1>1, <2>1, AfterSteps
  <2>3. After(copy, way)[n + 1] = Applied(After(copy, way)[n], way[n + 1])
    BY <2>1, AfterSteps
  <2> QED
    BY <1>1, <2>1, <2>2, <2>3
<1>4. N \in Same
  <2> HIDE DEF Same
  <2> QED
    BY <1>1, <1>2, <1>3, SetInduction
<1>5. N + 1 \in 1..Len(more) /\ (N + 1) - 1 = N
  BY <1>1
<1>6. After(copy, more)[N + 1] = Applied(After(copy, more)[N], more[N + 1])
  BY <1>1, <1>5, AfterSteps
<1> QED
  BY <1>1, <1>4, <1>6 DEF Final, more

\* The first message is applied first.
LEMMA FinalTail ==
    ASSUME NEW copy \in Copies, NEW way \in Seq(Message), way # <<>>
    PROVE  Final(copy, way) = Final(Applied(copy, Head(way)), Tail(way))
<1> DEFINE N == Len(way)
           next == Applied(copy, Head(way))
           rest == Tail(way)
           Same == {n \in Nat : n + 1 <= N => After(copy, way)[n + 1] = After(next, rest)[n]}
<1>1. /\ rest \in Seq(Message) /\ Len(rest) = N - 1 /\ N \in Nat \ {0}
      /\ Head(way) = way[1] /\ Head(way) \in Message /\ \A n \in 1..(N - 1) : rest[n] = way[n + 1]
  OBVIOUS
<1>2. next \in Copies
  BY <1>1, AppliedCopy
<1>3. 0 \in Same
  <2>1. 1 \in 1..N /\ 1 - 1 = 0
    BY <1>1
  <2>2. After(copy, way)[1] = Applied(After(copy, way)[0], way[1]) /\ After(copy, way)[0] = copy
    BY <2>1, AfterSteps
  <2>3. After(next, rest)[0] = next
    BY <1>1, <1>2, AfterSteps
  <2> QED
    BY <1>1, <2>2, <2>3
<1> HIDE DEF next, rest
<1>4. ASSUME NEW n \in Nat, n \in Same PROVE n + 1 \in Same
  <2> SUFFICES ASSUME (n + 1) + 1 <= N PROVE After(copy, way)[(n + 1) + 1] = After(next, rest)[n + 1]
    OBVIOUS
  <2>1. /\ n + 1 \in 1..Len(rest) /\ (n + 1) + 1 \in 1..N /\ (n + 1) - 1 = n /\ ((n + 1) + 1) - 1 = n + 1
        /\ After(copy, way)[n + 1] = After(next, rest)[n] /\ rest[n + 1] = way[(n + 1) + 1]
    BY <1>1, <1>4
  <2>2. After(next, rest)[n + 1] = Applied(After(next, rest)[n], rest[n + 1])
    BY <1>1, <1>2, <2>1, AfterSteps
  <2>3. After(copy, way)[(n + 1) + 1] = Applied(After(copy, way)[n + 1], way[(n + 1) + 1])
    BY <2>1, AfterSteps
  <2> QED
    BY <2>1, <2>2, <2>3
<1>5. N - 1 \in Same
  <2> HIDE DEF Same
  <2>1. N - 1 \in Nat
    BY <1>1
  <2> QED
    BY <2>1, <1>3, <1>4, SetInduction
<1>6. (N - 1) + 1 = N /\ (N - 1) + 1 <= N
  BY <1>1
<1> QED
  BY <1>1, <1>5, <1>6 DEF Final, next, rest

-----------------------------------------------------------------------------
(* The inductive invariant.                                                *)

\* What is not open carries nothing; before the greeting nothing was asked for or sent.
Quiet(c) ==
    /\ ~connected[c] => sub[c] = None /\ out[c] = <<>> /\ net[c] = <<>> /\ toServer[c] = <<>>
    /\ ~greeted[c] =>
        /\ sub[c] = None
        /\ \A i \in 1..Len(toServer[c]) : toServer[c][i] # "subscribe"
        /\ \A i \in 1..Len(net[c]) : net[c][i].type = "status"
        /\ \A i \in 1..Len(out[c]) : out[c][i].type = "status"

\* A history has every retained row that the cursor covers.
Covers(history, cursor) ==
    \A s \in ToSet(samples) :
        s.time >= now - cursor.period /\ s.time < cursor.time => s \in ToSet(history)

InState(c, state) == sub[c] # None /\ sub[c].state = state
Live(m) == m.type = "snapshot" /\ m.cursor # None

\* A subscription whose snapshot is being written has it at the end of the queue, complete,
\* and no other live snapshot waits.
Sending(c) ==
    /\ \A i \in 1..Len(out[c]) : Live(out[c][i]) => i = Len(out[c]) /\ InState(c, "sending")
    /\ InState(c, "sending") =>
        /\ out[c] # <<>>
        /\ Live(out[c][Len(out[c])])
        /\ out[c][Len(out[c])].cursor.time <= now
        /\ Covers(out[c][Len(out[c])].history, out[c][Len(out[c])].cursor)

\* A subscription that is ready has a cursor, and what the client has or will have covers it.
Ready(c) ==
    /\ InState(c, "ready") => sub[c].cursor # None /\ sub[c].cursor.time <= now
    /\ Served(c) =>
        /\ Final(shown[c], net[c] \o out[c]) # None
        /\ Covers(Final(shown[c], net[c] \o out[c]).history, sub[c].cursor)

ClientInv(c) == Quiet(c) /\ Sending(c) /\ Ready(c)

\* The time at which each row was recorded: never earlier for a later one.
Clocks == {t \in [1..recorded -> 0..now] : \A i, j \in 1..recorded : i <= j => t[i] <= t[j]}

Recorded(history, t) ==
    /\ InOrder(history)
    /\ \A s \in ToSet(history) : s.id \in DOMAIN t /\ s.time = t[s.id]

HasHistory(m) == m.type \in {"snapshot", "delta"}
Carried(way, t) == \A i \in 1..Len(way) : HasHistory(way[i]) => Recorded(way[i].history, t)

\* Every history, stored, on its way or shown, is part of one record.
OneRecord ==
    \E t \in Clocks :
        /\ Recorded(samples, t)
        /\ \A c \in Clients :
            /\ Carried(out[c], t) /\ Carried(net[c], t)
            /\ shown[c] # None => Recorded(shown[c].history, t)

IInv ==
    /\ TypeOK
    /\ access = None => samples = <<>>
    /\ \A c \in Clients : ClientInv(c)
    /\ OneRecord

LEMMA Empty == Len(<<>>) = 0 /\ <<>> \in History /\ <<>> \in Seq(Message) /\ ToSet(<<>>) = {} /\ <<>> \o <<>> = <<>>
BY DEF History, ToSet

LEMMA InitInv == Init => IInv
<1> SUFFICES ASSUME Init PROVE IInv
  OBVIOUS
<1> USE DEF Init
<1>1. TypeOK
  <2>1. /\ now \in 0..MaxTime /\ recorded \in 0..MaxSamples /\ uptime \in 0..MaxUptime
        /\ samples \in History /\ usage \in BOOLEAN
        /\ access \in Periods \cup {None} /\ changes \in 0..MaxChanges
        /\ published \in Buckets
    <3>1. 0 \in 0..MaxTime /\ 0 \in 0..MaxSamples /\ 0 \in 0..MaxUptime /\ 0 \in 0..MaxChanges
      BY Bounds
    <3> QED
      BY <3>1, Empty DEF Buckets
  <2>2. /\ sub \in [Clients -> Subscription \cup {None}] /\ connected \in [Clients -> BOOLEAN]
        /\ greeted \in [Clients -> BOOLEAN] /\ viewing \in [Clients -> BOOLEAN]
        /\ shown \in [Clients -> Copy \cup {None}]
    OBVIOUS
  <2>3. /\ out \in [Clients -> Seq(Message)] /\ net \in [Clients -> Seq(Message)]
        /\ toServer \in [Clients -> Seq({"subscribe", "unsubscribe"})]
    BY Empty
  <2>4. \A c \in Clients : Len(out[c]) = 0 /\ Len(net[c]) = 0 /\ Len(toServer[c]) = 0 /\ shown[c] = None
    BY Empty
  <2> QED
    BY <2>1, <2>2, <2>3, <2>4, Bounds DEF TypeOK
<1>2. \A c \in Clients : ClientInv(c)
  BY Empty DEF ClientInv, Quiet, Sending, Ready, InState, Served
<1>3. OneRecord
  <2>1. <<>> \in [1..0 -> 0..0]
    OBVIOUS
  <2>2. <<>> \in Clocks
    BY <2>1 DEF Clocks
  <2>3. Recorded(samples, <<>>)
    BY Empty DEF Recorded, InOrder
  <2>4. \A c \in Clients : Carried(out[c], <<>>) /\ Carried(net[c], <<>>) /\ shown[c] = None
    BY Empty DEF Carried
  <2> QED
    BY <2>2, <2>3, <2>4 DEF OneRecord
<1>4. access # None
  BY Bounds, NoneAssumption
<1> QED
  BY <1>1, <1>2, <1>3, <1>4 DEF IInv

-----------------------------------------------------------------------------
(* What the steps leave alone.                                             *)

SameSocket(c) ==
    /\ sub'[c] = sub[c] /\ out'[c] = out[c] /\ net'[c] = net[c]
    /\ toServer'[c] = toServer[c] /\ connected'[c] = connected[c]
SamePage(c) == greeted'[c] = greeted[c] /\ viewing'[c] = viewing[c] /\ shown'[c] = shown[c]

\* The rows go on: some are lost, those that come are of now, and time does not go back.
RowsGoOn ==
    /\ now' \in Nat /\ now <= now'
    /\ samples' \in History
    /\ \A s \in ToSet(samples') : s \in ToSet(samples) \/ s.time >= now

LEMMA CoversGoesOn ==
    ASSUME TypeOK, RowsGoOn, NEW history, NEW cursor \in Cursor, cursor.time <= now, Covers(history, cursor)
    PROVE  Covers(history, cursor)'
<1>1. cursor.time \in Nat /\ cursor.period \in Nat /\ now \in Nat /\ now' \in Nat /\ now <= now'
  BY CursorFields, Numbers DEF RowsGoOn
<1>2. \A s \in ToSet(samples') : s.time \in Nat
  BY SampleFields DEF RowsGoOn, History, ToSet
<1> QED
  BY <1>1, <1>2 DEF Covers, RowsGoOn

LEMMA SubTypes ==
    ASSUME TypeOK, NEW c \in Clients
    PROVE  /\ sub[c] # None => sub[c] \in Subscription /\ sub[c].cursor \in Cursor \cup {None}
           /\ \A i \in 1..Len(out[c]) : out[c][i] \in Message /\ (Live(out[c][i]) => out[c][i].cursor \in Cursor)
           /\ out[c] \in Seq(Message) /\ net[c] \in Seq(Message) /\ Len(out[c]) \in Nat /\ Len(net[c]) \in Nat
           /\ net[c] \o out[c] \in Seq(Message)
           /\ shown[c] \in Copies
<1>1. sub[c] \in Subscription \cup {None} /\ out[c] \in Seq(Message) /\ net[c] \in Seq(Message) /\ shown[c] \in Copies
  BY DEF TypeOK, Copies
<1>2. \A i \in 1..Len(out[c]) : out[c][i] \in Message
  BY <1>1
<1>3. \A m \in Message : Live(m) => m.cursor \in Cursor
  BY DEF Message, Live
<1> QED
  BY <1>1, <1>2, <1>3 DEF Subscription

\* A step that concerns others.
LEMMA ClientFrame ==
    ASSUME TypeOK, RowsGoOn, NEW c \in Clients, ClientInv(c), SameSocket(c), SamePage(c)
    PROVE  ClientInv(c)'
<1>1. Quiet(c)'
  BY DEF ClientInv, Quiet, SameSocket, SamePage
<1>2. now \in Nat /\ now' \in Nat /\ now <= now'
  BY Numbers DEF RowsGoOn
<1>3. Sending(c)'
  <2>1. \A i \in 1..Len(out'[c]) : Live(out'[c][i]) => i = Len(out'[c]) /\ InState(c, "sending")'
    BY DEF ClientInv, Sending, InState, SameSocket
  <2>2. ASSUME InState(c, "sending") PROVE Sending(c)'
    <3> DEFINE m == out[c][Len(out[c])]
    <3>1. out[c] # <<>> /\ Live(m) /\ m.cursor.time <= now /\ Covers(m.history, m.cursor)
      BY <2>2 DEF ClientInv, Sending
    <3>2. Len(out[c]) \in 1..Len(out[c])
      BY <3>1, SubTypes
    <3>3. m.cursor \in Cursor
      BY <3>1, <3>2, SubTypes
    <3>4. m.cursor.time \in Nat
      BY <3>3, CursorFields
    <3>5. ASSUME NEW h, NEW cursor, cursor = m.cursor, Covers(h, cursor) PROVE Covers(h, cursor)'
      BY <3>1, <3>3, <3>5, CoversGoesOn
    <3>6. m.cursor.time <= now'
      BY <1>2, <3>1, <3>4
    <3> QED
      BY <2>1, <3>1, <3>5, <3>6 DEF Sending, SameSocket
  <2> QED
    BY <2>1, <2>2 DEF Sending, InState, SameSocket
<1>4. Ready(c)'
  <2>1. InState(c, "ready") => sub[c].cursor # None /\ sub[c].cursor.time <= now /\ sub[c].cursor \in Cursor
    BY SubTypes DEF ClientInv, Ready, InState
  <2>2. InState(c, "ready") => sub[c].cursor # None /\ sub[c].cursor.time <= now'
    BY <1>2, <2>1, CursorFields
  <2>3. ASSUME Served(c)
        PROVE  /\ Final(shown[c], net[c] \o out[c]) # None
               /\ Covers(Final(shown[c], net[c] \o out[c]).history, sub[c].cursor)'
    <3>1. InState(c, "ready")
      BY <2>3 DEF Served, InState
    <3>2. /\ Final(shown[c], net[c] \o out[c]) # None
          /\ Covers(Final(shown[c], net[c] \o out[c]).history, sub[c].cursor)
      BY <2>3 DEF ClientInv, Ready
    <3>3. ASSUME NEW h, NEW cursor, cursor = sub[c].cursor, Covers(h, cursor) PROVE Covers(h, cursor)'
      BY <2>1, <3>1, <3>3, CoversGoesOn
    <3> QED
      BY <3>2, <3>3 DEF SameSocket, SamePage
  <2> QED
    BY <2>2, <2>3 DEF Ready, InState, Served, SameSocket, SamePage
<1> QED
  BY <1>1, <1>3, <1>4 DEF ClientInv

LEMMA ClocksGoOn ==
    ASSUME TypeOK, NEW t \in Clocks, now' \in Nat, now <= now', recorded' = recorded
    PROVE  t \in Clocks'
<1>1. now \in Nat
  BY Numbers
<1>2. \A n \in 0..now : n \in 0..now'
  BY <1>1
<1> QED
  BY <1>2 DEF Clocks

\* A step of the data: the rows go on or are discarded.
LEMMA DataInv ==
    ASSUME IInv, TypeOK', now <= now', samples' = samples \/ samples' = <<>>, access' = None => samples' = <<>>,
           UNCHANGED <<recorded, sub, out, net, toServer, connected, page>>
    PROVE  IInv'
<1>1. TypeOK /\ RowsGoOn
  <2>1. now' \in Nat /\ samples' \in History
    BY Bounds DEF TypeOK
  <2>2. \A s \in ToSet(samples') : s \in ToSet(samples)
    BY Empty
  <2> QED
    BY <2>1, <2>2 DEF RowsGoOn, IInv
<1>2. ASSUME NEW c \in Clients PROVE ClientInv(c)'
  <2>1. SameSocket(c) /\ SamePage(c)
    BY DEF SameSocket, SamePage, page
  <2> QED
    BY <1>1, <2>1, ClientFrame DEF IInv
<1>3. OneRecord'
  <2>1. PICK t \in Clocks :
           /\ Recorded(samples, t)
           /\ \A c \in Clients :
               /\ Carried(out[c], t) /\ Carried(net[c], t)
               /\ shown[c] # None => Recorded(shown[c].history, t)
    BY DEF IInv, OneRecord
  <2>2. t \in Clocks'
    BY <1>1, ClocksGoOn DEF RowsGoOn
  <2>3. Recorded(samples', t)
    BY <2>1, Empty DEF Recorded, InOrder
  <2> QED
    BY <2>1, <2>2, <2>3 DEF OneRecord, page
<1> QED
  BY <1>2, <1>3 DEF IInv

LEMMA TickInv == IInv /\ Tick => IInv'
<1> SUFFICES ASSUME IInv, Tick PROVE IInv'
  OBVIOUS
<1>1. TypeOK' /\ now <= now'
  BY Bounds DEF IInv, TypeOK, Tick, page
<1> QED
  BY <1>1, DataInv DEF Tick, IInv

LEMMA RecoverInv == IInv /\ Recover => IInv'
<1> SUFFICES ASSUME IInv, Recover PROVE IInv'
  OBVIOUS
<1>1. TypeOK' /\ now <= now'
  BY Bounds DEF IInv, TypeOK, Recover, page
<1> QED
  BY <1>1, DataInv DEF Recover, IInv

LEMMA SetAccessInv == IInv /\ SetAccess => IInv'
<1> SUFFICES ASSUME IInv, SetAccess PROVE IInv'
  OBVIOUS
<1>1. TypeOK' /\ now <= now'
  <2>1. access' \in Periods /\ changes' \in 0..MaxChanges
    BY Bounds DEF IInv, TypeOK, SetAccess
  <2> QED
    BY <2>1, Bounds DEF IInv, TypeOK, SetAccess, page
<1>2. access' # None
  BY Bounds, NoneAssumption DEF SetAccess
<1> QED
  BY <1>1, <1>2, DataInv DEF SetAccess

LEMMA RemoveCardInv == IInv /\ RemoveCard => IInv'
<1> SUFFICES ASSUME IInv, RemoveCard PROVE IInv'
  OBVIOUS
<1>1. TypeOK' /\ now <= now'
  <2>1. uptime' \in 0..MaxUptime /\ changes' \in 0..MaxChanges
    BY Bounds DEF IInv, TypeOK, RemoveCard
  <2> QED
    <3>1. published' \in Buckets /\ access' \in Periods \cup {None} /\ samples' \in History /\ usage' \in BOOLEAN
      BY Empty DEF RemoveCard, Buckets
    <3> QED
      BY <2>1, <3>1, Bounds DEF IInv, TypeOK, RemoveCard, page
<1> QED
  BY <1>1, DataInv DEF RemoveCard

-----------------------------------------------------------------------------
(* The steps of one client's socket and page.                              *)

Known(c, t) ==
    /\ Carried(out[c], t) /\ Carried(net[c], t)
    /\ shown[c] # None => Recorded(shown[c].history, t)

LEMMA StepInv ==
    ASSUME IInv, UNCHANGED data, TypeOK', NEW c \in Clients, ClientInv(c)',
           \A d \in Clients \ {c} : SameSocket(d) /\ SamePage(d),
           ASSUME NEW t \in Clocks, Recorded(samples, t), Known(c, t) PROVE Known(c, t)'
    PROVE  IInv'
<1>1. TypeOK /\ RowsGoOn
  BY Numbers DEF RowsGoOn, data, IInv, TypeOK
<1>2. \A d \in Clients : ClientInv(d)'
  BY <1>1, ClientFrame DEF IInv
<1>3. OneRecord'
  <2>1. PICK t \in Clocks : Recorded(samples, t) /\ \A d \in Clients : Known(d, t)
    BY DEF IInv, OneRecord, Known
  <2>2. t \in Clocks' /\ Recorded(samples, t)'
    BY <2>1 DEF data, Clocks
  <2>3. Known(c, t)'
    BY <2>1
  <2>4. \A d \in Clients \ {c} : Known(d, t)'
    BY <2>1 DEF Known, SameSocket, SamePage
  <2> QED
    BY <2>2, <2>3, <2>4 DEF OneRecord, Known
<1> QED
  BY <1>2, <1>3 DEF IInv, data

Requests == {"subscribe", "unsubscribe"}

LEMMA StepTypes ==
    ASSUME TypeOK, UNCHANGED data, NEW c \in Clients, published' \in Buckets,
           sub' \in [Clients -> Subscription \cup {None}], connected' \in [Clients -> BOOLEAN],
           greeted' \in [Clients -> BOOLEAN], viewing' \in [Clients -> BOOLEAN],
           out' \in [Clients -> Seq(Message)], net' \in [Clients -> Seq(Message)],
           toServer' \in [Clients -> Seq(Requests)], shown' \in [Clients -> Copy \cup {None}],
           \A d \in Clients \ {c} : SameSocket(d) /\ SamePage(d),
           Len(out'[c]) <= MaxEvents, Len(net'[c]) <= MaxTransit, Len(toServer'[c]) <= MaxRequests,
           shown'[c] # None => viewing'[c]
    PROVE  TypeOK'
<1>1. \A d \in Clients :
        /\ Len(out'[d]) <= MaxEvents /\ Len(net'[d]) <= MaxTransit /\ Len(toServer'[d]) <= MaxRequests
        /\ shown'[d] # None => viewing'[d]
  BY DEF TypeOK, SameSocket, SamePage
<1> QED
  BY <1>1 DEF TypeOK, data, Requests

LEMMA ReleasedType == ASSUME NEW subs, NEW buckets \in Buckets PROVE Released(subs, buckets) \in Buckets
BY DEF Released, Buckets

LEMMA CloseSocketDoes ==
    ASSUME TypeOK, NEW c \in Clients, CloseSocket(c)
    PROVE  /\ published' \in Buckets
           /\ sub' \in [Clients -> Subscription \cup {None}] /\ connected' \in [Clients -> BOOLEAN]
           /\ out' \in [Clients -> Seq(Message)] /\ net' \in [Clients -> Seq(Message)]
           /\ toServer' \in [Clients -> Seq(Requests)]
           /\ \A d \in Clients \ {c} : SameSocket(d)
           /\ sub'[c] = None /\ out'[c] = <<>> /\ net'[c] = <<>> /\ toServer'[c] = <<>> /\ connected'[c] = FALSE
<1> USE DEF CloseSocket, Closing
<1>1. published' \in Buckets
  BY ReleasedType DEF TypeOK
<1>2. /\ sub \in [Clients -> Subscription \cup {None}] /\ connected \in [Clients -> BOOLEAN]
      /\ out \in [Clients -> Seq(Message)] /\ net \in [Clients -> Seq(Message)]
      /\ toServer \in [Clients -> Seq(Requests)]
  BY DEF TypeOK, Requests
<1>3. sub' \in [Clients -> Subscription \cup {None}] /\ connected' \in [Clients -> BOOLEAN]
  BY <1>2
<1>4. /\ out' \in [Clients -> Seq(Message)] /\ net' \in [Clients -> Seq(Message)]
      /\ toServer' \in [Clients -> Seq(Requests)]
  BY <1>2, Empty
<1>5. \A d \in Clients \ {c} : SameSocket(d)
  BY <1>2 DEF SameSocket
<1> QED
  BY <1>1, <1>2, <1>3, <1>4, <1>5

\* A socket that is closed owes nothing.
LEMMA ClosedClient ==
    ASSUME NEW c \in Clients, sub'[c] = None, out'[c] = <<>>, net'[c] = <<>>, toServer'[c] = <<>>
    PROVE  ClientInv(c)'
BY Empty DEF ClientInv, Quiet, Sending, Ready, InState, Served

LEMMA KnownEmpty ==
    ASSUME NEW c \in Clients, NEW t, Known(c, t), out'[c] = <<>>, net'[c] = <<>>, shown'[c] = shown[c]
    PROVE  Known(c, t)'
BY Empty DEF Known, Carried

LEMMA DisconnectInv == ASSUME IInv, NEW c \in Clients, Disconnect(c) PROVE IInv'
<1>1. TypeOK /\ CloseSocket(c) /\ UNCHANGED data /\ UNCHANGED page
  BY DEF Disconnect, IInv
<1>2. \A d \in Clients : SamePage(d)
  BY <1>1 DEF SamePage, page
<1>3. TypeOK'
  <2>1. /\ greeted' \in [Clients -> BOOLEAN] /\ viewing' \in [Clients -> BOOLEAN]
        /\ shown' \in [Clients -> Copy \cup {None}] /\ (shown'[c] # None => viewing'[c])
    BY <1>1 DEF TypeOK, page
  <2>2. Len(out'[c]) <= MaxEvents /\ Len(net'[c]) <= MaxTransit /\ Len(toServer'[c]) <= MaxRequests
    <3>1. out'[c] = <<>> /\ net'[c] = <<>> /\ toServer'[c] = <<>>
      BY <1>1, CloseSocketDoes
    <3> QED
      BY <3>1, Empty, Bounds
  <2> QED
    BY <1>1, <1>2, <2>1, <2>2, CloseSocketDoes, StepTypes
<1>4. ASSUME NEW t \in Clocks, Recorded(samples, t), Known(c, t) PROVE Known(c, t)'
  BY <1>1, <1>2, <1>4, CloseSocketDoes, KnownEmpty DEF SamePage
<1> QED
  BY <1>1, <1>2, <1>3, <1>4, CloseSocketDoes, ClosedClient, StepInv

LEMMA ConnectInv == ASSUME IInv, NEW c \in Clients, Connect(c) PROVE IInv'
<1> DEFINE hello == [type |-> "status"]
<1>1. /\ TypeOK /\ UNCHANGED <<data, published, sub, net, toServer, viewing, shown>>
      /\ connected' = [connected EXCEPT ![c] = TRUE] /\ greeted' = [greeted EXCEPT ![c] = FALSE]
      /\ out' = [out EXCEPT ![c] = <<hello>>] /\ ~connected[c]
  BY DEF Connect, IInv
<1>2. hello \in Message /\ hello.type = "status" /\ ~HasHistory(hello) /\ ~Live(hello)
  BY DEF Message, HasHistory, Live
<1>3. /\ <<hello>> \in Seq(Message) /\ Len(<<hello>>) = 1 /\ <<hello>>[1] = hello
  BY <1>2
<1> HIDE DEF hello
<1>4. /\ out' \in [Clients -> Seq(Message)] /\ connected' \in [Clients -> BOOLEAN]
      /\ greeted' \in [Clients -> BOOLEAN]
      /\ out'[c] = <<hello>> /\ connected'[c] = TRUE /\ greeted'[c] = FALSE
      /\ \A d \in Clients \ {c} : SameSocket(d) /\ SamePage(d)
  BY <1>1, <1>3 DEF TypeOK, SameSocket, SamePage
<1>5. TypeOK'
  <2>1. Len(out'[c]) <= MaxEvents
    BY <1>3, <1>4, Bounds
  <2>2. /\ published' \in Buckets /\ sub' \in [Clients -> Subscription \cup {None}]
        /\ viewing' \in [Clients -> BOOLEAN] /\ net' \in [Clients -> Seq(Message)]
        /\ toServer' \in [Clients -> Seq(Requests)] /\ shown' \in [Clients -> Copy \cup {None}]
        /\ Len(net'[c]) <= MaxTransit /\ Len(toServer'[c]) <= MaxRequests /\ (shown'[c] # None => viewing'[c])
    BY <1>1 DEF TypeOK, Requests
  <2> QED
    BY <1>1, <1>4, <2>1, <2>2, StepTypes
<1>6. sub[c] = None /\ net[c] = <<>> /\ toServer[c] = <<>>
  BY <1>1 DEF IInv, ClientInv, Quiet
<1>7. ClientInv(c)'
  <2>1. sub'[c] = None /\ net'[c] = <<>> /\ toServer'[c] = <<>>
    BY <1>1, <1>6
  <2>2. \A i \in 1..Len(out'[c]) : out'[c][i].type = "status" /\ ~Live(out'[c][i])
    BY <1>2, <1>3, <1>4
  <2> QED
    BY <1>4, <2>1, <2>2, Empty DEF ClientInv, Quiet, Sending, Ready, InState, Served
<1>8. ASSUME NEW t \in Clocks, Recorded(samples, t), Known(c, t) PROVE Known(c, t)'
  BY <1>1, <1>2, <1>3, <1>4, <1>8 DEF Known, Carried
<1> QED
  BY <1>1, <1>4, <1>5, <1>7, <1>8, StepInv

LEMMA SendingSame ==
    ASSUME UNCHANGED data, NEW c \in Clients, Sending(c), sub'[c] = sub[c], out'[c] = out[c]
    PROVE  Sending(c)'
BY DEF Sending, InState, Covers, data

\* A request of the page goes to the end of what its socket carries, if it is open.
LEMMA SendDoes ==
    ASSUME TypeOK, NEW c \in Clients, Len(toServer[c]) < MaxRequests, NEW request \in Requests
    PROVE  /\ Send(c, request) \in [Clients -> Seq(Requests)]
           /\ Len(Send(c, request)[c]) <= MaxRequests
           /\ \A d \in Clients \ {c} : Send(c, request)[d] = toServer[d]
           /\ Send(c, request)[c] = IF connected[c] THEN Append(toServer[c], request) ELSE toServer[c]
<1>1. toServer \in [Clients -> Seq(Requests)]
  BY DEF TypeOK, Requests
<1>2. /\ toServer[c] \in Seq(Requests) /\ Len(toServer[c]) \in Nat /\ MaxRequests \in Nat
      /\ Append(toServer[c], request) \in Seq(Requests)
      /\ Len(Append(toServer[c], request)) = Len(toServer[c]) + 1
  BY <1>1, Bounds
<1> QED
  BY <1>1, <1>2 DEF Send

LEMMA Requested ==
    ASSUME TypeOK, NEW c \in Clients, NEW request
    PROVE  /\ Append(toServer[c], request) # <<>>
           /\ request # "subscribe" /\ (\A i \in 1..Len(toServer[c]) : toServer[c][i] # "subscribe")
                => \A i \in 1..Len(Append(toServer[c], request)) : Append(toServer[c], request)[i] # "subscribe"
<1>1. toServer[c] \in Seq(Requests) /\ Len(toServer[c]) \in Nat
  BY DEF TypeOK, Requests
<1> QED
  BY <1>1

LEMMA ViewInv == ASSUME IInv, NEW c \in Clients, View(c) PROVE IInv'
<1> DEFINE asked == Send(c, "subscribe")
<1>1. /\ TypeOK /\ ~viewing[c] /\ Len(toServer[c]) < MaxRequests
      /\ viewing' = [viewing EXCEPT ![c] = TRUE]
      /\ toServer' = IF greeted[c] THEN asked ELSE toServer
      /\ UNCHANGED <<data, published, sub, out, net, connected, greeted, shown>>
  BY DEF View, IInv
<1>2. /\ asked \in [Clients -> Seq(Requests)] /\ Len(asked[c]) <= MaxRequests
      /\ \A d \in Clients \ {c} : asked[d] = toServer[d]
      /\ asked[c] = IF connected[c] THEN Append(toServer[c], "subscribe") ELSE toServer[c]
  BY <1>1, SendDoes DEF Requests
<1>3. toServer \in [Clients -> Seq(Requests)] /\ Len(toServer[c]) <= MaxRequests
  BY <1>1 DEF TypeOK, Requests
<1> HIDE DEF asked
<1>4. /\ viewing' \in [Clients -> BOOLEAN] /\ toServer' \in [Clients -> Seq(Requests)]
      /\ viewing'[c] = TRUE /\ Len(toServer'[c]) <= MaxRequests
      /\ \A d \in Clients \ {c} : SameSocket(d) /\ SamePage(d)
  BY <1>1, <1>2, <1>3 DEF TypeOK, SameSocket, SamePage
<1>5. TypeOK'
  <2>1. /\ published' \in Buckets /\ sub' \in [Clients -> Subscription \cup {None}]
        /\ connected' \in [Clients -> BOOLEAN] /\ greeted' \in [Clients -> BOOLEAN]
        /\ out' \in [Clients -> Seq(Message)] /\ net' \in [Clients -> Seq(Message)]
        /\ shown' \in [Clients -> Copy \cup {None}]
        /\ Len(out'[c]) <= MaxEvents /\ Len(net'[c]) <= MaxTransit
    BY <1>1 DEF TypeOK
  <2> QED
    BY <1>1, <1>4, <2>1, StepTypes
<1>6. Quiet(c) /\ Sending(c) /\ Ready(c)
  BY DEF IInv, ClientInv
<1>7. Quiet(c)'
  BY <1>1, <1>2, <1>6 DEF Quiet
<1>8. Sending(c)'
  BY <1>1, <1>6, SendingSame
<1>9. ~Served(c)'
  <2>1. CASE greeted[c] /\ connected[c]
    BY <1>1, <1>2, <2>1, Requested DEF Served
  <2>2. CASE ~greeted[c] \/ ~connected[c]
    BY <1>1, <1>6, <2>2 DEF Quiet, Served
  <2> QED
    BY <2>1, <2>2
<1>10. Ready(c)'
  BY <1>1, <1>6, <1>9 DEF Ready, InState, data
<1>11. ASSUME NEW t \in Clocks, Recorded(samples, t), Known(c, t) PROVE Known(c, t)'
  BY <1>1, <1>11 DEF Known, Carried
<1> QED
  BY <1>1, <1>4, <1>5, <1>7, <1>8, <1>10, <1>11, StepInv DEF ClientInv

LEMMA LeaveInv == ASSUME IInv, NEW c \in Clients, Leave(c) PROVE IInv'
<1> DEFINE asked == Send(c, "unsubscribe")
<1>1. /\ TypeOK /\ Len(toServer[c]) < MaxRequests
      /\ viewing' = [viewing EXCEPT ![c] = FALSE] /\ shown' = [shown EXCEPT ![c] = None]
      /\ toServer' = asked
      /\ UNCHANGED <<data, published, sub, out, net, connected, greeted>>
  BY DEF Leave, IInv
<1>2. /\ asked \in [Clients -> Seq(Requests)] /\ Len(asked[c]) <= MaxRequests
      /\ \A d \in Clients \ {c} : asked[d] = toServer[d]
      /\ asked[c] = IF connected[c] THEN Append(toServer[c], "unsubscribe") ELSE toServer[c]
  BY <1>1, SendDoes DEF Requests
<1> HIDE DEF asked
<1>4. /\ viewing' \in [Clients -> BOOLEAN] /\ shown' \in [Clients -> Copy \cup {None}]
      /\ viewing'[c] = FALSE /\ shown'[c] = None
      /\ \A d \in Clients \ {c} : SameSocket(d) /\ SamePage(d)
  BY <1>1, <1>2 DEF TypeOK, SameSocket, SamePage
<1>5. TypeOK'
  <2>1. /\ published' \in Buckets /\ sub' \in [Clients -> Subscription \cup {None}]
        /\ connected' \in [Clients -> BOOLEAN] /\ greeted' \in [Clients -> BOOLEAN]
        /\ out' \in [Clients -> Seq(Message)] /\ net' \in [Clients -> Seq(Message)]
        /\ Len(out'[c]) <= MaxEvents /\ Len(net'[c]) <= MaxTransit
    BY <1>1 DEF TypeOK
  <2> QED
    BY <1>1, <1>2, <1>4, <2>1, StepTypes
<1>6. Quiet(c) /\ Sending(c) /\ Ready(c)
  BY DEF IInv, ClientInv
<1>7. Quiet(c)'
  BY <1>1, <1>2, <1>6, Requested DEF Quiet
<1>8. Sending(c)'
  BY <1>1, <1>6, SendingSame
<1>9. Ready(c)'
  BY <1>1, <1>4, <1>6 DEF Ready, InState, data, Served
<1>10. ASSUME NEW t \in Clocks, Recorded(samples, t), Known(c, t) PROVE Known(c, t)'
  BY <1>1, <1>4, <1>10 DEF Known, Carried
<1> QED
  BY <1>1, <1>4, <1>5, <1>7, <1>8, <1>9, <1>10, StepInv DEF ClientInv

\* Orphaned snapshots stay what they are, but no longer set a cursor.
LEMMA OrphanedDoes ==
    ASSUME NEW queue \in Seq(Message)
    PROVE  /\ Orphaned(queue) \in Seq(Message) /\ Len(Orphaned(queue)) = Len(queue)
           /\ \A i \in 1..Len(queue) :
                /\ Orphaned(queue)[i].type = queue[i].type
                /\ ~Live(Orphaned(queue)[i])
                /\ HasHistory(queue[i]) => Orphaned(queue)[i].history = queue[i].history
<1> DEFINE orphan(m) == IF m.type = "snapshot" THEN [m EXCEPT !.cursor = None] ELSE m
<1>1. ASSUME NEW m \in Message
      PROVE  orphan(m) \in Message /\ orphan(m).type = m.type /\ ~Live(orphan(m))
             /\ (HasHistory(m) => orphan(m).history = m.history)
  <2>1. CASE m.type = "snapshot"
    <3>1. m \in [type : {"snapshot"}, history : History, buckets : Buckets, cursor : Cursor \cup {None}]
      BY <2>1 DEF Message
    <3>2. orphan(m) = [m EXCEPT !.cursor = None]
      BY <2>1
    <3>3. orphan(m) \in [type : {"snapshot"}, history : History, buckets : Buckets, cursor : Cursor \cup {None}]
      BY <3>1, <3>2
    <3>4. orphan(m).type = m.type /\ orphan(m).cursor = None /\ orphan(m).history = m.history
      BY <3>1, <3>2
    <3> HIDE DEF orphan
    <3> QED
      BY <3>3, <3>4 DEF Message, Live
  <2>2. CASE m.type # "snapshot"
    BY <2>2 DEF Live
  <2> QED
    BY <2>1, <2>2
<1>2. Len(queue) \in Nat /\ DOMAIN queue = 1..Len(queue) /\ \A i \in 1..Len(queue) : queue[i] \in Message
  OBVIOUS
<1>3. Orphaned(queue) = [i \in 1..Len(queue) |-> orphan(queue[i])]
  BY <1>2 DEF Orphaned
<1> HIDE DEF orphan
<1>4. Orphaned(queue) \in Seq(Message) /\ Len(Orphaned(queue)) = Len(queue)
  BY <1>1, <1>2, <1>3
<1> QED
  BY <1>1, <1>2, <1>3, <1>4

LEMMA HandleMessageInv == ASSUME IInv, NEW c \in Clients, HandleMessage(c) PROVE IInv'
<1> DEFINE request == Head(toServer[c])
           asked == [state |-> "queued", first |-> TRUE, cursor |-> None]
<1>1. /\ TypeOK /\ toServer[c] # <<>>
      /\ toServer' = [toServer EXCEPT ![c] = Tail(toServer[c])]
      /\ sub' = [sub EXCEPT ![c] = IF request = "subscribe" THEN asked ELSE None]
      /\ out' = [out EXCEPT ![c] = Orphaned(out[c])]
      /\ published' = IF request = "subscribe" THEN published ELSE Released(sub', published)
      /\ UNCHANGED <<data, net, connected, page>>
  BY DEF HandleMessage, IInv
<1>2. asked \in Subscription /\ asked.state = "queued"
  BY DEF Subscription
<1> HIDE DEF asked
<1>3. /\ out[c] \in Seq(Message) /\ Len(out[c]) \in Nat
      /\ Orphaned(out[c]) \in Seq(Message) /\ Len(Orphaned(out[c])) = Len(out[c])
      /\ \A i \in 1..Len(out[c]) :
            /\ Orphaned(out[c])[i].type = out[c][i].type
            /\ ~Live(Orphaned(out[c])[i])
            /\ HasHistory(out[c][i]) => Orphaned(out[c])[i].history = out[c][i].history
  BY <1>1, OrphanedDoes DEF TypeOK
<1>4. /\ toServer[c] \in Seq(Requests) /\ Tail(toServer[c]) \in Seq(Requests)
      /\ Len(toServer[c]) \in Nat /\ Len(Tail(toServer[c])) = Len(toServer[c]) - 1
      /\ request = toServer[c][1] /\ 1 \in 1..Len(toServer[c])
      /\ \A i \in 1..Len(Tail(toServer[c])) :
            Tail(toServer[c])[i] = toServer[c][i + 1] /\ i + 1 \in 1..Len(toServer[c])
  <2>1. toServer[c] \in Seq(Requests)
    BY <1>1 DEF TypeOK, Requests
  <2> QED
    BY <1>1, <2>1
<1>5. /\ sub' \in [Clients -> Subscription \cup {None}] /\ out' \in [Clients -> Seq(Message)]
      /\ toServer' \in [Clients -> Seq(Requests)] /\ published' \in Buckets
      /\ sub'[c] = (IF request = "subscribe" THEN asked ELSE None)
      /\ out'[c] = Orphaned(out[c]) /\ toServer'[c] = Tail(toServer[c])
  BY <1>1, <1>2, <1>3, <1>4, ReleasedType DEF TypeOK, Requests
<1>6. \A d \in Clients \ {c} : SameSocket(d) /\ SamePage(d)
  BY <1>1 DEF TypeOK, SameSocket, SamePage, page
<1>7. TypeOK'
  <2>1. /\ connected' \in [Clients -> BOOLEAN] /\ greeted' \in [Clients -> BOOLEAN]
        /\ viewing' \in [Clients -> BOOLEAN] /\ net' \in [Clients -> Seq(Message)]
        /\ shown' \in [Clients -> Copy \cup {None}]
        /\ Len(net'[c]) <= MaxTransit /\ (shown'[c] # None => viewing'[c])
    BY <1>1 DEF TypeOK, page
  <2>2. Len(out'[c]) <= MaxEvents /\ Len(toServer'[c]) <= MaxRequests
    BY <1>1, <1>3, <1>4, <1>5, Bounds DEF TypeOK
  <2> QED
    BY <1>1, <1>5, <1>6, <2>1, <2>2, StepTypes
<1>8. Quiet(c) /\ Sending(c) /\ Ready(c)
  BY DEF IInv, ClientInv
<1>9. Quiet(c)'
  <2>1. connected'[c]
    BY <1>1, <1>8 DEF Quiet
  <2>2. CASE ~greeted[c]
    <3>1. /\ \A i \in 1..Len(toServer[c]) : toServer[c][i] # "subscribe"
          /\ \A i \in 1..Len(net[c]) : net[c][i].type = "status"
          /\ \A i \in 1..Len(out[c]) : out[c][i].type = "status"
      BY <1>8, <2>2 DEF Quiet
    <3>2. request # "subscribe" /\ \A i \in 1..Len(toServer'[c]) : toServer'[c][i] # "subscribe"
      BY <1>4, <1>5, <3>1
    <3>3. sub'[c] = None
      BY <1>5, <3>2
    <3>4. \A i \in 1..Len(out'[c]) : out'[c][i].type = "status"
      BY <1>3, <1>5, <3>1
    <3> QED
      BY <1>1, <2>1, <3>1, <3>2, <3>3, <3>4 DEF Quiet
  <2>3. CASE greeted[c]
    BY <1>1, <2>1, <2>3 DEF Quiet, page
  <2> QED
    BY <2>2, <2>3
<1>10. ~InState(c, "ready")' /\ ~InState(c, "sending")'
  BY <1>2, <1>5 DEF InState
<1>11. Sending(c)'
  BY <1>3, <1>5, <1>10 DEF Sending
<1>12. Ready(c)'
  BY <1>10 DEF Ready, Served, InState
<1>13. ASSUME NEW t \in Clocks, Recorded(samples, t), Known(c, t) PROVE Known(c, t)'
  BY <1>1, <1>3, <1>5, <1>13 DEF Known, Carried, HasHistory, page
<1> QED
  BY <1>1, <1>6, <1>7, <1>9, <1>11, <1>12, <1>13, StepInv DEF ClientInv

LEMMA StoredKeeps ==
    ASSUME TypeOK, NEW period \in Nat
    PROVE  /\ Stored(period, 0) \in History
           /\ \A s \in ToSet(samples) : s.time >= now - period => s \in ToSet(Stored(period, 0))
           /\ ToSet(Stored(period, 0)) \subseteq ToSet(samples)
           /\ InOrder(samples) => InOrder(Stored(period, 0))
<1>1. samples \in History /\ now \in Nat
  BY Numbers DEF TypeOK
<1>2. Larger(now - period, 0) \in Int
  BY <1>1 DEF Larger
<1>3. \A s \in ToSet(samples) : s.time \in Nat
  BY <1>1, SampleFields DEF History, ToSet
<1>4. \A s \in ToSet(samples) : s.time >= now - period => s.time >= Larger(now - period, 0)
  BY <1>1, <1>3 DEF Larger
<1> QED
  BY <1>1, <1>2, <1>4, SinceKeeps DEF Stored

LEMMA FullDoes ==
    ASSUME TypeOK, NEW c \in Clients, NEW more \in Seq(Message), ~Full(out[c], more)
    PROVE  out[c] \o more \in Seq(Message) /\ Len(out[c] \o more) <= MaxEvents
<1>1. out[c] \in Seq(Message) /\ Len(out[c]) \in Nat /\ Len(more) \in Nat /\ MaxEvents \in Nat
  BY Bounds DEF TypeOK
<1> QED
  BY <1>1 DEF Full

LEMMA SendSnapshotInv == ASSUME IInv, NEW c \in Clients, SendSnapshot(c) PROVE IInv'
<1> DEFINE snapshot == [type |-> "snapshot", history |-> Stored(access, 0), buckets |-> SnapshotBuckets,
                        cursor |-> [time |-> now, period |-> access]]
<1>0. PICK m : m = snapshot
  OBVIOUS
<1>1. /\ TypeOK /\ sub[c] # None /\ sub[c].state = "queued" /\ UNCHANGED <<data, page>>
      /\ \A i \in 1..Len(out[c]) : out[c][i].type # "snapshot"
  <2>1. DOMAIN out[c] = 1..Len(out[c])
    BY DEF IInv, TypeOK
  <2> QED
    BY <2>1 DEF SendSnapshot, IInv
<1>2. Quiet(c) /\ Sending(c) /\ Ready(c)
  BY DEF IInv, ClientInv
<1>3. connected[c] /\ greeted[c]
  BY <1>1, <1>2 DEF Quiet
<1>4. sub[c] \in Subscription /\ out[c] \in Seq(Message) /\ Len(out[c]) \in Nat
  BY <1>1, SubTypes
<1>5. CASE access = None
  <2>1. /\ sub' = [sub EXCEPT ![c] = IF sub[c].first THEN None ELSE [sub[c] EXCEPT !.state = "unserved"]]
        /\ published' = Released(sub', published) /\ UNCHANGED <<out, net, toServer, connected>>
    BY <1>5 DEF SendSnapshot
  <2>2. /\ sub'[c] \in Subscription \cup {None} /\ (sub'[c] # None => sub'[c].state = "unserved")
        /\ sub' \in [Clients -> Subscription \cup {None}] /\ published' \in Buckets
    BY <1>1, <1>4, <2>1, ReleasedType DEF TypeOK, Subscription
  <2>3. \A d \in Clients \ {c} : SameSocket(d) /\ SamePage(d)
    BY <1>1, <2>1 DEF TypeOK, SameSocket, SamePage, page
  <2>4. TypeOK'
    BY <1>1, <2>1, <2>2 DEF TypeOK, data, page
  <2>5. ClientInv(c)'
    <3>1. ~InState(c, "ready")' /\ ~InState(c, "sending")'
      BY <2>2 DEF InState
    <3>2. Quiet(c)'
      BY <1>1, <1>2, <1>3, <2>1 DEF Quiet, page
    <3>3. Sending(c)'
      BY <1>1, <2>1, <3>1 DEF Sending, Live
    <3> QED
      BY <3>1, <3>2, <3>3 DEF ClientInv, Ready, Served, InState
  <2>6. ASSUME NEW t \in Clocks, Recorded(samples, t), Known(c, t) PROVE Known(c, t)'
    BY <1>1, <2>1, <2>6 DEF Known, page
  <2> QED
    BY <1>1, <2>3, <2>4, <2>5, <2>6, StepInv
<1>6. CASE access # None /\ Full(out[c], <<m>>)
  <2>1. CloseSocket(c)
    BY <1>0, <1>6 DEF SendSnapshot
  <2>2. Disconnect(c)
    BY <1>1, <1>3, <2>1 DEF Disconnect
  <2> QED
    BY <2>2, DisconnectInv
<1>7. CASE access # None /\ ~Full(out[c], <<m>>)
  <2>1. /\ out' = [out EXCEPT ![c] = Append(out[c], m)] /\ sub' = [sub EXCEPT ![c].state = "sending"]
        /\ UNCHANGED <<published, net, toServer, connected>>
    BY <1>0, <1>7 DEF SendSnapshot
  <2>2. access \in Periods /\ access \in Nat /\ now \in 0..MaxTime /\ now \in Nat
    BY <1>1, <1>7, Numbers DEF TypeOK
  <2>3. /\ m.cursor \in Cursor /\ m.cursor # None /\ m.cursor.time = now /\ m.cursor.period = access
        /\ m.history = Stored(access, 0) /\ m.type = "snapshot"
    BY <1>0, <2>2, NoneAssumption DEF Cursor
  <2>4. m \in Message
    <3>1. SnapshotBuckets \in Buckets
      BY <1>1 DEF SnapshotBuckets, Buckets, TypeOK
    <3>2. Stored(access, 0) \in History
      BY <1>1, <2>2, StoredKeeps
    <3>3. [time |-> now, period |-> access] \in Cursor
      BY <2>2 DEF Cursor
    <3> QED
      BY <1>0, <3>1, <3>2, <3>3 DEF Message
  <2>5. <<m>> \in Seq(Message) /\ out[c] \o <<m>> = Append(out[c], m)
    BY <1>4, <2>4
  <2>6. Live(m)
    BY <2>3 DEF Live
  <2>7. Append(out[c], m) \in Seq(Message) /\ Len(Append(out[c], m)) <= MaxEvents
    BY <1>1, <1>7, <2>5, FullDoes
  <2>8. /\ Len(Append(out[c], m)) = Len(out[c]) + 1 /\ Append(out[c], m)[Len(out[c]) + 1] = m
        /\ \A i \in 1..Len(out[c]) : Append(out[c], m)[i] = out[c][i]
        /\ \A i \in 1..(Len(out[c]) + 1) : i \in 1..Len(out[c]) \/ i = Len(out[c]) + 1
        /\ Append(out[c], m) # <<>>
    BY <1>4, <2>4
  <2>9. /\ sub' \in [Clients -> Subscription \cup {None}] /\ out' \in [Clients -> Seq(Message)]
        /\ out'[c] = Append(out[c], m) /\ sub'[c] # None /\ sub'[c].state = "sending"
    <3>1. sub'[c] = [sub[c] EXCEPT !.state = "sending"]
      BY <1>1, <2>1 DEF TypeOK
    <3>2. sub'[c] \in Subscription /\ sub'[c].state = "sending"
      BY <1>4, <3>1 DEF Subscription
    <3>3. sub' = [sub EXCEPT ![c] = sub'[c]]
      BY <1>1, <2>1, <3>1 DEF TypeOK
    <3> QED
      BY <1>1, <2>1, <2>7, <3>2, <3>3, NoneAssumption DEF TypeOK
  <2>10. \A d \in Clients \ {c} : SameSocket(d) /\ SamePage(d)
    BY <1>1, <2>1 DEF TypeOK, SameSocket, SamePage, page
  <2>11. TypeOK'
    <3>1. /\ published' \in Buckets /\ connected' \in [Clients -> BOOLEAN]
          /\ greeted' \in [Clients -> BOOLEAN] /\ viewing' \in [Clients -> BOOLEAN]
          /\ net' \in [Clients -> Seq(Message)] /\ toServer' \in [Clients -> Seq(Requests)]
          /\ shown' \in [Clients -> Copy \cup {None}]
          /\ Len(net'[c]) <= MaxTransit /\ Len(toServer'[c]) <= MaxRequests /\ (shown'[c] # None => viewing'[c])
      BY <1>1, <2>1 DEF TypeOK, Requests, page
    <3>2. Len(out'[c]) <= MaxEvents
      BY <2>7, <2>9
    <3> QED
      BY <1>1, <2>9, <2>10, <3>1, <3>2, StepTypes
  <2>12. InState(c, "sending")' /\ ~InState(c, "ready")'
    BY <2>9 DEF InState
  <2>13. Quiet(c)'
    BY <1>1, <1>3, <2>1 DEF Quiet, page
  <2>14. Covers(m.history, m.cursor)'
    <3>1. Covers(m.history, m.cursor)
      BY <1>1, <2>2, <2>3, StoredKeeps DEF Covers
    <3> QED
      BY <1>1, <3>1 DEF Covers, data
  <2>15. Sending(c)'
    <3>1. \A i \in 1..Len(out'[c]) : Live(out'[c][i]) => i = Len(out'[c])
      BY <1>1, <2>8, <2>9 DEF Live
    <3>2. out'[c][Len(out'[c])] = m
      BY <2>8, <2>9
    <3>3. m.cursor.time <= now'
      BY <1>1, <2>2, <2>3 DEF data
    <3> QED
      BY <2>6, <2>8, <2>9, <2>12, <2>14, <3>1, <3>2, <3>3 DEF Sending
  <2>16. Ready(c)'
    BY <2>12 DEF Ready, Served, InState
  <2>17. ASSUME NEW t \in Clocks, Recorded(samples, t), Known(c, t) PROVE Known(c, t)'
    <3>1. Recorded(m.history, t)
      BY <1>1, <2>2, <2>3, <2>17, StoredKeeps DEF Recorded
    <3> QED
      BY <1>1, <2>1, <2>8, <2>9, <2>17, <3>1 DEF Known, Carried, page
  <2> QED
    BY <1>1, <2>10, <2>11, <2>13, <2>15, <2>16, <2>17, StepInv DEF ClientInv
<1> QED
  BY <1>5, <1>6, <1>7

LEMMA Moved ==
    ASSUME NEW before \in Seq(Message), NEW after \in Seq(Message), after # <<>>
    PROVE  /\ Append(before, Head(after)) \o Tail(after) = before \o after
           /\ Append(before, Head(after)) \in Seq(Message) /\ Len(Append(before, Head(after))) = Len(before) + 1
           /\ Tail(after) \in Seq(Message) /\ Len(Tail(after)) = Len(after) - 1
           /\ Len(before) \in Nat /\ Len(after) \in Nat \ {0} /\ Head(after) \in Message /\ Head(after) = after[1]
           /\ \A i \in 1..Len(before) : Append(before, Head(after))[i] = before[i]
           /\ Append(before, Head(after))[Len(before) + 1] = Head(after)
           /\ \A i \in 1..(Len(before) + 1) : i \in 1..Len(before) \/ i = Len(before) + 1
           /\ \A i \in 1..(Len(after) - 1) : Tail(after)[i] = after[i + 1] /\ i + 1 \in 1..Len(after)
<1> DEFINE m == Head(after)
           rest == Tail(after)
           L == Len(before)
           N == Len(after)
<1>1. L \in Nat /\ N \in Nat \ {0} /\ m = after[1] /\ m \in Message
  OBVIOUS
<1>2. rest \in Seq(Message) /\ Len(rest) = N - 1 /\ \A i \in 1..(N - 1) : rest[i] = after[i + 1] /\ i + 1 \in 1..N
  BY <1>1
<1>3. /\ Append(before, m) \in Seq(Message) /\ Len(Append(before, m)) = L + 1
      /\ \A i \in 1..L : Append(before, m)[i] = before[i]
      /\ Append(before, m)[L + 1] = m
      /\ \A i \in 1..(L + 1) : i \in 1..L \/ i = L + 1
  BY <1>1
<1>4. Append(before, m) \o rest = before \o after
  <2> DEFINE a == Append(before, m) \o rest
             b == before \o after
  <2>1. a \in Seq(Message) /\ b \in Seq(Message) /\ Len(a) = L + N /\ Len(b) = L + N
    BY <1>1, <1>2, <1>3
  <2>2. ASSUME NEW i \in 1..(L + N) PROVE a[i] = b[i]
    <3>1. CASE i \in 1..L
      BY <1>1, <1>2, <1>3, <3>1
    <3>2. CASE i = L + 1
      BY <1>1, <1>2, <1>3, <3>2
    <3>3. CASE i \in (L + 2)..(L + N)
      <4>1. a[i] = rest[i - (L + 1)] /\ b[i] = after[i - L]
        BY <1>1, <1>2, <1>3, <3>3
      <4>2. i - (L + 1) \in 1..(N - 1) /\ (i - (L + 1)) + 1 = i - L
        BY <1>1, <3>3
      <4> QED
        BY <1>2, <4>1, <4>2
    <3> QED
      BY <1>1, <3>1, <3>2, <3>3
  <2> QED
    BY <2>1, <2>2, SeqEqual
<1> QED
  BY <1>1, <1>2, <1>3, <1>4

LEMMA WrittenInv == ASSUME IInv, NEW c \in Clients, Written(c) PROVE IInv'
<1>0. PICK m : m = Head(out[c])
  OBVIOUS
<1> DEFINE served == [sub[c] EXCEPT !.state = "ready", !.cursor = m.cursor]
<1>1. /\ TypeOK /\ out[c] # <<>> /\ Len(net[c]) < MaxTransit
      /\ out' = [out EXCEPT ![c] = Tail(out[c])] /\ net' = [net EXCEPT ![c] = Append(net[c], m)]
      /\ sub' = IF Live(m) THEN [sub EXCEPT ![c] = served] ELSE sub
      /\ UNCHANGED <<data, published, toServer, connected, page>>
  BY <1>0 DEF Written, IInv, Live, CursorOf
<1>2. Quiet(c) /\ Sending(c) /\ Ready(c)
  BY DEF IInv, ClientInv
<1>3. out[c] \in Seq(Message) /\ net[c] \in Seq(Message) /\ shown[c] \in Copies
  BY <1>1, SubTypes
<1> DEFINE L == Len(net[c])
           N == Len(out[c])
<1>4. /\ Append(net[c], m) \o Tail(out[c]) = net[c] \o out[c]
      /\ Append(net[c], m) \in Seq(Message) /\ Len(Append(net[c], m)) = L + 1
      /\ Tail(out[c]) \in Seq(Message) /\ Len(Tail(out[c])) = N - 1
      /\ L \in Nat /\ N \in Nat \ {0} /\ m \in Message /\ m = out[c][1]
      /\ \A i \in 1..L : Append(net[c], m)[i] = net[c][i]
      /\ Append(net[c], m)[L + 1] = m
      /\ \A i \in 1..(L + 1) : i \in 1..L \/ i = L + 1
      /\ \A i \in 1..(N - 1) : Tail(out[c])[i] = out[c][i + 1] /\ i + 1 \in 1..N
  BY <1>0, <1>1, <1>3, Moved
<1>5. /\ out' \in [Clients -> Seq(Message)] /\ net' \in [Clients -> Seq(Message)]
      /\ out'[c] = Tail(out[c]) /\ net'[c] = Append(net[c], m)
  BY <1>1, <1>4 DEF TypeOK
<1>6. Live(m) => InState(c, "sending") /\ N = 1
  <2>1. 1 \in 1..N /\ m = out[c][1]
    BY <1>4
  <2> QED
    BY <1>2, <2>1 DEF Sending
<1>7. Live(m) => m.cursor \in Cursor
  BY <1>4 DEF Live, Message
<1>8. /\ sub' \in [Clients -> Subscription \cup {None}]
      /\ Live(m) => sub'[c] # None /\ sub'[c].state = "ready" /\ sub'[c].cursor = m.cursor
      /\ ~Live(m) => sub'[c] = sub[c]
  <2>1. CASE Live(m)
    <3>1. sub[c] \in Subscription
      BY <1>1, <1>6, <2>1, SubTypes DEF InState
    <3>2. served \in Subscription /\ served.state = "ready" /\ served.cursor = m.cursor
      BY <1>7, <2>1, <3>1 DEF Subscription
    <3> HIDE DEF served
    <3> QED
      BY <1>1, <2>1, <3>2, NoneAssumption DEF TypeOK
  <2>2. CASE ~Live(m)
    BY <1>1, <2>2 DEF TypeOK
  <2> QED
    BY <2>1, <2>2
<1>9. \A d \in Clients \ {c} : SameSocket(d) /\ SamePage(d)
  BY <1>1 DEF TypeOK, SameSocket, SamePage, page
<1>10. TypeOK'
  <2>1. /\ published' \in Buckets /\ connected' \in [Clients -> BOOLEAN]
        /\ greeted' \in [Clients -> BOOLEAN] /\ viewing' \in [Clients -> BOOLEAN]
        /\ toServer' \in [Clients -> Seq(Requests)] /\ shown' \in [Clients -> Copy \cup {None}]
        /\ Len(toServer'[c]) <= MaxRequests /\ (shown'[c] # None => viewing'[c])
    BY <1>1 DEF TypeOK, Requests, page
  <2>2. Len(out'[c]) <= MaxEvents /\ Len(net'[c]) <= MaxTransit
    BY <1>1, <1>4, <1>5, Bounds DEF TypeOK
  <2> QED
    BY <1>1, <1>5, <1>8, <1>9, <2>1, <2>2, StepTypes
<1>11. Quiet(c)'
  <2>1. connected'[c]
    BY <1>1, <1>2 DEF Quiet
  <2>2. CASE ~greeted[c]
    <3>1. sub[c] = None /\ m.type = "status"
      BY <1>2, <1>4, <2>2 DEF Quiet
    <3>2. sub'[c] = None
      BY <1>8, <3>1 DEF Live
    <3>3. \A i \in 1..Len(net'[c]) : net'[c][i].type = "status"
      BY <1>2, <1>4, <1>5, <2>2, <3>1 DEF Quiet
    <3>4. \A i \in 1..Len(out'[c]) : out'[c][i].type = "status"
      BY <1>2, <1>4, <1>5, <2>2 DEF Quiet
    <3> QED
      BY <1>1, <1>2, <2>1, <2>2, <3>2, <3>3, <3>4 DEF Quiet
  <2>3. CASE greeted[c]
    BY <1>1, <2>1, <2>3 DEF Quiet, page
  <2> QED
    BY <2>2, <2>3
<1>12. Sending(c)'
  <2>1. CASE Live(m)
    <3>1. Len(out'[c]) = 0 /\ ~InState(c, "sending")'
      BY <1>4, <1>5, <1>6, <1>8, <2>1 DEF InState
    <3> QED
      BY <3>1 DEF Sending
  <2>2. CASE ~Live(m)
    <3>1. InState(c, "sending")' <=> InState(c, "sending")
      BY <1>8, <2>2 DEF InState
    <3>2. \A i \in 1..Len(out'[c]) : Live(out'[c][i]) => i = Len(out'[c]) /\ InState(c, "sending")
      BY <1>2, <1>4, <1>5 DEF Sending
    <3>3. PICK last : last = out[c][N]
      OBVIOUS
    <3>4. ASSUME InState(c, "sending")
          PROVE  /\ out'[c] # <<>> /\ out'[c][Len(out'[c])] = last /\ Live(last)
                 /\ last.cursor.time <= now' /\ Covers(last.history, last.cursor)'
      <4>1. Live(last) /\ last.cursor.time <= now /\ Covers(last.history, last.cursor)
        BY <1>2, <3>3, <3>4 DEF Sending
      <4>2. N # 1
        BY <1>4, <2>2, <3>3, <4>1
      <4>3. N \in Nat \ {0} /\ Len(out'[c]) = N - 1
        BY <1>4, <1>5
      <4>4. N - 1 \in 1..(N - 1) /\ (N - 1) + 1 = N /\ N - 1 # 0
        <5>1. \A n \in Nat \ {0} : n # 1 => n - 1 \in 1..(n - 1) /\ (n - 1) + 1 = n /\ n - 1 # 0
          OBVIOUS
        <5> HIDE DEF N
        <5> QED
          BY <4>2, <4>3, <5>1
      <4>5. out'[c][N - 1] = last
        BY <1>4, <1>5, <3>3, <4>4
      <4>6. out'[c] # <<>>
        BY <4>3, <4>4, Empty
      <4>7. last.cursor.time <= now' /\ Covers(last.history, last.cursor)'
        BY <1>1, <4>1 DEF Covers, data
      <4> QED
        BY <4>1, <4>3, <4>5, <4>6, <4>7
    <3> QED
      BY <3>1, <3>2, <3>4 DEF Sending
  <2> QED
    BY <2>1, <2>2
<1>13. Ready(c)'
  <2>1. CASE Live(m)
    <3>1. m.cursor.time <= now /\ Covers(m.history, m.cursor)
      BY <1>2, <1>4, <1>6, <2>1 DEF Sending
    <3>2. Covers(m.history, m.cursor)'
      BY <1>1, <3>1 DEF Covers, data
    <3>3. net'[c] \o out'[c] = Append(net[c], m)
      <4>1. out'[c] \in Seq(Message) /\ Len(out'[c]) = N - 1 /\ N = 1
        BY <1>4, <1>5, <1>6, <2>1
      <4>2. out'[c] = <<>>
        BY <4>1
      <4>3. net'[c] = Append(net[c], m) /\ net'[c] \in Seq(Message)
        BY <1>4, <1>5
      <4> QED
        BY <4>2, <4>3
    <3>4. shown'[c] = shown[c]
      BY <1>1 DEF page
    <3>5. Final(shown[c], Append(net[c], m)) = Applied(Final(shown[c], net[c]), m)
      BY <1>3, <1>4, FinalAppend
    <3>6. Applied(Final(shown[c], net[c]), m) = [history |-> m.history, buckets |-> m.buckets]
      BY <2>1 DEF Applied, Live
    <3>7. [history |-> m.history, buckets |-> m.buckets] # None
      <4>1. [history |-> m.history, buckets |-> m.buckets] \in Copy
        BY <1>4, <2>1 DEF Live, Message, Copy
      <4> QED
        BY <4>1, NoneAssumption
    <3>8. Final(shown'[c], net'[c] \o out'[c]).history = m.history /\ Final(shown'[c], net'[c] \o out'[c]) # None
      BY <3>3, <3>4, <3>5, <3>6, <3>7
    <3>9. m.cursor # None /\ m.cursor.time <= now'
      BY <1>1, <2>1, <3>1 DEF Live, data
    <3> QED
      BY <1>8, <2>1, <3>2, <3>8, <3>9 DEF Ready, InState
  <2>2. CASE ~Live(m)
    <3>1. shown'[c] = shown[c] /\ net'[c] \o out'[c] = net[c] \o out[c]
      BY <1>1, <1>4, <1>5 DEF page
    <3>2. sub'[c] = sub[c] /\ (Served(c)' <=> Served(c)) /\ (InState(c, "ready")' <=> InState(c, "ready"))
      BY <1>1, <1>8, <2>2 DEF Served, InState, page
    <3>3. now' = now /\ samples' = samples
      BY <1>1 DEF data
    <3> QED
      BY <1>2, <3>1, <3>2, <3>3 DEF Ready, Covers
  <2> QED
    BY <2>1, <2>2
<1>14. ASSUME NEW t \in Clocks, Recorded(samples, t), Known(c, t) PROVE Known(c, t)'
  <2>1. Carried(out'[c], t)
    BY <1>4, <1>5, <1>14 DEF Known, Carried
  <2>2. Carried(net'[c], t)
    BY <1>4, <1>5, <1>14 DEF Known, Carried
  <2> QED
    BY <1>1, <1>14, <2>1, <2>2 DEF Known, page
<1> QED
  BY <1>1, <1>9, <1>10, <1>11, <1>12, <1>13, <1>14, StepInv DEF ClientInv
\* Histories of one record merge into a history of that record.
LEMMA AppliedRecorded ==
    ASSUME TypeOK, NEW t \in Clocks, NEW copy \in Copies, NEW m \in Message,
           copy # None => Recorded(copy.history, t),
           HasHistory(m) => Recorded(m.history, t)
    PROVE  Applied(copy, m) # None => Recorded(Applied(copy, m).history, t)
<1>1. CASE m.type = "snapshot"
  BY <1>1 DEF Applied, HasHistory
<1>2. CASE m.type = "delta" /\ copy # None
  <2>1. copy \in Copy /\ copy.history \in History
    BY <1>2 DEF Copies, Copy
  <2>2. m.history \in History /\ m.replaceFrom \in Nat /\ m.cutoff \in Int
    BY <1>2, Bounds DEF Message
  <2> DEFINE merged == MergeHistory(copy.history, m.history, m.replaceFrom, m.cutoff)
  <2>4. Recorded(copy.history, t) /\ Recorded(m.history, t)
    BY <1>2 DEF HasHistory
  <2>5. \A x, y \in Sample : x.id \in DOMAIN t /\ y.id \in DOMAIN t /\ x.time = t[x.id] /\ y.time = t[y.id]
                             /\ x.time < y.time => x.id < y.id
    <3>1. recorded \in Nat /\ DOMAIN t = 1..recorded /\ now \in Nat
      BY Numbers DEF Clocks
    <3>2. \A i, j \in 1..recorded : i <= j => t[i] <= t[j]
      BY DEF Clocks
    <3>3. \A i \in 1..recorded : t[i] \in 0..now
      BY DEF Clocks
    <3> QED
      BY <3>1, <3>2, <3>3
  <2>6. (\A s \in ToSet(copy.history) : s \in Sample) /\ (\A s \in ToSet(m.history) : s \in Sample)
    BY <2>1, <2>2 DEF ToSet, History
  <2>7. \A x \in ToSet(copy.history), y \in ToSet(m.history) : x.time < y.time => x.id < y.id
    BY <2>4, <2>5, <2>6 DEF Recorded
  <2>8. InOrder(merged) /\ ToSet(merged) \subseteq ToSet(copy.history) \cup ToSet(m.history)
    <3>1. InOrder(copy.history) /\ InOrder(m.history)
      BY <2>4 DEF Recorded
    <3>2. InOrder(merged)
      BY <2>1, <2>2, <2>7, <3>1, MergeKeeps
    <3>3. \A x : x \in ToSet(merged) => x \in ToSet(copy.history) \/ x \in ToSet(m.history)
      BY <2>1, <2>2, MergeKeeps
    <3> QED
      BY <3>2, <3>3
  <2>9. Recorded(merged, t)
    BY <2>4, <2>8 DEF Recorded
  <2>10. Applied(copy, m).history = merged
    BY <1>2 DEF Applied
  <2> HIDE DEF merged
  <2> QED
    BY <2>9, <2>10
<1>3. CASE m.type = "delta" /\ copy = None
  BY <1>3 DEF Applied
<1>4. CASE m.type = "bucket"
  <2>1. CASE copy # None /\ copy.buckets # None
    <3>1. copy \in Copy
      BY <2>1 DEF Copies
    <3>2. Applied(copy, m).history = copy.history
      BY <1>4, <2>1, <3>1 DEF Applied, Copy
    <3> QED
      BY <2>1, <3>2
  <2>2. CASE ~(copy # None /\ copy.buckets # None)
    BY <1>4, <2>2 DEF Applied
  <2> QED
    BY <2>1, <2>2
<1>5. CASE m.type = "status"
  BY <1>5 DEF Applied
<1> QED
  BY <1>1, <1>2, <1>3, <1>4, <1>5 DEF Message

LEMMA TailJoined ==
    ASSUME NEW before \in Seq(Message), NEW after \in Seq(Message), before # <<>>
    PROVE  /\ before \o after \in Seq(Message) /\ before \o after # <<>>
           /\ Head(before \o after) = Head(before) /\ Tail(before \o after) = Tail(before) \o after
<1> DEFINE L == Len(before)
           N == Len(after)
<1>1. L \in Nat \ {0} /\ N \in Nat /\ Len(before \o after) = L + N /\ before \o after \in Seq(Message)
  OBVIOUS
<1>2. before \o after # <<>> /\ (before \o after)[1] = before[1]
  BY <1>1
<1> DEFINE a == Tail(before \o after)
           b == Tail(before) \o after
<1>3. a \in Seq(Message) /\ Len(a) = (L + N) - 1 /\ \A i \in 1..((L + N) - 1) : a[i] = (before \o after)[i + 1]
  BY <1>1, <1>2
<1>4. Tail(before) \in Seq(Message) /\ Len(Tail(before)) = L - 1 /\ \A i \in 1..(L - 1) : Tail(before)[i] = before[i + 1]
  BY <1>1
<1>5. /\ b \in Seq(Message) /\ Len(b) = (L - 1) + N
      /\ \A i \in 1..(L - 1) : b[i] = before[i + 1]
      /\ \A i \in L..((L - 1) + N) : b[i] = after[i - (L - 1)]
  BY <1>1, <1>4
<1>6. ASSUME NEW i \in 1..((L + N) - 1) PROVE a[i] = b[i]
  <2>1. CASE i \in 1..(L - 1)
    <3>1. i + 1 \in 1..L
      BY <1>1, <2>1
    <3>2. (before \o after)[i + 1] = before[i + 1]
      BY <1>1, <3>1
    <3> QED
      BY <1>3, <1>5, <2>1, <3>2
  <2>2. CASE i \in L..((L - 1) + N)
    <3>1. (before \o after)[i + 1] = after[(i + 1) - L] /\ (i + 1) - L = i - (L - 1)
      BY <1>1, <2>2
    <3> QED
      BY <1>3, <1>5, <2>2, <3>1
  <2> QED
    BY <1>1, <2>1, <2>2
<1>7. a = b
  BY <1>1, <1>3, <1>5, <1>6, SeqEqual
<1> QED
  BY <1>1, <1>2, <1>7

LEMMA ReceiveInv == ASSUME IInv, NEW c \in Clients, Receive(c) PROVE IInv'
<1>0. PICK m : m = Head(net[c])
  OBVIOUS
<1> DEFINE asked == Send(c, "subscribe")
<1>1. /\ TypeOK /\ net[c] # <<>> /\ Len(toServer[c]) < MaxRequests
      /\ net' = [net EXCEPT ![c] = Tail(net[c])]
      /\ greeted' = [greeted EXCEPT ![c] = greeted[c] \/ m.type = "status"]
      /\ shown' = [shown EXCEPT ![c] = IF viewing[c] THEN Applied(shown[c], m) ELSE shown[c]]
      /\ toServer' = IF Asks(c, m) THEN asked ELSE toServer
      /\ UNCHANGED <<data, published, sub, out, connected, viewing>>
  BY <1>0 DEF Receive, IInv
<1>2. Quiet(c) /\ Sending(c) /\ Ready(c)
  BY DEF IInv, ClientInv
<1>3. /\ asked \in [Clients -> Seq(Requests)] /\ Len(asked[c]) <= MaxRequests
      /\ \A d \in Clients \ {c} : asked[d] = toServer[d]
      /\ asked[c] = IF connected[c] THEN Append(toServer[c], "subscribe") ELSE toServer[c]
  BY <1>1, SendDoes DEF Requests
<1> HIDE DEF asked
<1>4. out[c] \in Seq(Message) /\ net[c] \in Seq(Message) /\ shown[c] \in Copies
  BY <1>1, SubTypes
<1> DEFINE N == Len(net[c])
<1>5. /\ Tail(net[c]) \in Seq(Message) /\ Len(Tail(net[c])) = N - 1 /\ N \in Nat \ {0}
      /\ m \in Message /\ m = net[c][1] /\ 1 \in 1..N
      /\ \A i \in 1..(N - 1) : Tail(net[c])[i] = net[c][i + 1] /\ i + 1 \in 1..N
  BY <1>0, <1>1, <1>4
<1>6. Applied(shown[c], m) \in Copies
  BY <1>4, <1>5, AppliedCopy
<1>7. connected[c] /\ (greeted[c] \/ m.type = "status")
  BY <1>1, <1>2, <1>5 DEF Quiet
<1>8. toServer \in [Clients -> Seq(Requests)] /\ Len(toServer[c]) <= MaxRequests
  BY <1>1 DEF TypeOK, Requests
<1>9. /\ net' \in [Clients -> Seq(Message)] /\ net'[c] = Tail(net[c])
      /\ greeted' \in [Clients -> BOOLEAN] /\ greeted'[c] = TRUE
      /\ shown' \in [Clients -> Copy \cup {None}]
      /\ shown'[c] = (IF viewing[c] THEN Applied(shown[c], m) ELSE shown[c])
      /\ toServer' \in [Clients -> Seq(Requests)] /\ Len(toServer'[c]) <= MaxRequests
  <2>1. net' \in [Clients -> Seq(Message)] /\ net'[c] = Tail(net[c])
    BY <1>1, <1>5 DEF TypeOK
  <2>2. greeted' \in [Clients -> BOOLEAN] /\ greeted'[c] = TRUE
    BY <1>1, <1>7 DEF TypeOK
  <2>3. /\ shown' \in [Clients -> Copy \cup {None}]
        /\ shown'[c] = (IF viewing[c] THEN Applied(shown[c], m) ELSE shown[c])
    BY <1>1, <1>6 DEF TypeOK, Copies
  <2>4. toServer' \in [Clients -> Seq(Requests)] /\ Len(toServer'[c]) <= MaxRequests
    BY <1>1, <1>3, <1>8
  <2> QED
    BY <2>1, <2>2, <2>3, <2>4
<1>10. \A d \in Clients \ {c} : SameSocket(d) /\ SamePage(d)
  BY <1>1, <1>3 DEF TypeOK, SameSocket, SamePage
<1>11. TypeOK'
  <2>1. /\ published' \in Buckets /\ sub' \in [Clients -> Subscription \cup {None}]
        /\ connected' \in [Clients -> BOOLEAN] /\ viewing' \in [Clients -> BOOLEAN]
        /\ out' \in [Clients -> Seq(Message)] /\ Len(out'[c]) <= MaxEvents
    BY <1>1 DEF TypeOK
  <2>2. Len(net'[c]) <= MaxTransit /\ (shown'[c] # None => viewing'[c])
    BY <1>1, <1>5, <1>9, Bounds DEF TypeOK
  <2> QED
    BY <1>1, <1>9, <1>10, <2>1, <2>2, StepTypes
<1>12. Quiet(c)'
  BY <1>1, <1>7, <1>9 DEF Quiet
<1>13. Sending(c)'
  BY <1>1, <1>2, SendingSame
<1>14. Ready(c)'
  <2>1. now' = now /\ samples' = samples /\ sub'[c] = sub[c] /\ out'[c] = out[c] /\ viewing'[c] = viewing[c]
    BY <1>1 DEF data
  <2>2. ASSUME Served(c)'
        PROVE  Served(c) /\ Final(shown'[c], net'[c] \o out'[c]) = Final(shown[c], net[c] \o out[c])
    <3>1. viewing[c] /\ toServer'[c] = <<>>
      BY <2>1, <2>2 DEF Served
    <3>2. ~Asks(c, m)
      <4>1. Asks(c, m) => toServer'[c] = Append(toServer[c], "subscribe")
        BY <1>1, <1>3, <1>7
      <4> QED
        BY <1>1, <3>1, <4>1, Requested
    <3>3. Served(c)
      BY <1>1, <2>1, <2>2, <3>2 DEF Served
    <3>4. shown'[c] = Applied(shown[c], m)
      BY <1>9, <3>1
    <3>5. /\ net[c] \o out[c] \in Seq(Message) /\ net[c] \o out[c] # <<>>
          /\ Head(net[c] \o out[c]) = m /\ Tail(net[c] \o out[c]) = Tail(net[c]) \o out[c]
      BY <1>0, <1>1, <1>4, TailJoined
    <3>6. Final(shown[c], net[c] \o out[c]) = Final(Applied(shown[c], m), Tail(net[c]) \o out[c])
      BY <1>4, <3>5, FinalTail
    <3> QED
      BY <1>9, <2>1, <3>3, <3>4, <3>6
  <2> QED
    BY <1>2, <2>1, <2>2 DEF Ready, InState, Covers
<1>15. ASSUME NEW t \in Clocks, Recorded(samples, t), Known(c, t) PROVE Known(c, t)'
  <2>1. Carried(out'[c], t)
    BY <1>1, <1>15 DEF Known
  <2>2. Carried(net'[c], t)
    BY <1>5, <1>9, <1>15 DEF Known, Carried
  <2>3. HasHistory(m) => Recorded(m.history, t)
    BY <1>5, <1>15 DEF Known, Carried
  <2>4. shown'[c] # None => Recorded(shown'[c].history, t)
    BY <1>1, <1>4, <1>5, <1>9, <1>15, <2>3, AppliedRecorded DEF Known
  <2> QED
    BY <2>1, <2>2, <2>4 DEF Known
<1> QED
  BY <1>1, <1>10, <1>11, <1>12, <1>13, <1>14, <1>15, StepInv DEF ClientInv

-----------------------------------------------------------------------------
(* A poll.                                                                 *)

\* The rows with the one a poll took.
Taken(sampled) == IF sampled THEN Append(samples, [id |-> recorded + 1, time |-> now]) ELSE samples

LEMMA TakenRows ==
    ASSUME TypeOK, NEW sampled \in BOOLEAN, sampled => recorded < MaxSamples
    PROVE  /\ Taken(sampled) \in History
           /\ \A s \in ToSet(Taken(sampled)) : s \in ToSet(samples) \/ s.time = now
<1>1. samples \in Seq(Sample) /\ Len(samples) \in Nat
  BY DEF TypeOK, History
<1>2. CASE sampled
  <2> DEFINE new == [id |-> recorded + 1, time |-> now]
  <2>1. new \in Sample /\ new.time = now
    BY <1>2, Numbers, Bounds DEF Sample, TypeOK
  <2>2. Taken(sampled) = Append(samples, new)
    BY <1>2 DEF Taken
  <2> HIDE DEF new
  <2>3. /\ Append(samples, new) \in Seq(Sample) /\ Len(Append(samples, new)) = Len(samples) + 1
        /\ \A i \in 1..Len(samples) : Append(samples, new)[i] = samples[i]
        /\ Append(samples, new)[Len(samples) + 1] = new
        /\ \A i \in 1..(Len(samples) + 1) : i \in 1..Len(samples) \/ i = Len(samples) + 1
    BY <1>1, <2>1
  <2>4. DOMAIN Append(samples, new) = 1..(Len(samples) + 1) /\ DOMAIN samples = 1..Len(samples)
    BY <1>1, <2>3
  <2>5. \A i \in 1..(Len(samples) + 1) :
          Append(samples, new)[i] \in ToSet(samples) \/ Append(samples, new)[i] = new
    BY <2>3, <2>4 DEF ToSet
  <2> QED
    BY <2>1, <2>2, <2>3, <2>4, <2>5 DEF ToSet, History
<1>3. CASE ~sampled
  BY <1>1, <1>3 DEF Taken, History
<1> QED
  BY <1>2, <1>3

\* The record with the row a poll took.
Longer(t, u, sampled) ==
    /\ u \in Clocks'
    /\ \A h : Recorded(h, t) => Recorded(h, u)
    /\ Recorded(samples, t) => Recorded(Taken(sampled), u)

LEMMA ClockGoesOn ==
    ASSUME TypeOK, NEW sampled \in BOOLEAN, sampled => recorded < MaxSamples, NEW t \in Clocks,
           now' = now, recorded' = IF sampled THEN recorded + 1 ELSE recorded
    PROVE  \E u : Longer(t, u, sampled)
<1>1. CASE ~sampled
  BY <1>1 DEF Longer, Clocks, Taken
<1>2. CASE sampled
  <2> DEFINE u == [i \in 1..(recorded + 1) |-> IF i = recorded + 1 THEN now ELSE t[i]]
  <2>1. /\ recorded \in Nat /\ now \in Nat /\ DOMAIN t = 1..recorded /\ recorded' = recorded + 1
        /\ \A i \in 1..recorded : t[i] \in 0..now
        /\ \A i, j \in 1..recorded : i <= j => t[i] <= t[j]
    BY <1>2, Numbers DEF Clocks
  <2>2. \A i \in 1..(recorded + 1) : i \in 1..recorded \/ i = recorded + 1
    BY <2>1
  <2>3. u \in [1..(recorded + 1) -> 0..now]
    BY <2>1, <2>2
  <2>4. \A i, j \in 1..(recorded + 1) : i <= j => u[i] <= u[j]
    <3> SUFFICES ASSUME NEW i \in 1..(recorded + 1), NEW j \in 1..(recorded + 1), i <= j PROVE u[i] <= u[j]
      OBVIOUS
    <3>1. CASE j = recorded + 1
      <4>1. u[j] = now /\ u[i] \in 0..now
        BY <2>3, <3>1
      <4> QED
        BY <2>1, <4>1
    <3>2. CASE j # recorded + 1
      <4>1. j \in 1..recorded /\ i \in 1..recorded /\ i # recorded + 1
        BY <2>1, <3>2
      <4> QED
        BY <2>1, <3>2, <4>1
    <3> QED
      BY <3>1, <3>2
  <2>5. u \in Clocks'
    BY <1>2, <2>1, <2>3, <2>4 DEF Clocks
  <2>6. DOMAIN u = 1..(recorded + 1) /\ u[recorded + 1] = now /\ \A i \in 1..recorded : i \in DOMAIN u /\ u[i] = t[i]
    BY <2>1
  <2> HIDE DEF u
  <2>7. \A h : Recorded(h, t) => Recorded(h, u)
    BY <2>1, <2>6 DEF Recorded
  <2>8. ASSUME Recorded(samples, t) PROVE Recorded(Taken(sampled), u)
    <3> DEFINE new == [id |-> recorded + 1, time |-> now]
               L == Len(samples)
    <3>1. samples \in Seq(Sample) /\ L \in Nat /\ DOMAIN samples = 1..L
      BY DEF TypeOK, History
    <3>2. new \in Sample /\ new.id = recorded + 1 /\ new.time = now
      BY <1>2, <2>1, Numbers, Bounds DEF Sample, TypeOK
    <3> HIDE DEF new
    <3>3. /\ Len(Append(samples, new)) = L + 1 /\ DOMAIN Append(samples, new) = 1..(L + 1)
          /\ \A i \in 1..L : Append(samples, new)[i] = samples[i]
          /\ Append(samples, new)[L + 1] = new
          /\ \A i \in 1..(L + 1) : i \in 1..L \/ i = L + 1
      BY <3>1, <3>2
    <3>4. \A i \in 1..L : samples[i].id \in 1..recorded /\ samples[i].time = t[samples[i].id]
      BY <2>1, <2>8, <3>1 DEF Recorded, ToSet
    <3>5. InOrder(Append(samples, new))
      <4> SUFFICES ASSUME NEW i \in 1..(L + 1), NEW j \in 1..(L + 1), i < j
                   PROVE  Append(samples, new)[i].id < Append(samples, new)[j].id
        BY <3>3 DEF InOrder
      <4>1. i \in 1..L
        BY <3>1
      <4>2. CASE j \in 1..L
        BY <2>8, <3>3, <4>1, <4>2 DEF Recorded, InOrder
      <4>3. CASE j = L + 1
        <5>1. samples[i].id < new.id
          BY <2>1, <3>2, <3>4, <4>1
        <5> QED
          BY <3>3, <4>1, <4>3, <5>1
      <4> QED
        BY <3>3, <4>2, <4>3
    <3>6. \A i \in 1..(L + 1) : Append(samples, new)[i].id \in DOMAIN u
                                /\ Append(samples, new)[i].time = u[Append(samples, new)[i].id]
      <4>1. recorded + 1 \in DOMAIN u
        BY <2>1, <2>6
      <4> QED
        BY <2>6, <3>2, <3>3, <3>4, <4>1
    <3>7. Taken(sampled) = Append(samples, new)
      BY <1>2 DEF Taken, new
    <3> QED
      BY <3>3, <3>5, <3>6, <3>7 DEF Recorded, ToSet
  <2> QED
    BY <2>5, <2>7, <2>8 DEF Longer
<1> QED
  BY <1>1, <1>2

LEMMA SinceRecorded ==
    ASSUME NEW h \in History, NEW from \in Int, NEW t, Recorded(h, t)
    PROVE  Recorded(Since(h, from), t)
BY SinceKeeps DEF Recorded

\* What a delta adds to a copy that covers a cursor, covers now.
LEMMA DeltaCovers ==
    ASSUME TypeOK, NEW history \in History, NEW cursor \in Cursor, cursor.time <= now, Covers(history, cursor),
           NEW rows \in History, \A s \in ToSet(rows) : s \in ToSet(samples) \/ s.time >= now
    PROVE  LET cutoff == now - cursor.period
               merged == MergeHistory(history, Since(rows, Larger(cutoff, cursor.time)), cursor.time, cutoff)
           IN  \A s \in ToSet(rows) : s.time >= cutoff => s \in ToSet(merged)
<1> DEFINE cutoff == now - cursor.period
           more == Since(rows, Larger(cutoff, cursor.time))
           merged == MergeHistory(history, more, cursor.time, cutoff)
<1>1. cursor.time \in Nat /\ cursor.period \in Nat /\ now \in Nat /\ cutoff \in Int
  BY CursorFields, Numbers
<1>2. \A s \in ToSet(rows) : s \in Sample /\ s.time \in Nat
  BY SampleFields DEF History, ToSet
<1>3. Larger(cutoff, cursor.time) \in Int
  BY <1>1 DEF Larger
<1>4. more \in History /\ \A s \in ToSet(rows) : s.time >= Larger(cutoff, cursor.time) => s \in ToSet(more)
  BY <1>3, SinceKeeps
<1> HIDE DEF more
<1>5. \A s : s \in ToSet(merged) <=>
        \/ s \in ToSet(history) /\ s.time >= cutoff /\ s.time < cursor.time
        \/ s \in ToSet(more) /\ s.time >= cursor.time /\ s.time >= cutoff
  <2> HIDE DEF cutoff
  <2> QED
    BY <1>1, <1>4, MergeKeeps
<1> HIDE DEF merged
<1>6. ASSUME NEW s \in ToSet(rows), s.time >= cutoff PROVE s \in ToSet(merged)
  <2>1. CASE s.time < cursor.time
    <3>1. s \in ToSet(samples)
      BY <1>1, <1>2, <2>1
    <3>2. s \in ToSet(history)
      BY <1>6, <2>1, <3>1 DEF Covers
    <3> QED
      BY <1>5, <1>6, <2>1, <3>2
  <2>2. CASE s.time >= cursor.time
    <3>1. s.time >= Larger(cutoff, cursor.time)
      BY <1>6, <2>2 DEF Larger
    <3> QED
      BY <1>4, <1>5, <1>6, <2>2, <3>1
  <2> QED
    BY <1>1, <1>2, <2>1, <2>2
<1> QED
  BY <1>6 DEF merged, more

Bucket == [type : {"bucket"}, buckets : 0..MaxUptime]

\* What a poll sends to a subscription that is ready.
Sent(c, rows, uptimes) ==
    <<Delta(c, rows, uptimes, published = None)>>
        \o IF published \notin {None, uptimes} THEN <<[type |-> "bucket", buckets |-> uptimes]>> ELSE <<>>

Outdated(c) == InState(c, "ready") /\ sub[c].cursor.period # access
Current(c) == InState(c, "ready") /\ sub[c].cursor.period = access

Overrun(c) == sub'[c] = None /\ out'[c] = <<>> /\ net'[c] = <<>> /\ toServer'[c] = <<>> /\ connected'[c] = FALSE
Restarted(c) ==
    /\ sub'[c] = [sub[c] EXCEPT !.state = "queued", !.first = FALSE]
    /\ out'[c] = out[c] /\ net'[c] = net[c] /\ toServer'[c] = toServer[c] /\ connected'[c] = connected[c]
Updated(c, sent) ==
    /\ sub'[c] = [sub[c] EXCEPT !.cursor.time = now]
    /\ out'[c] = out[c] \o sent
    /\ net'[c] = net[c] /\ toServer'[c] = toServer[c] /\ connected'[c] = connected[c]

\* Each client is closed, restarted, updated or left alone.
LEMMA PublishDoes ==
    ASSUME TypeOK, NEW rows, NEW uptimes \in 0..MaxUptime, Publish(rows, uptimes)
    PROVE  /\ \A c \in Clients :
                \/ Overrun(c)
                \/ Outdated(c) /\ Restarted(c)
                \/ Current(c) /\ ~Full(out[c], Sent(c, rows, uptimes)) /\ Updated(c, Sent(c, rows, uptimes))
                \/ ~InState(c, "ready") /\ SameSocket(c)
           /\ published' \in Buckets
           /\ sub' = [c \in Clients |-> sub'[c]] /\ out' = [c \in Clients |-> out'[c]]
           /\ net' = [c \in Clients |-> net'[c]] /\ toServer' = [c \in Clients |-> toServer'[c]]
           /\ connected' = [c \in Clients |-> connected'[c]]
<1> DEFINE ready == {c \in Clients : sub[c] # None /\ sub[c].state = "ready"}
           outdated == {c \in ready : sub[c].cursor.period # access}
           changed == published \notin {None, uptimes}
           sent == [c \in ready \ outdated |->
                      <<Delta(c, rows, uptimes, published = None)>>
                          \o IF changed THEN <<[type |-> "bucket", buckets |-> uptimes]>> ELSE <<>>]
           full == {c \in ready \ outdated : Full(out[c], sent[c])}
           served == ready \ (outdated \cup full)
<1>1. /\ Closing(full)
      /\ out' = [c \in Clients |->
                  IF c \in full THEN <<>> ELSE IF c \in served THEN out[c] \o sent[c] ELSE out[c]]
      /\ sub' = [c \in Clients |->
                  IF c \in full THEN None
                  ELSE IF c \in outdated THEN [sub[c] EXCEPT !.state = "queued", !.first = FALSE]
                  ELSE IF c \in served THEN [sub[c] EXCEPT !.cursor.time = now]
                  ELSE sub[c]]
      /\ published' = IF ready = {} THEN None ELSE Released(sub', uptimes)
  BY DEF Publish
<1>2. \A c \in Clients : /\ c \in ready <=> InState(c, "ready")
                         /\ c \in outdated <=> Outdated(c)
                         /\ c \in ready \ outdated <=> Current(c)
  BY DEF InState, Outdated, Current
<1>3. \A c \in ready \ outdated : sent[c] = Sent(c, rows, uptimes)
  BY DEF Sent
<1> HIDE DEF ready, sent
<1>4. published' \in Buckets
  <2>1. uptimes \in Buckets /\ None \in Buckets
    BY DEF Buckets
  <2> QED
    BY <1>1, <2>1, ReleasedType
<1>5. /\ connected' = [c \in Clients |-> connected[c] /\ c \notin full]
      /\ net' = [c \in Clients |-> IF c \in full THEN <<>> ELSE net[c]]
      /\ toServer' = [c \in Clients |-> IF c \in full THEN <<>> ELSE toServer[c]]
  BY <1>1 DEF Closing
<1>6. ASSUME NEW c \in Clients
      PROVE  \/ Overrun(c)
             \/ Outdated(c) /\ Restarted(c)
             \/ Current(c) /\ ~Full(out[c], Sent(c, rows, uptimes)) /\ Updated(c, Sent(c, rows, uptimes))
             \/ ~InState(c, "ready") /\ SameSocket(c)
  <2>0. connected[c] \in BOOLEAN
    BY DEF TypeOK
  <2>1. CASE c \in full
    BY <1>1, <1>5, <2>1 DEF Overrun
  <2>2. CASE c \notin full
    <3>1. net'[c] = net[c] /\ toServer'[c] = toServer[c] /\ connected'[c] = connected[c]
      <4>1. net'[c] = net[c] /\ toServer'[c] = toServer[c] /\ connected'[c] = (connected[c] /\ c \notin full)
        BY <1>5, <2>2
      <4> QED
        BY <2>0, <2>2, <4>1
    <3>2. CASE c \in outdated
      BY <1>1, <1>2, <2>2, <3>1, <3>2 DEF Restarted
    <3>3. CASE c \in ready \ outdated
      <4>1. ~Full(out[c], Sent(c, rows, uptimes))
        BY <1>3, <2>2, <3>3
      <4>2. c \in served
        BY <2>2, <3>3
      <4> QED
        BY <1>1, <1>2, <1>3, <2>2, <3>1, <3>3, <4>1, <4>2 DEF Updated
    <3>4. CASE c \notin ready
      BY <1>1, <1>2, <2>2, <3>1, <3>4 DEF SameSocket
    <3> QED
      BY <3>2, <3>3, <3>4
  <2> QED
    BY <2>1, <2>2
<1>7. /\ sub' = [c \in Clients |-> sub'[c]] /\ out' = [c \in Clients |-> out'[c]]
      /\ net' = [c \in Clients |-> net'[c]] /\ toServer' = [c \in Clients |-> toServer'[c]]
      /\ connected' = [c \in Clients |-> connected'[c]]
  BY <1>1, <1>5
<1> QED
  BY <1>4, <1>6, <1>7

\* What is sent is a delta from the cursor on, and the bucket when it changed.
LEMMA SentIs ==
    ASSUME TypeOK, access # None, NEW rows \in History, NEW uptimes \in 0..MaxUptime,
           NEW c \in Clients, InState(c, "ready"), sub[c].cursor \in Cursor
    PROVE  \E d \in Message : \E more \in {<<>>} \cup {<<b>> : b \in Bucket} :
             /\ Sent(c, rows, uptimes) = <<d>> \o more
             /\ d.type = "delta" /\ d.replaceFrom = sub[c].cursor.time /\ d.cutoff = now - access
             /\ d.history = Since(rows, Larger(now - access, sub[c].cursor.time))
<1>0. PICK d : d = Delta(c, rows, uptimes, published = None)
  OBVIOUS
<1>1. /\ sub[c].cursor.time \in 0..MaxTime /\ now - access \in Int
      /\ Larger(now - access, sub[c].cursor.time) \in Int
  BY CursorFields, Numbers DEF Larger
<1>2. Since(rows, Larger(now - access, sub[c].cursor.time)) \in History
  BY <1>1, SinceKeeps
<1>3. d.type = "delta" /\ d.replaceFrom = sub[c].cursor.time /\ d.cutoff = now - access
      /\ d.history = Since(rows, Larger(now - access, sub[c].cursor.time))
  BY <1>0 DEF Delta
<1>4. d \in Message
  <2>1. uptimes \in Buckets /\ None \in Buckets
    BY DEF Buckets
  <2> QED
    BY <1>0, <1>1, <1>2, <2>1 DEF Delta, Message
<1> DEFINE b == [type |-> "bucket", buckets |-> uptimes]
<1>5. b \in Bucket
  BY DEF Bucket
<1>6. Sent(c, rows, uptimes) = <<d>> \o <<b>> \/ Sent(c, rows, uptimes) = <<d>> \o <<>>
  BY <1>0 DEF Sent
<1> HIDE DEF b
<1> QED
  BY <1>3, <1>4, <1>5, <1>6

\* A delta and perhaps a bucket come after everything that is on its way.
LEMMA Joined ==
    ASSUME NEW copy \in Copies, NEW before \in Seq(Message), NEW after \in Seq(Message), NEW d \in Message,
           NEW more \in {<<>>} \cup {<<b>> : b \in Bucket}, d.type = "delta", Final(copy, before \o after) # None
    PROVE  /\ Final(copy, before \o (after \o (<<d>> \o more))) # None
           /\ Final(copy, before \o (after \o (<<d>> \o more))).history =
                MergeHistory(Final(copy, before \o after).history, d.history, d.replaceFrom, d.cutoff)
<1> DEFINE way == before \o after
           first == Applied(Final(copy, way), d)
<1>1. way \in Seq(Message) /\ Append(way, d) \in Seq(Message) /\ <<d>> \in Seq(Message)
  OBVIOUS
<1>2. before \o (after \o <<d>>) = Append(way, d)
  <2>1. before \o (after \o <<d>>) = way \o <<d>>
    BY <1>1, ConcatAssociative
  <2> HIDE DEF way
  <2>2. way \o <<d>> = Append(way, d)
    BY <1>1, AppendIsConcat
  <2> QED
    BY <2>1, <2>2
<1> HIDE DEF way
<1>3. Final(copy, Append(way, d)) = first
  BY <1>1, FinalAppend
<1>4. Final(copy, way) \in Copies /\ first \in Copies
  BY <1>1, FinalCopy, AppliedCopy
<1>5. first.history = MergeHistory(Final(copy, way).history, d.history, d.replaceFrom, d.cutoff) /\ first # None
  <2>1. Final(copy, way) # None
    BY DEF way
  <2>2. first = [history |-> MergeHistory(Final(copy, way).history, d.history, d.replaceFrom, d.cutoff),
                 buckets |-> IF d.buckets = None THEN Final(copy, way).buckets ELSE d.buckets]
    BY <2>1 DEF Applied
  <2>3. first # None
    <3>1. Final(copy, way) \in Copy
      BY <1>4, <2>1 DEF Copies
    <3>2. first \in Copy
      <4>1. /\ Final(copy, way).history \in History /\ Final(copy, way).buckets \in Buckets
            /\ d.history \in History /\ d.buckets \in Buckets /\ d.replaceFrom \in Nat /\ d.cutoff \in Int
        BY <3>1, Bounds DEF Copy, Message
      <4>2. MergeHistory(Final(copy, way).history, d.history, d.replaceFrom, d.cutoff) \in History
        BY <4>1, MergeKeeps
      <4> QED
        BY <2>2, <4>1, <4>2 DEF Copy
    <3> QED
      BY <3>2, NoneAssumption
  <2> QED
    BY <2>2, <2>3
<1> HIDE DEF first
<1>6. CASE more = <<>>
  <2>1. <<d>> \o more = <<d>>
    BY <1>6
  <2> QED
    BY <1>2, <1>3, <1>5, <2>1 DEF way
<1>7. CASE more # <<>>
  <2>1. PICK b \in Bucket : more = <<b>>
    BY <1>7
  <2>2. b \in Message /\ b.type = "bucket" /\ b.buckets \in Buckets
    BY DEF Bucket, Message, Buckets
  <2>3. before \o (after \o (<<d>> \o more)) = Append(Append(way, d), b)
    <3>1. <<b>> \in Seq(Message) /\ after \o <<d>> \in Seq(Message)
      BY <1>1, <2>2
    <3>2. after \o (<<d>> \o <<b>>) = (after \o <<d>>) \o <<b>>
      BY <1>1, <3>1, ConcatAssociative
    <3>3. before \o ((after \o <<d>>) \o <<b>>) = (before \o (after \o <<d>>)) \o <<b>>
      BY <1>1, <3>1, ConcatAssociative
    <3>4. Append(way, d) \o <<b>> = Append(Append(way, d), b)
      <4> DEFINE w == Append(way, d)
      <4>1. w \in Seq(Message)
        BY <1>1
      <4> HIDE DEF w
      <4>2. w \o <<b>> = Append(w, b)
        BY <2>2, <4>1, AppendIsConcat
      <4> QED
        BY <4>2 DEF w
    <3> QED
      BY <1>2, <2>1, <3>2, <3>3, <3>4
  <2>4. Final(copy, Append(Append(way, d), b)) = Applied(first, b)
    BY <1>1, <1>3, <2>2, FinalAppend
  <2>5. Applied(first, b) # None /\ Applied(first, b).history = first.history
    <3>1. first \in Copy
      BY <1>4, <1>5 DEF Copies
    <3>2. Applied(first, b) = first \/ Applied(first, b) = [first EXCEPT !.buckets = b.buckets]
      BY <2>2 DEF Applied
    <3>3. [first EXCEPT !.buckets = b.buckets] \in Copy /\ [first EXCEPT !.buckets = b.buckets].history = first.history
      BY <2>2, <3>1 DEF Copy
    <3> QED
      BY <3>1, <3>2, <3>3, NoneAssumption
  <2> QED
    BY <1>5, <2>3, <2>4, <2>5 DEF way
<1> QED
  BY <1>6, <1>7

LEMMA SentTypes ==
    ASSUME NEW before \in Seq(Message), NEW d \in Message, NEW more \in {<<>>} \cup {<<b>> : b \in Bucket},
           d.type = "delta"
    PROVE  /\ <<d>> \o more \in Seq(Message) /\ before \o (<<d>> \o more) \in Seq(Message)
           /\ \A i \in 1..Len(before \o (<<d>> \o more)) :
                \/ i \in 1..Len(before) /\ (before \o (<<d>> \o more))[i] = before[i]
                \/ (before \o (<<d>> \o more))[i] = d
                \/ (before \o (<<d>> \o more))[i].type = "bucket"
<1>1. <<d>> \in Seq(Message) /\ Len(<<d>>) = 1 /\ <<d>>[1] = d
  OBVIOUS
<1>2. more \in Seq(Message) /\ Len(more) \in 0..1 /\ \A i \in 1..Len(more) : more[i].type = "bucket"
  <2>1. CASE more = <<>>
    BY <2>1
  <2>2. CASE more # <<>>
    <3>1. PICK b \in Bucket : more = <<b>>
      BY <2>2
    <3>2. b \in Message /\ b.type = "bucket"
      BY DEF Bucket, Message
    <3>3. <<b>> \in Seq(Message) /\ Len(<<b>>) = 1 /\ <<b>>[1] = b
      BY <3>2
    <3> QED
      BY <3>1, <3>2, <3>3
  <2> QED
    BY <2>1, <2>2
<1>3. PICK sent : sent = <<d>> \o more
  OBVIOUS
<1>4. /\ sent \in Seq(Message) /\ Len(sent) \in Nat
      /\ \A i \in 1..Len(sent) : sent[i] = d \/ sent[i].type = "bucket"
  <2>1. /\ sent \in Seq(Message) /\ Len(sent) = 1 + Len(more) /\ Len(more) \in Nat
        /\ sent[1] = d /\ \A i \in 2..(1 + Len(more)) : sent[i] = more[i - 1] /\ i - 1 \in 1..Len(more)
    BY <1>1, <1>2, <1>3
  <2>2. \A i \in 1..(1 + Len(more)) : i = 1 \/ i \in 2..(1 + Len(more))
    BY <2>1
  <2> QED
    BY <1>2, <2>1, <2>2
<1>5. /\ before \o sent \in Seq(Message) /\ Len(before \o sent) = Len(before) + Len(sent) /\ Len(before) \in Nat
      /\ \A i \in 1..Len(before) : (before \o sent)[i] = before[i]
      /\ \A i \in (Len(before) + 1)..(Len(before) + Len(sent)) :
            (before \o sent)[i] = sent[i - Len(before)] /\ i - Len(before) \in 1..Len(sent)
  BY <1>4
<1>6. \A i \in 1..(Len(before) + Len(sent)) : i \in 1..Len(before) \/ i \in (Len(before) + 1)..(Len(before) + Len(sent))
  BY <1>4, <1>5
<1>7. \A i \in 1..Len(before \o sent) :
        \/ i \in 1..Len(before) /\ (before \o sent)[i] = before[i]
        \/ (before \o sent)[i] = d
        \/ (before \o sent)[i].type = "bucket"
  BY <1>4, <1>5, <1>6
<1> QED
  BY <1>3, <1>4, <1>5, <1>7

\* A poll, as far as one client is concerned.
Polled(rows, uptimes) ==
    /\ access # None /\ rows \in History /\ uptimes \in 0..MaxUptime
    /\ \A s \in ToSet(rows) : s \in ToSet(samples) \/ s.time >= now
    /\ now' = now /\ samples' = rows /\ UNCHANGED page
    /\ Publish(rows, uptimes)

\* What a client that is ready has: a cursor of the past, an open socket, no snapshot on the way.
LEMMA ReadyClient ==
    ASSUME IInv, NEW c \in Clients, InState(c, "ready")
    PROVE  /\ sub[c] \in Subscription /\ sub[c].cursor \in Cursor /\ sub[c].cursor.time <= now
           /\ connected[c] /\ greeted[c]
           /\ \A i \in 1..Len(out[c]) : ~Live(out[c][i])
<1>1. Quiet(c) /\ Sending(c) /\ Ready(c) /\ TypeOK /\ sub[c] # None /\ sub[c].state = "ready"
  BY DEF IInv, ClientInv, InState
<1>2. sub[c] \in Subscription /\ sub[c].cursor \in Cursor /\ sub[c].cursor.time <= now
  BY <1>1, SubTypes DEF Ready
<1>3. connected[c] /\ greeted[c]
  BY <1>1 DEF Quiet
<1>4. ~InState(c, "sending")
  BY <1>1 DEF InState
<1>5. \A i \in 1..Len(out[c]) : ~Live(out[c][i])
  BY <1>1, <1>4 DEF Sending
<1> QED
  BY <1>2, <1>3, <1>5

LEMMA RestartedClient ==
    ASSUME IInv, NEW c \in Clients, Outdated(c), Restarted(c), SamePage(c)
    PROVE  sub'[c] \in Subscription /\ ClientInv(c)'
<1>1. /\ sub[c] \in Subscription /\ connected[c] /\ greeted[c]
      /\ \A i \in 1..Len(out[c]) : ~Live(out[c][i])
  BY ReadyClient DEF Outdated
<1>2. sub'[c] \in Subscription /\ sub'[c].state = "queued"
  BY <1>1 DEF Restarted, Subscription
<1>3. ~InState(c, "ready")' /\ ~InState(c, "sending")'
  BY <1>2 DEF InState
<1>4. Quiet(c)' /\ Sending(c)'
  BY <1>1, <1>3 DEF Quiet, Sending, Live, Restarted, SamePage
<1>5. Ready(c)'
  BY <1>3 DEF Ready, Served, InState
<1> QED
  BY <1>2, <1>4, <1>5 DEF ClientInv

LEMMA UpdatedClient ==
    ASSUME IInv, NEW rows, NEW uptimes, Polled(rows, uptimes), NEW c \in Clients, Current(c),
           Updated(c, Sent(c, rows, uptimes)), SamePage(c)
    PROVE  /\ sub'[c] \in Subscription /\ ClientInv(c)'
           /\ Sent(c, rows, uptimes) \in Seq(Message)
           /\ \A t : Known(c, t) /\ Recorded(rows, t) => Known(c, t)'
<1>1. /\ sub[c] \in Subscription /\ sub[c].cursor \in Cursor /\ sub[c].cursor.time <= now
      /\ connected[c] /\ greeted[c]
      /\ \A i \in 1..Len(out[c]) : ~Live(out[c][i])
  BY ReadyClient DEF Current
<1>2. TypeOK /\ access # None /\ rows \in History /\ uptimes \in 0..MaxUptime /\ InState(c, "ready") /\ sub[c].cursor.period = access
  BY DEF IInv, Polled, Current
<1>3. PICK d \in Message : \E more \in {<<>>} \cup {<<b>> : b \in Bucket} :
        /\ Sent(c, rows, uptimes) = <<d>> \o more
        /\ d.type = "delta" /\ d.replaceFrom = sub[c].cursor.time /\ d.cutoff = now - access
        /\ d.history = Since(rows, Larger(now - access, sub[c].cursor.time))
  BY <1>1, <1>2, SentIs
<1>4. PICK more \in {<<>>} \cup {<<b>> : b \in Bucket} : Sent(c, rows, uptimes) = <<d>> \o more
  BY <1>3
<1>5. /\ d.type = "delta" /\ d.replaceFrom = sub[c].cursor.time /\ d.cutoff = now - access
      /\ d.history = Since(rows, Larger(now - access, sub[c].cursor.time))
  BY <1>3
<1>6. out[c] \in Seq(Message) /\ net[c] \in Seq(Message) /\ shown[c] \in Copies
  BY <1>2, SubTypes
<1>7. /\ <<d>> \o more \in Seq(Message) /\ out'[c] = out[c] \o (<<d>> \o more) /\ out'[c] \in Seq(Message)
      /\ \A i \in 1..Len(out'[c]) :
           \/ i \in 1..Len(out[c]) /\ out'[c][i] = out[c][i]
           \/ out'[c][i] = d
           \/ out'[c][i].type = "bucket"
  <2>1. out'[c] = out[c] \o (<<d>> \o more)
    BY <1>4 DEF Updated
  <2>2. PICK before : before = out[c]
    OBVIOUS
  <2>3. PICK after : after = before \o (<<d>> \o more)
    OBVIOUS
  <2>4. before \in Seq(Message)
    BY <1>6, <2>2
  <2>5. /\ <<d>> \o more \in Seq(Message) /\ after \in Seq(Message)
        /\ \A i \in 1..Len(after) :
             \/ i \in 1..Len(before) /\ after[i] = before[i]
             \/ after[i] = d
             \/ after[i].type = "bucket"
    BY <1>5, <2>3, <2>4, SentTypes
  <2>6. out'[c] = after
    BY <2>1, <2>2, <2>3
  <2> QED
    BY <2>1, <2>2, <2>5, <2>6
<1>8. PICK cursor : cursor = [sub[c].cursor EXCEPT !.time = now]
  OBVIOUS
<1>9. /\ now \in 0..MaxTime /\ now \in Nat /\ cursor \in Cursor /\ cursor.time = now /\ cursor.period = access
      /\ sub[c].cursor.period = access
  BY <1>1, <1>2, <1>8, Numbers DEF Cursor, TypeOK
<1>10. sub'[c] = [sub[c] EXCEPT !.cursor = cursor]
  BY <1>8 DEF Updated
<1>11. sub'[c] \in Subscription /\ sub'[c].state = "ready" /\ sub'[c].cursor = cursor /\ sub'[c] # None
  <2>1. sub[c].state = "ready"
    BY <1>2 DEF InState
  <2>2. sub'[c] \in Subscription /\ sub'[c].state = "ready" /\ sub'[c].cursor = cursor
    BY <1>1, <1>9, <1>10, <2>1 DEF Subscription
  <2> QED
    BY <2>2, NoneAssumption
<1>12. net'[c] = net[c] /\ toServer'[c] = toServer[c] /\ connected'[c] = connected[c]
  BY DEF Updated
<1>13. Quiet(c)'
  BY <1>1, <1>12 DEF Quiet, SamePage
<1>14. Sending(c)'
  <2>1. ~InState(c, "sending")'
    BY <1>11 DEF InState
  <2>2. \A i \in 1..Len(out'[c]) : ~Live(out'[c][i])
    BY <1>1, <1>5, <1>7 DEF Live
  <2> QED
    BY <2>1, <2>2 DEF Sending
<1>15. Ready(c)'
  <2>1. cursor # None /\ cursor.time <= now'
    BY <1>9, NoneAssumption DEF Polled
  <2>2. ASSUME Served(c)'
        PROVE  /\ Final(shown'[c], net'[c] \o out'[c]) # None
               /\ Covers(Final(shown[c], net[c] \o out[c]).history, sub[c].cursor)'
    <3>1. Served(c)
      BY <1>2, <1>12, <2>2 DEF Served, InState, SamePage
    <3>2. PICK before : before = Final(shown[c], net[c] \o out[c])
      OBVIOUS
    <3>3. before # None /\ Covers(before.history, sub[c].cursor)
      BY <3>1, <3>2 DEF IInv, ClientInv, Ready
    <3>4. before.history \in History
      <4>1. net[c] \o out[c] \in Seq(Message)
        BY <1>6
      <4>2. before \in Copy
        BY <1>6, <3>2, <3>3, <4>1, FinalCopy DEF Copies
      <4> QED
        BY <4>2 DEF Copy
    <3>5. PICK after : after = Final(shown'[c], net'[c] \o out'[c])
      OBVIOUS
    <3>6. after # None /\ after.history = MergeHistory(before.history, d.history, d.replaceFrom, d.cutoff)
      <4>1. after = Final(shown[c], net[c] \o (out[c] \o (<<d>> \o more)))
        BY <1>7, <1>12, <3>5 DEF SamePage
      <4> QED
        BY <1>5, <1>6, <3>2, <3>3, <4>1, Joined
    <3>7. \A s \in ToSet(rows) : s.time >= now - access => s \in ToSet(after.history)
      <4>1. \A s \in ToSet(rows) : s \in ToSet(samples) \/ s.time >= now
        BY DEF Polled
      <4>2. PICK old : old = sub[c].cursor
        OBVIOUS
      <4>3. PICK history : history = before.history
        OBVIOUS
      <4>4. old \in Cursor /\ old.time <= now /\ old.period = access /\ Covers(history, old) /\ history \in History
        BY <1>1, <1>9, <3>3, <3>4, <4>2, <4>3
      <4>5. after.history = MergeHistory(history, Since(rows, Larger(now - old.period, old.time)), old.time, now - old.period)
        BY <1>5, <3>6, <4>2, <4>3, <4>4
      <4> QED
        BY <1>2, <4>1, <4>4, <4>5, DeltaCovers
    <3>8. Covers(Final(shown[c], net[c] \o out[c]).history, sub[c].cursor)'
      BY <1>9, <1>11, <3>5, <3>7 DEF Covers, Polled
    <3> QED
      BY <3>5, <3>6, <3>8
  <2> QED
    BY <1>11, <2>1, <2>2 DEF Ready, InState
<1>16. ASSUME NEW t, Known(c, t), Recorded(rows, t) PROVE Known(c, t)'
  <2>1. Larger(now - access, sub[c].cursor.time) \in Int
    BY <1>1, <1>2, CursorFields, Numbers DEF Larger
  <2>2. Recorded(d.history, t)
    BY <1>2, <1>5, <1>16, <2>1, SinceRecorded
  <2>3. Carried(out'[c], t)
    BY <1>7, <1>16, <2>2 DEF Known, Carried, HasHistory
  <2> QED
    BY <1>12, <1>16, <2>3 DEF Known, SamePage
<1> QED
  BY <1>4, <1>7, <1>11, <1>13, <1>14, <1>15, <1>16 DEF ClientInv

\* Every client keeps its part of the invariant, whatever the poll does to it.
LEMMA PolledClient ==
    ASSUME IInv, NEW rows, NEW uptimes, Polled(rows, uptimes), RowsGoOn, NEW c \in Clients
    PROVE  /\ ClientInv(c)'
           /\ sub'[c] \in Subscription \cup {None} /\ connected'[c] \in BOOLEAN
           /\ out'[c] \in Seq(Message) /\ net'[c] \in Seq(Message) /\ toServer'[c] \in Seq(Requests)
           /\ Len(out'[c]) <= MaxEvents /\ Len(net'[c]) <= MaxTransit /\ Len(toServer'[c]) <= MaxRequests
           /\ \A t : Known(c, t) /\ Recorded(rows, t) => Known(c, t)'
<1>1. TypeOK /\ SamePage(c) /\ rows \in History /\ uptimes \in 0..MaxUptime /\ Publish(rows, uptimes)
  BY DEF Polled, SamePage, page, IInv
<1>2. \/ Overrun(c)
      \/ Outdated(c) /\ Restarted(c)
      \/ Current(c) /\ ~Full(out[c], Sent(c, rows, uptimes)) /\ Updated(c, Sent(c, rows, uptimes))
      \/ ~InState(c, "ready") /\ SameSocket(c)
  BY <1>1, PublishDoes
<1>3. /\ sub[c] \in Subscription \cup {None} /\ connected[c] \in BOOLEAN
      /\ out[c] \in Seq(Message) /\ net[c] \in Seq(Message) /\ toServer[c] \in Seq(Requests)
      /\ Len(out[c]) <= MaxEvents /\ Len(net[c]) <= MaxTransit /\ Len(toServer[c]) <= MaxRequests
  BY <1>1 DEF TypeOK, Requests
<1>4. CASE Overrun(c)
  <2>1. sub'[c] = None /\ out'[c] = <<>> /\ net'[c] = <<>> /\ toServer'[c] = <<>> /\ connected'[c] = FALSE
    BY <1>4 DEF Overrun
  <2>2. ClientInv(c)'
    BY <2>1, ClosedClient
  <2>3. \A t : Known(c, t) => Known(c, t)'
    BY <1>1, <2>1, KnownEmpty DEF SamePage
  <2>4. <<>> \in Seq(Requests) /\ <<>> \in Seq(Message) /\ Len(<<>>) <= MaxEvents /\ Len(<<>>) <= MaxTransit /\ Len(<<>>) <= MaxRequests
    BY Empty, Bounds
  <2> QED
    BY <2>1, <2>2, <2>3, <2>4
<1>5. CASE Outdated(c) /\ Restarted(c)
  <2>1. sub'[c] \in Subscription /\ ClientInv(c)'
    BY <1>1, <1>5, RestartedClient
  <2>2. \A t : Known(c, t) => Known(c, t)'
    BY <1>1, <1>5 DEF Known, Restarted, SamePage
  <2> QED
    BY <1>3, <1>5, <2>1, <2>2 DEF Restarted
<1>6. CASE Current(c) /\ ~Full(out[c], Sent(c, rows, uptimes)) /\ Updated(c, Sent(c, rows, uptimes))
  <2>1. /\ sub'[c] \in Subscription /\ ClientInv(c)'
        /\ Sent(c, rows, uptimes) \in Seq(Message)
        /\ \A t : Known(c, t) /\ Recorded(rows, t) => Known(c, t)'
    BY <1>1, <1>6, UpdatedClient
  <2>2. out'[c] \in Seq(Message) /\ Len(out'[c]) <= MaxEvents
    <3>1. PICK more : more = Sent(c, rows, uptimes)
      OBVIOUS
    <3>2. out[c] \o more \in Seq(Message) /\ Len(out[c] \o more) <= MaxEvents
      BY <1>1, <1>6, <2>1, <3>1, FullDoes
    <3> QED
      BY <1>6, <3>1, <3>2 DEF Updated
  <2> QED
    BY <1>3, <1>6, <2>1, <2>2 DEF Updated
<1>7. CASE SameSocket(c)
  <2>1. ClientInv(c)'
    BY <1>1, <1>7, ClientFrame DEF IInv
  <2>2. \A t : Known(c, t) => Known(c, t)'
    BY <1>1, <1>7 DEF Known, SameSocket, SamePage
  <2> QED
    BY <1>3, <1>7, <2>1, <2>2 DEF SameSocket
<1> QED
  BY <1>2, <1>4, <1>5, <1>6, <1>7

LEMMA PollInv == ASSUME IInv, NEW sampled \in BOOLEAN, NEW observed \in BOOLEAN, Poll(sampled, observed) PROVE IInv'
<1>0. PICK rows : rows = Since(Taken(sampled), now - access)
  OBVIOUS
<1> DEFINE uptimes == IF observed THEN uptime + 1 ELSE uptime
<1>1. /\ TypeOK /\ access # None /\ (sampled => recorded < MaxSamples) /\ (observed => uptime < MaxUptime)
      /\ samples' = rows /\ recorded' = (IF sampled THEN recorded + 1 ELSE recorded)
      /\ uptime' = uptimes /\ usage' = TRUE /\ Publish(rows, uptimes)
      /\ UNCHANGED <<now, access, changes, page>>
  BY <1>0 DEF Poll, Taken, IInv
<1>2. now \in Nat /\ access \in Nat /\ recorded \in Nat /\ uptime \in Nat /\ now - access \in Int
  BY <1>1, Numbers
<1>3. uptimes \in 0..MaxUptime /\ recorded' \in 0..MaxSamples
  BY <1>1, Bounds DEF TypeOK
<1> HIDE DEF uptimes
<1>4. /\ Taken(sampled) \in History
      /\ \A s \in ToSet(Taken(sampled)) : s \in ToSet(samples) \/ s.time = now
  BY <1>1, TakenRows
<1>5. rows \in History /\ \A s \in ToSet(rows) : s \in ToSet(samples) \/ s.time = now
  BY <1>0, <1>2, <1>4, SinceKeeps
<1>6. Polled(rows, uptimes)
  BY <1>1, <1>2, <1>3, <1>5 DEF Polled
<1>7. RowsGoOn
  BY <1>1, <1>2, <1>5 DEF RowsGoOn
<1>8. \A c \in Clients :
        /\ ClientInv(c)'
        /\ sub'[c] \in Subscription \cup {None} /\ connected'[c] \in BOOLEAN
        /\ out'[c] \in Seq(Message) /\ net'[c] \in Seq(Message) /\ toServer'[c] \in Seq(Requests)
        /\ Len(out'[c]) <= MaxEvents /\ Len(net'[c]) <= MaxTransit /\ Len(toServer'[c]) <= MaxRequests
        /\ \A t : Known(c, t) /\ Recorded(rows, t) => Known(c, t)'
  BY <1>6, <1>7, PolledClient
<1>9. TypeOK'
  <2>1. /\ published' \in Buckets
        /\ sub' = [c \in Clients |-> sub'[c]] /\ out' = [c \in Clients |-> out'[c]]
        /\ net' = [c \in Clients |-> net'[c]] /\ toServer' = [c \in Clients |-> toServer'[c]]
        /\ connected' = [c \in Clients |-> connected'[c]]
    BY <1>1, <1>3, PublishDoes
  <2>2. /\ sub' \in [Clients -> Subscription \cup {None}] /\ connected' \in [Clients -> BOOLEAN]
        /\ out' \in [Clients -> Seq(Message)] /\ net' \in [Clients -> Seq(Message)]
        /\ toServer' \in [Clients -> Seq(Requests)]
    BY <1>8, <2>1
  <2>3. /\ greeted' \in [Clients -> BOOLEAN] /\ viewing' \in [Clients -> BOOLEAN]
        /\ shown' \in [Clients -> Copy \cup {None}] /\ \A c \in Clients : shown'[c] # None => viewing'[c]
    BY <1>1 DEF TypeOK, page
  <2>4. /\ now' \in 0..MaxTime /\ recorded' \in 0..MaxSamples /\ uptime' \in 0..MaxUptime
        /\ samples' \in History /\ usage' \in BOOLEAN
        /\ access' \in Periods \cup {None} /\ changes' \in 0..MaxChanges
    BY <1>1, <1>3, <1>5 DEF TypeOK
  <2> QED
    BY <1>8, <2>1, <2>2, <2>3, <2>4 DEF TypeOK, Requests
<1>10. OneRecord'
  <2>1. PICK t \in Clocks : Recorded(samples, t) /\ \A c \in Clients : Known(c, t)
    BY DEF IInv, OneRecord, Known
  <2>2. PICK u : Longer(t, u, sampled)
    BY <1>1, ClockGoesOn
  <2>3. u \in Clocks' /\ Recorded(Taken(sampled), u) /\ \A h : Recorded(h, t) => Recorded(h, u)
    BY <2>1, <2>2 DEF Longer
  <2>4. Recorded(rows, u)
    BY <1>0, <1>2, <1>4, <2>3, SinceRecorded
  <2>5. \A c \in Clients : Known(c, u)
    BY <2>1, <2>3 DEF Known, Carried
  <2>6. \A c \in Clients : Known(c, u)'
    BY <1>8, <2>4, <2>5
  <2> QED
    BY <1>1, <2>3, <2>4, <2>6 DEF OneRecord, Known
<1>11. access' # None
  BY <1>1
<1> QED
  BY <1>8, <1>9, <1>10, <1>11 DEF IInv

-----------------------------------------------------------------------------
(* Every step, and what follows.                                           *)

LEMMA NextInv == IInv /\ [Next]_vars => IInv'
<1> SUFFICES ASSUME IInv, [Next]_vars PROVE IInv'
  OBVIOUS
<1>1. CASE Tick \/ Recover \/ SetAccess \/ RemoveCard
  BY <1>1, TickInv, RecoverInv, SetAccessInv, RemoveCardInv
<1>2. CASE \E sampled, observed \in BOOLEAN : Poll(sampled, observed)
  BY <1>2, PollInv
<1>3. ASSUME NEW c \in Clients,
             SendSnapshot(c) \/ Written(c) \/ HandleMessage(c)
               \/ Connect(c) \/ Disconnect(c) \/ View(c) \/ Leave(c) \/ Receive(c)
      PROVE  IInv'
  BY <1>3, SendSnapshotInv, WrittenInv, HandleMessageInv, ConnectInv, DisconnectInv, ViewInv, LeaveInv, ReceiveInv
<1>4. CASE UNCHANGED vars
  <2>1. TypeOK'
    BY <1>4 DEF IInv, TypeOK, vars, data, page
  <2>2. /\ now' = now /\ now <= now' /\ samples' = samples
        /\ UNCHANGED <<recorded, sub, out, net, toServer, connected, page>>
        /\ access' = access
    BY <1>4, Numbers DEF IInv, vars, data
  <2> QED
    BY <2>1, <2>2, DataInv DEF IInv
<1> QED
  BY <1>1, <1>2, <1>3, <1>4 DEF Next

LEMMA Invariant == Spec => []IInv
<1> QED
  BY InitInv, NextInv, PTL DEF Spec

\* In every run every variable keeps its type, and no queue of messages is longer than its
\* limit: REALTIME_MAX_OUTBOUND_EVENTS bounds what waits for a socket.
THEOREM TypesKept == Spec => []TypeOK
<1>1. IInv => TypeOK
  BY DEF IInv
<1> QED
  BY <1>1, Invariant, PTL

\* In every run no sample is shown twice or out of order, whatever sequence of snapshots,
\* deltas, subscriptions and reconnections brought the history about.
THEOREM ShownInOrder == Spec => []HistoryInOrder
<1>1. IInv => HistoryInOrder
  <2> SUFFICES ASSUME IInv, NEW c \in Clients, shown[c] # None
               PROVE  \A i, j \in DOMAIN shown[c].history : i < j => shown[c].history[i].id < shown[c].history[j].id
    BY DEF HistoryInOrder
  <2>1. InOrder(shown[c].history)
    BY DEF IInv, OneRecord, Recorded
  <2>2. shown[c].history \in Seq(Sample)
    BY DEF IInv, TypeOK, Copy, History
  <2>3. DOMAIN shown[c].history = 1..Len(shown[c].history)
    BY <2>2
  <2> QED
    BY <2>1, <2>3 DEF InOrder
<1> QED
  BY <1>1, Invariant, PTL

\* In every run a client that is served has, or will have when what is on its way arrives,
\* every retained sample up to the cursor the server keeps for it: the next delta, which
\* starts at the cursor, leaves no gap.
THEOREM NoSampleLost == Spec => []HistoryComplete
<1>1. IInv => HistoryComplete
  <2> SUFFICES ASSUME IInv, NEW c \in Clients, Served(c)
               PROVE  /\ Arrived(c) # None
                      /\ \A s \in ToSet(samples) :
                          access # None /\ s.time >= now - sub[c].cursor.period /\ s.time < sub[c].cursor.time
                              => s \in ToSet(Arrived(c).history)
    BY DEF HistoryComplete
  <2>1. Arrived(c) = Final(shown[c], net[c] \o out[c])
    BY DEF Arrived, Final
  <2>2. Arrived(c) # None /\ Covers(Arrived(c).history, sub[c].cursor)
    BY <2>1 DEF IInv, ClientInv, Ready
  <2> QED
    BY <2>2 DEF Covers
<1> QED
  BY <1>1, Invariant, PTL
=============================================================================
