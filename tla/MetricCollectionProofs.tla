----------------------- MODULE MetricCollectionProofs -----------------------
(***************************************************************************)
(* Proofs about MetricCollection, for every set of cards, metrics, sources *)
(* and collections and every limit: the queues implement Semaphores, no    *)
(* planned card is left without a timer, and variables keep their types.   *)
(***************************************************************************)
EXTENDS MetricCollection, TLAPS, FiniteSetTheorems, WellFoundedInduction

-----------------------------------------------------------------------------
(* The queues.                                                             *)

\* A step of the queue q, which is the one of the flow f.
Joins(f, q) ==
    /\ f \notin running[q] /\ \A n \in 1..Len(waiting[q]) : waiting[q][n] # f
    /\ IF active[q] >= Limit[q]
       THEN waiting' = [waiting EXCEPT ![q] = Append(@, f)] /\ UNCHANGED <<active, running>>
       ELSE /\ active' = [active EXCEPT ![q] = @ + 1]
            /\ running' = [running EXCEPT ![q] = @ \cup {f}]
            /\ UNCHANGED waiting

Quits(f, q) ==
    /\ f \in running[q]
    /\ IF waiting[q] # <<>>
       THEN /\ waiting' = [waiting EXCEPT ![q] = Tail(@)]
            /\ running' = [running EXCEPT ![q] = (@ \ {f}) \cup {Head(waiting[q])}]
            /\ UNCHANGED active
       ELSE /\ active' = [active EXCEPT ![q] = @ - 1]
            /\ running' = [running EXCEPT ![q] = @ \ {f}]
            /\ UNCHANGED waiting

QueueStep == \E f \in Flows, q \in Queues : Joins(f, q) \/ Quits(f, q)

\* The count of a queue is that of its requests at work, and nobody is in it twice.
QueueInv ==
    /\ active \in [Queues -> Nat]
    /\ running \in [Queues -> SUBSET Flows]
    /\ waiting \in [Queues -> Seq(Flows)]
    /\ \A q \in Queues :
        /\ IsFiniteSet(running[q])
        /\ active[q] = Cardinality(running[q])
        /\ \A i \in 1..Len(waiting[q]) : waiting[q][i] \notin running[q]
        /\ \A i, j \in 1..Len(waiting[q]) : waiting[q][i] = waiting[q][j] => i = j

\* A flow stands in a queue there is, and jq has one of its own.
LEMMA FlowQueue ==
    ASSUME NEW f \in Flows
    PROVE  /\ QueueOf(f) \in Queues
           /\ step[f] \in Processing => QueueOf(f) = Jq
BY DEF Flows, QueueOf, Queues, Requesting, Processing

\* What the next-state relation does to the queues is a step of one of them, or nothing.
LEMMA NextQueues == Next => QueueStep \/ UNCHANGED queues
<1>1. ASSUME CollectionNext
      PROVE  UNCHANGED queues
  BY <1>1 DEF CollectionNext, TimerFires, PrimeFires, RecoveryEnds, Tick, Save, SaveFails, StatsAnswered,
       CardCollected, CollectThrows, PageBuild, Refresh, Begin, Take
<1>2. ASSUME NEW f \in Flows, TakeTurn(f)
      PROVE  QueueStep
  <2>1. Joins(f, QueueOf(f))
    BY <1>2 DEF TakeTurn, Enter, Joins, Waits
  <2> QED
    BY <2>1, FlowQueue DEF QueueStep
<1>3. ASSUME NEW f \in Flows, FlowNext(f)
      PROVE  QueueStep \/ UNCHANGED queues
  <2>1. ASSUME f \in running[QueueOf(f)], Leave(f)
        PROVE  QueueStep
    <3>1. Quits(f, QueueOf(f))
      BY <2>1 DEF Leave, Quits
    <3> QED
      BY <3>1, FlowQueue DEF QueueStep
  <2>2. CASE Answered(f)
    BY <2>1, <2>2 DEF Answered
  <2>3. CASE NotExtracted(f) \/ TokensExtracted(f) \/ Extracted(f) \/ ItemsExtracted(f) \/ PageExtracted(f)
             \/ NextPage(f) \/ LastPage(f)
    <3>1. step[f] \in Processing /\ f \in running[Jq] /\ Leave(f)
      BY <2>3 DEF NotExtracted, TokensExtracted, Extracted, ItemsExtracted, PageExtracted, NextPage, LastPage,
           Processing
    <3> QED
      BY <2>1, <3>1, FlowQueue
  <2>4. CASE SocketEnds(f)
    BY <2>4 DEF SocketEnds
  <2> QED
    BY <1>3, <2>2, <2>3, <2>4 DEF FlowNext
<1> QED
  BY <1>1, <1>2, <1>3 DEF Next, RequestNext

LEMMA JoinKeepsQueueInv ==
    ASSUME QueueInv, NEW f \in Flows, NEW q \in Queues, Joins(f, q)
    PROVE  QueueInv'
<1>1. CASE active[q] >= Limit[q]
  <2>1. /\ waiting' = [waiting EXCEPT ![q] = Append(@, f)]
        /\ active' = active /\ running' = running
    BY <1>1 DEF Joins
  <2>2. waiting[q] \in Seq(Flows)
    BY DEF QueueInv
  <2>3. waiting' \in [Queues -> Seq(Flows)]
    BY <2>1, <2>2 DEF QueueInv
  <2>4. /\ waiting'[q] = Append(waiting[q], f)
        /\ \A r \in Queues \ {q} : waiting'[r] = waiting[r]
    BY <2>1 DEF QueueInv
  <2>5. \A i \in 1..Len(waiting'[q]) : waiting'[q][i] \notin running'[q]
    BY <2>1, <2>2, <2>4 DEF QueueInv, Joins
  <2>6. \A i, j \in 1..Len(waiting'[q]) : waiting'[q][i] = waiting'[q][j] => i = j
    BY <2>1, <2>2, <2>4 DEF QueueInv, Joins
  <2> QED
    BY <2>1, <2>3, <2>4, <2>5, <2>6 DEF QueueInv
<1>2. CASE ~(active[q] >= Limit[q])
  <2>1. /\ active' = [active EXCEPT ![q] = @ + 1]
        /\ running' = [running EXCEPT ![q] = @ \cup {f}]
        /\ waiting' = waiting
    BY <1>2 DEF Joins
  <2>2. IsFiniteSet(running[q] \cup {f}) /\ Cardinality(running[q] \cup {f}) = Cardinality(running[q]) + 1
    BY FS_AddElement DEF QueueInv, Joins
  <2>3. /\ active' \in [Queues -> Nat]
        /\ running' \in [Queues -> SUBSET Flows]
    BY <2>1 DEF QueueInv
  <2>4. /\ running'[q] = running[q] \cup {f} /\ active'[q] = active[q] + 1
        /\ \A r \in Queues \ {q} : running'[r] = running[r] /\ active'[r] = active[r]
    BY <2>1 DEF QueueInv
  <2>5. ASSUME NEW r \in Queues
        PROVE  /\ IsFiniteSet(running'[r])
               /\ active'[r] = Cardinality(running'[r])
               /\ \A i \in 1..Len(waiting'[r]) : waiting'[r][i] \notin running'[r]
    <3>1. CASE r = q
      BY <2>1, <2>2, <2>4, <3>1 DEF QueueInv, Joins
    <3>2. CASE r # q
      BY <2>1, <2>4, <3>2 DEF QueueInv
    <3> QED
      BY <3>1, <3>2
  <2> QED
    BY <2>1, <2>3, <2>5 DEF QueueInv
<1> QED
  BY <1>1, <1>2

LEMMA QuitKeepsQueueInv ==
    ASSUME QueueInv, NEW f \in Flows, NEW q \in Queues, Quits(f, q)
    PROVE  QueueInv'
<1>1. CASE waiting[q] # <<>>
  <2> DEFINE h == Head(waiting[q])
  <2>1. /\ waiting' = [waiting EXCEPT ![q] = Tail(@)]
        /\ running' = [running EXCEPT ![q] = (@ \ {f}) \cup {h}]
        /\ active' = active
    BY <1>1 DEF Quits
  <2>2. waiting[q] \in Seq(Flows) /\ Len(waiting[q]) \in Nat /\ Len(waiting[q]) # 0
    BY <1>1 DEF QueueInv
  <2>3. /\ h = waiting[q][1] /\ h \in Flows /\ Tail(waiting[q]) \in Seq(Flows)
        /\ Len(Tail(waiting[q])) = Len(waiting[q]) - 1
        /\ \A i \in 1..Len(waiting[q]) - 1 : Tail(waiting[q])[i] = waiting[q][i + 1]
    BY <1>1, <2>2
  <2>4. h \notin running[q]
    BY <2>2, <2>3 DEF QueueInv
  <2>5. /\ IsFiniteSet(running[q] \ {f}) /\ Cardinality(running[q] \ {f}) = Cardinality(running[q]) - 1
    BY FS_RemoveElement DEF QueueInv, Quits
  <2>6. /\ IsFiniteSet((running[q] \ {f}) \cup {h})
        /\ Cardinality((running[q] \ {f}) \cup {h}) = Cardinality(running[q] \ {f}) + 1
    BY <2>4, <2>5, FS_AddElement
  <2>7. Cardinality((running[q] \ {f}) \cup {h}) = active[q]
    BY <2>5, <2>6 DEF QueueInv
  <2>8. /\ waiting' \in [Queues -> Seq(Flows)]
        /\ running' \in [Queues -> SUBSET Flows]
    BY <2>1, <2>3 DEF QueueInv
  <2>9. /\ waiting'[q] = Tail(waiting[q]) /\ running'[q] = (running[q] \ {f}) \cup {h}
        /\ \A r \in Queues \ {q} : waiting'[r] = waiting[r] /\ running'[r] = running[r]
    BY <2>1 DEF QueueInv
  <2>10. \A i \in 1..Len(waiting'[q]) : i + 1 \in 1..Len(waiting[q]) /\ waiting'[q][i] = waiting[q][i + 1] /\ i + 1 # 1
    BY <2>2, <2>3, <2>9
  <2>11. \A i \in 1..Len(waiting'[q]) : waiting'[q][i] \notin running'[q]
    <3>1. 1 \in 1..Len(waiting[q])
      BY <2>2
    <3> QED
      BY <2>3, <2>9, <2>10, <3>1 DEF QueueInv
  <2>12. \A i, j \in 1..Len(waiting'[q]) : waiting'[q][i] = waiting'[q][j] => i = j
    <3> SUFFICES ASSUME NEW i \in 1..Len(waiting'[q]), NEW j \in 1..Len(waiting'[q]), waiting'[q][i] = waiting'[q][j]
                 PROVE  i = j
      OBVIOUS
    <3>1. i + 1 = j + 1
      BY <2>10 DEF QueueInv
    <3>2. i \in Int /\ j \in Int
      BY <2>3, <2>9
    <3> QED
      BY <3>1, <3>2
  <2> HIDE DEF h
  <2> QED
    BY <2>1, <2>6, <2>7, <2>8, <2>9, <2>11, <2>12 DEF QueueInv
<1>2. CASE waiting[q] = <<>>
  <2>1. /\ active' = [active EXCEPT ![q] = @ - 1]
        /\ running' = [running EXCEPT ![q] = @ \ {f}]
        /\ waiting' = waiting
    BY <1>2 DEF Quits
  <2>2. IsFiniteSet(running[q] \ {f}) /\ Cardinality(running[q] \ {f}) = Cardinality(running[q]) - 1
    BY FS_RemoveElement DEF QueueInv, Quits
  <2>3. Cardinality(running[q] \ {f}) \in Nat
    BY <2>2, FS_CardinalityType
  <2>4. /\ running'[q] = running[q] \ {f} /\ active'[q] = Cardinality(running[q] \ {f})
        /\ \A r \in Queues \ {q} : running'[r] = running[r] /\ active'[r] = active[r]
    BY <2>1, <2>2 DEF QueueInv
  <2>5. /\ active' \in [Queues -> Nat]
        /\ running' \in [Queues -> SUBSET Flows]
    BY <2>1, <2>3, <2>4 DEF QueueInv
  <2> QED
    BY <2>1, <2>2, <2>4, <2>5 DEF QueueInv
<1> QED
  BY <1>1, <1>2

LEMMA QueueInvariant == Spec => []QueueInv
<1>1. Init => QueueInv
  <2> SUFFICES ASSUME Init PROVE QueueInv
    OBVIOUS
  <2>1. /\ active = [q \in Queues |-> 0]
        /\ waiting = [q \in Queues |-> <<>>]
        /\ running = [q \in Queues |-> {}]
    BY DEF Init
  <2> QED
    BY <2>1, FS_EmptySet DEF QueueInv
<1>2. QueueInv /\ [Next]_vars => QueueInv'
  <2> SUFFICES ASSUME QueueInv, [Next]_vars PROVE QueueInv'
    OBVIOUS
  <2>1. CASE QueueStep
    BY <2>1, JoinKeepsQueueInv, QuitKeepsQueueInv DEF QueueStep
  <2>2. CASE UNCHANGED queues
    BY <2>2 DEF queues, QueueInv
  <2> QED
    BY <2>1, <2>2, NextQueues DEF vars
<1> QED
  BY <1>1, <1>2, PTL DEF Spec

\* The first states of the queues are those of the semaphores.
LEMMA InitImplements == Init => Limits!Init
BY DEF Init, Limits!Init

\* A step of a queue is one of its semaphore.
LEMMA StepImplements ==
    ASSUME QueueInv, NEW f \in Flows, NEW q \in Queues, Joins(f, q) \/ Quits(f, q)
    PROVE  Limits!Enter(f, q) \/ Limits!Leave(f, q)
<1>1. active[q] = Cardinality(running[q]) /\ active[q] \in Nat /\ Limit[q] \in Nat
  BY QueueAssumption DEF QueueInv
<1>2. CASE Joins(f, q)
  BY <1>1, <1>2 DEF Joins, Limits!Enter, HasRoom
<1>3. CASE Quits(f, q)
  BY <1>3 DEF Quits, Limits!Leave
<1> QED
  BY <1>2, <1>3

(* queueRequest and runJq implement the semaphores: whatever overlapping    *)
(* collections, children and pages request, at most the limit is at work,  *)
(* nobody waits beside a free slot, and slots are handed on in the order   *)
(* of arrival (custom-metric-http.ts:17, jq.ts:20).                        *)
THEOREM RequestsImplementSemaphores == Spec => QueuesKeepTheirLimit
<1>1. QueueInv /\ [Next]_vars
      => [\E t \in Flows, r \in Queues : Limits!Enter(t, r) \/ Limits!Leave(t, r)]_<<running, waiting>>
  <2> SUFFICES ASSUME QueueInv, [Next]_vars
               PROVE  \/ \E t \in Flows, r \in Queues : Limits!Enter(t, r) \/ Limits!Leave(t, r)
                      \/ UNCHANGED <<running, waiting>>
    OBVIOUS
  <2>1. CASE QueueStep
    BY <2>1, StepImplements DEF QueueStep
  <2>2. CASE UNCHANGED queues
    BY <2>2 DEF queues
  <2> QED
    BY <2>1, <2>2, NextQueues DEF vars
<1> QED
  BY <1>1, QueueInvariant, InitImplements, PTL DEF Spec, QueuesKeepTheirLimit, Limits!Spec

\* Never more at work than the limit, and nobody waits beside a free slot.
WithinLimits ==
    \A q \in Queues : active[q] <= Limit[q] /\ (waiting[q] # <<>> => active[q] = Limit[q])

(* What the semaphores promise, of the counters of the code: active        *)
(* requests of an origin and jq processes never exceed their limit, and    *)
(* whoever waits does so because the limit is reached                      *)
(* (custom-metric-http.ts:19, jq.ts:22).                                   *)
THEOREM WithinLimitsAlways == Spec => []WithinLimits
<1>1. Init => WithinLimits
  BY QueueAssumption DEF Init, WithinLimits
<1>2. QueueInv /\ WithinLimits /\ [Next]_vars => WithinLimits'
  <2> SUFFICES ASSUME QueueInv, WithinLimits, [Next]_vars, NEW q \in Queues
               PROVE  active'[q] <= Limit[q] /\ (waiting'[q] # <<>> => active'[q] = Limit[q])
    BY DEF WithinLimits
  <2>1. active[q] \in Nat /\ Limit[q] \in Nat /\ waiting[q] \in Seq(Flows)
    BY QueueAssumption DEF QueueInv
  <2>2. ASSUME NEW f \in Flows, NEW r \in Queues, Joins(f, r)
        PROVE  active'[q] <= Limit[q] /\ (waiting'[q] # <<>> => active'[q] = Limit[q])
    BY <2>1, <2>2 DEF Joins, QueueInv, WithinLimits
  <2>3. ASSUME NEW f \in Flows, NEW r \in Queues, Quits(f, r)
        PROVE  active'[q] <= Limit[q] /\ (waiting'[q] # <<>> => active'[q] = Limit[q])
    BY <2>1, <2>3 DEF Quits, QueueInv, WithinLimits
  <2>4. CASE UNCHANGED queues
    BY <2>4 DEF queues, WithinLimits
  <2> QED
    BY <2>2, <2>3, <2>4, NextQueues DEF vars, QueueStep
<1> QED
  BY <1>1, <1>2, QueueInvariant, PTL DEF Spec

-----------------------------------------------------------------------------
(* The timer.                                                              *)

PlanningTypes ==
    /\ discovered \subseteq Cards /\ scheduled \subseteq Cards
    /\ last \in [Cards -> Delays \cup {None}]
    /\ timer \in Times
    /\ current \in Runs \cup {None}

TimerInv == PlanningTypes /\ NoLostWakeUp

\* The earliest of some times is one of them and not after any.
LEMMA EarliestIsLeast ==
    ASSUME NEW S \in SUBSET Nat, S # {}
    PROVE  Earliest(S) \in S /\ \A u \in S : Earliest(S) <= u
<1> DEFINE R == OpToRel(<, Nat)
<1>1. IsWellFoundedOn(R, Nat)
  BY NatLessThanWellFounded
<1>2. \A x, y \in Nat : x < y => <<x, y>> \in R
  BY DEF OpToRel
<1> HIDE DEF R
<1>3. \E t \in S : \A u \in S : ~(<<u, t>> \in R)
  BY <1>1, WFMin
<1>4. PICK t \in S : \A u \in S : ~(<<u, t>> \in R)
  BY <1>3
<1>5. ASSUME NEW u \in S
      PROVE  t <= u
  <2>1. u \in Nat /\ t \in Nat
    OBVIOUS
  <2>2. ~(<<u, t>> \in R)
    BY <1>4
  <2>3. ~(u < t)
    BY <1>2, <2>1, <2>2
  <2> QED
    BY <2>1, <2>3
<1> QED
  BY <1>5 DEF Earliest

\* The time of a card is a delay.
LEMMA DueIsDelay ==
    ASSUME NEW l \in [Cards -> Delays \cup {None}], NEW c \in Cards
    PROVE  DueIn(c, l) \in 0..Interval
BY CollectionAssumption DEF DueIn, Delays

\* A plan covers the cards it is made for.
LEMMA PlanCovers ==
    ASSUME NEW d \in SUBSET Cards, NEW l \in [Cards -> Delays \cup {None}], Schedule(d, l)
    PROVE  /\ scheduled' = d /\ timer' \in Times
           /\ \A c \in d : timer' # None /\ timer' <= DueIn(c, l)
<1>1. scheduled' = d
  BY DEF Schedule
<1>2. PICK r \in RecoveryDelays \cup {None} : timer' = Earliest({DueIn(c, l) : c \in d} \cup ({r} \ {None}))
  BY DEF Schedule
<1> DEFINE T == {DueIn(c, l) : c \in d} \cup ({r} \ {None})
<1>3. T \in SUBSET Nat /\ \A c \in d : DueIn(c, l) \in T
  BY DueIsDelay, CollectionAssumption
<1>4. timer' = Earliest(T)
  BY <1>2
<1> HIDE DEF T
<1>5. CASE T = {}
  BY <1>1, <1>3, <1>4, <1>5 DEF Earliest, Times
<1>6. CASE T # {}
  <2>1. timer' \in T /\ \A u \in T : timer' <= u
    BY <1>3, <1>4, <1>6, EarliestIsLeast
  <2>2. timer' \in Nat /\ timer' # None
    BY <1>3, <2>1, CollectionAssumption
  <2> QED
    BY <1>1, <1>3, <2>1, <2>2 DEF Times
<1> QED
  BY <1>5, <1>6

\* What follows a collection plans again, or changes nothing that is planned.
LEMMA FollowedKeepsTimerInv ==
    ASSUME TimerInv, NEW l \in [Cards -> Delays \cup {None}], Followed(l), discovered' = discovered,
           chain = {} => l = last
    PROVE  TimerInv'
<1>1. current' = None /\ last' = l
  BY DEF Followed
<1>2. CASE chain = {}
  BY <1>1, <1>2 DEF Followed, TimerInv, PlanningTypes, NoLostWakeUp
<1>3. CASE chain # {}
  <2>1. Schedule(discovered, l)
    BY <1>3 DEF Followed
  <2>2. /\ scheduled' = discovered /\ timer' \in Times
        /\ \A c \in discovered : timer' # None /\ timer' <= DueIn(c, l)
    BY <2>1, PlanCovers DEF TimerInv, PlanningTypes
  <2> QED
    BY <1>1, <2>2 DEF TimerInv, PlanningTypes, NoLostWakeUp, DueIn
<1> QED
  BY <1>2, <1>3

\* A collection that begins has a name.
LEMMA BeginNames ==
    ASSUME NEW r \in Runs, NEW force, Begin(r, force)
    PROVE  current = None /\ current' \in Runs /\ current' # None
BY CollectionAssumption DEF Begin

LEMMA TimerInvariant == Spec => []TimerInv
<1>1. Init => TimerInv
  <2> SUFFICES ASSUME Init PROVE TimerInv
    OBVIOUS
  <2>1. PICK s \in Setups : discovered = s.discovered
    BY DEF Init
  <2>2. discovered \subseteq Cards
    BY <2>1, CollectionAssumption DEF SetupTypes
  <2>3. timer \in Times
    <3>1. CASE discovered = {}
      BY <3>1 DEF Init, Earliest, Times
    <3>2. CASE discovered # {}
      <4> DEFINE T == {0 : c \in discovered}
      <4>1. T \in SUBSET Nat /\ T # {} /\ timer = Earliest(T)
        BY <3>2 DEF Init
      <4> HIDE DEF T
      <4> QED
        BY <4>1, EarliestIsLeast DEF Times
    <3> QED
      BY <3>1, <3>2
  <2>4. scheduled = discovered /\ last = [c \in Cards |-> None] /\ current \in Runs /\ chain = {"first"}
    BY DEF Init
  <2> QED
    BY <2>2, <2>3, <2>4, CollectionAssumption DEF TimerInv, PlanningTypes, NoLostWakeUp
<1>2. TimerInv /\ [Next]_vars => TimerInv'
  <2> SUFFICES ASSUME TimerInv, [Next]_vars PROVE TimerInv'
    OBVIOUS
  <2> USE DEF TimerInv, PlanningTypes
  <2>1. CASE TimerFires
    <3>1. /\ current' # None /\ current' \in Runs \cup {None} /\ chain' # {}
          /\ timer' = None /\ UNCHANGED <<discovered, scheduled, last>>
      BY <2>1, BeginNames DEF TimerFires, targets
    <3> QED
      BY <3>1 DEF NoLostWakeUp, Times
  <2>2. CASE PrimeFires
    <3>1. /\ UNCHANGED <<discovered, scheduled, last, timer, chain>> /\ current' \in Runs \cup {None}
          /\ current' = None => current = None
          /\ current' # current => current = None
      BY <2>2, BeginNames DEF PrimeFires, targets
    <3> QED
      BY <3>1 DEF NoLostWakeUp, DueIn
  <2>3. CASE RecoveryEnds
    BY <2>3, FollowedKeepsTimerInv DEF RecoveryEnds
  <2>4. CASE Tick
    <3>1. /\ last' \in [Cards -> Delays \cup {None}] /\ timer' \in Times
          /\ UNCHANGED <<discovered, scheduled, current, chain>>
      BY <2>4, CollectionAssumption DEF Tick, Later, Delays, Times, targets, collection
    <3>2. ASSUME NEW c \in Cards, timer # None, timer <= DueIn(c, last)
          PROVE  timer' # None /\ timer' <= DueIn(c, last')
      BY <2>4, <3>2, CollectionAssumption DEF Tick, Later, DueIn, Delays, Times
    <3> QED
      BY <3>1, <3>2 DEF NoLostWakeUp
  <2>5. ASSUME NEW r \in Runs, Save(r)
        PROVE  TimerInv'
    <3>1. /\ last' \in [Cards -> Delays \cup {None}]
          /\ UNCHANGED <<discovered, scheduled, timer, current, chain>>
      BY <2>5, CollectionAssumption DEF Save, Delays, targets
    <3>2. \A c \in Cards : DueIn(c, last) <= DueIn(c, last')
      BY <2>5, CollectionAssumption DEF Save, DueIn, Delays
    <3>3. \A c \in Cards : DueIn(c, last) \in Nat /\ DueIn(c, last') \in Nat
      BY <3>1, DueIsDelay
    <3> QED
      BY <3>1, <3>2, <3>3 DEF NoLostWakeUp, Times
  <2>6. ASSUME NEW r \in Runs, SaveFails(r)
        PROVE  TimerInv'
    BY <2>6, FollowedKeepsTimerInv DEF SaveFails
  <2>7. ASSUME NEW r \in Runs, NEW c \in Cards, StatsAnswered(r, c) \/ CardCollected(r, c)
        PROVE  TimerInv'
    BY <2>7 DEF StatsAnswered, CardCollected, targets, planning, collection, NoLostWakeUp, DueIn
  <2>8. ASSUME NEW r \in Runs, NEW c \in Cards, CollectThrows(r, c)
        PROVE  TimerInv'
    <3>1. discovered' = discovered
      BY <2>8 DEF CollectThrows
    <3>2. CASE current = r
      BY <2>8, <3>1, <3>2, FollowedKeepsTimerInv DEF CollectThrows
    <3>3. CASE current # r
      BY <2>8, <3>1, <3>3 DEF CollectThrows, planning, collection, NoLostWakeUp, DueIn
    <3> QED
      BY <3>2, <3>3
  <2>9. ASSUME NEW d \in SUBSET Cards, PageBuild(d)
        PROVE  TimerInv'
    BY <2>9 DEF PageBuild, planning, collection, NoLostWakeUp, DueIn
  <2>10. ASSUME NEW d \in SUBSET Cards, NEW kept \in SUBSET Cards, Refresh(d, kept)
         PROVE  TimerInv'
    <3>1. /\ last' \in [Cards -> Delays \cup {None}] /\ discovered' = d
          /\ Schedule(d, last') /\ UNCHANGED <<current, chain>>
      BY <2>10 DEF Refresh, collection
    <3>2. /\ scheduled' = d /\ timer' \in Times
          /\ \A c \in d : timer' # None /\ timer' <= DueIn(c, last')
      BY <3>1, PlanCovers
    <3> QED
      BY <3>1, <3>2 DEF NoLostWakeUp
  <2>11. CASE RequestNext
    BY <2>11 DEF RequestNext, targets, planning, collection, NoLostWakeUp, DueIn
  <2>12. CASE UNCHANGED vars
    BY <2>12 DEF vars, targets, planning, collection, NoLostWakeUp, DueIn
  <2> QED
    BY <2>1, <2>2, <2>3, <2>4, <2>5, <2>6, <2>7, <2>8, <2>9, <2>10, <2>11, <2>12 DEF Next, CollectionNext
<1> QED
  BY <1>1, <1>2, PTL DEF Spec

(* However refreshes, joined collections, failed writes and page requests  *)
(* interleave, a card the timer was planned for never waits without one    *)
(* that fires by the time it is due (metrics.ts:102).                      *)
THEOREM NoLostWakeUpAlways == Spec => []NoLostWakeUp
<1>1. TimerInv => NoLostWakeUp
  BY DEF TimerInv
<1> QED
  BY <1>1, TimerInvariant, PTL

-----------------------------------------------------------------------------
(* The types.                                                              *)

\* A step that a flow of its source may be at: only Socket.IO sources have a socket, and
\* the items of a page are extracted while another page is allowed.
Fits(f, s, taken) ==
    /\ s \in Steps
    /\ s = "socket" => source[f[2]].extractor = "socketio"
    /\ s = "jq" /\ source[f[2]].extractor = "pages" => taken < MaxPages

FlowInv ==
    /\ source \in [Metrics -> SourceTypes]
    /\ step \in [Flows -> Steps]
    /\ pages \in [Flows -> 0..MaxPages]
    /\ items \in [Flows -> 0..MaxItems] /\ opened \in [Flows -> 0..MaxItems]
    /\ \A f \in Flows : Fits(f, step[f], pages[f])

LEMMA FlowParts ==
    ASSUME NEW f \in Flows
    PROVE  f[1] \in Runs /\ f[2] \in Metrics /\ f[3] \in 0..MaxItems /\ Main(f) \in Flows
BY FlowAssumption DEF Flows, Main

LEMMA SourceKinds ==
    ASSUME FlowInv, NEW m \in Metrics
    PROVE  source[m].extractor \in Extractors /\ source[m].optional \in BOOLEAN /\ source[m].login \in {"none", "html", "jq"}
BY DEF FlowInv, SourceTypes

LEMMA OpeningFits ==
    ASSUME FlowInv, NEW f \in Flows, NEW taken
    PROVE  /\ Fits(f, Prepared(f[2]), taken) /\ Fits(f, Authenticated(f[2]), taken)
           /\ Fits(f, Opening(f[2]), taken)
BY FlowParts DEF Fits, Prepared, Authenticated, Opening, Steps, Requesting, Processing

LEMMA AfterRequestFits ==
    ASSUME FlowInv, NEW f \in Flows, NEW status
    PROVE  Fits(f, AfterRequest(f, status), pages[f])
<1>1. pages[f] \in 0..MaxPages /\ MaxPages \in Nat
  BY FlowAssumption DEF FlowInv
<1>2. Fits(f, Extraction(f), pages[f])
  BY <1>1 DEF Fits, Extraction, Steps, Requesting, Processing
<1>3. Fits(f, "token", pages[f]) /\ Fits(f, "error", pages[f])
  BY DEF Fits, Steps, Requesting, Processing
<1>4. Fits(f, Prepared(f[2]), pages[f]) /\ Fits(f, Authenticated(f[2]), pages[f])
  BY OpeningFits
<1> QED
  BY <1>2, <1>3, <1>4 DEF AfterRequest

\* The children of a batch are at most as many as their numbers.
LEMMA BatchSize ==
    ASSUME NEW f \in Flows, NEW a \in Nat, NEW b \in Nat, a <= b,
           NEW batch, batch \subseteq {g \in Children(f) : a < g[3] /\ g[3] <= b}
    PROVE  Cardinality(batch) \in Nat /\ Cardinality(batch) <= b - a
<1> DEFINE numbers == (a + 1)..b
           number == [g \in batch |-> g[3]]
<1>1. IsFiniteSet(numbers) /\ Cardinality(numbers) = b - a
  <2>1. a + 1 \in Int /\ b \in Int
    OBVIOUS
  <2>2. IsFiniteSet(numbers) /\ Cardinality(numbers) = IF a + 1 > b THEN 0 ELSE b - (a + 1) + 1
    BY <2>1, FS_Interval
  <2> QED
    BY <2>2
<1>2. number \in [batch -> numbers]
  BY DEF Children, Flows
<1>3. \A g, h \in batch : number[g] = number[h] => g = h
  BY DEF Children, Flows
<1>4. number \in Injection(batch, numbers)
  BY <1>2, <1>3 DEF Injection, IsInjective
<1>5. IsFiniteSet(batch) /\ Cardinality(batch) <= Cardinality(numbers)
  BY <1>1, <1>4, FS_Injection
<1>6. Cardinality(batch) \in Nat
  BY <1>5, FS_CardinalityType
<1> QED
  BY <1>1, <1>5, <1>6

\* What a step of the flows keeps, given where they go.
LEMMA FlowsKept ==
    ASSUME FlowInv, source' = source,
           step' = [f \in Flows |-> step'[f]], pages' \in [Flows -> 0..MaxPages],
           items' \in [Flows -> 0..MaxItems], opened' \in [Flows -> 0..MaxItems],
           \A f \in Flows : Fits(f, step'[f], pages'[f])
    PROVE  FlowInv'
<1>1. \A f \in Flows : step'[f] \in Steps
  BY DEF Fits
<1>2. step' \in [Flows -> Steps]
  BY <1>1
<1>3. \A f \in Flows : Fits(f, step[f], pages[f])'
  BY DEF Fits
<1> QED
  BY <1>2, <1>3 DEF FlowInv

LEMMA EndedKeeps ==
    ASSUME FlowInv, NEW f \in Flows, NEW result \in {"value", "error"}, Ended(f, result),
           UNCHANGED <<source, pages, items>>
    PROVE  FlowInv'
<1> DEFINE m == Main(f)
           next == {g \in Children(f) : opened[m] < g[3] /\ g[3] <= opened[m] + Concurrency /\ g[3] <= items[m]}
<1>1. \A g \in Flows : Fits(g, step[g], pages[g]) /\ Fits(g, Opening(g[2]), pages[g])
  BY OpeningFits DEF FlowInv
<1>2. \A g \in Flows : \A s \in {"none", "value", "error"} : Fits(g, s, pages[g])
  BY DEF Fits, Steps
<1>3. m \in Flows /\ opened[m] \in 0..MaxItems /\ items[m] \in 0..MaxItems /\ MaxItems \in Nat
  BY FlowParts, FlowAssumption DEF FlowInv
<1>4. /\ \A g \in Flows : step'[g] = step[g] \/ step'[g] \in {"none", "value", "error"} \/ step'[g] = Opening(g[2])
      /\ step' = [g \in Flows |-> step'[g]]
      /\ opened' = opened \/ (next # {} /\ opened' = [opened EXCEPT ![m] = @ + Cardinality(next)])
  <2>1. step = [g \in Flows |-> step[g]]
    BY DEF FlowInv
  <2>2. CASE f = m \/ step[m] # "each"
    <3>1. opened' = opened /\ \E s \in {"none", "value", "error"} : step' = [step EXCEPT ![f] = s]
      BY <2>2 DEF Ended
    <3> QED
      BY <2>1, <3>1
  <2>3. CASE f # m /\ step[m] = "each" /\ result = "error"
    BY <2>3 DEF Ended
  <2>4. CASE f # m /\ step[m] = "each" /\ result = "value"
    <3> DEFINE batch == {g \in Children(f) : g[3] <= opened[m]}
               late == \E g \in batch \ {f} : step[g] # "value"
    <3>1. CASE late
      <4>1. opened' = opened /\ step' = [step EXCEPT ![f] = "value"]
        BY <2>4, <3>1 DEF Ended
      <4> QED
        BY <2>1, <4>1
    <3>2. CASE ~late /\ next = {}
      BY <2>4, <3>2 DEF Ended
    <3>3. CASE ~late /\ next # {}
      <4>1. /\ step' = [g \in Flows |-> IF g \in next THEN Opening(g[2])
                                       ELSE IF g = f THEN "value" ELSE step[g]]
            /\ opened' = [opened EXCEPT ![m] = @ + Cardinality(next)]
        BY <2>4, <3>3 DEF Ended
      <4> HIDE DEF next, m
      <4> QED
        BY <3>3, <4>1
    <3> QED
      BY <3>1, <3>2, <3>3
  <2> QED
    BY <2>2, <2>3, <2>4
<1>5. opened' \in [Flows -> 0..MaxItems]
  <2>1. CASE opened' = opened
    BY <2>1 DEF FlowInv
  <2>2. CASE next # {} /\ opened' = [opened EXCEPT ![m] = @ + Cardinality(next)]
    <3>1. PICK g \in Flows : opened[m] < g[3] /\ g[3] <= items[m]
      BY <2>2 DEF Children
    <3>2. opened[m] \in Nat /\ items[m] \in Nat /\ opened[m] <= items[m]
      BY <1>3, <3>1, FlowParts
    <3>3. next \subseteq {child \in Children(f) : opened[m] < child[3] /\ child[3] <= items[m]}
      OBVIOUS
    <3> HIDE DEF next, m
    <3>4. Cardinality(next) \in Nat /\ Cardinality(next) <= items[m] - opened[m]
      BY <3>2, <3>3, BatchSize
    <3>5. opened[m] + Cardinality(next) \in 0..MaxItems
      BY <1>3, <3>2, <3>4
    <3> QED
      BY <1>3, <2>2, <3>5 DEF FlowInv
  <2> QED
    BY <1>4, <2>1, <2>2
<1>6. \A g \in Flows : Fits(g, step'[g], pages[g])
  BY <1>1, <1>2, <1>4
<1>7. pages' = pages /\ items' = items /\ source' = source
  OBVIOUS
<1> HIDE DEF m, next
<1> QED
  BY <1>4, <1>5, <1>6, <1>7, FlowsKept DEF FlowInv

LEMMA ProceedsKeeps ==
    ASSUME FlowInv, NEW f \in Flows, NEW s, Fits(f, s, pages[f]), Proceeds(f, s)
    PROVE  FlowInv'
<1>1. CASE s \in {"value", "error"}
  BY <1>1, EndedKeeps DEF Proceeds
<1>2. CASE s \notin {"value", "error"}
  <2>1. step' = [step EXCEPT ![f] = s] /\ opened' = opened /\ source' = source /\ pages' = pages /\ items' = items
    BY <1>2 DEF Proceeds
  <2>2. \A g \in Flows : Fits(g, step'[g], pages'[g])
    BY <2>1 DEF FlowInv
  <2> QED
    BY <2>1, <2>2, FlowsKept DEF FlowInv
<1> QED
  BY <1>1, <1>2

LEMMA FlowNextKeeps == ASSUME FlowInv, NEW f \in Flows, FlowNext(f) PROVE FlowInv'
<1>1. Fits(f, step[f], pages[f]) /\ pages[f] \in 0..MaxPages /\ MaxPages \in Nat
  BY FlowAssumption DEF FlowInv
<1>2. \A s \in {"value", "error", "final"} : Fits(f, s, pages[f])
  BY DEF Fits, Steps, Processing
<1>3. CASE Answered(f)
  BY <1>3, AfterRequestFits, ProceedsKeeps DEF Answered
<1>4. CASE NotExtracted(f)
  BY <1>2, <1>4, ProceedsKeeps DEF NotExtracted
<1>5. CASE TokensExtracted(f)
  BY <1>5, OpeningFits, ProceedsKeeps DEF TokensExtracted
<1>6. CASE SocketEnds(f)
  <2>1. Fits(f, "jq", pages[f])
    BY <1>1, <1>6 DEF SocketEnds, Fits, Steps, Processing
  <2> QED
    BY <1>2, <1>6, <2>1, ProceedsKeeps DEF SocketEnds
<1>7. CASE Extracted(f)
  BY <1>2, <1>7, ProceedsKeeps DEF Extracted
<1>8. CASE ItemsExtracted(f)
  <2>1. PICK n \in 1..MaxItems :
          LET batch == IF n < Concurrency THEN n ELSE Concurrency IN
          /\ items' = [items EXCEPT ![f] = n]
          /\ opened' = [opened EXCEPT ![f] = batch]
          /\ step' = [g \in Flows |-> IF g = f THEN "each"
                                      ELSE IF g \in Children(f) /\ g[3] <= batch THEN Opening(g[2])
                                      ELSE step[g]]
    BY <1>8 DEF ItemsExtracted
  <2>2. PICK batch : batch = (IF n < Concurrency THEN n ELSE Concurrency)
    OBVIOUS
  <2>3. n \in 0..MaxItems /\ batch \in 0..MaxItems
    BY <2>2, FlowAssumption
  <2>4. /\ items' = [items EXCEPT ![f] = n] /\ opened' = [opened EXCEPT ![f] = batch]
        /\ step' = [g \in Flows |-> IF g = f THEN "each"
                                    ELSE IF g \in Children(f) /\ g[3] <= batch THEN Opening(g[2])
                                    ELSE step[g]]
    BY <2>1, <2>2
  <2>5. source' = source /\ pages' = pages
    BY <1>8 DEF ItemsExtracted
  <2>6. \A g \in Flows : Fits(g, step[g], pages[g]) /\ Fits(g, Opening(g[2]), pages[g]) /\ Fits(g, "each", pages[g])
    BY OpeningFits DEF FlowInv, Fits, Steps
  <2>7. \A g \in Flows : Fits(g, step'[g], pages'[g])
    BY <2>4, <2>5, <2>6
  <2>8. step' = [g \in Flows |-> step'[g]]
    BY <2>4
  <2>9. items' \in [Flows -> 0..MaxItems] /\ opened' \in [Flows -> 0..MaxItems] /\ pages' \in [Flows -> 0..MaxPages]
    BY <2>3, <2>4, <2>5 DEF FlowInv
  <2> QED
    BY <2>5, <2>7, <2>8, <2>9, FlowsKept
<1>9. CASE PageExtracted(f)
  <2>1. /\ step[f] = "jq" /\ source[f[2]].extractor = "pages"
        /\ step' = [step EXCEPT ![f] = "next"] /\ pages' = [pages EXCEPT ![f] = @ + 1]
        /\ source' = source /\ items' = items /\ opened' = opened
    BY <1>9 DEF PageExtracted
  <2>2. pages[f] + 1 \in 0..MaxPages
    BY <1>1, <2>1 DEF Fits
  <2>3. pages' \in [Flows -> 0..MaxPages] /\ step' = [g \in Flows |-> step'[g]]
    BY <2>1, <2>2 DEF FlowInv
  <2>4. \A g \in Flows : Fits(g, step'[g], pages'[g])
    <3> TAKE g \in Flows
    <3>1. CASE g = f
      BY <2>1, <3>1 DEF FlowInv, Fits, Steps, Processing
    <3>2. CASE g # f
      BY <2>1, <3>2 DEF FlowInv
    <3> QED
      BY <3>1, <3>2
  <2> QED
    BY <2>1, <2>3, <2>4, FlowsKept DEF FlowInv
<1>10. CASE NextPage(f)
  BY <1>10, OpeningFits, ProceedsKeeps DEF NextPage
<1>11. CASE LastPage(f)
  BY <1>2, <1>11, ProceedsKeeps DEF LastPage
<1> QED
  BY <1>3, <1>4, <1>5, <1>6, <1>7, <1>8, <1>9, <1>10, <1>11 DEF FlowNext

LEMMA TakeKeeps == ASSUME FlowInv, NEW r \in Runs, NEW taken, NEW gone, Take(r, taken, gone) PROVE FlowInv'
<1>1. /\ source' = source
      /\ step' = [f \in Flows |->
                    CASE f \in FlowsOf(r, taken) /\ f[3] = 0 -> Opening(f[2])
                      [] f \in FlowsOf(r, gone) /\ f[3] = 0 -> "none"
                      [] OTHER -> step[f]]
      /\ pages' = [f \in Flows |-> IF f \in FlowsOf(r, taken) THEN 0 ELSE pages[f]]
      /\ items' = [f \in Flows |-> IF f \in FlowsOf(r, taken) THEN 0 ELSE items[f]]
      /\ opened' = [f \in Flows |-> IF f \in FlowsOf(r, taken) THEN 0 ELSE opened[f]]
  BY DEF Take
<1>2. 0 \in 0..MaxPages /\ 0 \in 0..MaxItems /\ 0 < MaxPages
  BY FlowAssumption
<1>3. /\ pages' \in [Flows -> 0..MaxPages]
      /\ items' \in [Flows -> 0..MaxItems] /\ opened' \in [Flows -> 0..MaxItems]
  BY <1>1, <1>2 DEF FlowInv
<1>4. ASSUME NEW f \in Flows PROVE Fits(f, step'[f], pages'[f])
  <2>1. pages'[f] = pages[f] \/ pages'[f] = 0
    BY <1>1
  <2>2. Fits(f, step[f], pages[f]) /\ Fits(f, step[f], 0)
    BY <1>2 DEF FlowInv, Fits
  <2>3. Fits(f, Opening(f[2]), pages'[f]) /\ Fits(f, "none", pages'[f])
    <3>1. Fits(f, "none", pages'[f])
      BY DEF Fits, Steps
    <3> QED
      BY <3>1, OpeningFits
  <2>4. step'[f] = step[f] \/ step'[f] = "none" \/ step'[f] = Opening(f[2])
    BY <1>1
  <2> QED
    BY <2>1, <2>2, <2>3, <2>4
<1>5. step' = [f \in Flows |-> step'[f]]
  BY <1>1
<1> QED
  BY <1>1, <1>3, <1>4, <1>5, FlowsKept

\* What the collections themselves keep.
WorkerInv ==
    /\ metricsOf \in [Cards -> SUBSET Metrics]
    /\ prime \in Times
    /\ chain \subseteq {"schedule", "first"}
    /\ recovering \in BOOLEAN
    /\ due \in [Runs -> SUBSET Cards] /\ pending \in [Runs -> SUBSET Cards]
    /\ collecting \in [Runs -> SUBSET Cards] /\ stats \in [Runs -> SUBSET Cards]
    /\ changes \in Nat /\ failures \in Nat

LEMMA TakeKeepsWorkers ==
    ASSUME WorkerInv, NEW r \in Runs, NEW taken \in SUBSET Cards, NEW gone, Take(r, taken, gone)
    PROVE  collecting' \in [Runs -> SUBSET Cards] /\ stats' \in [Runs -> SUBSET Cards]
<1>1. /\ stats' = [stats EXCEPT ![r] = @ \cup (taken \cap Stats)]
      /\ collecting' = [collecting EXCEPT ![r] = (@ \ gone) \cup taken]
  BY DEF Take
<1>2. /\ stats[r] \cup (taken \cap Stats) \in SUBSET Cards
      /\ (collecting[r] \ gone) \cup taken \in SUBSET Cards
  BY DEF WorkerInv
<1> QED
  BY <1>1, <1>2 DEF WorkerInv

LEMMA BeginKeeps ==
    ASSUME FlowInv, WorkerInv, discovered \subseteq Cards, NEW r \in Runs, NEW force, Begin(r, force)
    PROVE  /\ FlowInv' /\ recovering' \in BOOLEAN
           /\ due' \in [Runs -> SUBSET Cards] /\ pending' \in [Runs -> SUBSET Cards]
           /\ collecting' \in [Runs -> SUBSET Cards] /\ stats' \in [Runs -> SUBSET Cards]
<1> DEFINE now == {c \in discovered : force \/ DueIn(c, last) = 0}
<1>1. /\ due' = [due EXCEPT ![r] = now] /\ recovering' = (now = {})
      /\ \E taken \in SUBSET now : pending' = [pending EXCEPT ![r] = now \ taken] /\ Take(r, taken, {})
  BY DEF Begin
<1>2. now \in SUBSET Cards
  OBVIOUS
<1> HIDE DEF now
<1>3. PICK taken \in SUBSET now : pending' = [pending EXCEPT ![r] = now \ taken] /\ Take(r, taken, {})
  BY <1>1
<1>4. taken \in SUBSET Cards /\ now \ taken \in SUBSET Cards
  BY <1>2
<1>5. FlowInv' /\ collecting' \in [Runs -> SUBSET Cards] /\ stats' \in [Runs -> SUBSET Cards]
  BY <1>3, <1>4, TakeKeeps, TakeKeepsWorkers
<1>6. recovering' \in BOOLEAN
  BY <1>1
<1>7. due' \in [Runs -> SUBSET Cards] /\ pending' \in [Runs -> SUBSET Cards]
  BY <1>1, <1>2, <1>3, <1>4 DEF WorkerInv
<1> QED
  BY <1>5, <1>6, <1>7

LEMMA FollowedKeepsTypes ==
    ASSUME WorkerInv, NEW l, Followed(l)
    PROVE  prime' \in Times /\ chain' \subseteq {"schedule", "first"} /\ recovering' \in BOOLEAN
BY CollectionAssumption DEF WorkerInv, Followed, Times

LEMMA FlowsSame == FlowInv /\ UNCHANGED flows => FlowInv'
BY DEF FlowInv, flows, Fits

LEMMA RequestKeeps == FlowInv /\ RequestNext => FlowInv'
<1> SUFFICES ASSUME FlowInv, RequestNext PROVE FlowInv'
  OBVIOUS
<1>1. PICK f \in Flows : TakeTurn(f) \/ FlowNext(f)
  BY DEF RequestNext
<1>2. CASE TakeTurn(f)
  BY <1>2, FlowsSame DEF TakeTurn
<1> QED
  BY <1>1, <1>2, FlowNextKeeps

LEMMA TypeInvariant == Spec => [](FlowInv /\ WorkerInv)
<1>1. Init => FlowInv /\ WorkerInv
  <2> SUFFICES ASSUME Init PROVE FlowInv /\ WorkerInv
    OBVIOUS
  <2>1. PICK s \in Setups : /\ metricsOf = s.metrics /\ source = s.source /\ discovered = s.discovered
                            /\ changes = s.changes /\ failures = s.failures
    BY DEF Init
  <2>2. /\ metricsOf \in [Cards -> SUBSET Metrics] /\ source \in [Metrics -> SourceTypes]
        /\ discovered \subseteq Cards /\ changes \in Nat /\ failures \in Nat
    BY <2>1, CollectionAssumption DEF SetupTypes
  <2>3. PICK r \in Runs, taken \in SUBSET discovered :
          /\ due = [n \in Runs |-> IF n = r THEN discovered ELSE {}]
          /\ pending = [n \in Runs |-> IF n = r THEN discovered \ taken ELSE {}]
          /\ collecting = [n \in Runs |-> IF n = r THEN taken ELSE {}]
          /\ stats = [n \in Runs |-> IF n = r THEN taken \cap Stats ELSE {}]
          /\ step = [f \in Flows |-> IF f \in FlowsOf(r, taken) /\ f[3] = 0 THEN Opening(f[2]) ELSE "none"]
    BY DEF Init
  <2>4. /\ due \in [Runs -> SUBSET Cards] /\ pending \in [Runs -> SUBSET Cards]
        /\ collecting \in [Runs -> SUBSET Cards] /\ stats \in [Runs -> SUBSET Cards]
    BY <2>2, <2>3
  <2>5. WorkerInv
    <3>1. prime \in Times /\ chain \subseteq {"schedule", "first"} /\ recovering \in BOOLEAN
      BY DEF Init, Times
    <3> QED
      BY <2>2, <2>4, <3>1 DEF WorkerInv
  <2>6. /\ pages = [f \in Flows |-> 0] /\ items = pages /\ opened = pages
        /\ 0 \in 0..MaxPages /\ 0 \in 0..MaxItems
    BY FlowAssumption DEF Init
  <2>7. ASSUME NEW f \in Flows PROVE Fits(f, step[f], pages[f])
    <3>1. Fits(f, "none", pages[f])
      BY DEF Fits, Steps
    <3>2. Fits(f, Opening(f[2]), pages[f])
      BY <2>2, FlowParts DEF Fits, Prepared, Authenticated, Opening, Steps, Requesting
    <3> QED
      BY <2>3, <3>1, <3>2
  <2>8. step \in [Flows -> Steps]
    <3>1. \A f \in Flows : step[f] \in Steps
      BY <2>7 DEF Fits
    <3>2. step = [f \in Flows |-> step[f]]
      BY <2>3
    <3> QED
      BY <3>1, <3>2
  <2>9. pages \in [Flows -> 0..MaxPages] /\ items \in [Flows -> 0..MaxItems] /\ opened \in [Flows -> 0..MaxItems]
    BY <2>6
  <2> QED
    BY <2>2, <2>5, <2>7, <2>8, <2>9 DEF FlowInv
<1>2. TimerInv /\ FlowInv /\ WorkerInv /\ [Next]_vars => FlowInv' /\ WorkerInv'
  <2> SUFFICES ASSUME TimerInv, FlowInv, WorkerInv, [Next]_vars PROVE FlowInv' /\ WorkerInv'
    OBVIOUS
  <2>0. discovered \subseteq Cards
    BY DEF TimerInv, PlanningTypes
  <2>1. CASE TimerFires
    <3>1. /\ chain' = chain \cup {"schedule"} /\ prime' = prime
          /\ metricsOf' = metricsOf /\ changes' = changes /\ failures' = failures
      BY <2>1 DEF TimerFires, bounds
    <3>2. CASE current # None
      <4>1. UNCHANGED flows /\ UNCHANGED workers /\ recovering' = recovering
        BY <2>1, <3>2 DEF TimerFires
      <4> QED
        BY <3>1, <4>1, FlowsSame DEF WorkerInv, workers
    <3>3. CASE current = None
      <4>1. PICK r \in Runs : Begin(r, FALSE)
        BY <2>1, <3>3 DEF TimerFires
      <4> QED
        BY <2>0, <3>1, <4>1, BeginKeeps DEF WorkerInv
    <3> QED
      BY <3>2, <3>3
  <2>2. CASE PrimeFires
    <3>1. /\ chain' = chain /\ prime' = None
          /\ metricsOf' = metricsOf /\ changes' = changes /\ failures' = failures
      BY <2>2 DEF PrimeFires, bounds
    <3>2. CASE current # None
      <4>1. UNCHANGED flows /\ UNCHANGED workers /\ recovering' = recovering
        BY <2>2, <3>2 DEF PrimeFires
      <4> QED
        BY <3>1, <4>1, FlowsSame DEF WorkerInv, workers, Times
    <3>3. CASE current = None
      <4>1. PICK r \in Runs : Begin(r, TRUE)
        BY <2>2, <3>3 DEF PrimeFires
      <4> QED
        BY <2>0, <3>1, <4>1, BeginKeeps DEF WorkerInv, Times
    <3> QED
      BY <3>2, <3>3
  <2>3. CASE RecoveryEnds
    BY <2>3, FlowsSame, FollowedKeepsTypes DEF RecoveryEnds, WorkerInv, workers, bounds
  <2>4. CASE Tick
    <3>1. prime' \in Times
      BY <2>4, CollectionAssumption DEF Tick, Later, Times, WorkerInv
    <3> QED
      BY <2>4, <3>1, FlowsSame DEF Tick, WorkerInv, collection, workers, bounds
  <2>5. ASSUME NEW r \in Runs, Save(r)
        PROVE  FlowInv' /\ WorkerInv'
    BY <2>5, FlowsSame DEF Save, WorkerInv, workers, bounds
  <2>6. ASSUME NEW r \in Runs, SaveFails(r)
        PROVE  FlowInv' /\ WorkerInv'
    BY <2>6, FlowsSame, FollowedKeepsTypes DEF SaveFails, WorkerInv, workers
  <2>7. ASSUME NEW r \in Runs, NEW c \in Cards, StatsAnswered(r, c)
        PROVE  FlowInv' /\ WorkerInv'
    BY <2>7, FlowsSame DEF StatsAnswered, WorkerInv, planning, collection, bounds
  <2>8. ASSUME NEW r \in Runs, NEW c \in Cards, CardCollected(r, c)
        PROVE  FlowInv' /\ WorkerInv'
    <3>1. PICK taken \in SUBSET pending[r] :
            pending' = [pending EXCEPT ![r] = @ \ taken] /\ Take(r, taken, {c})
      BY <2>8 DEF CardCollected
    <3>2. taken \in SUBSET Cards
      BY DEF WorkerInv
    <3>3. FlowInv' /\ collecting' \in [Runs -> SUBSET Cards] /\ stats' \in [Runs -> SUBSET Cards]
      BY <3>1, <3>2, TakeKeeps, TakeKeepsWorkers
    <3>4. pending' \in [Runs -> SUBSET Cards]
      BY <3>1 DEF WorkerInv
    <3> QED
      BY <2>8, <3>3, <3>4 DEF CardCollected, WorkerInv, planning, collection, bounds
  <2>9. ASSUME NEW r \in Runs, NEW c \in Cards, CollectThrows(r, c)
        PROVE  FlowInv' /\ WorkerInv'
    <3>1. Take(r, {}, {c})
      BY <2>9 DEF CollectThrows
    <3>2. FlowInv' /\ collecting' \in [Runs -> SUBSET Cards] /\ stats' \in [Runs -> SUBSET Cards]
      BY <3>1, TakeKeeps, TakeKeepsWorkers
    <3>3. prime' \in Times /\ chain' \subseteq {"schedule", "first"} /\ recovering' \in BOOLEAN
      BY <2>9, FollowedKeepsTypes DEF CollectThrows, WorkerInv, planning, collection
    <3>4. UNCHANGED <<due, pending, metricsOf, changes>> /\ failures' = failures - 1 /\ failures > 0
      BY <2>9 DEF CollectThrows
    <3> QED
      BY <3>2, <3>3, <3>4 DEF WorkerInv
  <2>10. ASSUME NEW d \in SUBSET Cards, PageBuild(d)
         PROVE  FlowInv' /\ WorkerInv'
    BY <2>10, FlowsSame DEF PageBuild, WorkerInv, planning, collection, workers
  <2>11. ASSUME NEW d \in SUBSET Cards, NEW kept \in SUBSET Cards, Refresh(d, kept)
         PROVE  FlowInv' /\ WorkerInv'
    BY <2>11, FlowsSame DEF Refresh, WorkerInv, collection, workers
  <2>12. CASE RequestNext
    <3>1. FlowInv'
      BY <2>12, RequestKeeps
    <3> QED
      BY <2>12, <3>1 DEF RequestNext, WorkerInv, planning, collection, workers, bounds
  <2>13. CASE UNCHANGED vars
    BY <2>13, FlowsSame DEF vars, WorkerInv, planning, collection, workers, bounds
  <2> QED
    BY <2>1, <2>2, <2>3, <2>4, <2>5, <2>6, <2>7, <2>8, <2>9, <2>10, <2>11, <2>12, <2>13 DEF Next, CollectionNext
<1> QED
  BY <1>1, <1>2, TimerInvariant, PTL DEF Spec

(* Every variable keeps its type in every run: no metric takes more pages  *)
(* than MAX_PAGINATION_PAGES, and no `for_each` metric opens more children *)
(* than its items, however the collections that run them overlap           *)
(* (custom-metric-parsing.ts:112).                                         *)
THEOREM TypesAlwaysOK == Spec => []TypeOK
<1>1. QueueInv /\ TimerInv /\ FlowInv /\ WorkerInv => TypeOK
  BY DEF QueueInv, TimerInv, PlanningTypes, FlowInv, WorkerInv, TypeOK
<1> QED
  BY <1>1, QueueInvariant, TimerInvariant, TypeInvariant, PTL
=============================================================================
