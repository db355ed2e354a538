------------------------ MODULE UptimeRecoveryProofs ------------------------
(***************************************************************************)
(* Proofs about the uptime walk, for every page size, retention, request   *)
(* timeout and number of observations.                                     *)
(***************************************************************************)
EXTENDS UptimeRecovery, TLAPS

\* Only a recovery step reuses a cached page.
PollsAreFresh == request # None /\ request.purpose = "poll" => request.reused = 0

\* The pages join: the next one begins no later than right after the oldest
\* observation walked, because new observations only move pages back in time.
PagesJoin ==
    checkpoint # None => /\ PageSize <= checkpoint.skip
                         /\ checkpoint.skip <= checkpoint.oldest + 1

\* While a step is in flight its checkpoint has aged with it, so the pages
\* still join for a page taken at any moment since the step began.
FlightJoins ==
    request # None /\ request.purpose = "recovery" =>
        /\ checkpoint # None
        /\ checkpoint.skip + request.elapsed <= checkpoint.oldest + 1
        /\ checkpoint.oldest < Retention + request.elapsed

\* The newest observation of the page one saved last is stored.
LastPollStored ==
    lag <= MaxLag /\ lag < count /\ lag <= Retention => lag \in stored

Shape ==
    /\ TypeOK
    /\ PollsAreFresh
    /\ PagesJoin
    /\ FlightJoins
    /\ LastPollStored

LEMMA InitShape == Init => Shape
<1> SUFFICES ASSUME Init PROVE Shape OBVIOUS
<1> USE ParameterAssumption DEF Init
<1>1. TypeOK
  BY DEF TypeOK
<1>2. PollsAreFresh /\ PagesJoin /\ FlightJoins
  BY DEF PollsAreFresh, PagesJoin, FlightJoins
<1>3. LastPollStored
  BY DEF LastPollStored
<1> QED BY <1>1, <1>2, <1>3 DEF Shape

\* A new walk is a checkpoint of its own right.
LEMMA NewWalk ==
    ASSUME TypeOK, NEW d \in 0..MaxFlight, NEW latest \in Ages
    PROVE  /\ NewGap(d, latest) \in Checkpoint
           /\ NewGap(d, latest).skip = PageSize
           /\ NewGap(d, latest).oldest = d + PageSize - 1
           /\ NewGap(d, latest).stalled = 0
           /\ latest <= NewGap(d, latest).boundary
           /\ checkpoint # None => checkpoint.boundary <= NewGap(d, latest).boundary
<1> DEFINE b == IF checkpoint = None THEN latest ELSE Greatest(checkpoint.boundary, latest)
<1>1. b \in Ages /\ latest <= b /\ (checkpoint # None => checkpoint.boundary <= b)
  BY ParameterAssumption DEF TypeOK, Checkpoint, Ages, Greatest, MaxAge
<1>2. NewGap(d, latest) = [skip |-> PageSize, boundary |-> b,
                           oldest |-> d + PageSize - 1, stalled |-> 0]
  BY DEF NewGap
<1>3. PageSize \in 1..MaxAge /\ d + PageSize - 1 \in Ages /\ 0 \in 0..(MaxStalled - 1)
  BY ParameterAssumption DEF Ages, MaxAge
<1> HIDE DEF b
<1> QED BY <1>1, <1>2, <1>3 DEF Checkpoint

\* The page that answers a poll was taken while the poll was in flight.
LEMMA PollDelay ==
    ASSUME Shape, NEW d, Polled(d)
    PROVE  d \in 0..request.elapsed /\ request.elapsed \in 0..MaxFlight
BY NoneAssumption, ParameterAssumption DEF Shape, TypeOK, PollsAreFresh, Polled, SnapshotAges, Request

LEMMA QueuedCheckpoint ==
    ASSUME Shape, NEW d, Polled(d), QueueRecovery(d)
    PROVE  /\ checkpoint' \in Checkpoint \cup {None}
           /\ PagesJoin'
<1>1. d \in 0..MaxFlight
  BY PollDelay, ParameterAssumption
<1>2. CASE GapFound(d)
  <2>1. PICK latest \in Ages : checkpoint' = NewGap(d, latest)
    BY <1>2 DEF QueueRecovery
  <2>2. checkpoint' \in Checkpoint /\ checkpoint'.skip = PageSize
          /\ checkpoint'.oldest = d + PageSize - 1
    BY <2>1, <1>1, NewWalk DEF Shape
  <2> QED BY <2>2, <1>1, ParameterAssumption DEF PagesJoin
<1>3. CASE ~GapFound(d)
  BY <1>3 DEF QueueRecovery, Shape, TypeOK, PagesJoin
<1> QED BY <1>2, <1>3

LEMMA SavedType ==
    ASSUME TypeOK, NEW skip, NEW d
    PROVE  Saved(Page(skip, d)) \in SUBSET (0..Retention)
<1> SUFFICES ASSUME NEW a \in Saved(Page(skip, d)) PROVE a \in 0..Retention OBVIOUS
<1>1. a \in stored \/ (a \in 0..(count - 1) /\ a <= Retention)
  BY DEF Saved, Page
<1>2. CASE a \in stored
  BY <1>2 DEF TypeOK
<1>3. CASE a \in 0..(count - 1) /\ a <= Retention
  BY <1>3, ParameterAssumption DEF TypeOK
<1> QED BY <1>1, <1>2, <1>3

LEMMA PollAnsweredShape ==
    ASSUME Shape, UNCHANGED shared, NEW d \in Delays, PollAnswered(d)
    PROVE  Shape'
<1>1. d \in 0..MaxFlight
  BY PollDelay, ParameterAssumption DEF PollAnswered
<1>2. checkpoint' \in Checkpoint \cup {None} /\ PagesJoin'
  BY QueuedCheckpoint DEF PollAnswered
<1>3. lag' \in 0..(MaxLag + 1)
  BY <1>1, ParameterAssumption DEF PollAnswered, Least
<1>4. TypeOK'
  BY <1>2, <1>3, SavedType DEF Shape, TypeOK, PollAnswered
<1>5. PollsAreFresh' /\ FlightJoins'
  BY DEF PollAnswered, PollsAreFresh, FlightJoins
<1>6. LastPollStored'
  <2> SUFFICES ASSUME lag' <= MaxLag, lag' < count', lag' <= Retention PROVE lag' \in stored'
    BY DEF LastPollStored
  <2>1. lag' = d /\ d < count /\ d <= Retention
    BY <1>1, ParameterAssumption DEF PollAnswered, Least
  <2>2. d \in Page(0, d)
    BY <2>1, <1>1, ParameterAssumption DEF Page, Shape, TypeOK
  <2> QED BY <2>1, <2>2 DEF PollAnswered, Saved
<1> QED BY <1>2, <1>4, <1>5, <1>6 DEF Shape

LEMMA PollInterruptedShape ==
    ASSUME Shape, UNCHANGED shared, NEW d \in Delays, PollInterrupted(d)
    PROVE  Shape'
<1>1. checkpoint' \in Checkpoint \cup {None} /\ PagesJoin'
  BY QueuedCheckpoint DEF PollInterrupted
<1> QED BY <1>1 DEF Shape, TypeOK, PollInterrupted, PollsAreFresh, FlightJoins, LastPollStored

LEMMA StartShape ==
    ASSUME Shape, UNCHANGED shared, StartPoll \/ StartStep \/ ReuseBulkPage \/ EndWalk
    PROVE  Shape'
<1>1. CASE StartPoll
  <2>1. [purpose |-> "poll", elapsed |-> 0, reused |-> 0] \in Request
    BY ParameterAssumption DEF Request
  <2> QED BY <1>1, <2>1 DEF Shape, TypeOK, StartPoll, PollsAreFresh, PagesJoin, FlightJoins, LastPollStored
<1>2. CASE StartStep \/ ReuseBulkPage
  <2>1. PICK r \in 0..Reuse : request' = [purpose |-> "recovery", elapsed |-> 0, reused |-> r]
    BY <1>2, ParameterAssumption, NoneAssumption DEF StartStep, ReuseBulkPage, Shape, TypeOK, Cached
  <2>2. request' \in Request /\ request'.purpose = "recovery" /\ request'.elapsed = 0
    BY <2>1, ParameterAssumption DEF Request
  <2>3. bulk' \in Cached \cup {None}
    BY <1>2, ParameterAssumption DEF StartStep, ReuseBulkPage, CanStep, Shape, TypeOK, Checkpoint, Cached, MaxAge
  <2>4. UNCHANGED <<count, stored, checkpoint, lag>> /\ CanStep
    BY <1>2 DEF StartStep, ReuseBulkPage
  <2>5. TypeOK'
    BY <2>2, <2>3, <2>4 DEF Shape, TypeOK
  <2>6. checkpoint \in Checkpoint /\ checkpoint.oldest < Cutoff(0)
    BY <2>4, ParameterAssumption DEF CanStep, NothingLeft, Cutoff, Least, Shape, TypeOK, Checkpoint, Ages, MaxAge
  <2>7. Cutoff(0) <= Retention
    BY <2>6, ParameterAssumption DEF Cutoff, Least, Checkpoint, Ages, MaxAge
  <2>8. FlightJoins'
    BY <2>2, <2>4, <2>6, <2>7, NoneAssumption, ParameterAssumption
       DEF FlightJoins, Shape, PagesJoin, Cutoff, Least, Checkpoint, Ages, MaxAge
  <2>9. PollsAreFresh' /\ PagesJoin' /\ LastPollStored'
    BY <2>2, <2>4 DEF PollsAreFresh, Shape, PagesJoin, LastPollStored
  <2> QED BY <2>5, <2>8, <2>9 DEF Shape
<1>3. CASE EndWalk
  BY <1>3 DEF Shape, TypeOK, EndWalk, PollsAreFresh, PagesJoin, FlightJoins, LastPollStored
<1> QED BY <1>1, <1>2, <1>3

\* What a step in flight knows: its checkpoint, and how old its page can be.
LEMMA StepFacts ==
    ASSUME Shape, NEW d \in Delays, Stepped(d)
    PROVE  /\ checkpoint \in Checkpoint
           /\ request \in Request
           /\ d \in Nat
           /\ request.reused = 0 => d <= request.elapsed
BY NoneAssumption, ParameterAssumption
   DEF Shape, TypeOK, FlightJoins, Stepped, SnapshotAges, Delays, Request

\* A walk that goes on has saved a full page above the cutoff.
LEMMA NextCheckpoint ==
    ASSUME Shape, NEW d \in Delays, Stepped(d), Accepted(d), ~Complete(d)
    PROVE  LET next == [skip |-> checkpoint.skip + PageSize, boundary |-> checkpoint.boundary,
                        oldest |-> Greatest(checkpoint.oldest, First(d)), stalled |-> Stalled(d)]
           IN  /\ next \in Checkpoint
               /\ next.skip <= next.oldest + 1
               /\ PageSize <= next.skip
<1> DEFINE skip == checkpoint.skip
           oldest == checkpoint.oldest
           elapsed == request.elapsed
<1>1. /\ checkpoint \in Checkpoint
      /\ skip \in 1..MaxAge /\ oldest \in Ages /\ checkpoint.boundary \in Ages
      /\ elapsed \in 0..MaxFlight /\ d \in Nat
      /\ PageSize <= skip
  <2>1. checkpoint \in Checkpoint /\ request \in Request /\ d \in Nat
    BY StepFacts
  <2>2. skip \in 1..MaxAge /\ oldest \in Ages /\ checkpoint.boundary \in Ages
    BY <2>1 DEF Checkpoint
  <2>3. elapsed \in 0..MaxFlight
    BY <2>1 DEF Request
  <2>4. PageSize <= skip
    BY <2>1, NoneAssumption DEF Shape, PagesJoin
  <2> QED BY <2>1, <2>2, <2>3, <2>4
<1>2. Full(skip, d) /\ First(d) = skip + d + PageSize - 1
  BY DEF Complete, First
<1>3. First(d) < Retention + MaxFlight
  BY <1>1, <1>2, ParameterAssumption DEF Complete, Cutoff, Least, Ages, MaxAge
<1>4. Stalled(d) < MaxStalled /\ Stalled(d) \in Nat
  BY <1>1, <1>2, ParameterAssumption DEF Accepted, Complete, Stalled, Checkpoint, Ages, MaxAge
<1>5. Greatest(oldest, First(d)) \in Ages /\ First(d) <= Greatest(oldest, First(d))
  BY <1>1, <1>2, <1>3, ParameterAssumption DEF Greatest, Ages, MaxAge
<1>6. skip + PageSize \in 1..MaxAge /\ Stalled(d) \in 0..(MaxStalled - 1)
  BY <1>1, <1>2, <1>3, <1>4, ParameterAssumption DEF MaxAge
<1>7. skip + PageSize <= Greatest(oldest, First(d)) + 1
  BY <1>1, <1>2, <1>5, ParameterAssumption DEF Ages, MaxAge
<1>8. PageSize <= skip + PageSize
  BY <1>1, ParameterAssumption DEF MaxAge
<1> QED BY <1>1, <1>5, <1>6, <1>7, <1>8 DEF Checkpoint

LEMMA StepShape ==
    ASSUME Shape, UNCHANGED shared, NEW d \in Delays, StepAnswered(d) \/ StepInterrupted(d)
    PROVE  Shape'
<1>1. Stepped(d) /\ Accepted(d) /\ stored' = Saved(Page(checkpoint.skip, d)) /\ request' = None
        /\ UNCHANGED <<count, bulk, lag>>
  BY DEF StepAnswered, StepInterrupted
<1>2. checkpoint' \in Checkpoint \cup {None} /\ PagesJoin'
  <2>1. CASE StepInterrupted(d)
    BY <2>1 DEF StepInterrupted, Shape, TypeOK, PagesJoin
  <2>2. CASE StepAnswered(d) /\ Complete(d)
    BY <2>2 DEF StepAnswered, PagesJoin
  <2>3. CASE StepAnswered(d) /\ ~Complete(d)
    BY <2>3, <1>1, NextCheckpoint DEF StepAnswered, PagesJoin
  <2> QED BY <2>1, <2>2, <2>3
<1>3. TypeOK'
  BY <1>1, <1>2, SavedType DEF Shape, TypeOK
<1>4. PollsAreFresh' /\ FlightJoins'
  BY <1>1 DEF PollsAreFresh, FlightJoins
<1>5. LastPollStored'
  BY <1>1 DEF Shape, LastPollStored, Saved
<1> QED BY <1>2, <1>3, <1>4, <1>5 DEF Shape

LEMMA OtherShape ==
    ASSUME Shape, UNCHANGED shared, RequestFails \/ Restart \/ (\E skip \in 0..Retention : OtherBulkRequest(skip))
    PROVE  Shape'
<1>1. CASE RequestFails \/ Restart
  BY <1>1 DEF RequestFails, Restart, Shape, TypeOK, PollsAreFresh, PagesJoin, FlightJoins, LastPollStored
<1>2. ASSUME NEW skip \in 0..Retention, OtherBulkRequest(skip) PROVE Shape'
  <2>1. [skip |-> skip, age |-> 0] \in Cached
    BY ParameterAssumption DEF Cached, MaxAge
  <2> QED BY <1>2, <2>1
          DEF OtherBulkRequest, Shape, TypeOK, PollsAreFresh, PagesJoin, FlightJoins, LastPollStored
<1> QED BY <1>1, <1>2

LEMMA TickShape == ASSUME Shape, UNCHANGED shared, Tick PROVE Shape'
<1>1. checkpoint # None =>
        /\ checkpoint \in Checkpoint
        /\ checkpoint' \in Checkpoint
        /\ checkpoint'.skip = checkpoint.skip
        /\ checkpoint'.oldest = Older(checkpoint.oldest)
        /\ checkpoint'.boundary = Older(checkpoint.boundary)
  <2> SUFFICES ASSUME checkpoint # None PROVE
        /\ checkpoint \in Checkpoint
        /\ checkpoint' \in Checkpoint
        /\ checkpoint'.skip = checkpoint.skip
        /\ checkpoint'.oldest = Older(checkpoint.oldest)
        /\ checkpoint'.boundary = Older(checkpoint.boundary)
    OBVIOUS
  <2>1. checkpoint \in Checkpoint
    BY DEF Shape, TypeOK
  <2>2. Older(checkpoint.oldest) \in Ages /\ Older(checkpoint.boundary) \in Ages
    BY <2>1, ParameterAssumption DEF Older, Checkpoint, Ages, MaxAge
  <2>3. checkpoint' = [skip |-> checkpoint.skip, boundary |-> Older(checkpoint.boundary),
                       oldest |-> Older(checkpoint.oldest), stalled |-> checkpoint.stalled]
    BY DEF Tick
  <2> QED BY <2>1, <2>2, <2>3 DEF Checkpoint
<1>2. checkpoint = None => checkpoint' = None
  BY DEF Tick
<1>3. request # None =>
        /\ request \in Request
        /\ request' \in Request
        /\ request'.purpose = request.purpose
        /\ request'.elapsed = request.elapsed + 1
        /\ request'.reused = request.reused
  BY ParameterAssumption DEF Tick, Shape, TypeOK, Request
<1>4. request = None => request' = None
  BY DEF Tick
<1>5. lag' \in 0..(MaxLag + 1) /\ count' \in 0..MaxCount /\ stored' \in SUBSET (0..Retention)
  BY ParameterAssumption DEF Tick, Shape, TypeOK, Least
<1>6. bulk' \in Cached \cup {None}
  <2>1. CASE bulk = None \/ bulk.age = Reuse
    BY <2>1 DEF Tick
  <2>2. CASE ~(bulk = None \/ bulk.age = Reuse)
    <3>1. bulk \in Cached
      BY <2>2 DEF Shape, TypeOK
    <3>2. [skip |-> bulk.skip, age |-> bulk.age + 1] \in Cached
      BY <2>2, <3>1, ParameterAssumption DEF Cached
    <3> QED BY <2>2, <3>2 DEF Tick
  <2> QED BY <2>1, <2>2
<1>7. TypeOK'
  <2>1. shared' \in BOOLEAN
    BY DEF Shape, TypeOK
  <2>2. request' \in Request \cup {None} /\ checkpoint' \in Checkpoint \cup {None}
    BY <1>1, <1>2, <1>3, <1>4
  <2> QED BY <2>1, <2>2, <1>5, <1>6, Zenon DEF TypeOK
<1>8. PollsAreFresh'
  BY <1>3, <1>4 DEF PollsAreFresh, Shape
<1>9. PagesJoin'
  BY <1>1, <1>2, ParameterAssumption DEF PagesJoin, Shape, Older, Checkpoint, Ages, MaxAge
<1>10. FlightJoins'
  <2> SUFFICES ASSUME request' # None, request'.purpose = "recovery"
               PROVE  /\ checkpoint' # None
                      /\ checkpoint'.skip + request'.elapsed <= checkpoint'.oldest + 1
                      /\ checkpoint'.oldest < Retention + request'.elapsed
    BY DEF FlightJoins
  <2>1. /\ request \in Request
        /\ request'.elapsed = request.elapsed + 1
        /\ checkpoint # None
        /\ checkpoint.skip + request.elapsed <= checkpoint.oldest + 1
        /\ checkpoint.oldest < Retention + request.elapsed
    BY <1>3, <1>4 DEF Shape, FlightJoins
  <2>2. checkpoint' # None
    BY <2>1, <1>1, NoneAssumption
  <2>3. checkpoint.oldest \in Nat /\ checkpoint.skip \in Nat /\ request.elapsed \in 0..MaxFlight
    BY <2>1, <1>1, ParameterAssumption DEF Checkpoint, Request, Ages, MaxAge
  <2>4. checkpoint'.oldest = checkpoint.oldest + 1
    BY <2>1, <2>3, <1>1, ParameterAssumption DEF Older, MaxAge
  <2>5. checkpoint'.skip = checkpoint.skip
    BY <2>1, <1>1
  <2> QED BY <2>1, <2>2, <2>3, <2>4, <2>5, ParameterAssumption
<1>11. LastPollStored'
  BY ParameterAssumption DEF Tick, Shape, TypeOK, LastPollStored, Least
<1> QED BY <1>7, <1>8, <1>9, <1>10, <1>11 DEF Shape

LEMMA NextShape == Shape /\ [Next]_vars => Shape'
<1> SUFFICES ASSUME Shape, [Next]_vars PROVE Shape' OBVIOUS
<1>0. UNCHANGED shared
  BY DEF Next, vars
<1>1. CASE StartPoll \/ EndWalk \/ StartStep \/ ReuseBulkPage
  BY <1>0, <1>1, StartShape
<1>2. ASSUME NEW d \in Delays, PollAnswered(d) \/ PollInterrupted(d) PROVE Shape'
  BY <1>0, <1>2, PollAnsweredShape, PollInterruptedShape
<1>3. ASSUME NEW d \in Delays, StepAnswered(d) \/ StepInterrupted(d) PROVE Shape'
  BY <1>0, <1>3, StepShape
<1>4. CASE RequestFails \/ Restart \/ (\E skip \in 0..Retention : OtherBulkRequest(skip))
  BY <1>0, <1>4, OtherShape
<1>5. CASE Tick
  BY <1>0, <1>5, TickShape
<1>6. CASE UNCHANGED vars
  BY <1>6 DEF vars, Shape, TypeOK, PollsAreFresh, PagesJoin, FlightJoins, LastPollStored
<1> QED BY <1>1, <1>2, <1>3, <1>4, <1>5, <1>6 DEF Next, Step

\* Every variable of the walk keeps its type, whatever is answered and when:
\* in particular a persisted checkpoint never counts MaxStalled stalled pages
\* and its page never lies beyond the retention.
THEOREM WalkTypeCorrect == Spec => []TypeOK
<1>1. Shape => TypeOK
  BY DEF Shape
<1> QED BY InitShape, NextShape, <1>1, PTL DEF Spec

(***************************************************************************)
(* No gap is forgotten, if pages are not taken from a shared bulk cache    *)
(* and a history page is answered only when fewer than a page of           *)
(* observations have been published since the last page one.               *)
(***************************************************************************)
FreshAndClose == MaxLag <= PageSize

\* Without a bulk endpoint no request reuses a page.
NothingReused == request # None => request.reused = 0

Recovered == ~shared => NoHole /\ NothingReused

LEMMA ReuseStep == ASSUME Shape, ~shared, NothingReused, [Next]_vars PROVE NothingReused'
BY DEF NothingReused, Next, Step, vars, StartPoll, PollAnswered, PollInterrupted, EndWalk, StartStep,
       ReuseBulkPage, OtherBulkRequest, StepAnswered, StepInterrupted, RequestFails, Restart, Tick

\* Queuing a gap covers all that page one leaves between itself and what is stored.
LEMMA GapQueued ==
    ASSUME Shape, NoHole, NEW d, Polled(d), QueueRecovery(d), UNCHANGED count,
           NEW a \in 0..(count - 1), a < Retention, ~(a < d + PageSize),
           stored # {} => \/ \E s \in stored : s <= a
                          \/ \A s \in stored : a < s
    PROVE  GapFound(d) => a \in stored \/ Missing(a)'
<1> SUFFICES ASSUME GapFound(d), a \notin stored PROVE Missing(a)' OBVIOUS
<1>1. d \in 0..MaxFlight /\ a \in Nat
  BY PollDelay, ParameterAssumption DEF Shape, TypeOK
<1>2. PICK latest \in Ages : Latest(latest) /\ checkpoint' = NewGap(d, latest)
  BY DEF QueueRecovery
<1>3. /\ checkpoint' \in Checkpoint
      /\ checkpoint'.oldest = d + PageSize - 1
      /\ latest <= checkpoint'.boundary
      /\ checkpoint # None => checkpoint.boundary <= checkpoint'.boundary
  BY <1>1, <1>2, NewWalk DEF Shape
<1>4. checkpoint' # None /\ checkpoint'.oldest < a
  BY <1>1, <1>3, NoneAssumption, ParameterAssumption
<1>5. a < checkpoint'.boundary
  <2>1. latest \in Nat /\ checkpoint'.boundary \in Nat
    BY <1>2, <1>3, ParameterAssumption DEF Checkpoint, Ages, MaxAge
  <2>2. CASE stored = {}
    BY <2>1, <2>2, <1>1, <1>2, <1>3, ParameterAssumption DEF Latest
  <2>3. CASE a < latest
    BY <2>1, <2>3, <1>1, <1>3
  <2>4. CASE stored # {} /\ ~(a < latest)
    <3>1. latest \in stored /\ latest <= a
      BY <2>1, <2>4, <1>1, <1>2 DEF Latest
    <3>2. Missing(a)
      BY <3>1 DEF NoHole
    <3>3. checkpoint \in Checkpoint /\ checkpoint.boundary \in Nat
      BY <3>2, ParameterAssumption DEF Missing, Shape, TypeOK, Checkpoint, Ages, MaxAge
    <3> QED BY <2>1, <3>2, <3>3, <1>1, <1>3 DEF Missing
  <2> QED BY <2>2, <2>3, <2>4
<1> QED BY <1>4, <1>5 DEF Missing

LEMMA PollNoGap ==
    ASSUME Shape, NoHole, NEW d \in Delays, PollAnswered(d) \/ PollInterrupted(d)
    PROVE  NoHole'
<1>1. Polled(d) /\ QueueRecovery(d) /\ UNCHANGED count
        /\ (stored' = Saved(Page(0, d)) \/ stored' = stored)
  BY DEF PollAnswered, PollInterrupted
<1>2. d \in 0..MaxFlight /\ count \in Nat
  BY <1>1, PollDelay, ParameterAssumption DEF Shape, TypeOK
<1>3. stored \subseteq stored' /\ stored \in SUBSET Nat
  BY <1>1, ParameterAssumption DEF Saved, Shape, TypeOK
<1> SUFFICES ASSUME NEW a \in 0..(count - 1), a < Retention, NEW s \in stored', s <= a, a \notin stored'
             PROVE  Missing(a)'
  BY <1>1 DEF NoHole
<1>4. s \in stored \/ (s \in Page(0, d) /\ stored' = Saved(Page(0, d)))
  BY <1>1 DEF Saved
<1>5. CASE GapFound(d)
  <2>1. ~(a < d + PageSize)
    <3>1. CASE s \in stored
      BY <3>1, <1>5, <1>2, <1>3, ParameterAssumption DEF GapFound
    <3>2. CASE s \in Page(0, d) /\ stored' = Saved(Page(0, d))
      <4>1. a \notin Page(0, d)
        BY <3>2, ParameterAssumption DEF Saved
      <4> QED BY <4>1, <3>2, <1>2, ParameterAssumption DEF Page
    <3> QED BY <3>1, <3>2, <1>4
  <2>2. (\E t \in stored : t <= a) \/ (\A t \in stored : a < t)
    BY <1>2, <1>3
  <2> QED BY <2>1, <2>2, <1>1, <1>3, <1>5, GapQueued
<1>6. CASE ~GapFound(d)
  <2>1. checkpoint' = checkpoint
    BY <1>1, <1>6 DEF QueueRecovery
  <2>2. PICK t \in stored : t <= a
    <3>1. CASE s \in stored
      BY <3>1
    <3>2. CASE s \in Page(0, d) /\ stored' = Saved(Page(0, d))
      <4>1. a \notin Page(0, d) /\ d <= s
        BY <3>2, <1>2, ParameterAssumption DEF Saved, Page
      <4>2. d + PageSize <= a
        BY <4>1, <1>2, <3>2, ParameterAssumption DEF Page
      <4>3. Full(0, d)
        BY <4>2, <1>2, ParameterAssumption DEF Full
      <4>4. PICK t \in stored : ~(d + PageSize - 1 < t)
        BY <4>3, <1>6 DEF GapFound
      <4> QED BY <4>2, <4>4, <1>2, <1>3, ParameterAssumption
    <3> QED BY <3>1, <3>2, <1>4
  <2>3. Missing(a)
    BY <2>2, <1>3 DEF NoHole
  <2> QED BY <2>1, <2>3 DEF Missing
<1> QED BY <1>5, <1>6

\* A page the walk takes in time begins right after what was walked.
LEMMA WalkedPage ==
    ASSUME Shape, NothingReused, NEW d \in Delays, Stepped(d),
           NEW a \in 0..(count - 1), a < Retention, Missing(a),
           a <= First(d) \/ ~Full(checkpoint.skip, d) \/ Page(checkpoint.skip, d) = {}
    PROVE  a \in Page(checkpoint.skip, d)
<1>1. /\ checkpoint \in Checkpoint
      /\ request \in Request
      /\ d \in Nat /\ d <= request.elapsed
      /\ checkpoint.skip + request.elapsed <= checkpoint.oldest + 1
  BY StepFacts, NoneAssumption DEF Stepped, NothingReused, Shape, FlightJoins
<1>2. checkpoint.skip \in Nat /\ checkpoint.oldest \in Nat /\ request.elapsed \in Nat /\ a \in Nat /\ count \in Nat
  BY <1>1, ParameterAssumption DEF Checkpoint, Request, Ages, MaxAge, Shape, TypeOK
<1>3. checkpoint.skip + d <= a
  BY <1>1, <1>2 DEF Missing
<1>4. checkpoint.skip + d \in 0..(count - 1)
  BY <1>1, <1>2, <1>3
<1>5. Page(checkpoint.skip, d) # {}
  BY <1>1, <1>2, <1>4, ParameterAssumption DEF Page
<1>6. a < checkpoint.skip + d + PageSize
  BY <1>1, <1>2, <1>5, ParameterAssumption DEF First, Full
<1> QED BY <1>3, <1>6 DEF Page

LEMMA StepNoGap ==
    ASSUME FreshAndClose, Shape, NoHole, NothingReused, NEW d \in Delays, StepAnswered(d) \/ StepInterrupted(d)
    PROVE  NoHole'
<1>1. Stepped(d) /\ stored' = Saved(Page(checkpoint.skip, d)) /\ UNCHANGED count /\ lag <= MaxLag
  BY DEF StepAnswered, StepInterrupted, Stepped
<1>2. checkpoint \in Checkpoint /\ request \in Request /\ d \in Nat /\ PageSize <= checkpoint.skip
  BY <1>1, StepFacts, NoneAssumption DEF Shape, PagesJoin
<1>3. /\ checkpoint.skip \in Nat /\ checkpoint.oldest \in Nat /\ checkpoint.boundary \in Nat
      /\ request.elapsed \in Nat /\ count \in Nat /\ lag \in Nat
  BY <1>2, ParameterAssumption DEF Checkpoint, Request, Ages, MaxAge, Shape, TypeOK
<1> SUFFICES ASSUME NEW a \in 0..(count - 1), a < Retention, NEW s \in stored', s <= a, a \notin stored'
             PROVE  Missing(a)'
  BY <1>1 DEF NoHole
<1>4. PICK t \in stored : t <= a
  <2>1. CASE s \in stored
    BY <2>1
  <2>2. CASE s \in Page(checkpoint.skip, d)
    <3>1. s \in Nat /\ PageSize <= s
      BY <2>2, <1>2, <1>3, ParameterAssumption DEF Page
    <3>2. lag <= a
      BY <3>1, <1>1, <1>3, ParameterAssumption DEF FreshAndClose
    <3>3. lag \in stored
      BY <3>2, <1>1, <1>3, ParameterAssumption DEF Shape, LastPollStored
    <3> QED BY <3>2, <3>3
  <2> QED BY <2>1, <2>2, <1>1 DEF Saved
<1>5. a \notin stored /\ a \notin Page(checkpoint.skip, d)
  BY <1>1, <1>3, ParameterAssumption DEF Saved
<1>6. Missing(a)
  BY <1>4, <1>5 DEF NoHole
<1>7. a \in Nat /\ First(d) < a /\ Full(checkpoint.skip, d) /\ Page(checkpoint.skip, d) # {}
  <2>1. ~(a <= First(d) \/ ~Full(checkpoint.skip, d) \/ Page(checkpoint.skip, d) = {})
    BY <1>1, <1>5, <1>6, WalkedPage
  <2>2. First(d) \in Int
    BY <1>2, <1>3, ParameterAssumption DEF First
  <2> QED BY <2>1, <2>2, <1>3
<1>8. CASE checkpoint' = checkpoint
  BY <1>6, <1>8 DEF Missing
<1>9. CASE StepAnswered(d)
  <2>1. First(d) < Cutoff(request.elapsed)
    BY <1>2, <1>3, <1>6, <1>7, ParameterAssumption DEF Missing, Cutoff, Least, First
  <2>2. ~Complete(d)
    BY <2>1, <1>2, <1>3, <1>7, ParameterAssumption DEF Complete, Cutoff, Least, First
  <2>3. checkpoint' = [skip |-> checkpoint.skip + PageSize, boundary |-> checkpoint.boundary,
                       oldest |-> Greatest(checkpoint.oldest, First(d)), stalled |-> Stalled(d)]
    BY <2>2, <1>9 DEF StepAnswered
  <2>4. checkpoint' # None
    BY <1>9, <1>1, <2>2, <2>3, NextCheckpoint, NoneAssumption DEF StepAnswered
  <2>5. checkpoint'.boundary = checkpoint.boundary /\ checkpoint'.oldest = Greatest(checkpoint.oldest, First(d))
    BY <2>3
  <2>6. Greatest(checkpoint.oldest, First(d)) < a
    BY <1>6, <1>7 DEF Greatest, Missing
  <2> QED BY <2>4, <2>5, <2>6, <1>6 DEF Missing
<1>10. CASE StepInterrupted(d)
  BY <1>8, <1>10 DEF StepInterrupted
<1> QED BY <1>9, <1>10

LEMMA EndWalkNoGap == ASSUME Shape, NoHole, EndWalk PROVE NoHole'
<1>1. checkpoint \in Checkpoint
  BY DEF EndWalk, NothingLeft, Shape, TypeOK
<1>2. checkpoint.oldest \in Nat /\ checkpoint.boundary \in Nat /\ Cutoff(0) <= checkpoint.oldest
  BY <1>1, ParameterAssumption DEF EndWalk, NothingLeft, Cutoff, Least, Checkpoint, Ages, MaxAge
<1>3. \A a \in 0..(count - 1) : a < Retention => ~Missing(a)
  BY <1>1, <1>2, ParameterAssumption DEF Missing, Cutoff, Least, Shape, TypeOK
<1> QED BY <1>3 DEF EndWalk, NoHole

LEMMA TickNoGap == ASSUME Shape, NoHole, Tick PROVE NoHole'
<1>1. PICK n \in Nat : count' = n /\ n <= count + 1 /\ count \in Nat
  BY ParameterAssumption DEF Tick, Shape, TypeOK, Least
<1> SUFFICES ASSUME NEW a \in 0..(n - 1), a < Retention, NEW s \in stored', s <= a
             PROVE  a \in stored' \/ Missing(a)'
  BY <1>1 DEF NoHole
<1>2. s \in 1..Retention /\ s - 1 \in stored
  BY DEF Tick
<1>3. a - 1 \in 0..(count - 1) /\ a - 1 < Retention /\ s - 1 <= a - 1 /\ a \in 1..Retention
  <2>1. Retention \in Nat /\ s \in Nat /\ 1 <= s
    BY <1>2, ParameterAssumption
  <2>2. 1 <= a /\ a <= count
    BY <1>1, <2>1
  <2> QED BY <1>1, <2>1, <2>2
<1>4. CASE a - 1 \in stored
  BY <1>3, <1>4 DEF Tick
<1>5. CASE Missing(a - 1)
  <2>1. checkpoint \in Checkpoint
    BY <1>5 DEF Missing, Shape, TypeOK
  <2>2. checkpoint.oldest \in Ages /\ checkpoint.boundary \in Ages
    BY <2>1 DEF Checkpoint
  <2>3. checkpoint' = [skip |-> checkpoint.skip, boundary |-> Older(checkpoint.boundary),
                       oldest |-> Older(checkpoint.oldest), stalled |-> checkpoint.stalled]
    BY <1>5 DEF Tick, Missing
  <2>4. checkpoint'.oldest = Older(checkpoint.oldest) /\ checkpoint'.boundary = Older(checkpoint.boundary)
    BY <2>3
  <2>5. checkpoint' # None
    <3>1. Older(checkpoint.oldest) \in Ages /\ Older(checkpoint.boundary) \in Ages
      BY <2>2, ParameterAssumption DEF Older, Ages, MaxAge
    <3>2. checkpoint' \in Checkpoint
      BY <2>1, <2>3, <3>1 DEF Checkpoint
    <3> QED BY <3>2, NoneAssumption
  <2>6. Older(checkpoint.oldest) < a /\ a < Older(checkpoint.boundary)
    BY <1>3, <1>5, <2>2, ParameterAssumption DEF Missing, Older, Ages, MaxAge
  <2> QED BY <2>4, <2>5, <2>6 DEF Missing
<1> QED BY <1>3, <1>2, <1>4, <1>5 DEF NoHole

LEMMA NextRecovered == ASSUME FreshAndClose PROVE Shape /\ Recovered /\ [Next]_vars => Recovered'
<1> SUFFICES ASSUME Shape, Recovered, [Next]_vars, ~shared' PROVE NoHole' /\ NothingReused'
  BY DEF Recovered
<1>1. ~shared /\ NoHole /\ NothingReused
  BY DEF Next, vars, Recovered
<1>2. NothingReused'
  BY <1>1, ReuseStep
<1>3. NoHole'
  <2>1. ASSUME NEW d \in Delays, PollAnswered(d) \/ PollInterrupted(d) PROVE NoHole'
    BY <1>1, <2>1, PollNoGap
  <2>2. ASSUME NEW d \in Delays, StepAnswered(d) \/ StepInterrupted(d) PROVE NoHole'
    BY <1>1, <2>2, StepNoGap
  <2>3. CASE EndWalk
    BY <1>1, <2>3, EndWalkNoGap
  <2>4. CASE Tick
    BY <1>1, <2>4, TickNoGap
  <2>5. CASE UNCHANGED <<count, stored, checkpoint>>
    BY <1>1, <2>5 DEF NoHole, Missing
  <2> QED BY <2>1, <2>2, <2>3, <2>4, <2>5
          DEF Next, Step, vars, StartPoll, StartStep, ReuseBulkPage, OtherBulkRequest, RequestFails, Restart
<1> QED BY <1>2, <1>3

\* No gap in the history is ever forgotten: through outages, second outages
\* during a recovery, crashes between any two writes and pages shifted by new
\* observations, what is missing stays within the persisted checkpoint's walk.
THEOREM GapsRemembered == ASSUME FreshAndClose PROVE Spec => []NoGapForgotten
<1>1. Init => Recovered
  BY DEF Init, Recovered, NoHole, NothingReused
<1>2. Recovered => NoGapForgotten
  BY DEF Recovered, NoGapForgotten
<1> QED BY InitShape, NextShape, NextRecovered, <1>1, <1>2, PTL DEF Spec
=============================================================================
