------------------------ MODULE MetricRecoveryProofs ------------------------
(***************************************************************************)
(* Proofs about the history recovery queue, for any number of metrics,     *)
(* sources and viewers and any bounds.                                     *)
(***************************************************************************)
EXTENDS MetricRecovery, TLAPS

\* collectInBackground is a single flight: it collects first and recovers then.
OneAtATime ==
    /\ collecting => inflight = None
    /\ \A k \in Keys : plans[k] # None => collecting

\* The inductive invariant.  A step advances the row from the job in memory, so
\* the row's coverage needs JobAgreesWithRow; what the step saves is the batch
\* of its own snapshot, so that needs StepMatchesJob; and the snapshot stays
\* current because no target is collected while a step is in flight.
IInv ==
    /\ TypeOK
    /\ OneAtATime
    /\ CheckpointBehindSaves
    /\ JobAgreesWithRow
    /\ StepMatchesJob
    /\ BackoffOnlyAfterFailure

LEMMA DelayBounded == ASSUME NEW f PROVE RetryDelay(f) \in 0..MaxDelay
BY BoundsAssumption DEF RetryDelay

\* Failing an entry counts the failure and sets the delay of the new count.
LEMMA FailedEntry ==
    ASSUME NEW e \in Entry
    PROVE  /\ Failed(e) \in Entry
           /\ Failed(e).source = e.source
           /\ Failed(e).checkpoint = e.checkpoint
           /\ Failed(e).failures # 0
           /\ Failed(e).retryIn = RetryDelay(Failed(e).failures)
<1> DEFINE f == IF e.failures + 1 <= MaxFailures THEN e.failures + 1 ELSE MaxFailures
<1>1. f \in 0..MaxFailures /\ f # 0
  BY BoundsAssumption DEF Entry
<1>2. Failed(e) = [source |-> e.source, checkpoint |-> e.checkpoint,
                   retryIn |-> RetryDelay(f), failures |-> f]
  BY DEF Failed
<1>3. RetryDelay(f) \in 0..MaxDelay
  BY DelayBounded
<1> HIDE DEF f
<1> QED BY <1>1, <1>2, <1>3 DEF Entry

LEMMA AdvancedEntry ==
    ASSUME NEW e \in Entry, e.checkpoint < MaxPage
    PROVE  /\ Advanced(e) \in Entry
           /\ Advanced(e).source = e.source
           /\ Advanced(e).checkpoint = e.checkpoint + 1
           /\ Advanced(e).failures = 0 /\ Advanced(e).retryIn = 0
BY BoundsAssumption DEF Advanced, Entry, Pages

LEMMA CloserEntry ==
    ASSUME NEW e \in Entry
    PROVE  /\ Closer(e) \in Entry
           /\ Closer(e).source = e.source
           /\ Closer(e).checkpoint = e.checkpoint
           /\ Closer(e).failures = e.failures
           /\ Closer(e).retryIn <= e.retryIn
BY BoundsAssumption DEF Closer, Entry

\* The snapshot a step works on is that of a queued job.
LEMMA Snapshot ==
    ASSUME NEW k \in Keys, NEW e \in Entry
    PROVE  /\ [key |-> k, source |-> e.source, checkpoint |-> e.checkpoint, live |-> TRUE] \in Flight
           /\ [key |-> k, source |-> e.source, checkpoint |-> e.checkpoint, live |-> TRUE] # None
<1>1. e.source \in Sources /\ e.checkpoint \in Pages
  BY DEF Entry
<1>2. [key |-> k, source |-> e.source, checkpoint |-> e.checkpoint, live |-> TRUE] \in Flight
  BY <1>1 DEF Flight
<1> QED BY <1>2, NoneAssumption

\* What an UPDATE leaves in the table.
LEMMA StoredRows ==
    ASSUME TypeOK, NEW k \in Keys, NEW c \in Pages, NEW job \in Entry
    PROVE  Stored(k, c, job) \in [Keys -> Entry \cup {None}]
<1>1. CASE rows[k] = None
  BY <1>1 DEF Stored, TypeOK
<1>2. CASE rows[k] # None
  <2>1. [source |-> rows[k].source, checkpoint |-> c,
         retryIn |-> job.retryIn, failures |-> job.failures] \in Entry
    BY <1>2 DEF TypeOK, Entry
  <2> QED BY <1>2, <2>1 DEF Stored, TypeOK
<1> QED BY <1>1, <1>2

LEMMA CloserKept ==
    ASSUME NEW e \in Entry \cup {None}
    PROVE  /\ Closer(e) \in Entry \cup {None}
           /\ Closer(e) = None <=> e = None
           /\ e # None => /\ Closer(e).source = e.source
                          /\ Closer(e).checkpoint = e.checkpoint
<1>1. CASE e = None
  BY <1>1 DEF Closer
<1>2. CASE e \in Entry
  BY <1>2, CloserEntry, NoneAssumption
<1> QED BY <1>1, <1>2

LEMMA InitInv == Init => IInv
<1> SUFFICES ASSUME Init PROVE IInv OBVIOUS
<1>1. TypeOK
  <2>1. mode \in [Keys -> Modes]
    BY DEF Init, Modes, Collected, Retained, Uptime
  <2>2. refreshes \in 0..MaxRefreshes /\ gaps \in 0..MaxGaps /\ crashes \in 0..MaxCrashes
    BY BoundsAssumption DEF Init
  <2> QED BY <2>1, <2>2 DEF Init, TypeOK
<1>2. OneAtATime /\ StepMatchesJob
  BY DEF Init, OneAtATime, StepMatchesJob
<1>3. CheckpointBehindSaves /\ JobAgreesWithRow /\ BackoffOnlyAfterFailure
  BY DEF Init, CheckpointBehindSaves, JobAgreesWithRow, BackoffOnlyAfterFailure
<1> QED BY <1>1, <1>2, <1>3 DEF IInv

(***************************************************************************)
(* One lemma per action, one step per part of the invariant it disturbs.   *)
(***************************************************************************)
LEMMA StartCollectionInv ==
    ASSUME IInv, NEW due \in SUBSET Keys, StartCollection(due)
    PROVE  IInv'
<1> USE DEF IInv, TypeOK, StartCollection, Idle, discovery, budget, Plan
<1>1. TypeOK'
  BY NoneAssumption
<1>2. OneAtATime'
  BY NoneAssumption DEF OneAtATime
<1>3. CheckpointBehindSaves'
  BY NoneAssumption DEF CheckpointBehindSaves, JobAgreesWithRow, StepMatchesJob, SavedBefore
<1>4. JobAgreesWithRow'
  BY NoneAssumption DEF CheckpointBehindSaves, JobAgreesWithRow, StepMatchesJob, SavedBefore
<1>5. StepMatchesJob'
  BY NoneAssumption DEF StepMatchesJob, OneAtATime
<1>6. BackoffOnlyAfterFailure'
  BY NoneAssumption DEF BackoffOnlyAfterFailure
<1> QED BY <1>1, <1>2, <1>3, <1>4, <1>5, <1>6

LEMMA CollectKeyInv ==
    ASSUME IInv, NEW k \in Keys, CollectKey(k)
    PROVE  IInv'
<1> USE DEF IInv, TypeOK, CollectKey, QueueGap, QueueSaved, Enqueue, Cancel, CancelQueued, MovedToEnd, Without,
           discovery, Plan, Entry, Pages
<1>1. TypeOK'
  BY BoundsAssumption, NoneAssumption
<1>2. OneAtATime'
  BY BoundsAssumption, NoneAssumption DEF OneAtATime
<1>3. CheckpointBehindSaves'
  BY BoundsAssumption, NoneAssumption DEF CheckpointBehindSaves, JobAgreesWithRow, StepMatchesJob, SavedBefore
<1>4. JobAgreesWithRow'
  BY BoundsAssumption, NoneAssumption DEF CheckpointBehindSaves, JobAgreesWithRow, StepMatchesJob, SavedBefore
<1>5. StepMatchesJob'
  BY BoundsAssumption, NoneAssumption DEF StepMatchesJob, OneAtATime
<1>6. BackoffOnlyAfterFailure'
  <2>1. \A f : RetryDelay(f) \in 0..MaxDelay
    BY DelayBounded
  <2>2. CASE UNCHANGED <<jobs, rows>>
    BY <2>2 DEF BackoffOnlyAfterFailure
  <2>3. CASE Cancel(k)
    BY <2>3 DEF BackoffOnlyAfterFailure
  <2>4. ASSUME NEW s \in Sources, NEW c \in Pages, NEW x, Enqueue(k, s, c, x)
        PROVE  BackoffOnlyAfterFailure'
    <3> DEFINE e == jobs'[k]
    <3>1. /\ jobs' = [jobs EXCEPT ![k] = e] /\ rows' = [rows EXCEPT ![k] = e]
          /\ \/ e.failures = 0 /\ e.retryIn = 0
             \/ rows[k] # None /\ e.failures = rows[k].failures /\ e.retryIn = rows[k].retryIn
      BY <2>4
    <3>2. e.failures = 0 => e.retryIn = 0
      BY <3>1 DEF BackoffOnlyAfterFailure
    <3>3. e.retryIn <= RetryDelay(e.failures)
      BY <3>1, <2>1 DEF BackoffOnlyAfterFailure
    <3> HIDE DEF e
    <3> QED BY <3>1, <3>2, <3>3 DEF BackoffOnlyAfterFailure
  <2>5. 1 \in Pages
    BY BoundsAssumption
  <2> QED BY <2>2, <2>3, <2>4, <2>5
<1> QED BY <1>1, <1>2, <1>3, <1>4, <1>5, <1>6

LEMMA StartStepInv ==
    ASSUME IInv, NEW k \in Keys, StartStep(k)
    PROVE  IInv'
<1> USE DEF IInv, TypeOK, StartStep, AllCollected, discovery, budget
<1>1. TypeOK'
  BY Snapshot DEF Selected, FirstOf, Due, StartStep
<1>2. OneAtATime'
  BY  DEF OneAtATime
<1>3. CheckpointBehindSaves'
  BY  DEF CheckpointBehindSaves, JobAgreesWithRow, StepMatchesJob, SavedBefore
<1>4. JobAgreesWithRow'
  BY  DEF CheckpointBehindSaves, JobAgreesWithRow, StepMatchesJob, SavedBefore
<1>5. StepMatchesJob'
  BY Snapshot DEF Selected, FirstOf, Due, StartStep, StepMatchesJob
<1>6. BackoffOnlyAfterFailure'
  BY  DEF BackoffOnlyAfterFailure
<1> QED BY <1>1, <1>2, <1>3, <1>4, <1>5, <1>6

LEMMA WorkerEndsInv ==
    ASSUME IInv, NothingDue \/ CollectionFails
    PROVE  IInv'
<1> USE DEF IInv, TypeOK, NothingDue, CollectionFails, AllCollected, discovery, budget
<1>1. TypeOK'
  OBVIOUS
<1>2. OneAtATime'
  BY  DEF OneAtATime
<1>3. CheckpointBehindSaves'
  BY  DEF CheckpointBehindSaves, JobAgreesWithRow, StepMatchesJob, SavedBefore
<1>4. JobAgreesWithRow'
  BY  DEF CheckpointBehindSaves, JobAgreesWithRow, StepMatchesJob, SavedBefore
<1>5. StepMatchesJob'
  BY  DEF StepMatchesJob, OneAtATime
<1>6. BackoffOnlyAfterFailure'
  BY  DEF BackoffOnlyAfterFailure
<1> QED BY <1>1, <1>2, <1>3, <1>4, <1>5, <1>6

LEMMA DropStepInv ==
    ASSUME IInv, DropStep
    PROVE  IInv'
<1> USE DEF IInv, TypeOK, DropStep, discovery, budget
<1>1. TypeOK'
  OBVIOUS
<1>2. OneAtATime'
  BY  DEF OneAtATime
<1>3. CheckpointBehindSaves'
  BY  DEF CheckpointBehindSaves, JobAgreesWithRow, StepMatchesJob, SavedBefore
<1>4. JobAgreesWithRow'
  BY  DEF CheckpointBehindSaves, JobAgreesWithRow, StepMatchesJob, SavedBefore
<1>5. StepMatchesJob'
  BY  DEF StepMatchesJob, OneAtATime
<1>6. BackoffOnlyAfterFailure'
  BY  DEF BackoffOnlyAfterFailure
<1> QED BY <1>1, <1>2, <1>3, <1>4, <1>5, <1>6

LEMMA AdvanceStepInv ==
    ASSUME IInv, NEW k \in Keys, AdvanceStep(k)
    PROVE  IInv'
<1> USE DEF IInv, TypeOK, AdvanceStep, StepOf, Saved, Stored, MovedToEnd, Without,
           discovery, budget, Flight, Entry, Pages
<1>1. TypeOK'
  <2>1. jobs[k] \in Entry
    BY DEF StepMatchesJob
  <2>2. jobs'[k] \in Entry /\ jobs' \in [Keys -> Entry \cup {None}]
    BY <2>1, AdvancedEntry DEF StepMatchesJob
  <2>3. rows[k] # None => jobs'[k].checkpoint \in Pages
    BY <2>2 DEF Entry
  <2>4. rows' \in [Keys -> Entry \cup {None}]
    BY <2>2, <2>3, StoredRows
  <2>5. fetched' \in [Keys -> SUBSET (Sources \X Pages)]
    BY NoneAssumption
  <2> QED BY <2>2, <2>4, <2>5
<1>2. OneAtATime'
  BY BoundsAssumption, NoneAssumption, AdvancedEntry DEF OneAtATime
<1>3. CheckpointBehindSaves'
  BY BoundsAssumption, NoneAssumption, AdvancedEntry DEF CheckpointBehindSaves, JobAgreesWithRow, StepMatchesJob, SavedBefore
<1>4. JobAgreesWithRow'
  <2> SUFFICES ASSUME NEW q \in Keys, jobs'[q] # None, rows'[q] # None
               PROVE  /\ rows'[q].source = jobs'[q].source
                      /\ rows'[q].checkpoint <= jobs'[q].checkpoint
                      /\ SavedBefore(q, jobs[q])'
    BY DEF JobAgreesWithRow
  <2>1. CASE q # k
    BY <2>1 DEF JobAgreesWithRow, SavedBefore
  <2>2. CASE q = k
    <3>1. /\ jobs[k] # None /\ jobs[k] \in Entry /\ jobs[k].checkpoint < MaxPage
          /\ jobs[k].source = inflight.source /\ jobs[k].checkpoint = inflight.checkpoint
      BY <2>2 DEF StepMatchesJob
    <3>2. /\ jobs'[k].source = inflight.source
          /\ jobs'[k].checkpoint = inflight.checkpoint + 1
      BY <3>1, AdvancedEntry
    <3>3. rows[k] # None
      BY <2>2
    <3>4. rows[k].source = inflight.source /\ SavedBefore(k, jobs[k])
      BY <3>1, <3>3 DEF JobAgreesWithRow
    <3>5. rows'[k].source = rows[k].source /\ rows'[k].checkpoint = jobs'[k].checkpoint
      <4> DEFINE e == [source |-> rows[k].source, checkpoint |-> jobs'[k].checkpoint,
                       retryIn |-> jobs'[k].retryIn, failures |-> jobs'[k].failures]
      <4>1. rows' = Stored(k, jobs'[k].checkpoint, jobs'[k])
        BY <2>2
      <4>2. rows' = [rows EXCEPT ![k] = e]
        BY <3>3, <4>1
      <4>3. rows'[k] = e
        BY <4>2
      <4> QED BY <4>3
    <3>6. /\ fetched'[k] = fetched[k] \cup {<<inflight.source, inflight.checkpoint>>}
          /\ deleted'[k] = deleted[k]
      BY <2>2
    <3>7. inflight.checkpoint \in Nat
      BY <3>1, BoundsAssumption
    <3>8. ASSUME NEW p \in 1..(jobs'[k].checkpoint - 1)
          PROVE  <<jobs'[k].source, p>> \in fetched'[k] \cup deleted'[k]
      <4>1. p = inflight.checkpoint \/ p \in 1..(inflight.checkpoint - 1)
        BY <3>2, <3>7
      <4>2. \A n \in 1..(inflight.checkpoint - 1) :
                <<inflight.source, n>> \in fetched[k] \cup deleted[k]
        BY <3>1, <3>4 DEF SavedBefore
      <4> HIDE DEF IInv, TypeOK, AdvanceStep, StepOf, Saved, Stored, MovedToEnd, Without,
                   Flight, Entry, Pages
      <4> QED BY <3>2, <3>6, <4>1, <4>2
    <3>9. SavedBefore(q, jobs[q])'
      BY <2>2, <3>8 DEF SavedBefore
    <3> QED BY <2>2, <3>2, <3>4, <3>5, <3>7, <3>9
  <2> QED BY <2>1, <2>2
<1>5. StepMatchesJob'
  BY BoundsAssumption, NoneAssumption, AdvancedEntry DEF StepMatchesJob, OneAtATime
<1>6. BackoffOnlyAfterFailure'
  <2>1. \A f : RetryDelay(f) \in 0..MaxDelay
    BY DelayBounded
  <2>2. jobs'[k].failures = 0 /\ jobs'[k].retryIn = 0
    BY BoundsAssumption, NoneAssumption, AdvancedEntry DEF StepMatchesJob
  <2>3. rows[k] # None => rows'[k].failures = 0 /\ rows'[k].retryIn = 0
    BY <2>2
  <2> QED BY <2>1, <2>2, <2>3 DEF BackoffOnlyAfterFailure
<1> QED BY <1>1, <1>2, <1>3, <1>4, <1>5, <1>6

LEMMA CompleteStepInv ==
    ASSUME IInv, NEW k \in Keys, CompleteStep(k)
    PROVE  IInv'
<1> USE DEF IInv, TypeOK, CompleteStep, StepOf, Saved, Stored, MovedToEnd, Without,
           discovery, budget, Flight, Entry, Pages
<1>1. TypeOK'
  BY NoneAssumption
<1>2. OneAtATime'
  BY NoneAssumption DEF OneAtATime
<1>3. CheckpointBehindSaves'
  BY NoneAssumption DEF CheckpointBehindSaves, JobAgreesWithRow, StepMatchesJob, SavedBefore
<1>4. JobAgreesWithRow'
  BY NoneAssumption DEF CheckpointBehindSaves, JobAgreesWithRow, StepMatchesJob, SavedBefore
<1>5. StepMatchesJob'
  BY NoneAssumption DEF StepMatchesJob, OneAtATime
<1>6. BackoffOnlyAfterFailure'
  BY NoneAssumption DEF BackoffOnlyAfterFailure
<1> QED BY <1>1, <1>2, <1>3, <1>4, <1>5, <1>6

LEMMA DeferStepInv ==
    ASSUME IInv, NEW k \in Keys, DeferStep(k)
    PROVE  IInv'
<1> USE DEF IInv, TypeOK, DeferStep, StepOf, Saved, Stored, MovedToEnd, Without,
           discovery, budget, Flight, Entry, Pages
<1>1. TypeOK'
  <2>1. jobs[k] \in Entry
    BY DEF StepMatchesJob
  <2>2. jobs'[k] \in Entry /\ jobs' \in [Keys -> Entry \cup {None}]
    BY <2>1, FailedEntry DEF StepMatchesJob
  <2>3. rows[k] # None => rows[k].checkpoint \in Pages
    BY <2>2 DEF Entry
  <2>4. rows' \in [Keys -> Entry \cup {None}]
    BY <2>2, <2>3, StoredRows
  <2>5. fetched' \in [Keys -> SUBSET (Sources \X Pages)]
    BY NoneAssumption
  <2> QED BY <2>2, <2>4, <2>5
<1>2. OneAtATime'
  BY BoundsAssumption, NoneAssumption, FailedEntry DEF OneAtATime
<1>3. CheckpointBehindSaves'
  BY BoundsAssumption, NoneAssumption, FailedEntry DEF CheckpointBehindSaves, JobAgreesWithRow, StepMatchesJob, SavedBefore
<1>4. JobAgreesWithRow'
  BY BoundsAssumption, NoneAssumption, FailedEntry DEF CheckpointBehindSaves, JobAgreesWithRow, StepMatchesJob, SavedBefore
<1>5. StepMatchesJob'
  BY BoundsAssumption, NoneAssumption, FailedEntry DEF StepMatchesJob, OneAtATime
<1>6. BackoffOnlyAfterFailure'
  <2>1. jobs[k] \in Entry
    BY DEF StepMatchesJob
  <2>2. /\ jobs'[k].failures # 0
        /\ jobs'[k].retryIn = RetryDelay(jobs'[k].failures)
        /\ RetryDelay(jobs'[k].failures) \in 0..MaxDelay
    BY <2>1, FailedEntry, DelayBounded DEF StepMatchesJob
  <2>3. rows'[k] \in {rows[k]} \/ (rows'[k].failures = jobs'[k].failures /\ rows'[k].retryIn = jobs'[k].retryIn)
    OBVIOUS
  <2>4. \A q \in Keys \ {k} : rows'[q] = rows[q] /\ jobs'[q] = jobs[q]
    OBVIOUS
  <2>5. \A n \in 0..MaxDelay : n <= n
    BY BoundsAssumption
  <2> HIDE DEF TypeOK, DeferStep, StepOf, Stored
  <2> QED BY <2>2, <2>3, <2>4, <2>5 DEF BackoffOnlyAfterFailure
<1> QED BY <1>1, <1>2, <1>3, <1>4, <1>5, <1>6

LEMMA CommitFailsInv ==
    ASSUME IInv, NEW k \in Keys, CommitFails(k)
    PROVE  IInv'
<1> USE DEF IInv, TypeOK, CommitFails, StepOf, Saved, Stored, MovedToEnd, Without,
           discovery, budget, Flight, Entry, Pages
<1>1. TypeOK'
  <2>1. jobs[k] \in Entry /\ rows[k] \in Entry
    BY DEF StepMatchesJob
  <2>2. jobs' \in [Keys -> Entry \cup {None}] /\ jobs'[k] \in Entry
    BY <2>1, FailedEntry, AdvancedEntry DEF StepMatchesJob
  <2>3. rows' \in [Keys -> Entry \cup {None}]
    BY <2>1, <2>2
  <2>4. fetched' \in [Keys -> SUBSET (Sources \X Pages)]
    BY NoneAssumption
  <2> QED BY <2>2, <2>3, <2>4
<1>2. OneAtATime'
  BY BoundsAssumption, NoneAssumption, FailedEntry, AdvancedEntry DEF OneAtATime
<1>3. CheckpointBehindSaves'
  BY BoundsAssumption, NoneAssumption, FailedEntry, AdvancedEntry DEF CheckpointBehindSaves, JobAgreesWithRow, StepMatchesJob, SavedBefore
<1>4. JobAgreesWithRow'
  BY BoundsAssumption, NoneAssumption, FailedEntry, AdvancedEntry DEF CheckpointBehindSaves, JobAgreesWithRow, StepMatchesJob, SavedBefore
<1>5. StepMatchesJob'
  BY BoundsAssumption, NoneAssumption, FailedEntry, AdvancedEntry DEF StepMatchesJob, OneAtATime
<1>6. BackoffOnlyAfterFailure'
  <2>1. jobs[k] \in Entry
    BY DEF StepMatchesJob
  <2>2. /\ jobs'[k].failures # 0
        /\ jobs'[k].retryIn = RetryDelay(jobs'[k].failures)
        /\ RetryDelay(jobs'[k].failures) \in 0..MaxDelay
    BY <2>1, FailedEntry, AdvancedEntry, DelayBounded DEF StepMatchesJob
  <2>3. rows'[k] \in {rows[k]} \/ (rows'[k].failures = jobs'[k].failures /\ rows'[k].retryIn = jobs'[k].retryIn)
    OBVIOUS
  <2>4. \A q \in Keys \ {k} : rows'[q] = rows[q] /\ jobs'[q] = jobs[q]
    OBVIOUS
  <2>5. \A n \in 0..MaxDelay : n <= n
    BY BoundsAssumption
  <2> HIDE DEF TypeOK, CommitFails, StepOf, Stored
  <2> QED BY <2>2, <2>3, <2>4, <2>5 DEF BackoffOnlyAfterFailure
<1> QED BY <1>1, <1>2, <1>3, <1>4, <1>5, <1>6

LEMMA RefreshInv ==
    ASSUME IInv, NEW m \in [Keys -> Modes], NEW s \in [Keys -> Sources], Refresh(m, s)
    PROVE  IInv'
<1> USE DEF IInv, TypeOK, Refresh, RefreshRetention, Detached, Without
<1>1. TypeOK'
  <2>1. inflight' \in Flight \cup {None}
    BY NoneAssumption DEF Flight
  <2>2. refreshes' \in 0..MaxRefreshes
    BY BoundsAssumption
  <2> QED BY <2>1, <2>2
<1>2. OneAtATime'
  BY NoneAssumption DEF OneAtATime, Flight
<1>3. CheckpointBehindSaves'
  BY BoundsAssumption, NoneAssumption DEF CheckpointBehindSaves, JobAgreesWithRow, StepMatchesJob, SavedBefore
<1>4. JobAgreesWithRow'
  BY BoundsAssumption, NoneAssumption DEF CheckpointBehindSaves, JobAgreesWithRow, StepMatchesJob, SavedBefore
<1>5. StepMatchesJob'
  BY NoneAssumption DEF StepMatchesJob, Flight
<1>6. BackoffOnlyAfterFailure'
  BY BoundsAssumption, NoneAssumption DEF BackoffOnlyAfterFailure
<1> QED BY <1>1, <1>2, <1>3, <1>4, <1>5, <1>6

LEMMA RetainInv ==
    ASSUME IInv, NEW v \in Viewers, NEW k \in Keys, Retain(v, k) \/ Release(v, k)
    PROVE  IInv'
<1> USE DEF IInv, TypeOK, Retain, Release, discovery, worker, budget
<1>1. TypeOK'
  OBVIOUS
<1>2. OneAtATime'
  BY  DEF OneAtATime
<1>3. CheckpointBehindSaves'
  BY  DEF CheckpointBehindSaves, JobAgreesWithRow, StepMatchesJob, SavedBefore
<1>4. JobAgreesWithRow'
  BY  DEF CheckpointBehindSaves, JobAgreesWithRow, StepMatchesJob, SavedBefore
<1>5. StepMatchesJob'
  BY  DEF StepMatchesJob, OneAtATime
<1>6. BackoffOnlyAfterFailure'
  BY  DEF BackoffOnlyAfterFailure
<1> QED BY <1>1, <1>2, <1>3, <1>4, <1>5, <1>6

LEMMA TickInv ==
    ASSUME IInv, Tick
    PROVE  IInv'
<1> USE DEF IInv, TypeOK, Tick, discovery, worker, budget
<1>1. TypeOK'
  BY CloserKept
<1>2. OneAtATime'
  BY  DEF OneAtATime
<1>3. CheckpointBehindSaves'
  BY CloserKept DEF CheckpointBehindSaves, SavedBefore
<1>4. JobAgreesWithRow'
  BY CloserKept DEF JobAgreesWithRow, SavedBefore
<1>5. StepMatchesJob'
  BY CloserKept, NoneAssumption DEF StepMatchesJob, Flight
<1>6. BackoffOnlyAfterFailure'
  <2> SUFFICES ASSUME NEW k \in Keys, NEW e \in {jobs[k], rows[k]} \ {None}
               PROVE  /\ Closer(e).failures = 0 => Closer(e).retryIn = 0
                      /\ Closer(e).retryIn <= RetryDelay(Closer(e).failures)
    BY CloserKept DEF BackoffOnlyAfterFailure
  <2>1. e \in Entry /\ Closer(e) \in Entry
    BY CloserEntry
  <2>2. Closer(e).failures = e.failures /\ Closer(e).retryIn <= e.retryIn
    BY CloserEntry
  <2>3. e.failures = 0 => e.retryIn = 0
    BY DEF BackoffOnlyAfterFailure
  <2>4. e.retryIn <= RetryDelay(e.failures)
    BY DEF BackoffOnlyAfterFailure
  <2>5. RetryDelay(e.failures) \in 0..MaxDelay
    BY DelayBounded
  <2> QED BY <2>1, <2>2, <2>3, <2>4, <2>5, BoundsAssumption DEF Entry
<1> QED BY <1>1, <1>2, <1>3, <1>4, <1>5, <1>6

LEMMA RestartInv ==
    ASSUME IInv, NEW saved \in [Keys -> SUBSET (Sources \X Pages)], Restart(saved),
           \A q \in Keys : fetched[q] \subseteq saved[q]
    PROVE  IInv'
<1> USE DEF IInv, TypeOK, Restart, RefreshRetention, discovery
<1>1. TypeOK'
  <2>1. crashes' \in 0..MaxCrashes
    BY BoundsAssumption
  <2> QED BY <2>1
<1>2. OneAtATime'
  BY NoneAssumption DEF OneAtATime
<1>3. CheckpointBehindSaves'
  BY NoneAssumption DEF CheckpointBehindSaves, JobAgreesWithRow, StepMatchesJob, SavedBefore
<1>4. JobAgreesWithRow'
  BY NoneAssumption DEF CheckpointBehindSaves, JobAgreesWithRow, StepMatchesJob, SavedBefore
<1>5. StepMatchesJob'
  BY NoneAssumption DEF StepMatchesJob, OneAtATime
<1>6. BackoffOnlyAfterFailure'
  BY NoneAssumption DEF BackoffOnlyAfterFailure
<1> QED BY <1>1, <1>2, <1>3, <1>4, <1>5, <1>6

-----------------------------------------------------------------------------
LEMMA NextInv == IInv /\ [Next]_vars => IInv'
<1> SUFFICES ASSUME IInv, [Next]_vars PROVE IInv' OBVIOUS
<1>1. ASSUME NEW due \in SUBSET Keys, StartCollection(due) PROVE IInv'
  BY <1>1, StartCollectionInv
<1>2. ASSUME NEW k \in Keys, CollectKey(k) PROVE IInv'
  BY <1>2, CollectKeyInv
<1>3. ASSUME NEW k \in Keys, StartStep(k) PROVE IInv'
  BY <1>3, StartStepInv
<1>4. CASE NothingDue \/ CollectionFails
  BY <1>4, WorkerEndsInv
<1>5. CASE DropStep
  BY <1>5, DropStepInv
<1>6. ASSUME NEW k \in Keys, AdvanceStep(k) PROVE IInv'
  BY <1>6, AdvanceStepInv
<1>7. ASSUME NEW k \in Keys, CompleteStep(k) PROVE IInv'
  BY <1>7, CompleteStepInv
<1>8. ASSUME NEW k \in Keys, DeferStep(k) PROVE IInv'
  BY <1>8, DeferStepInv
<1>9. ASSUME NEW k \in Keys, CommitFails(k) PROVE IInv'
  BY <1>9, CommitFailsInv
<1>10. ASSUME NEW m \in [Keys -> Modes], NEW s \in [Keys -> Sources], Refresh(m, s) PROVE IInv'
  BY <1>10, RefreshInv
<1>11. ASSUME NEW v \in Viewers, NEW k \in Keys, Retain(v, k) \/ Release(v, k) PROVE IInv'
  BY <1>11, RetainInv
<1>12. CASE Tick
  BY <1>12, TickInv
<1>13. CASE Crash
  BY <1>13, RestartInv DEF Crash, IInv, TypeOK
<1>14. ASSUME NEW k \in Keys, CrashAfterSave(k) PROVE IInv'
  <2>1. inflight \in Flight /\ Restart(Saved(k))
    BY <1>14 DEF CrashAfterSave, StepOf, IInv, TypeOK
  <2>2. /\ Saved(k) \in [Keys -> SUBSET (Sources \X Pages)]
        /\ \A q \in Keys : fetched[q] \subseteq Saved(k)[q]
    BY <2>1 DEF Saved, IInv, TypeOK, Flight
  <2> QED BY <2>1, <2>2, RestartInv
<1>15. CASE UNCHANGED vars
  BY <1>15 DEF vars, IInv, TypeOK, OneAtATime, CheckpointBehindSaves, JobAgreesWithRow,
               StepMatchesJob, BackoffOnlyAfterFailure, SavedBefore
<1> QED BY <1>1, <1>2, <1>3, <1>4, <1>5, <1>6, <1>7, <1>8, <1>9, <1>10, <1>11, <1>12,
           <1>13, <1>14, <1>15 DEF Next

LEMMA Invariance == Spec => []IInv
<1> QED BY InitInv, NextInv, PTL DEF Spec

\* Every variable of the queue keeps its type.
THEOREM TypeCorrect == Spec => []TypeOK
BY Invariance, PTL DEF IInv

\* Recovery never skips history: the checkpoint in the database is behind the
\* saves at every moment, so also at a crash.  Of what was saved, only discovery
\* has deleted anything, when it took the metric for one without such history.
THEOREM NoHistorySkipped == Spec => []CheckpointBehindSaves
BY Invariance, PTL DEF IInv

\* The job in memory and its row stay in step, where there are both: a metric that
\* became a number keeps its row after a restart, without a job.
THEOREM MemoryAgreesWithDatabase == Spec => []JobAgreesWithRow
BY Invariance, PTL DEF IInv

\* A step whose job nobody has cancelled or replaced is still that job's next step: the
\* identity check after the await (metric-recovery.ts:138) is enough.
THEOREM StepBelongsToJob == Spec => []StepMatchesJob
BY Invariance, PTL DEF IInv

\* A delay always comes from a failure.
THEOREM DelayOnlyAfterFailure == Spec => []BackoffOnlyAfterFailure
BY Invariance, PTL DEF IInv

\* Only the three actions that call result.save() add a batch to the history,
\* and they add the batch of the snapshot.
LEMMA OnlyStepsSave ==
    ASSUME IInv, [Next]_vars, NEW k \in Keys, fetched'[k] \ fetched[k] # {}
    PROVE  StepOf(k) /\ fetched'[k] = Saved(k)[k]
<1> USE DEF IInv, TypeOK
<1>1. CASE \E q \in Keys : StepOf(q) /\ \A x \in Keys : fetched'[x] \in {{}, Saved(q)[x]}
  <2>1. PICK q \in Keys : StepOf(q) /\ \A x \in Keys : fetched'[x] \in {{}, Saved(q)[x]}
    BY <1>1
  <2>2. q = k
    BY <2>1 DEF Saved
  <2> QED BY <2>1, <2>2
<1>2. CASE \A q \in Keys : fetched'[q] \subseteq fetched[q]
  BY <1>2
<1>3. ASSUME NEW q \in Keys,
             AdvanceStep(q) \/ CompleteStep(q) \/ CommitFails(q) \/ CrashAfterSave(q)
      PROVE  StepOf(q) /\ \A x \in Keys : fetched'[x] \in {{}, Saved(q)[x]}
  BY <1>3 DEF AdvanceStep, CompleteStep, CommitFails, CrashAfterSave, Restart, RefreshRetention
<1>4. ASSUME NEW q \in Keys, CollectKey(q) \/ StartStep(q) \/ DeferStep(q)
      PROVE  \A x \in Keys : fetched'[x] \subseteq fetched[x]
  BY <1>4 DEF CollectKey, QueueGap, QueueSaved, StartStep, DeferStep
<1>5. ASSUME \/ \E due \in SUBSET Keys : StartCollection(due)
             \/ NothingDue \/ CollectionFails \/ DropStep \/ Tick
             \/ \E v \in Viewers, q \in Keys : Retain(v, q) \/ Release(v, q)
             \/ UNCHANGED vars
      PROVE  UNCHANGED fetched
  BY <1>5 DEF StartCollection, NothingDue, CollectionFails, DropStep, Tick, Retain, Release, vars
<1>6. ASSUME Crash \/ \E m \in [Keys -> Modes], s \in [Keys -> Sources] : Refresh(m, s)
      PROVE  \A x \in Keys : fetched'[x] \subseteq fetched[x]
  BY <1>6 DEF Refresh, Crash, Restart, RefreshRetention
<1> QED BY <1>1, <1>2, <1>3, <1>4, <1>5, <1>6 DEF Next

\* A page is saved only while its job is queued, from that job's source and at
\* its checkpoint.
THEOREM LateSavesDropped == Spec => NoLateSave
<1>1. IInv /\ [Next]_vars =>
        \A k \in Keys : fetched'[k] \ fetched[k] # {} =>
            /\ jobs[k] # None
            /\ fetched'[k] \ fetched[k] = {<<jobs[k].source, jobs[k].checkpoint>>}
  <2> SUFFICES ASSUME IInv, [Next]_vars, NEW k \in Keys, fetched'[k] \ fetched[k] # {}
               PROVE  /\ jobs[k] # None
                      /\ fetched'[k] \ fetched[k] = {<<jobs[k].source, jobs[k].checkpoint>>}
    OBVIOUS
  <2>1. StepOf(k) /\ fetched'[k] = Saved(k)[k]
    BY OnlyStepsSave
  <2>2. jobs[k] # None /\ jobs[k].source = inflight.source
                       /\ jobs[k].checkpoint = inflight.checkpoint
    BY <2>1 DEF StepOf, IInv, StepMatchesJob
  <2>3. fetched'[k] = fetched[k] \cup {<<inflight.source, inflight.checkpoint>>}
    BY <2>1 DEF Saved, IInv, TypeOK
  <2> QED BY <2>2, <2>3
<1> QED BY <1>1, Invariance, PTL DEF Spec, NoLateSave

(***************************************************************************)
(* What a row's failures and delay may do.                                 *)
(***************************************************************************)

\* Everything but time and a settling step of k leaves the failures and the delay
\* of a row that stays for the same source.
LEMMA RowKept ==
    ASSUME IInv, [Next]_vars, NEW k \in Keys,
           rows[k] # None, rows'[k] # None, rows'[k].source = rows[k].source
    PROVE  \/ rows'[k].failures = rows[k].failures /\ rows'[k].retryIn = rows[k].retryIn
           \/ rows'[k] = Closer(rows[k])
           \/ StepOf(k) /\ inflight' = None
<1> USE DEF IInv, TypeOK
<1>1. ASSUME NEW q \in Keys, AdvanceStep(q) \/ CompleteStep(q) \/ DeferStep(q) \/ CommitFails(q)
      PROVE  StepOf(q) /\ inflight' = None /\ \A x \in Keys \ {q} : rows'[x] = rows[x]
  BY <1>1 DEF AdvanceStep, CompleteStep, DeferStep, CommitFails, Stored
<1>2. ASSUME NEW q \in Keys, CollectKey(q)
      PROVE  rows'[k].failures = rows[k].failures /\ rows'[k].retryIn = rows[k].retryIn
  <2>1. CASE rows' = rows
    BY <2>1
  <2>2. CASE Cancel(q)
    BY <2>2 DEF Cancel
  <2>3. ASSUME NEW s, NEW c, NEW x, Enqueue(q, s, c, x)
        PROVE  rows'[k].failures = rows[k].failures /\ rows'[k].retryIn = rows[k].retryIn
    BY <2>3 DEF Enqueue
  <2> QED BY <1>2, <2>1, <2>2, <2>3 DEF CollectKey, QueueGap, QueueSaved, CancelQueued
<1>3. ASSUME \/ \E due \in SUBSET Keys : StartCollection(due)
             \/ \E q \in Keys : StartStep(q)
             \/ NothingDue \/ CollectionFails \/ DropStep
             \/ \E v \in Viewers, q \in Keys : Retain(v, q) \/ Release(v, q)
             \/ UNCHANGED vars
      PROVE  UNCHANGED rows
  BY <1>3 DEF StartCollection, StartStep, NothingDue, CollectionFails, DropStep, Retain, Release, vars
<1>4. ASSUME \/ Crash \/ \E q \in Keys : CrashAfterSave(q)
             \/ \E m \in [Keys -> Modes], s \in [Keys -> Sources] : Refresh(m, s)
      PROVE  rows'[k] = rows[k]
  BY <1>4 DEF Refresh, Crash, CrashAfterSave, Restart, RefreshRetention
<1>5. CASE Tick
  BY <1>5 DEF Tick
<1> QED BY <1>1, <1>2, <1>3, <1>4, <1>5 DEF Next

\* No new gap, restart or discovery makes a failing provider be asked sooner: the
\* comparison of sources in enqueueMetricRecovery's statement keeps what its row
\* remembers (metric-recovery.ts:90).
THEOREM BackoffNeverForgotten == Spec => BackoffSurvives
<1>1. ASSUME IInv, [Next]_vars, NEW k \in Keys,
             rows[k] # None, rows'[k] # None, rows'[k].source = rows[k].source
      PROVE  \/ rows'[k].failures >= rows[k].failures /\ rows'[k].retryIn >= rows[k].retryIn
             \/ rows'[k] = Closer(rows[k])
             \/ StepOf(k) /\ inflight' = None
  <2>1. rows[k].failures \in Nat /\ rows[k].retryIn \in Nat
    BY <1>1, BoundsAssumption DEF IInv, TypeOK, Entry
  <2> QED BY <1>1, <2>1, RowKept
<1>2. IInv /\ [Next]_vars =>
        [\A k \in Keys :
            rows[k] # None /\ rows'[k] # None /\ rows'[k].source = rows[k].source =>
                \/ rows'[k].failures >= rows[k].failures /\ rows'[k].retryIn >= rows[k].retryIn
                \/ rows'[k] = Closer(rows[k])
                \/ StepOf(k) /\ inflight' = None]_vars
  BY <1>1
<1> QED BY <1>2, Invariance, PTL DEF Spec, BackoffSurvives
=============================================================================
