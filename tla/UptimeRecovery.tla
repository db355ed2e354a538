--------------------------- MODULE UptimeRecovery ---------------------------
(***************************************************************************)
(* What the recovery of one uptime metric recovers: the gap detection of   *)
(* queuePaginatedUptimeRecovery and the walk of its batch fetcher through  *)
(* the provider's newest-first pages, while the provider goes on           *)
(* publishing and so shifts the pages between two requests.                *)
(*                                                                         *)
(* The provider publishes one observation per Tick.  An observation is     *)
(* named by its age, the number of observations published after it, and a  *)
(* point in time by the age an observation of that time would have: a      *)
(* later timestamp is a smaller age, and `now - retentionMs` is Retention. *)
(* Page p of the checkpoint is kept as the (p - 1) * PageSize observations *)
(* that precede it.  The queue around the walk is MetricRecovery's: there  *)
(* a step in flight always belongs to the queued checkpoint, so here the   *)
(* step works on `checkpoint` itself.                                      *)
(***************************************************************************)
EXTENDS Integers, FiniteSets

CONSTANTS
    PageSize,    \* observations on a full page
    Retention,   \* retentionMs: what is older is neither recovered nor read
    MaxStalled,  \* METRIC_RECOVERY_MAX_STALLED_PAGES
    MaxFlight,   \* the request timeout
    Reuse,       \* how long a cached bulk page is used (60 seconds)
    MaxLag,      \* the provider: it answers no history page when the last page
                 \* one it answered is older than this
    MaxCount,    \* bound: observations the provider keeps
    None         \* no checkpoint, no request, nothing cached

\* Every age the model tells apart is below: beyond it an observation is older
\* than the retention was when the oldest request in flight began.
MaxAge == Retention + MaxFlight + PageSize

ASSUME ParameterAssumption ==
    /\ PageSize \in Nat \ {0}
    /\ Retention \in Nat \ {0}
    /\ MaxStalled \in Nat \ {0}
    /\ MaxFlight \in Nat
    /\ Reuse \in Nat
    /\ MaxLag \in Nat
    /\ MaxCount \in Nat

Ages == 0..MaxAge
Checkpoint == [skip: 1..MaxAge, boundary: Ages, oldest: Ages, stalled: 0..(MaxStalled - 1)]

\* purpose  a poll of page one, or a recovery step
\* elapsed  how long ago it was sent
\* reused   the age its page had in the bulk cache then, 0 for a new request
Request == [purpose: {"poll", "recovery"}, elapsed: 0..MaxFlight, reused: 0..Reuse]
Cached == [skip: 0..MaxAge, age: 0..Reuse]

ASSUME NoneAssumption == None \notin Checkpoint \cup Request \cup Cached

VARIABLES
    shared,      \* the metric's pagination declares `bulk`: it shares its pages
    count,       \* observations the provider has, of ages 0..count - 1
    stored,      \* ages of the rows in uptime_observations within the retention
    checkpoint,  \* the persisted checkpoint
    request,     \* what the background worker awaits
    bulk,        \* the cached page of the shared bulk endpoint
    lag          \* age of the page one saved last, MaxLag + 1 when there is none

vars == <<shared, count, stored, checkpoint, request, bulk, lag>>

-----------------------------------------------------------------------------
Older(a) == IF a < MaxAge THEN a + 1 ELSE a
Least(a, b) == IF a <= b THEN a ELSE b
Greatest(a, b) == IF a >= b THEN a ELSE b

\* The page after `skip` observations, as it was d ticks ago, in today's ages.
Page(skip, d) == {a \in 0..(count - 1) : skip + d <= a /\ a < skip + d + PageSize}

\* It is full, so the provider names a next page.
Full(skip, d) == skip + d + PageSize <= count

\* How many ticks ago the page that answers `request` may have been taken.
SnapshotAges == IF request.reused > 0 THEN {request.reused + request.elapsed} ELSE 0..request.elapsed

\* saveUptimeObservationHistory: INSERT OR IGNORE, then what is too old is deleted.
Saved(page) == stored \cup {a \in page : a <= Retention}

\* The timestamp in `latestTimestamp ?? Date.now() - retentionMs`.
Latest(a) == IF stored = {} THEN a = Retention ELSE a \in stored /\ \A s \in stored : a <= s

\* Page one does not reach the stored history.
GapFound(d) == Full(0, d) /\ \A s \in stored : d + PageSize - 1 < s

\* Wrong variant: the boundary of the unfinished walk is forgotten.
NewGap_LatestOnly(d, latest) ==
    [skip |-> PageSize, boundary |-> latest, oldest |-> d + PageSize - 1, stalled |-> 0]

\* The walk from page two down to the older of the two boundaries.
NewGap(d, latest) ==
    [skip |-> PageSize,
     boundary |-> IF checkpoint = None THEN latest ELSE Greatest(checkpoint.boundary, latest),
     oldest |-> d + PageSize - 1,
     stalled |-> 0]

-----------------------------------------------------------------------------
Init ==
    /\ shared \in BOOLEAN
    /\ count \in 0..MaxCount
    /\ stored = {}
    /\ checkpoint = None
    /\ request = None
    /\ bulk = None
    /\ lag = MaxLag + 1

\* collectCustomMetrics asks for page one.
StartPoll ==
    /\ request = None
    /\ request' = [purpose |-> "poll", elapsed |-> 0, reused |-> 0]
    /\ UNCHANGED <<count, stored, checkpoint, bulk, lag>>

Polled(d) == request # None /\ request.purpose = "poll" /\ d \in SnapshotAges

\* queuePaginatedUptimeRecovery for the observations of page one.
QueueRecovery(d) ==
    IF GapFound(d)
    THEN \E latest \in Ages : Latest(latest) /\ checkpoint' = NewGap(d, latest)
    ELSE UNCHANGED checkpoint

\* Wrong variant of PollInterrupted: the page is saved before it is queued.
PollInterrupted_SavedFirst(d) ==
    /\ Polled(d)
    /\ stored' = Saved(Page(0, d))
    /\ lag' = Least(d, MaxLag + 1)
    /\ request' = None
    /\ UNCHANGED <<count, checkpoint, bulk>>

\* The answer is processed: the gap is queued, then page one is saved.
PollAnswered(d) ==
    /\ Polled(d)
    /\ QueueRecovery(d)
    /\ stored' = Saved(Page(0, d))
    /\ lag' = Least(d, MaxLag + 1)
    /\ request' = None
    /\ UNCHANGED <<count, bulk>>

\* The process ends, or SQLite throws, between the two writes.
PollInterrupted(d) ==
    /\ Polled(d)
    /\ QueueRecovery(d)
    /\ request' = None
    /\ UNCHANGED <<count, stored, bulk, lag>>

\* cutoff = max(boundary, retentionCutoff), the latter taken when the step began.
Cutoff(elapsed) == Least(checkpoint.boundary, Retention + elapsed)

\* Wrong variant of NothingLeft: the walk does not look at the cutoff first.
NothingLeft_Ignored == FALSE

\* `if (current.oldest <= cutoff) return { observations: [] }`
NothingLeft == checkpoint # None /\ checkpoint.oldest >= Cutoff(0)

\* Such a step ends the recovery without a request.
EndWalk ==
    /\ request = None
    /\ NothingLeft
    /\ checkpoint' = None
    /\ UNCHANGED <<count, stored, request, bulk, lag>>

CanStep == request = None /\ checkpoint # None /\ ~NothingLeft

\* recoverNextMetric, the page requested from the provider: of the metric's own
\* endpoint, or of the bulk endpoint, which leaves it in the cache.
StartStep ==
    /\ CanStep
    /\ request' = [purpose |-> "recovery", elapsed |-> 0, reused |-> 0]
    /\ \/ UNCHANGED bulk
       \/ shared /\ bulk' = [skip |-> checkpoint.skip, age |-> 0]
    /\ UNCHANGED <<count, stored, checkpoint, lag>>

\* The same with the page some metric of the same bulk source left in the cache.
ReuseBulkPage ==
    /\ CanStep
    /\ shared /\ bulk # None /\ bulk.skip = checkpoint.skip
    /\ request' = [purpose |-> "recovery", elapsed |-> 0, reused |-> bulk.age]
    /\ UNCHANGED <<count, stored, checkpoint, bulk, lag>>

\* A recovery step of another metric of the bulk source requests a page.  The
\* single flight of the worker takes one recovery step at a time, after the
\* polls of its collection have been answered.
OtherBulkRequest(skip) ==
    /\ request = None
    /\ shared
    /\ bulk' = [skip |-> skip, age |-> 0]
    /\ UNCHANGED <<count, stored, checkpoint, request, lag>>

Stepped(d) ==
    request # None /\ request.purpose = "recovery" /\ d \in SnapshotAges /\ lag <= MaxLag

\* Timestamp of the oldest observation on the page.
First(d) == IF Full(checkpoint.skip, d) THEN checkpoint.skip + d + PageSize - 1 ELSE count - 1

\* Pages in a row that end no earlier than what has been walked already.
Stalled(d) == IF First(d) <= checkpoint.oldest THEN checkpoint.stalled + 1 ELSE 0

\* The page holds nothing, or reaches the cutoff, or is the provider's last.
Complete(d) ==
    \/ Page(checkpoint.skip, d) = {}
    \/ First(d) >= Cutoff(request.elapsed)
    \/ ~Full(checkpoint.skip, d)

\* Wrong variant of Accepted: one more stalled page is taken.
Accepted_OneMore(d) == Page(checkpoint.skip, d) = {} \/ Stalled(d) <= MaxStalled

\* The page is no failure: `throw new Error('History pagination is not advancing')`.
Accepted(d) == Page(checkpoint.skip, d) = {} \/ Stalled(d) < MaxStalled

\* The batch is saved, and then the checkpoint is advanced or deleted.
StepAnswered(d) ==
    /\ Stepped(d)
    /\ Accepted(d)
    /\ stored' = Saved(Page(checkpoint.skip, d))
    /\ checkpoint' =
            IF Complete(d) THEN None
            ELSE [skip |-> checkpoint.skip + PageSize,
                  boundary |-> checkpoint.boundary,
                  oldest |-> Greatest(checkpoint.oldest, First(d)),
                  stalled |-> Stalled(d)]
    /\ request' = None
    /\ UNCHANGED <<count, bulk, lag>>

\* The process ends, or SQLite throws, before the checkpoint is written.
StepInterrupted(d) ==
    /\ Stepped(d)
    /\ Accepted(d)
    /\ stored' = Saved(Page(checkpoint.skip, d))
    /\ request' = None
    /\ UNCHANGED <<count, checkpoint, bulk, lag>>

\* The request fails or times out, the page is refused, the process ends.
RequestFails ==
    /\ request # None
    /\ request' = None
    /\ UNCHANGED <<count, stored, checkpoint, bulk, lag>>

\* The process ends and starts again.
Restart ==
    /\ request' = None
    /\ bulk' = None
    /\ UNCHANGED <<count, stored, checkpoint, lag>>

\* Time passes and the provider publishes an observation.
Tick ==
    /\ request # None => request.elapsed < MaxFlight
    /\ count' = Least(count + 1, MaxCount)
    /\ stored' = {a \in 1..Retention : a - 1 \in stored}
    /\ checkpoint' =
            IF checkpoint = None THEN None
            ELSE [skip |-> checkpoint.skip,
                  boundary |-> Older(checkpoint.boundary),
                  oldest |-> Older(checkpoint.oldest),
                  stalled |-> checkpoint.stalled]
    /\ request' =
            IF request = None THEN None
            ELSE [purpose |-> request.purpose, elapsed |-> request.elapsed + 1, reused |-> request.reused]
    /\ lag' = Least(lag + 1, MaxLag + 1)
    /\ bulk' = IF bulk = None \/ bulk.age = Reuse THEN None ELSE [skip |-> bulk.skip, age |-> bulk.age + 1]

Delays == 0..(MaxFlight + Reuse)

Step ==
    \/ StartPoll
    \/ \E d \in Delays : PollAnswered(d) \/ PollInterrupted(d)
    \/ EndWalk
    \/ StartStep
    \/ ReuseBulkPage
    \/ \E skip \in 0..Retention : OtherBulkRequest(skip)
    \/ \E d \in Delays : StepAnswered(d) \/ StepInterrupted(d)
    \/ RequestFails
    \/ Restart
    \/ Tick

\* The configuration stays what it is.
Next == Step /\ UNCHANGED shared

Spec == Init /\ [][Next]_vars

\* The worker's timers fire, and time passes.
FairSpec ==
    /\ Spec
    /\ SF_vars(EndWalk /\ UNCHANGED shared)
    /\ WF_vars(Tick /\ UNCHANGED shared)
    /\ WF_vars(RequestFails /\ UNCHANGED shared)

-----------------------------------------------------------------------------
(* Properties. *)

\* Every variable has its type.
TypeOK ==
    /\ shared \in BOOLEAN
    /\ count \in 0..MaxCount
    /\ stored \in SUBSET (0..Retention)
    /\ checkpoint \in Checkpoint \cup {None}
    /\ request \in Request \cup {None}
    /\ lag \in 0..(MaxLag + 1)
    /\ bulk \in Cached \cup {None}

\* The checkpoint still has the observation of age a to fetch.
Missing(a) == checkpoint # None /\ checkpoint.oldest < a /\ a < checkpoint.boundary

\* Of what the provider published within the retention and not after the latest
\* stored observation, everything is stored or still to be fetched.
NoHole ==
    \A a \in 0..(count - 1) :
        a < Retention /\ (\E s \in stored : s <= a) => a \in stored \/ Missing(a)

\* No gap is forgotten: of a metric that walks its own pages, what is missing lies
\* in the interval the persisted checkpoint still walks, so that an outage, a
\* second outage during the recovery of the first, a crash between any two
\* writes, or pages shifted by new observations leaves no hole behind.
NoGapForgotten == ~shared => NoHole

\* The weaker claim that a gap which is no longer on a page still to be walked
\* has been filled: what this one finds missing, nothing will request again.
NoGapLost ==
    \A a \in 0..(count - 1) :
        a < Retention /\ (\E s \in stored : s <= a) =>
            \/ a \in stored
            \/ checkpoint # None /\ checkpoint.skip <= a /\ a < checkpoint.boundary

\* "Recovery stops at stored-history overlap, retention, or upstream
\* exhaustion": it does stop, also when every request fails or the pagination
\* is stalled for good, unless new gaps are found for ever.
RecoveryStops == <>[][\A d \in Delays : ~(GapFound(d) /\ (PollAnswered(d) \/ PollInterrupted(d)))]_vars
                    => (checkpoint # None ~> checkpoint = None)
=============================================================================
