--------------------------- MODULE MetricRequests ---------------------------
(***************************************************************************)
(* How the value of one custom metric is requested: collectCustomMetric of *)
(* custom-metrics.ts with the requests of custom-metric-http.ts, the child *)
(* requests and pages of custom-metric-parsing.ts, the socket of           *)
(* custom-metric-socketio.ts and the jq processes of jq.ts.                *)
(*                                                                         *)
(* A flow <<r, m, i>> is one chain of awaits: of metric m in collection r, *)
(* the main one for i = 0 and the i-th child of `for_each` otherwise.  Its *)
(* step says what it does next; each step is one HTTP request, one socket  *)
(* or one jq process, and requests and processes take their turn in the    *)
(* queue of their origin or of jq.  What an answer holds is abstracted to  *)
(* the outcomes the code tells apart.                                      *)
(***************************************************************************)
EXTENDS Naturals, Sequences, FiniteSets

CONSTANTS
    Runs,         \* names of collections that may overlap
    Metrics,      \* the selected metrics of all cards
    Origin,       \* [Metrics -> origins]
    Jq,           \* the queue of jq processes
    Limit,        \* CUSTOM_METRIC_REQUESTS_PER_ORIGIN, and MAX_JQ_PROCESSES
    MaxItems,     \* MAX_FOR_EACH_ITEMS
    Concurrency,  \* FOR_EACH_CONCURRENCY
    MaxPages      \* MAX_PAGINATION_PAGES

\* login: whether requests follow the login steps of a cookie session, and whether jq
\* extracts its tokens; otherwise they have no credentials or bring them along.
\* text stands for Prometheus too.
Extractors == {"text", "jq", "pages", "each", "socketio"}
SourceTypes == [extractor : Extractors, optional : BOOLEAN, login : {"none", "html", "jq"}]

Queues == {Origin[m] : m \in Metrics} \cup {Jq}
Flows == Runs \X Metrics \X (0..MaxItems)

ASSUME QueueAssumption ==
    /\ Limit \in [Queues -> Nat \ {0}]
    /\ Jq \notin {Origin[m] : m \in Metrics}
ASSUME FlowAssumption ==
    /\ MaxItems \in Nat \ {0}
    /\ Concurrency \in Nat \ {0}
    /\ MaxPages \in Nat \ {0}

\* first    the request without the credentials of `optional` authentication
\* login    the login steps of a cookie session, as one
\* token    the extraction of its tokens from the answer
\* request  the request with what credentials the metric has
\* socket   the socket from its connection to the last acknowledgement
\* jq       the metric's expression, or the items of `for_each` or of a page
\* next     the expression for the number of the next page
\* final    the metric's expression for the items of all pages
\* each     waiting for a batch of children
Requesting == {"first", "login", "request"}
Processing == {"token", "jq", "next", "final"}
Steps == Requesting \cup Processing \cup {"none", "socket", "each", "value", "error"}

VARIABLES
    source,   \* [Metrics -> SourceTypes], which never changes
    step,     \* [Flows -> Steps]
    pages,    \* pages taken by the main flow of a paginated metric
    items,    \* the items of a `for_each` metric ...
    opened,   \* ... and how many of them have a child
    active,   \* semaphore.active of an origin, activeProcesses
    waiting,  \* semaphore.waiting, waiting
    running   \* the requests and processes at work

queues == <<active, waiting, running>>
flows == <<source, step, pages, items, opened>>

-----------------------------------------------------------------------------
(* The queues: queueRequest and runJq.                                     *)

QueueOf(f) == IF step[f] \in Requesting THEN Origin[f[2]] ELSE Jq

Waits(f, q) == \E n \in 1..Len(waiting[q]) : waiting[q][n] = f

\* Wrong variant: one more is let in.
Enter_OneMore(f) ==
    LET q == QueueOf(f) IN
    IF active[q] > Limit[q]
    THEN waiting' = [waiting EXCEPT ![q] = Append(@, f)] /\ UNCHANGED <<active, running>>
    ELSE /\ active' = [active EXCEPT ![q] = @ + 1]
         /\ running' = [running EXCEPT ![q] = @ \cup {f}]
         /\ UNCHANGED waiting

Enter(f) ==
    LET q == QueueOf(f) IN
    IF active[q] >= Limit[q]
    THEN waiting' = [waiting EXCEPT ![q] = Append(@, f)] /\ UNCHANGED <<active, running>>
    ELSE /\ active' = [active EXCEPT ![q] = @ + 1]
         /\ running' = [running EXCEPT ![q] = @ \cup {f}]
         /\ UNCHANGED waiting

\* Wrong variant: a slot nobody waits for is not given back.
Leave_Leaks(f) ==
    LET q == QueueOf(f) IN
    IF waiting[q] # <<>>
    THEN /\ waiting' = [waiting EXCEPT ![q] = Tail(@)]
         /\ running' = [running EXCEPT ![q] = (@ \ {f}) \cup {Head(waiting[q])}]
         /\ UNCHANGED active
    ELSE /\ running' = [running EXCEPT ![q] = @ \ {f}]
         /\ UNCHANGED <<active, waiting>>

\* The `finally` block: the slot is handed to the first that waits.
Leave(f) ==
    LET q == QueueOf(f) IN
    IF waiting[q] # <<>>
    THEN /\ waiting' = [waiting EXCEPT ![q] = Tail(@)]
         /\ running' = [running EXCEPT ![q] = (@ \ {f}) \cup {Head(waiting[q])}]
         /\ UNCHANGED active
    ELSE /\ active' = [active EXCEPT ![q] = @ - 1]
         /\ running' = [running EXCEPT ![q] = @ \ {f}]
         /\ UNCHANGED waiting

-----------------------------------------------------------------------------
(* The steps of a flow.                                                    *)

Main(f) == <<f[1], f[2], 0>>
Children(f) == {g \in Flows : g[1] = f[1] /\ g[2] = f[2] /\ g[3] # 0}

\* prepareMetricRequest with `authenticated`: what comes first, and what after it.
Prepared(m) == IF source[m].extractor = "socketio" THEN "socket" ELSE "request"
Authenticated(m) == IF source[m].login # "none" THEN "login" ELSE Prepared(m)

\* collectCustomMetric: a Socket.IO source is authenticated before it connects, also
\* when that is optional; requestMetric tries an optional one without.
Opening(m) ==
    IF source[m].optional /\ source[m].extractor # "socketio" THEN "first" ELSE Authenticated(m)

\* Wrong variant: pages without a limit.
Extraction_NoLimit(f) == IF source[f[2]].extractor = "text" THEN "value" ELSE "jq"

\* Where a metric's response goes.  The page after the last that is allowed is
\* requested and dropped.
Extraction(f) ==
    CASE source[f[2]].extractor = "text" -> "value"
      [] source[f[2]].extractor = "pages" /\ pages[f] = MaxPages -> "error"
      [] OTHER -> "jq"

\* requestMetric, login and the check of the status by the caller: what follows a
\* request, by whether its status was 2xx, 401 or 403, or another, or it failed.
AfterRequest(f, status) ==
    CASE step[f] = "first" /\ status = "denied" -> Authenticated(f[2])
      [] step[f] = "login" /\ status = "ok" -> IF source[f[2]].login = "jq" THEN "token" ELSE Prepared(f[2])
      [] step[f] \in {"first", "request"} /\ status = "ok" -> Extraction(f)
      [] OTHER -> "error"

\* A flow's end as the one that awaits it sees it.  The main flow keeps its result
\* for collectCustomMetrics.  A child's failure rejects Promise.all at once, and
\* its siblings go on unheard; the last child of a batch opens the next one.
Ended(f, result) ==
    LET m == Main(f)
        batch == {g \in Children(f) : g[3] <= opened[m]}
        others == batch \ {f}
        next == {g \in Children(f) : opened[m] < g[3] /\ g[3] <= opened[m] + Concurrency /\ g[3] <= items[m]}
        closed(r) == [g \in Flows |-> IF g = m THEN r
                                      ELSE IF g \in Children(f) /\ (g = f \/ step[g] \in {"value", "error"})
                                      THEN "none" ELSE step[g]]
    IN  CASE f = m -> step' = [step EXCEPT ![f] = result] /\ UNCHANGED opened
          [] f # m /\ step[m] # "each" -> step' = [step EXCEPT ![f] = "none"] /\ UNCHANGED opened
          [] f # m /\ step[m] = "each" /\ result = "error" -> step' = closed("error") /\ UNCHANGED opened
          [] f # m /\ step[m] = "each" /\ result = "value" ->
                IF \E g \in others : step[g] # "value"
                THEN step' = [step EXCEPT ![f] = "value"] /\ UNCHANGED opened
                ELSE IF next = {} THEN step' = closed("value") /\ UNCHANGED opened
                ELSE /\ step' = [g \in Flows |-> IF g \in next THEN Opening(g[2])
                                                ELSE IF g = f THEN "value" ELSE step[g]]
                     /\ opened' = [opened EXCEPT ![m] = @ + Cardinality(next)]

\* A flow goes on to s, which may be its end.
Proceeds(f, s) ==
    /\ IF s \in {"value", "error"} THEN Ended(f, s)
       ELSE step' = [step EXCEPT ![f] = s] /\ UNCHANGED opened
    /\ UNCHANGED <<source, pages, items>>

\* The next request or process of a flow takes its turn.
TakeTurn(f) ==
    /\ step[f] \in Requesting \cup Processing
    /\ f \notin running[QueueOf(f)] /\ ~Waits(f, QueueOf(f))
    /\ Enter(f)
    /\ UNCHANGED flows

\* A request is answered, or fails, at the latest by its timeout.
Answered(f) ==
    /\ step[f] \in Requesting /\ f \in running[QueueOf(f)]
    /\ Leave(f)
    /\ \E status \in {"ok", "denied", "failed"} : Proceeds(f, AfterRequest(f, status))

\* What jq prints is not what the extractor wants, or jq fails.
NotExtracted(f) ==
    /\ step[f] \in Processing /\ f \in running[Jq]
    /\ Leave(f)
    /\ Proceeds(f, "error")

\* extractTokens of the login steps.
TokensExtracted(f) ==
    /\ step[f] = "token" /\ f \in running[Jq]
    /\ Leave(f)
    /\ Proceeds(f, Prepared(f[2]))

\* collectSocketIoMetric: connected and acknowledged, or neither in time.
SocketEnds(f) ==
    /\ step[f] = "socket"
    /\ \E s \in {"jq", "error"} : Proceeds(f, s)
    /\ UNCHANGED queues

\* jq produces the value of a metric, of a child, or of all pages.
Extracted(f) ==
    /\ f \in running[Jq]
    /\ \/ step[f] = "final"
       \/ step[f] = "jq" /\ (f # Main(f) \/ source[f[2]].extractor \in {"jq", "socketio"})
    /\ Leave(f)
    /\ Proceeds(f, "value")

\* collectForEachMetric: the distinct items, and the children of the first batch.
ItemsExtracted(f) ==
    /\ step[f] = "jq" /\ f = Main(f) /\ source[f[2]].extractor = "each" /\ f \in running[Jq]
    /\ Leave(f)
    /\ \E n \in 1..MaxItems :
        LET batch == IF n < Concurrency THEN n ELSE Concurrency IN
        /\ items' = [items EXCEPT ![f] = n]
        /\ opened' = [opened EXCEPT ![f] = batch]
        /\ step' = [g \in Flows |-> IF g = f THEN "each"
                                    ELSE IF g \in Children(f) /\ g[3] <= batch THEN Opening(g[2])
                                    ELSE step[g]]
    /\ UNCHANGED <<source, pages>>

\* collectPaginatedJq: the items of a page, then the number of the next one.
PageExtracted(f) ==
    /\ step[f] = "jq" /\ source[f[2]].extractor = "pages" /\ f \in running[Jq]
    /\ Leave(f)
    /\ step' = [step EXCEPT ![f] = "next"]
    /\ pages' = [pages EXCEPT ![f] = @ + 1]
    /\ UNCHANGED <<source, items, opened>>

NextPage(f) ==
    /\ step[f] = "next" /\ f \in running[Jq]
    /\ Leave(f)
    /\ Proceeds(f, Opening(f[2]))

LastPage(f) ==
    /\ step[f] = "next" /\ f \in running[Jq]
    /\ Leave(f)
    /\ Proceeds(f, "final")

\* Whatever a flow awaits has come.
FlowNext(f) ==
    \/ Answered(f) \/ NotExtracted(f) \/ TokensExtracted(f) \/ SocketEnds(f)
    \/ Extracted(f) \/ ItemsExtracted(f) \/ PageExtracted(f) \/ NextPage(f) \/ LastPage(f)
=============================================================================
