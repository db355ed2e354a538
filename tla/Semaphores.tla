----------------------------- MODULE Semaphores -----------------------------
(***************************************************************************)
(* What limits on concurrent work promise: a resource is held by no more   *)
(* tasks than it has room for, nobody waits while there is room, and who   *)
(* waited longest is the next to hold it.  The request queues of           *)
(* custom-metric-http.ts and the process limit of jq.ts are shown to       *)
(* implement it.                                                           *)
(***************************************************************************)
EXTENDS Sequences

CONSTANTS
    Tasks, Resources,
    HasRoom(_, _)  \* whether the resource has room for one more beside these tasks

VARIABLES
    holders,  \* the tasks at work with each resource
    queue     \* the tasks that wait for it, in the order they came

Init ==
    /\ holders = [r \in Resources |-> {}]
    /\ queue = [r \in Resources |-> <<>>]

Enter(t, r) ==
    /\ t \notin holders[r]
    /\ IF HasRoom(r, holders[r])
       THEN holders' = [holders EXCEPT ![r] = @ \cup {t}] /\ UNCHANGED queue
       ELSE queue' = [queue EXCEPT ![r] = Append(@, t)] /\ UNCHANGED holders

Leave(t, r) ==
    /\ t \in holders[r]
    /\ IF queue[r] = <<>>
       THEN holders' = [holders EXCEPT ![r] = @ \ {t}] /\ UNCHANGED queue
       ELSE /\ holders' = [holders EXCEPT ![r] = (@ \ {t}) \cup {Head(queue[r])}]
            /\ queue' = [queue EXCEPT ![r] = Tail(@)]

Spec == Init /\ [][\E t \in Tasks, r \in Resources : Enter(t, r) \/ Leave(t, r)]_<<holders, queue>>
=============================================================================
