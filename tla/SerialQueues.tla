---------------------------- MODULE SerialQueues ----------------------------
(***************************************************************************)
(* What the database manager promises of the requests about one entity:    *)
(* they are served one at a time and in the order in which they came,      *)
(* while requests about different entities are served in any order.        *)
(*                                                                         *)
(* This is the abstract specification; Buffered_DBTasks and its thread     *)
(* pool (module BufferedDBTasks) are shown to implement it.                *)
(***************************************************************************)
EXTENDS Naturals

CONSTANTS
    Tasks,      \* the requests
    key         \* key[t]: the entity the request t is about

VARIABLES
    status,     \* how far each request has got
    arrival     \* the arrival number of each request, 0 before it comes

vars == <<status, arrival>>

Statuses == {"none", "waiting", "active", "done"}

\* u is about the same entity as t and came before it.
Earlier(u, t) ==
    /\ key[u] = key[t]
    /\ arrival[u] # 0
    /\ arrival[u] < arrival[t]

Init ==
    /\ status = [t \in Tasks |-> "none"]
    /\ arrival = [t \in Tasks |-> 0]

\* A request comes and takes a number above every number taken so far.
Submit(t) ==
    /\ status[t] = "none"
    /\ status' = [status EXCEPT ![t] = "waiting"]
    /\ arrival' = [arrival EXCEPT ![t] = arrival'[t]]
    /\ \A u \in Tasks \ {t} : arrival[u] < arrival'[t]
    /\ arrival'[t] \in Nat \ {0}

\* Service begins only when every earlier request about the entity is done.
Start(t) ==
    /\ status[t] = "waiting"
    /\ \A u \in Tasks : Earlier(u, t) => status[u] = "done"
    /\ status' = [status EXCEPT ![t] = "active"]
    /\ UNCHANGED arrival

Finish(t) ==
    /\ status[t] = "active"
    /\ status' = [status EXCEPT ![t] = "done"]
    /\ UNCHANGED arrival

Next == \E t \in Tasks : Submit(t) \/ Start(t) \/ Finish(t)

Spec == Init /\ [][Next]_vars

=============================================================================
