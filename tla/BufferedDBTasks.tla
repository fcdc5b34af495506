-------------------------- MODULE BufferedDBTasks --------------------------
(***************************************************************************)
(* The dbmgr's queue of database tasks (server/dbmgr/buffered_dbtasks.cpp) *)
(* between the message handlers of the main thread and the worker threads  *)
(* of the database thread pool (lib/db_interface/db_threadpool.cpp).       *)
(*                                                                         *)
(* The pool is seen from outside: a task handed to it is picked up by some *)
(* free worker, in any order.  Module ThreadPool models its inside, and    *)
(* module DBThreadPool puts the two together.                              *)
(***************************************************************************)
EXTENDS Naturals, Sequences, FiniteSets

CONSTANTS
    EntityTasks,  \* EntityDBTask objects: they go through Buffered_DBTasks
    PlainTasks,   \* the other tasks (DBTaskAccountLogin...): straight to the pool
    entityDBID,   \* EntityDBTask_entityDBID() of each entity task
    entityID,     \* EntityDBTask_entityID() of each entity task
    NumWorkers,   \* threads of the database pool
    NULL

ASSUME TasksAssumption ==
    /\ EntityTasks \cap PlainTasks = {}
    /\ NULL \notin EntityTasks \cup PlainTasks

ASSUME IdsAssumption ==
    /\ entityDBID \in [EntityTasks -> Nat]
    /\ entityID \in [EntityTasks -> Nat]

ASSUME WorkersAssumption == NumWorkers \in Nat \ {0}

DBTasks == EntityTasks \cup PlainTasks

\* A task is filed in dbid_tasks_ when its entity is in the database already and
\* in entityid_tasks_ otherwise: two maps, so two kinds of keys.
Key(t) ==
    IF entityDBID[t] <= 0 THEN <<"entityid", entityID[t]>>
                          ELSE <<"dbid", entityDBID[t]>>

Keys == {Key(t) : t \in EntityTasks}

VARIABLES
    buffered,     \* the two multimaps: the tasks filed under a key, oldest first
    stage,        \* where each task is
    follow,       \* the task the worker of t goes on with, once t is released
    finiTaskList, \* finished tasks the main thread has not presented yet
    arrival,      \* history: the order in which the handlers made the tasks
    requests      \* history: how many entity tasks they have made

vars == <<buffered, stage, follow, finiTaskList, arrival, requests>>
history == <<arrival, requests>>

Stages ==
    {"new",       \* not created yet
     "handing",   \* filed, addTask has yet to hand it to the pool
     "waiting",   \* filed behind another task of its key
     "given",     \* in the pool, or with a worker that has not begun it
     "running",   \* a worker is processing it
     "released",  \* processed, its key given up, not yet in finiTaskList
     "chained",   \* held by the worker that has just released its predecessor
     "fini",      \* in finiTaskList
     "presented"} \* presented by the main thread and deleted

TypeOK ==
    /\ buffered \in [Keys -> Seq(EntityTasks \cup {NULL})]
    /\ stage \in [DBTasks -> Stages]
    /\ follow \in [DBTasks -> EntityTasks \cup {NULL}]
    /\ finiTaskList \in Seq(DBTasks)
    /\ arrival \in [EntityTasks -> Nat]
    /\ requests \in Nat

-----------------------------------------------------------------------------

Init ==
    /\ buffered = [k \in Keys |-> <<>>]
    /\ stage = [t \in DBTasks |-> "new"]
    /\ follow = [t \in DBTasks |-> NULL]
    /\ finiTaskList = <<>>
    /\ arrival = [t \in EntityTasks |-> 0]
    /\ requests = 0

\* The handlers and the tick are all run by the main thread: none of them
\* starts while addTask is under way.
MainThreadFree == \A t \in DBTasks : stage[t] # "handing"

\* t takes the next arrival number.
Arrive(t) ==
    /\ requests' = requests + 1
    /\ arrival' = [arrival EXCEPT ![t] = requests']

\* Mutant: the task is inserted before those that already wait for the key.
AddBehindFirst(t) ==
    /\ buffered[Key(t)] # <<>>
    /\ buffered' = [buffered EXCEPT ![Key(t)] = <<Head(@), t>> \o Tail(@)]
    /\ stage' = [stage EXCEPT ![t] = "waiting"]

\* addTask files the task behind the others of its key and leaves it there.
AddBehind(t) ==
    /\ buffered[Key(t)] # <<>>
    /\ buffered' = [buffered EXCEPT ![Key(t)] = Append(@, t)]
    /\ stage' = [stage EXCEPT ![t] = "waiting"]

\* addTask finds the key free, holds it with a NULL entry and keeps the task to
\* hand it to the pool after it has unlocked the maps.
AddFirst(t) ==
    /\ buffered[Key(t)] = <<>>
    /\ buffered' = [buffered EXCEPT ![Key(t)] = <<NULL>>]
    /\ stage' = [stage EXCEPT ![t] = "handing"]

\* Mutant: the free key is not held.
AddTaskNoPlaceholder(t) ==
    /\ MainThreadFree
    /\ stage[t] = "new"
    /\ \/ AddBehind(t)
       \/ /\ buffered[Key(t)] = <<>>
          /\ stage' = [stage EXCEPT ![t] = "handing"]
          /\ UNCHANGED buffered
    /\ Arrive(t)
    /\ UNCHANGED <<follow, finiTaskList>>

\* Buffered_DBTasks::addTask, up to the unlock of its mutex.
AddTask(t) ==
    /\ MainThreadFree
    /\ stage[t] = "new"
    /\ AddBehind(t) \/ AddFirst(t)
    /\ Arrive(t)
    /\ UNCHANGED <<follow, finiTaskList>>

\* The last statement of addTask: pThreadPool()->addTask(pTask).
HandToPool(t) ==
    /\ stage[t] = "handing"
    /\ stage' = [stage EXCEPT ![t] = "given"]
    /\ UNCHANGED <<buffered, follow, finiTaskList, history>>

\* A login or account-creation task goes straight to the pool.
AddPlainTask(t) ==
    /\ MainThreadFree
    /\ stage[t] = "new"
    /\ stage' = [stage EXCEPT ![t] = "given"]
    /\ UNCHANGED <<buffered, follow, finiTaskList, history>>

\* Every "running" and every "released" task occupies a worker.
Occupied == {t \in DBTasks : stage[t] \in {"running", "released"}}

\* A free worker begins a task of the pool.
PickUp(t) ==
    /\ stage[t] = "given"
    /\ Cardinality(Occupied) < NumWorkers
    /\ stage' = [stage EXCEPT ![t] = "running"]
    /\ UNCHANGED <<buffered, follow, finiTaskList, history>>

\* Mutant: the newest of the tasks filed under the key.
SuccessorNewest(t) ==
    IF t \in EntityTasks /\ Len(buffered[Key(t)]) > 1
    THEN buffered[Key(t)][Len(buffered[Key(t)])] ELSE NULL

\* The second of the tasks filed under t's key, NULL when there is none.
Successor(t) ==
    IF t \in EntityTasks /\ Len(buffered[Key(t)]) > 1 THEN buffered[Key(t)][2] ELSE NULL

\* Mutant: the entry of the processed task is left in the map.
TryGetNextTaskKeepsHead(t) ==
    /\ stage[t] = "running"
    /\ LET next == Successor(t) IN
          /\ stage' = IF next = NULL THEN [stage EXCEPT ![t] = "released"]
                      ELSE [stage EXCEPT ![t] = "released", ![next] = "chained"]
          /\ follow' = [follow EXCEPT ![t] = next]
    /\ UNCHANGED <<buffered, finiTaskList, history>>

\* The task has been processed (or gave up on an exception: it is not retried)
\* and its worker asks what to go on with: tryGetNextTask erases the first entry
\* of the key and returns the second, which thereby becomes the first.  A plain
\* task has no successor.
TryGetNextTask(t) ==
    /\ stage[t] = "running"
    /\ LET next == Successor(t) IN
          /\ stage' = IF next = NULL THEN [stage EXCEPT ![t] = "released"]
                      ELSE [stage EXCEPT ![t] = "released", ![next] = "chained"]
          /\ follow' = [follow EXCEPT ![t] = next]
    /\ buffered' = IF t \in EntityTasks /\ buffered[Key(t)] # <<>>
                   THEN [buffered EXCEPT ![Key(t)] = Tail(@)]
                   ELSE buffered
    /\ UNCHANGED <<finiTaskList, history>>

\* Mutant: onTaskCompleted clears currTask_ before it queues it.
AddFiniTaskAfterReset(t) ==
    /\ stage[t] = "released"
    /\ finiTaskList' = Append(finiTaskList, follow[t])
    /\ stage' = [stage EXCEPT ![t] = "fini"]
    /\ UNCHANGED <<buffered, follow, history>>

\* The worker queues the finished task for the main thread.  The successor, if any,
\* is the worker's next task; otherwise the worker is free.
AddFiniTask(t) ==
    /\ stage[t] = "released"
    /\ finiTaskList' = Append(finiTaskList, t)
    /\ stage' = IF follow[t] = NULL THEN [stage EXCEPT ![t] = "fini"]
                ELSE [stage EXCEPT ![t] = "fini", ![follow[t]] = "given"]
    /\ follow' = [follow EXCEPT ![t] = NULL]
    /\ UNCHANGED <<buffered, history>>

\* The tick takes the whole list, presents each task (which sends its reply) and
\* deletes it.  Every database task answers TPTASK_STATE_COMPLETED.
OnMainThreadTick ==
    /\ MainThreadFree
    /\ finiTaskList # <<>>
    /\ stage' = [t \in DBTasks |-> IF stage[t] = "fini" THEN "presented" ELSE stage[t]]
    /\ finiTaskList' = <<>>
    /\ UNCHANGED <<buffered, follow, history>>

Next ==
    \/ \E t \in EntityTasks : AddTask(t) \/ HandToPool(t)
    \/ \E t \in PlainTasks : AddPlainTask(t)
    \/ \E t \in DBTasks : PickUp(t) \/ TryGetNextTask(t) \/ AddFiniTask(t)
    \/ OnMainThreadTick

Spec == Init /\ [][Next]_vars

-----------------------------------------------------------------------------

\* A task holds its key from the moment it is filed first until its worker
\* releases the key.
Holding(t) == stage[t] \in {"handing", "given", "running", "chained"}

\* At most one task of a key is on its way to, or in, the hands of a worker: two
\* database transactions about one entity never overlap.
MutualExclusion ==
    \A t, u \in EntityTasks :
        Key(t) = Key(u) /\ Holding(t) /\ Holding(u) => t = u

\* A key is occupied in the maps exactly while some task holds it.  An entry left
\* behind would make addTask file every later request about that entity behind a
\* task nobody will ever finish.
KeyOccupiedIffHeld ==
    \A k \in Keys :
        buffered[k] # <<>> <=> \E t \in EntityTasks : Key(t) = k /\ Holding(t)

\* u was requested before t, about the same entity.
RequestedBefore(u, t) ==
    /\ Key(u) = Key(t)
    /\ arrival[u] # 0
    /\ arrival[u] < arrival[t]

\* The reply of a request may overtake the reply of an earlier request about the
\* same entity in one case only: the earlier one is released (its key is free
\* again before its reply is queued) and nothing was filed behind it by then.
\* Everything that was buffered is answered in order.
RepliesOvertakeOnlyReleased ==
    \A u, t \in EntityTasks :
        RequestedBefore(u, t) /\ stage[t] \in {"fini", "presented"} =>
            \/ stage[u] = "released" /\ follow[u] = NULL
            \/ stage[u] \in {"fini", "presented"}

-----------------------------------------------------------------------------
(***************************************************************************)
(* The queue implements SerialQueues: a task is active while a worker      *)
(* processes it.                                                           *)
(***************************************************************************)

StatusOf(s) ==
    CASE s = "new" -> "none"
      [] s \in {"handing", "waiting", "given", "chained"} -> "waiting"
      [] s = "running" -> "active"
      [] s \in {"released", "fini", "presented"} -> "done"

Serial ==
    INSTANCE SerialQueues WITH
        Tasks <- EntityTasks,
        key <- [t \in EntityTasks |-> Key(t)],
        status <- [t \in EntityTasks |-> StatusOf(stage[t])],
        arrival <- arrival

\* Requests about one entity are processed one at a time, in the order in which
\* the handlers of dbmgr made them, whatever the workers do.
ServedSerially == Serial!Spec

=============================================================================
