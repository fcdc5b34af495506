---------------------------- MODULE DBThreadPool ----------------------------
(***************************************************************************)
(* The database thread pool at work: Buffered_DBTasks on top of            *)
(* ThreadPool, joined by DBThread, which asks the task it has processed    *)
(* for a successor before it looks into the buffer of the pool             *)
(* (lib/db_interface/db_threadpool.cpp).                                   *)
(*                                                                         *)
(* Composes ThreadPool and implements BufferedDBTasks.  DBUtil shuts the   *)
(* pool down after the last message has been handled: destroy() is left to *)
(* ThreadPool, and isDestroyed stays FALSE here.  DBUtil makes all its    *)
(* threads permanent (db_interface.cpp, initInterface), so none times out. *)
(***************************************************************************)
EXTENDS ThreadPool

CONSTANTS EntityTasks, entityDBID, entityID

ASSUME DBPoolAssumption ==
    /\ normalThreadCount = maxThreadCount
    /\ extraNewAddThreadCount = maxThreadCount
    /\ EntityTasks \subseteq Tasks

ASSUME EntityIdsAssumption ==
    /\ entityDBID \in [EntityTasks -> Nat]
    /\ entityID \in [EntityTasks -> Nat]

PlainTasks == Tasks \ EntityTasks

VARIABLES
    buffered,  \* dbid_tasks_ and entityid_tasks_
    handing,   \* the task addTask has filed and not handed to the pool yet
    asked,     \* the thread has asked its task for a successor, in vain
    presented, \* tasks presented to the main thread and deleted
    arrival, requests \* history, as in BufferedDBTasks

queueVars == <<buffered, handing, asked, presented, arrival, requests>>
dbVars == <<vars, queueVars>>

-----------------------------------------------------------------------------
(***************************************************************************)
(* The state of BufferedDBTasks, read off the threads and the lists.       *)
(***************************************************************************)

\* t is filed behind the first entry of a key.
Waiting(t) ==
    \E k \in DOMAIN buffered : \E i \in DOMAIN buffered[k] : i > 1 /\ buffered[k][i] = t

Processed == {"chain", "complete"}

\* The thread that has t in hand is at one of the places ls of threadFunc.
InHandAt(t, ls) == \E p \in InHand(t) : pc[p] \in ls

Stage(t) ==
    CASE t = handing -> "handing"
      [] InSeq(t, bufferedTaskList) -> "given"
      [] \E p \in Popped(t) : asked[p] -> "given"
      [] \E p \in Popped(t) : ~asked[p] -> "chained"
      [] InHandAt(t, {"top", "sleep", "wait", "reset", "check"}) -> "given"
      [] InHandAt(t, {"process"}) \/ \E p \in InHand(t) : pc[p] = "tryget" /\ ~asked[p]
            -> "running"
      [] InHandAt(t, Processed) \/ \E p \in InHand(t) : pc[p] = "tryget" /\ asked[p]
            -> "released"
      [] InSeq(t, finiTaskList) -> "fini"
      [] InSeq(t, finitasks) \/ t \in presented -> "presented"
      [] t \in live /\ Waiting(t) -> "waiting"
      [] t \notin live \cup presented -> "new"

\* task1 follows the task in hand when it was its successor, not when it came from
\* the buffer of the pool.
Follow(t) ==
    IF \E p \in InHand(t) : ~asked[p] /\ task1[p] # NULL
    THEN task1[CHOOSE p \in InHand(t) : ~asked[p]] ELSE NULL

Queue ==
    INSTANCE BufferedDBTasks WITH
        NumWorkers <- maxThreadCount,
        stage <- [t \in Tasks |-> Stage(t)],
        follow <- [t \in Tasks |-> Follow(t)]

-----------------------------------------------------------------------------

DBInit ==
    /\ Init
    /\ buffered = [k \in Queue!Keys |-> <<>>]
    /\ handing = NULL
    /\ asked = [p \in Threads |-> FALSE]
    /\ presented = {}
    /\ arrival = [t \in EntityTasks |-> 0]
    /\ requests = 0

\* Buffered_DBTasks::addTask, the part under its mutex: the key is free and is
\* held with a NULL entry, or the task goes behind the others.
FileTask(t) ==
    /\ MainThreadIdle
    /\ handing = NULL
    /\ t \notin live \cup lost \cup presented
    /\ live' = live \cup {t}
    /\ LET k == Queue!Key(t) IN
          IF buffered[k] = <<>>
          THEN buffered' = [buffered EXCEPT ![k] = <<NULL>>] /\ handing' = t
          ELSE buffered' = [buffered EXCEPT ![k] = Append(@, t)] /\ UNCHANGED handing
    /\ requests' = requests + 1
    /\ arrival' = [arrival EXCEPT ![t] = requests']
    /\ UNCHANGED <<bufferedTaskList, finiTaskList, poolVars, pc, currTask, task1, timed,
                   signalled, mainVars, lost, asked, presented>>

\* ... and its last statement.
HandTask ==
    /\ handing # NULL
    /\ AddTaskBody(handing)
    /\ handing' = NULL
    /\ UNCHANGED <<finiTaskList, task1, mainVars, live, lost, buffered, asked, presented,
                   arrival, requests>>

\* A task that is no EntityDBTask is added to the pool directly.
AddPlainTask(t) ==
    /\ handing = NULL
    /\ t \notin presented
    /\ AddTask(t)
    /\ UNCHANGED queueVars

DBTickTake == handing = NULL /\ TickTake /\ UNCHANGED queueVars

\* Every database task answers TPTASK_STATE_COMPLETED.
DBPresent ==
    /\ PresentCompleted
    /\ presented' = presented \cup {Head(finitasks)}
    /\ UNCHANGED <<buffered, handing, asked, arrival, requests>>

\* Mutant: the pool's buffer is looked into first, and the maps only when it is
\* empty; the key stays held.
AskNextTaskLast(p) ==
    /\ pc[p] = "tryget"
    /\ ~asked[p]
    /\ asked' = [asked EXCEPT ![p] = TRUE]
    /\ UNCHANGED <<vars, buffered, handing, presented, arrival, requests>>

\* DBThread::tryGetTask, first half: the task in hand gives up its key and names
\* the task that was filed behind it.
AskNextTask(p) ==
    /\ pc[p] = "tryget"
    /\ ~asked[p]
    /\ LET t == currTask[p]
           k == Queue!Key(t)
           next == IF t \in EntityTasks /\ Len(buffered[k]) > 1 THEN buffered[k][2] ELSE NULL
       IN /\ buffered' = IF t \in EntityTasks /\ buffered[k] # <<>>
                         THEN [buffered EXCEPT ![k] = Tail(@)] ELSE buffered
          /\ IF next = NULL
             THEN asked' = [asked EXCEPT ![p] = TRUE] /\ UNCHANGED <<pc, task1>>
             ELSE task1' = [task1 EXCEPT ![p] = next] /\ Goto(p, "chain") /\ UNCHANGED asked
    /\ UNCHANGED <<bufferedTaskList, finiTaskList, poolVars, currTask, timed, signalled,
                   mainVars, live, lost, handing, presented, arrival, requests>>

\* Second half: TPThread::tryGetTask.
PopTask(p) ==
    /\ asked[p]
    /\ TryGetTask(p)
    /\ UNCHANGED queueVars

\* The task in hand is queued as finished, and the next one, if any, taken.
FinishTask(p) ==
    /\ ChainTask(p) \/ CompleteTask(p)
    /\ asked' = [asked EXCEPT ![p] = FALSE]
    /\ UNCHANGED <<buffered, handing, presented, arrival, requests>>

OtherThreadStep(p) ==
    /\ \/ LoopTop(p) \/ EnterWait(p) \/ WaitSignalled(p) \/ ResetEvent(p) \/ Check(p)
       \/ ProcessTask(p) \/ AddFreeThread(p)
    /\ UNCHANGED queueVars

DBNext ==
    \/ \E t \in EntityTasks : FileTask(t)
    \/ \E t \in PlainTasks : AddPlainTask(t)
    \/ HandTask \/ DBTickTake \/ DBPresent
    \/ \E p \in Threads :
          AskNextTask(p) \/ PopTask(p) \/ FinishTask(p) \/ OtherThreadStep(p)

DBSpec == DBInit /\ [][DBNext]_dbVars

-----------------------------------------------------------------------------

\* The pool and its threads, with the maps in front of them, are a queue as
\* BufferedDBTasks describes it.
ImplementsQueue == Queue!Spec

=============================================================================
