----------------------------- MODULE ThreadPool -----------------------------
(***************************************************************************)
(* The thread pool of lib/thread (threadpool.cpp, threadpool.h): the main  *)
(* thread adds tasks and collects the finished ones in its tick, pooled    *)
(* threads process them.  A thread of the initial set is permanent; the    *)
(* ones added under load give up after ThreadPool::timeout idle seconds.   *)
(*                                                                         *)
(* A step is what a thread does in one critical section, or between two    *)
(* accesses to state the other threads share.  The events are those of the *)
(* Win32 branch of common/platform.h: manual-reset events, so a signal is  *)
(* kept until the thread that waited resets it.                            *)
(***************************************************************************)
EXTENDS Naturals, Sequences, FiniteSets

CONSTANTS
    Tasks,                  \* TPTask objects
    Threads,                \* TPThread objects, used again once the thread is gone
    normalThreadCount,      \* permanent threads
    extraNewAddThreadCount, \* threads added when all are busy
    maxThreadCount,         \* no threads are added from this count on
    NULL

ASSUME CountsAssumption ==
    /\ normalThreadCount \in Nat \ {0}
    /\ extraNewAddThreadCount \in Nat \ {0}
    /\ maxThreadCount \in Nat \ {0}

ASSUME ThreadsAssumption ==
    /\ NULL \notin Tasks \cup Threads
    /\ IsFiniteSet(Threads)
    /\ Cardinality(Threads) >= normalThreadCount
    /\ normalThreadCount < maxThreadCount =>
          Cardinality(Threads) >= maxThreadCount + extraNewAddThreadCount - 1

VARIABLES
    \* ThreadPool
    bufferedTaskList,       \* tasks no thread has taken yet
    finiTaskList,           \* processed tasks the main thread has not seen yet
    freeThreadList, busyThreadList, allThreadList,
    currentThreadCount, currentFreeThreadCount,
    isDestroyed,
    \* TPThread
    pc,                     \* where the thread is in threadFunc
    currTask,               \* currTask_
    task1,                  \* the local task1 of threadFunc
    timed,                  \* threadWaitSecond_ > 0
    signalled,              \* the event cond_
    \* the main thread
    finitasks,              \* the local finitasks of onMainThreadTick
    finalised,              \* destroy() has returned
    \* the task objects
    live,                   \* created and not deleted
    lost                    \* history: deleted unprocessed by a thread of a live pool

poolVars == <<freeThreadList, busyThreadList, allThreadList,
              currentThreadCount, currentFreeThreadCount>>
mainVars == <<finitasks, isDestroyed, finalised>>
vars == <<bufferedTaskList, finiTaskList, poolVars, pc, currTask, task1, timed,
          signalled, mainVars, live, lost>>

PCs ==
    {"absent",   \* no such object
     "top",      \* head of the loop, before task() is read
     "sleep",    \* task() was NULL: about to wait for the event
     "wait",     \* in WaitForSingleObject
     "reset",    \* the wait has returned, ResetEvent is next
     "timedout", \* the wait has timed out, removeHangThread is next
     "check",    \* about to test isDestroyed and read task()
     "process",  \* in processTask
     "tryget",   \* in tryGetTask
     "chain",    \* tryGetTask gave task1
     "complete", \* tryGetTask gave nothing: onTaskCompleted
     "free",     \* in onTaskCompleted, addFreeThread is next
     "exit",     \* at __THREAD_END__
     "end"}      \* THREAD_STATE_END

TypeOK ==
    /\ bufferedTaskList \in Seq(Tasks)
    /\ finiTaskList \in Seq(Tasks)
    /\ finitasks \in Seq(Tasks)
    /\ freeThreadList \in Seq(Threads)
    /\ busyThreadList \in SUBSET Threads
    /\ allThreadList \in SUBSET Threads
    /\ currentThreadCount \in Nat
    /\ currentFreeThreadCount \in Nat
    /\ isDestroyed \in BOOLEAN
    /\ finalised \in BOOLEAN
    /\ pc \in [Threads -> PCs]
    /\ currTask \in [Threads -> Tasks \cup {NULL}]
    /\ task1 \in [Threads -> Tasks \cup {NULL}]
    /\ timed \in [Threads -> BOOLEAN]
    /\ signalled \in [Threads -> BOOLEAN]
    /\ live \in SUBSET Tasks
    /\ lost \in SUBSET Tasks

InSeq(x, s) == \E i \in DOMAIN s : s[i] = x

\* find and erase: s without the first x, if there is one.
SeqWithout(s, x) ==
    IF InSeq(x, s)
    THEN LET k == CHOOSE i \in DOMAIN s : s[i] = x /\ \A j \in 1 .. i - 1 : s[j] # x
         IN  [i \in 1 .. Len(s) - 1 |-> IF i < k THEN s[i] ELSE s[i + 1]]
    ELSE s

Distinct(s) == \A i, j \in DOMAIN s : s[i] = s[j] => i = j

-----------------------------------------------------------------------------

\* ThreadPool(), then createThreadPool: normalThreadCount permanent threads, free.
Init ==
    /\ bufferedTaskList = <<>>
    /\ finiTaskList = <<>>
    /\ \E s \in [1 .. normalThreadCount -> Threads] :
          /\ Distinct(s)
          /\ freeThreadList = s
          /\ allThreadList = {s[i] : i \in DOMAIN s}
    /\ busyThreadList = {}
    /\ currentThreadCount = normalThreadCount
    /\ currentFreeThreadCount = normalThreadCount
    /\ isDestroyed = FALSE
    /\ pc = [p \in Threads |-> IF p \in allThreadList THEN "top" ELSE "absent"]
    /\ currTask = [p \in Threads |-> NULL]
    /\ task1 = [p \in Threads |-> NULL]
    /\ timed = [p \in Threads |-> FALSE]
    /\ signalled = [p \in Threads |-> FALSE]
    /\ finitasks = <<>>
    /\ finalised = FALSE
    /\ live = {}
    /\ lost = {}

-----------------------------------------------------------------------------
(***************************************************************************)
(* addTask                                                                 *)
(***************************************************************************)

isThreadCountMax == currentThreadCount >= maxThreadCount

\* Mutant: only a thread that is asleep already is signalled.
GiveToFreeThreadSignalAsleep(t) ==
    /\ currentFreeThreadCount > 0
    /\ LET p == Head(freeThreadList) IN
          /\ freeThreadList' = Tail(freeThreadList)
          /\ busyThreadList' = busyThreadList \cup {p}
          /\ currentFreeThreadCount' = currentFreeThreadCount - 1
          /\ currTask' = [currTask EXCEPT ![p] = t]
          /\ signalled' = [signalled EXCEPT ![p] = pc[p] = "wait"]
    /\ UNCHANGED <<bufferedTaskList, allThreadList, currentThreadCount, pc, timed>>

\* The first free thread is given the task and signalled.
GiveToFreeThread(t) ==
    /\ currentFreeThreadCount > 0
    /\ LET p == Head(freeThreadList) IN
          /\ freeThreadList' = Tail(freeThreadList)
          /\ busyThreadList' = busyThreadList \cup {p}
          /\ currentFreeThreadCount' = currentFreeThreadCount - 1
          /\ currTask' = [currTask EXCEPT ![p] = t]
          /\ signalled' = [signalled EXCEPT ![p] = TRUE]
    /\ UNCHANGED <<bufferedTaskList, allThreadList, currentThreadCount, pc, timed>>

\* No thread is free and no more may be made: the task waits in the buffer.
BufferOnly(t) ==
    /\ currentFreeThreadCount = 0
    /\ isThreadCountMax
    /\ bufferedTaskList' = Append(bufferedTaskList, t)
    /\ UNCHANGED <<poolVars, pc, currTask, timed, signalled>>

\* No thread is free: the task is buffered and timed threads are made, which are
\* free and have neither a task nor a signal.
BufferAndGrow(t) ==
    /\ currentFreeThreadCount = 0
    /\ ~isThreadCountMax
    /\ bufferedTaskList' = Append(bufferedTaskList, t)
    /\ \E s \in [1 .. extraNewAddThreadCount -> {p \in Threads : pc[p] = "absent"}] :
          LET new == {s[i] : i \in DOMAIN s} IN
          /\ Distinct(s)
          /\ allThreadList' = allThreadList \cup new
          /\ freeThreadList' = freeThreadList \o s
          /\ currentThreadCount' = currentThreadCount + extraNewAddThreadCount
          /\ currentFreeThreadCount' = currentFreeThreadCount + extraNewAddThreadCount
          /\ pc' = [p \in Threads |-> IF p \in new THEN "top" ELSE pc[p]]
          /\ timed' = [p \in Threads |-> p \in new \/ timed[p]]
          /\ signalled' = [p \in Threads |-> p \notin new /\ signalled[p]]
    /\ UNCHANGED <<busyThreadList, currTask>>

\* addTask holds threadStateList_mutex_ throughout.
AddTaskBody(t) == GiveToFreeThread(t) \/ BufferOnly(t) \/ BufferAndGrow(t)

MainThreadIdle == finitasks = <<>> /\ ~isDestroyed

\* A handler of the main thread creates a task and adds it.
AddTask(t) ==
    /\ MainThreadIdle
    /\ t \notin live \cup lost
    /\ live' = live \cup {t}
    /\ AddTaskBody(t)
    /\ UNCHANGED <<finiTaskList, task1, mainVars, lost>>

-----------------------------------------------------------------------------
(***************************************************************************)
(* onMainThreadTick                                                        *)
(***************************************************************************)

\* The finished tasks are moved to a local vector under the lock.
TickTake ==
    /\ MainThreadIdle
    /\ finiTaskList # <<>>
    /\ finitasks' = finiTaskList
    /\ finiTaskList' = <<>>
    /\ UNCHANGED <<bufferedTaskList, poolVars, pc, currTask, task1, timed, signalled,
                   isDestroyed, finalised, live, lost>>

\* presentMainThread answers TPTASK_STATE_COMPLETED: the task is deleted.
PresentCompleted ==
    /\ finitasks # <<>>
    /\ live' = live \ {Head(finitasks)}
    /\ finitasks' = Tail(finitasks)
    /\ UNCHANGED <<bufferedTaskList, finiTaskList, poolVars, pc, currTask, task1, timed,
                   signalled, isDestroyed, finalised, lost>>

\* TPTASK_STATE_CONTINUE_CHILDTHREAD: the task is added again.
PresentContinueChild ==
    /\ finitasks # <<>>
    /\ AddTaskBody(Head(finitasks))
    /\ finitasks' = Tail(finitasks)
    /\ UNCHANGED <<finiTaskList, task1, isDestroyed, finalised, live, lost>>

\* TPTASK_STATE_CONTINUE_MAINTHREAD: the task is presented again at the next tick.
PresentContinueMain ==
    /\ finitasks # <<>>
    /\ finiTaskList' = Append(finiTaskList, Head(finitasks))
    /\ finitasks' = Tail(finitasks)
    /\ UNCHANGED <<bufferedTaskList, poolVars, pc, currTask, task1, timed, signalled,
                   isDestroyed, finalised, live, lost>>

-----------------------------------------------------------------------------
(***************************************************************************)
(* threadFunc                                                              *)
(***************************************************************************)

Goto(p, l) == pc' = [pc EXCEPT ![p] = l]

unchangedButPc == <<bufferedTaskList, finiTaskList, poolVars, currTask, task1, timed,
                    mainVars, live, lost>>

\* With a task in hand the thread does not wait.
LoopTop(p) ==
    /\ pc[p] = "top"
    /\ Goto(p, IF currTask[p] # NULL THEN "check" ELSE "sleep")
    /\ UNCHANGED <<unchangedButPc, signalled>>

EnterWait(p) ==
    /\ pc[p] = "sleep"
    /\ Goto(p, "wait")
    /\ UNCHANGED <<unchangedButPc, signalled>>

WaitSignalled(p) ==
    /\ pc[p] = "wait"
    /\ signalled[p]
    /\ Goto(p, "reset")
    /\ UNCHANGED <<unchangedButPc, signalled>>

\* Mutant: permanent threads time out too.
WaitTimeoutAny(p) ==
    /\ pc[p] = "wait"
    /\ ~signalled[p]
    /\ Goto(p, "timedout")
    /\ UNCHANGED <<unchangedButPc, signalled>>

WaitTimeout(p) ==
    /\ pc[p] = "wait"
    /\ timed[p]
    /\ ~signalled[p]
    /\ Goto(p, "timedout")
    /\ UNCHANGED <<unchangedButPc, signalled>>

ResetEvent(p) ==
    /\ pc[p] = "reset"
    /\ signalled' = [signalled EXCEPT ![p] = FALSE]
    /\ Goto(p, "check")
    /\ UNCHANGED unchangedButPc

\* Mutant: the free count is left as it was.
RemoveHangThreadKeepsFreeCount(p) ==
    /\ pc[p] = "timedout"
    /\ signalled' = [signalled EXCEPT ![p] = FALSE]
    /\ InSeq(p, freeThreadList)
    /\ freeThreadList' = SeqWithout(freeThreadList, p)
    /\ allThreadList' = allThreadList \ {p}
    /\ currentThreadCount' = currentThreadCount - 1
    /\ timed' = [timed EXCEPT ![p] = FALSE]
    /\ Goto(p, "absent")
    /\ UNCHANGED <<bufferedTaskList, finiTaskList, busyThreadList, currentFreeThreadCount,
                   currTask, task1, mainVars, live, lost>>

\* Mutant: the thread is taken off without a look at freeThreadList_.
RemoveHangThreadUnchecked(p) ==
    /\ pc[p] = "timedout"
    /\ signalled' = [signalled EXCEPT ![p] = FALSE]
    /\ freeThreadList' = SeqWithout(freeThreadList, p)
    /\ allThreadList' = allThreadList \ {p}
    /\ currentThreadCount' = currentThreadCount - 1
    /\ currentFreeThreadCount' = currentFreeThreadCount - 1
    /\ timed' = [timed EXCEPT ![p] = FALSE]
    /\ Goto(p, "absent")
    /\ UNCHANGED <<bufferedTaskList, finiTaskList, busyThreadList, currTask, task1,
                   mainVars, live, lost>>

\* removeHangThread: a free thread takes itself off the lists and is deleted; one
\* that is no longer free leaves by __THREAD_END__ all the same.
RemoveHangThread(p) ==
    /\ pc[p] = "timedout"
    /\ signalled' = [signalled EXCEPT ![p] = FALSE]
    /\ IF InSeq(p, freeThreadList) /\ p \in allThreadList
       THEN /\ freeThreadList' = SeqWithout(freeThreadList, p)
            /\ allThreadList' = allThreadList \ {p}
            /\ currentThreadCount' = currentThreadCount - 1
            /\ currentFreeThreadCount' = currentFreeThreadCount - 1
            /\ timed' = [timed EXCEPT ![p] = FALSE]
            /\ Goto(p, "absent")
       ELSE /\ Goto(p, "exit")
            /\ UNCHANGED <<freeThreadList, allThreadList, currentThreadCount,
                           currentFreeThreadCount, timed>>
    /\ UNCHANGED <<bufferedTaskList, finiTaskList, busyThreadList, currTask, task1,
                   mainVars, live, lost>>

Check(p) ==
    /\ pc[p] = "check"
    /\ Goto(p, CASE isDestroyed -> "exit"
                 [] ~isDestroyed /\ currTask[p] = NULL -> "top"
                 [] ~isDestroyed /\ currTask[p] # NULL -> "process")
    /\ UNCHANGED <<unchangedButPc, signalled>>

ProcessTask(p) ==
    /\ pc[p] = "process"
    /\ Goto(p, "tryget")
    /\ UNCHANGED <<unchangedButPc, signalled>>

\* Mutant: the buffer is not looked into.
TryGetTaskNever(p) ==
    /\ pc[p] = "tryget"
    /\ Goto(p, "complete")
    /\ UNCHANGED <<unchangedButPc, signalled>>

\* tryGetTask: popbufferTask.
TryGetTask(p) ==
    /\ pc[p] = "tryget"
    /\ IF bufferedTaskList = <<>>
       THEN Goto(p, "complete") /\ UNCHANGED <<bufferedTaskList, task1>>
       ELSE /\ task1' = [task1 EXCEPT ![p] = Head(bufferedTaskList)]
            /\ bufferedTaskList' = Tail(bufferedTaskList)
            /\ Goto(p, "chain")
    /\ UNCHANGED <<finiTaskList, poolVars, currTask, timed, signalled, mainVars, live, lost>>

\* Mutant: the finished task is forgotten.
ChainTaskForgets(p) ==
    /\ pc[p] = "chain"
    /\ currTask' = [currTask EXCEPT ![p] = task1[p]]
    /\ task1' = [task1 EXCEPT ![p] = NULL]
    /\ Goto(p, "check")
    /\ UNCHANGED <<bufferedTaskList, finiTaskList, poolVars, timed, signalled, mainVars,
                   live, lost>>

\* The finished task is queued for the main thread, task1 becomes the current one.
ChainTask(p) ==
    /\ pc[p] = "chain"
    /\ finiTaskList' = Append(finiTaskList, currTask[p])
    /\ currTask' = [currTask EXCEPT ![p] = task1[p]]
    /\ task1' = [task1 EXCEPT ![p] = NULL]
    /\ Goto(p, "check")
    /\ UNCHANGED <<bufferedTaskList, poolVars, timed, signalled, mainVars, live, lost>>

\* Mutant: currTask_ is not reset.
CompleteTaskKeepsTask(p) ==
    /\ pc[p] = "complete"
    /\ finiTaskList' = Append(finiTaskList, currTask[p])
    /\ Goto(p, "free")
    /\ UNCHANGED <<bufferedTaskList, poolVars, currTask, task1, timed, signalled, mainVars,
                   live, lost>>

\* onTaskCompleted up to currTask_ = NULL.
CompleteTask(p) ==
    /\ pc[p] = "complete"
    /\ finiTaskList' = Append(finiTaskList, currTask[p])
    /\ currTask' = [currTask EXCEPT ![p] = NULL]
    /\ Goto(p, "free")
    /\ UNCHANGED <<bufferedTaskList, poolVars, task1, timed, signalled, mainVars, live, lost>>

\* addFreeThread; a thread it does not find busy is deleted on the spot.
AddFreeThread(p) ==
    /\ pc[p] = "free"
    /\ IF p \in busyThreadList
       THEN /\ busyThreadList' = busyThreadList \ {p}
            /\ freeThreadList' = Append(freeThreadList, p)
            /\ currentFreeThreadCount' = currentFreeThreadCount + 1
            /\ Goto(p, "top")
       ELSE /\ Goto(p, "absent")
            /\ UNCHANGED <<busyThreadList, freeThreadList, currentFreeThreadCount>>
    /\ UNCHANGED <<bufferedTaskList, finiTaskList, allThreadList, currentThreadCount,
                   currTask, task1, timed, signalled, mainVars, live, lost>>

\* __THREAD_END__: a task still in hand is deleted, unprocessed.  currTask_ goes on
\* naming it.
ThreadEnd(p) ==
    /\ pc[p] = "exit"
    /\ live' = live \ {currTask[p]}
    /\ lost' = IF isDestroyed THEN lost ELSE lost \cup ({currTask[p]} \ {NULL})
    /\ Goto(p, "end")
    /\ UNCHANGED <<bufferedTaskList, finiTaskList, poolVars, currTask, task1, timed,
                   signalled, mainVars>>

-----------------------------------------------------------------------------
(***************************************************************************)
(* destroy                                                                 *)
(***************************************************************************)

DestroyBegin ==
    /\ MainThreadIdle
    /\ isDestroyed' = TRUE
    /\ UNCHANGED <<bufferedTaskList, finiTaskList, poolVars, pc, currTask, task1, timed,
                   signalled, finitasks, finalised, live, lost>>

\* Mutant: only the busy threads are signalled.
DestroySignalBusy ==
    /\ isDestroyed /\ ~finalised
    /\ \E p \in allThreadList : pc[p] # "end"
    /\ signalled' = [p \in Threads |->
                       signalled[p] \/ (p \in busyThreadList /\ pc[p] # "end")]
    /\ UNCHANGED <<unchangedButPc, pc>>

\* Every 300 ms: signal the threads that have not ended.
DestroySignal ==
    /\ isDestroyed /\ ~finalised
    /\ \E p \in allThreadList : pc[p] # "end"
    /\ signalled' = [p \in Threads |->
                       signalled[p] \/ (p \in allThreadList /\ pc[p] # "end")]
    /\ UNCHANGED <<unchangedButPc, pc>>

\* All have ended: the threads and what is left in the two task lists are deleted.
DestroyEnd ==
    /\ isDestroyed /\ ~finalised
    /\ \A p \in allThreadList : pc[p] = "end"
    /\ pc' = [p \in Threads |-> IF p \in allThreadList THEN "absent" ELSE pc[p]]
    /\ allThreadList' = {}
    /\ live' = live \ {t \in Tasks : InSeq(t, finiTaskList) \/ InSeq(t, bufferedTaskList)}
    /\ finiTaskList' = <<>>
    /\ bufferedTaskList' = <<>>
    /\ finalised' = TRUE
    /\ UNCHANGED <<freeThreadList, busyThreadList, currentThreadCount,
                   currentFreeThreadCount, currTask, task1, timed, signalled, finitasks,
                   isDestroyed, lost>>

-----------------------------------------------------------------------------

ThreadStep(p) ==
    \/ LoopTop(p) \/ EnterWait(p) \/ WaitSignalled(p) \/ WaitTimeout(p) \/ ResetEvent(p)
    \/ RemoveHangThread(p) \/ Check(p) \/ ProcessTask(p) \/ TryGetTask(p)
    \/ ChainTask(p) \/ CompleteTask(p) \/ AddFreeThread(p) \/ ThreadEnd(p)

Present == PresentCompleted \/ PresentContinueChild \/ PresentContinueMain

MainStep ==
    \/ \E t \in Tasks : AddTask(t)
    \/ TickTake \/ Present
    \/ DestroyBegin \/ DestroySignal \/ DestroyEnd

Next == MainStep \/ \E p \in Threads : ThreadStep(p)

Spec == Init /\ [][Next]_vars

\* A thread that can go on goes on (tasks end, waits return), and the main thread
\* keeps ticking and finishes what it began.  A handler need never add a task.
Fairness ==
    /\ \A p \in Threads : WF_vars(ThreadStep(p))
    /\ WF_vars(TickTake \/ Present)
    /\ WF_vars(DestroySignal)
    /\ WF_vars(DestroyEnd)

FairSpec == Spec /\ Fairness

-----------------------------------------------------------------------------
(***************************************************************************)
(* Safety                                                                  *)
(***************************************************************************)

Elements(s) == {s[i] : i \in DOMAIN s}

\* The two counters addTask decides by agree with the lists, and every thread of
\* the pool is either free or busy, whoever has been added, has finished or has
\* timed out: addTask takes the front of freeThreadList_ when the counter says so.
CountsMatchLists ==
    ~finalised =>
        /\ currentFreeThreadCount = Len(freeThreadList)
        /\ currentThreadCount = Cardinality(allThreadList)
        /\ Distinct(freeThreadList)
        /\ Elements(freeThreadList) \cap busyThreadList = {}
        /\ Elements(freeThreadList) \cup busyThreadList = allThreadList

Working == {"process", "tryget", "chain", "complete", "free"}

\* The lists tell the truth about the threads: a free thread has no task, and a
\* thread in the middle of a task is busy, so that addFreeThread never takes the
\* path on which it deletes the thread that is running it.
ListsMatchThreads ==
    ~finalised =>
        \A p \in Threads :
            /\ p \in Elements(freeThreadList) => currTask[p] = NULL /\ task1[p] = NULL
            /\ pc[p] \in Working => p \in busyThreadList

\* The indices at which t stands in s.
At(t, s) == {i \in DOMAIN s : s[i] = t}

InHand(t) == {p \in Threads : currTask[p] = t /\ pc[p] \notin {"absent", "end"}}
Popped(t) == {p \in Threads : task1[p] = t}

\* Every task that has not been deleted is in exactly one place: given to one
\* thread, popped by one thread, buffered, finished or being presented.  No task
\* is leaked, processed by two threads or deleted twice.
EachTaskInOnePlace ==
    \A t \in Tasks :
        Cardinality(InHand(t)) + Cardinality(Popped(t))
          + Cardinality(At(t, bufferedTaskList)) + Cardinality(At(t, finiTaskList))
          + Cardinality(At(t, finitasks))
        = IF t \in live THEN 1 ELSE 0

\* A thread that sleeps with a task assigned has its event set: no wake-up is lost
\* between the reading of task() and the wait, or between the wait and ResetEvent.
AssignedSleeperIsSignalled ==
    \A p \in Threads :
        pc[p] \in {"sleep", "wait"} /\ p \in busyThreadList => signalled[p]

\* No task is deleted unprocessed while the pool is alive.
NoTaskLost == lost = {}

\* "If it timed out, the thread has long been unused" (onWaitCondSignal): a thread
\* that leaves a live pool has no task in hand.
TimedOutThreadIsUnused ==
    \A p \in Threads : pc[p] = "exit" /\ ~isDestroyed => currTask[p] = NULL

-----------------------------------------------------------------------------
(***************************************************************************)
(* Liveness                                                                *)
(***************************************************************************)

\* A thread gets done with every task it is given.
GivenTaskIsFinished ==
    \A p \in Threads, t \in Tasks :
        (currTask[p] = t /\ ~isDestroyed) ~> (currTask[p] # t \/ isDestroyed)

\* As long as tasks keep coming, every buffered task is taken by some thread.
\* Without new tasks it may not be: a worker that has found the buffer empty counts as
\* busy until addFreeThread, and what is buffered in between waits for the next task
\* that is finished.
BufferDrainsUnderLoad ==
    []<><<\E t \in Tasks : AddTask(t)>>_vars =>
        \A t \in Tasks : InSeq(t, bufferedTaskList) ~> ~InSeq(t, bufferedTaskList)

\* destroy() returns: every thread of the pool ends once it is told to.
ShutdownCompletes == isDestroyed ~> finalised

=============================================================================
