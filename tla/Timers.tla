------------------------------- MODULE Timers -------------------------------
(***************************************************************************)
(* The timers of the event dispatcher (lib/common/timer.h, timer.inl).     *)
(* Handlers - the Shutdowner, the heart-beat of the servers, the           *)
(* inactivity check of every channel, the applications themselves - have   *)
(* periodic timers and keep a handle for each: dbmgr one for its tick and  *)
(* one for its check (dbmgr.cpp:107, 110), the baseapp one of EntityApp    *)
(* (entity_app.h:200) and one of its own (baseapp.cpp:98), most others     *)
(* one.  One thread adds and cancels timers, between the passes of process *)
(* and in the call-backs it makes, those of the very timer that is         *)
(* cancelled among them: a cancelled timer stays in the heap until it is   *)
(* its turn or until there are too many.                                   *)
(*                                                                         *)
(* A timer is an object; its memory may be used again for another one.     *)
(* Left out: timers that fire once, which nobody makes (addTimer always    *)
(* passes recurrent = true), clear, which only the destructor calls, and   *)
(* the destruction of handlers.                                            *)
(***************************************************************************)
EXTENDS Integers, FiniteSets

CONSTANTS
    Handlers,  \* TimerHandlers
    Handles,   \* the TimerHandles they keep
    handlerOf, \* whose handle it is
    Times,     \* memory for Time objects
    Intervals, \* the periods handlers ask for
    MaxClock,  \* bound: the last time stamp
    NULL

ASSUME TimersAssumption ==
    /\ Intervals \subseteq Nat \ {0}
    /\ MaxClock \in Nat
    /\ IsFiniteSet(Times) /\ IsFiniteSet(Handles)
    /\ handlerOf \in [Handles -> Handlers]
    /\ NULL \notin Times \cup Handlers

VARIABLES
    clock,        \* timestamp()
    times,        \* the Time objects
    timeQueue_,   \* those in the container of the PriorityQueue
    isHeap,       \* whether the container is ordered as a heap
    numCancelled_,
    pProcessingNode_, \* the timer process has taken from the queue, or NULL
    now,          \* the argument of process
    numTimesRegistered_, \* of a handler
    handle        \* what a TimerHandle holds: a timer or NULL

vars == <<clock, times, timeQueue_, isHeap, numCancelled_, pProcessingNode_, now,
          numTimesRegistered_, handle>>

Idle == -1  \* the value of now between two passes

Time ==
    [state_ : {"PENDING", "EXECUTING", "CANCELLED", "free"},
     time_ : Nat, interval_ : Intervals \cup {0}, pHandler_ : Handlers \cup {NULL}]

Free == [state_ |-> "free", time_ |-> 0, interval_ |-> 0, pHandler_ |-> NULL]

TypeOK ==
    /\ clock \in 0 .. MaxClock
    /\ times \in [Times -> Time]
    /\ timeQueue_ \subseteq Times
    /\ isHeap \in BOOLEAN
    /\ numCancelled_ \in Nat
    /\ pProcessingNode_ \in Times \cup {NULL}
    /\ now \in {Idle} \cup 0 .. MaxClock
    /\ numTimesRegistered_ \in [Handlers -> Nat]
    /\ handle \in [Handles -> Times \cup {NULL}]

Init ==
    /\ clock = 0
    /\ times = [t \in Times |-> Free]
    /\ timeQueue_ = {}
    /\ isHeap = TRUE
    /\ numCancelled_ = 0
    /\ pProcessingNode_ = NULL
    /\ now = Idle
    /\ numTimesRegistered_ = [h \in Handlers |-> 0]
    /\ handle = [k \in Handles |-> NULL]

isCancelled(t) == times[t].state_ = "CANCELLED"
Cancelled == {t \in timeQueue_ : isCancelled(t)}
Alive(t) == times[t].state_ \in {"PENDING", "EXECUTING"}

\* The thread is outside of process or in a call-back that process makes.
MayCall == now = Idle \/ pProcessingNode_ # NULL

\* The front of the container.
IsTop(t) ==
    /\ t \in timeQueue_
    /\ isHeap => \A u \in timeQueue_ : times[t].time_ <= times[u].time_

Tick ==
    /\ clock < MaxClock
    /\ clock' = clock + 1
    /\ UNCHANGED <<times, timeQueue_, isHeap, numCancelled_, pProcessingNode_, now,
                   numTimesRegistered_, handle>>

-----------------------------------------------------------------------------
(***************************************************************************)
(* What handlers do, at any time.                                          *)
(***************************************************************************)

\* addTimer.  A handle that is assigned again has been cancelled before
\* (shutdowner.cpp:52, 90; channel.cpp:265); the others are assigned once.
Add(k, i) ==
    /\ MayCall
    /\ handle[k] = NULL
    /\ \E t \in {u \in Times : times[u] = Free} :
          /\ times' = [times EXCEPT ![t] =
                 [state_ |-> "PENDING", time_ |-> clock + i, interval_ |-> i,
                  pHandler_ |-> handlerOf[k]]]
          /\ timeQueue_' = timeQueue_ \cup {t}
          /\ handle' = [handle EXCEPT ![k] = t]
    /\ numTimesRegistered_' = [numTimesRegistered_ EXCEPT ![handlerOf[k]] = @ + 1]
    /\ UNCHANGED <<clock, isHeap, numCancelled_, pProcessingNode_, now>>

\* The timers when those in dead have been deleted.
Deleted(ts, dead) == [t \in Times |-> IF t \in dead THEN Free ELSE ts[t]]

\* Mutants of purgeCancelledTimes: the count is reset, as in clear; the container is
\* left as partition has it.
PurgeResets(ts, dead) ==
    /\ times' = Deleted(ts, dead)
    /\ timeQueue_' = timeQueue_ \ dead
    /\ numCancelled_' = 0
    /\ isHeap' = TRUE

PurgeLeavesOrder(ts, dead) ==
    /\ times' = Deleted(ts, dead)
    /\ timeQueue_' = timeQueue_ \ dead
    /\ numCancelled_' = numCancelled_ + 1 - Cardinality(dead)
    /\ isHeap' = FALSE

\* The timers are ts, of which those in dead are cancelled and in the queue.  The one
\* just cancelled, counted here, is not among them when it is the one process has
\* taken out.
purgeCancelledTimes(ts, dead) ==
    /\ times' = Deleted(ts, dead)
    /\ timeQueue_' = timeQueue_ \ dead
    /\ numCancelled_' = numCancelled_ + 1 - Cardinality(dead)
    /\ isHeap' = TRUE

\* Mutant: the test comes before the count.
TooManyBefore == numCancelled_ * 2 > Cardinality(timeQueue_)

\* onCancel: more than half of the queue.
TooMany == (numCancelled_ + 1) * 2 > Cardinality(timeQueue_)

\* Mutant: the handle is left as it is.
CancelKeepsHandle(k) ==
    /\ MayCall
    /\ handle[k] # NULL
    /\ ~isCancelled(handle[k])
    /\ numTimesRegistered_' = [numTimesRegistered_ EXCEPT ![handlerOf[k]] = @ - 1]
    /\ LET t == handle[k]
           ts == [times EXCEPT ![t].state_ = "CANCELLED", ![t].pHandler_ = NULL]
       IN IF TooMany
          THEN purgeCancelledTimes(ts, Cancelled \cup ({t} \cap timeQueue_))
          ELSE /\ times' = ts
               /\ numCancelled_' = numCancelled_ + 1
               /\ UNCHANGED <<timeQueue_, isHeap>>
    /\ UNCHANGED <<clock, pProcessingNode_, now, handle>>

\* TimerHandle::cancel, TimeBase::cancel and onCancel.
Cancel(k) ==
    /\ MayCall
    /\ handle[k] # NULL
    /\ handle' = [handle EXCEPT ![k] = NULL]
    /\ numTimesRegistered_' = [numTimesRegistered_ EXCEPT ![handlerOf[k]] = @ - 1]
    /\ LET t == handle[k]
           ts == [times EXCEPT ![t].state_ = "CANCELLED", ![t].pHandler_ = NULL]
       IN IF TooMany
          THEN purgeCancelledTimes(ts, Cancelled \cup ({t} \cap timeQueue_))
          ELSE /\ times' = ts
               /\ numCancelled_' = numCancelled_ + 1
               /\ UNCHANGED <<timeQueue_, isHeap>>
    /\ UNCHANGED <<clock, pProcessingNode_, now>>

-----------------------------------------------------------------------------
(***************************************************************************)
(* process                                                                 *)
(***************************************************************************)

BeginPass ==
    /\ now = Idle
    /\ now' = clock
    /\ UNCHANGED <<clock, times, timeQueue_, isHeap, numCancelled_, pProcessingNode_,
                   numTimesRegistered_, handle>>

InPass == now # Idle /\ pProcessingNode_ = NULL
Due(t) == times[t].time_ <= now \/ isCancelled(t)

\* The timer whose turn it is is taken from the queue and its handler called.
Fire(t) ==
    /\ InPass
    /\ IsTop(t)
    /\ Due(t)
    /\ ~isCancelled(t)
    /\ times' = [times EXCEPT ![t].state_ = "EXECUTING"]
    /\ timeQueue_' = timeQueue_ \ {t}
    /\ pProcessingNode_' = t
    /\ UNCHANGED <<clock, isHeap, numCancelled_, now, numTimesRegistered_, handle>>

\* A cancelled one is taken out and deleted.
Discard(t) ==
    /\ InPass
    /\ IsTop(t)
    /\ isCancelled(t)
    /\ times' = Deleted(times, {t})
    /\ timeQueue_' = timeQueue_ \ {t}
    /\ numCancelled_' = numCancelled_ - 1
    /\ UNCHANGED <<clock, isHeap, pProcessingNode_, now, numTimesRegistered_, handle>>

\* Mutant: the timer is not put back.
ReturnDrops(t) ==
    /\ pProcessingNode_ = t
    /\ ~isCancelled(t)
    /\ times' = [times EXCEPT ![t].state_ = "PENDING", ![t].time_ = @ + times[t].interval_]
    /\ pProcessingNode_' = NULL
    /\ UNCHANGED <<clock, timeQueue_, isHeap, numCancelled_, now, numTimesRegistered_, handle>>

\* The handler returns: the timer gets its next time and is put back.
Return(t) ==
    /\ pProcessingNode_ = t
    /\ ~isCancelled(t)
    /\ times' = [times EXCEPT ![t].state_ = "PENDING", ![t].time_ = @ + times[t].interval_]
    /\ timeQueue_' = timeQueue_ \cup {t}
    /\ pProcessingNode_' = NULL
    /\ UNCHANGED <<clock, isHeap, numCancelled_, now, numTimesRegistered_, handle>>

\* The timer has been cancelled before its handler returns, and is deleted.
ReturnCancelled(t) ==
    /\ pProcessingNode_ = t
    /\ isCancelled(t)
    /\ times' = Deleted(times, {t})
    /\ numCancelled_' = numCancelled_ - 1
    /\ pProcessingNode_' = NULL
    /\ UNCHANGED <<clock, timeQueue_, isHeap, now, numTimesRegistered_, handle>>

EndPass ==
    /\ InPass
    /\ timeQueue_ = {} \/ \E t \in Times : IsTop(t) /\ ~Due(t)
    /\ now' = Idle
    /\ UNCHANGED <<clock, times, timeQueue_, isHeap, numCancelled_, pProcessingNode_,
                   numTimesRegistered_, handle>>

Process ==
    \/ BeginPass \/ EndPass
    \/ \E t \in Times : Fire(t) \/ Discard(t) \/ Return(t) \/ ReturnCancelled(t)

Next ==
    \/ Tick \/ Process
    \/ \E k \in Handles : Cancel(k) \/ \E i \in Intervals : Add(k, i)

Spec == Init /\ [][Next]_vars

\* The loop of the dispatcher comes back to the timers, and every handler returns.
FairSpec == Spec /\ WF_vars(Process)

-----------------------------------------------------------------------------

\* The count of the cancelled timers, on which onCancel decides and which both
\* assertions are about, is right also while a timer that is being processed is
\* cancelled and the queue is purged under it.
CancelledAreCounted ==
    numCancelled_ = Cardinality({t \in Times : isCancelled(t)})

\* The timers that will call h, and the handles of h that hold one.
TimersOf(h) == {t \in Times : times[t].pHandler_ = h}
SetHandlesOf(h) == {k \in Handles : handlerOf[k] = h /\ handle[k] # NULL}

\* What a handle holds is never the address of a deleted timer, nor of a timer that has
\* got the memory of a deleted one: cancelling it is safe at any time.  The count a
\* handler keeps, of which ~TimerHandler asserts that it is 0 (timer.h:65), is that of
\* the timers that would still call it and that of its handles not yet cancelled: the
\* assertion holds for a handler that has cancelled them all, as dbmgr has
\* (dbmgr.cpp:48-49), and fails for one that has not, as the baseapp, whose finalise
\* (baseapp.cpp:104-109) leaves the timer of EntityApp.
HandlesAreAlive ==
    /\ \A k \in Handles :
          handle[k] # NULL => Alive(handle[k]) /\ times[handle[k]].pHandler_ = handlerOf[k]
    /\ \A h \in Handlers :
          /\ numTimesRegistered_[h] = Cardinality(TimersOf(h))
          /\ numTimesRegistered_[h] = Cardinality(SetHandlesOf(h))

\* Between two passes at most half of the queue is cancelled timers, however many have
\* been cancelled and made since.
CancelledAreFew == now = Idle => Cardinality(Cancelled) * 2 <= Cardinality(timeQueue_)

\* Timers fire in the order of their times and none before its time, whatever the
\* handlers called before it in the pass have added and cancelled.
FiresInOrder ==
    [][\A t \in Times :
          times[t].state_ = "PENDING" /\ times[t]'.state_ = "EXECUTING" =>
              /\ times[t].time_ <= clock
              /\ \A u \in Times : times[u].state_ = "PENDING" => times[t].time_ <= times[u].time_]_vars

\* A timer whose time has come fires, unless it is cancelled: it is not lost when other
\* timers are cancelled and purged, nor held up by timers that are made in the
\* call-backs.
DueTimerFires ==
    \A t \in Times :
        (times[t].state_ = "PENDING" /\ times[t].time_ <= clock) ~> (times[t].state_ # "PENDING")

=============================================================================
