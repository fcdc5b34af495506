---------------------------- MODULE TimersProofs ----------------------------
(***************************************************************************)
(* Proofs about Timers, for every set of handlers, handles, timers and     *)
(* periods.                                                                *)
(***************************************************************************)
EXTENDS Timers, FiniteSetTheorems, TLAPS

-----------------------------------------------------------------------------
(***************************************************************************)
(* The inductive invariant                                                 *)
(***************************************************************************)

CancelledTimes == {t \in Times : isCancelled(t)}

\* The queue holds what is pending and what is cancelled, but for the one timer that
\* process has taken out.
QueueMatchesStates ==
    /\ \A t \in timeQueue_ : times[t].state_ \in {"PENDING", "CANCELLED"}
    /\ \A t \in Times : times[t].state_ = "PENDING" => t \in timeQueue_
    /\ \A t \in Times :
          times[t].state_ \in {"EXECUTING", "CANCELLED"} /\ t \notin timeQueue_
              => t = pProcessingNode_
    /\ pProcessingNode_ # NULL =>
          /\ pProcessingNode_ \notin timeQueue_
          /\ times[pProcessingNode_].state_ \in {"EXECUTING", "CANCELLED"}

\* A timer has a handler until it is cancelled or deleted, and two handles never hold
\* the same one.
HandlesApart ==
    /\ \A k \in Handles :
          handle[k] # NULL => Alive(handle[k]) /\ times[handle[k]].pHandler_ = handlerOf[k]
    /\ \A j, k \in Handles : handle[j] # NULL /\ handle[j] = handle[k] => j = k
    /\ \A t \in Times : times[t].pHandler_ # NULL => Alive(t)

\* The count of a handler is that of its timers and that of its handles.
RegisteredAreCounted ==
    \A h \in Handlers :
        /\ numTimesRegistered_[h] = Cardinality(TimersOf(h))
        /\ numTimesRegistered_[h] = Cardinality(SetHandlesOf(h))

\* A call-back is made within a pass, and the queue is a heap when it is.
PassInOrder ==
    /\ now = Idle => pProcessingNode_ = NULL
    /\ now <= clock
    /\ isHeap

\* At most half of the timers are cancelled, not counting the one being processed
\* among those but among all.
CancelledShare ==
    2 * Cardinality(Cancelled) <=
        Cardinality(timeQueue_)
          + (IF pProcessingNode_ # NULL /\ ~isCancelled(pProcessingNode_) THEN 1 ELSE 0)

IInv ==
    /\ TypeOK
    /\ QueueMatchesStates
    /\ HandlesApart
    /\ RegisteredAreCounted
    /\ PassInOrder
    /\ CancelledAreCounted
    /\ CancelledShare

-----------------------------------------------------------------------------

LEMMA FreeIsTime == Free \in Time
BY DEF Free, Time

\* What TimeBase::cancel makes of a timer before onCancel is called.
CancelledTime(t) == [times EXCEPT ![t].state_ = "CANCELLED", ![t].pHandler_ = NULL]

LEMMA CancelledTimeFields ==
    ASSUME TypeOK, NEW t \in Times
    PROVE  /\ CancelledTime(t) \in [Times -> Time]
           /\ CancelledTime(t)[t].state_ = "CANCELLED"
           /\ CancelledTime(t)[t].pHandler_ = NULL
           /\ \A u \in Times \ {t} : CancelledTime(t)[u] = times[u]
<1>1. times \in [Times -> Time]
  BY DEF TypeOK
<1>2. CancelledTime(t)[t] = [times[t] EXCEPT !.state_ = "CANCELLED", !.pHandler_ = NULL]
  BY <1>1 DEF CancelledTime
<1>3. CancelledTime(t)[t] \in Time
  BY <1>1, <1>2 DEF Time
<1>4. \A u \in Times \ {t} : CancelledTime(t)[u] = times[u]
  BY <1>1 DEF CancelledTime
<1>5. CancelledTime(t) \in [Times -> Time]
  BY <1>1, <1>3, <1>4 DEF CancelledTime
<1> QED
  BY <1>1, <1>2, <1>4, <1>5 DEF Time

LEMMA SubsetRemoved ==
    ASSUME NEW S, IsFiniteSet(S), NEW T \in SUBSET S
    PROVE  Cardinality(S \ T) = Cardinality(S) - Cardinality(T)
<1>1. S \cap T = T
  OBVIOUS
<1>2. Cardinality(S \ T) = Cardinality(S) - Cardinality(S \cap T)
  BY FS_Difference
<1> QED
  BY <1>1, <1>2, Zenon

\* The sets that are counted are finite.
LEMMA CountedSetsAreFinite ==
    ASSUME TypeOK
    PROVE  /\ IsFiniteSet(timeQueue_) /\ Cardinality(timeQueue_) \in Nat
           /\ IsFiniteSet(Cancelled) /\ Cardinality(Cancelled) \in Nat
           /\ IsFiniteSet(CancelledTimes) /\ Cardinality(CancelledTimes) \in Nat
           /\ \A h \in Handlers :
                 /\ IsFiniteSet(TimersOf(h)) /\ Cardinality(TimersOf(h)) \in Nat
                 /\ IsFiniteSet(SetHandlesOf(h)) /\ Cardinality(SetHandlesOf(h)) \in Nat
<1>1. IsFiniteSet(Times)
  BY TimersAssumption
<1>2. /\ timeQueue_ \in SUBSET Times
      /\ Cancelled \in SUBSET Times
      /\ CancelledTimes \in SUBSET Times
  BY DEF TypeOK, Cancelled, CancelledTimes
<1>3. /\ IsFiniteSet(timeQueue_) /\ IsFiniteSet(Cancelled) /\ IsFiniteSet(CancelledTimes)
  BY <1>1, <1>2, FS_Subset
<1>4. ASSUME NEW h \in Handlers
      PROVE  /\ IsFiniteSet(TimersOf(h)) /\ Cardinality(TimersOf(h)) \in Nat
             /\ IsFiniteSet(SetHandlesOf(h)) /\ Cardinality(SetHandlesOf(h)) \in Nat
  <2>1. TimersOf(h) \in SUBSET Times /\ SetHandlesOf(h) \in SUBSET Handles
    BY DEF TimersOf, SetHandlesOf
  <2>2. IsFiniteSet(TimersOf(h)) /\ IsFiniteSet(SetHandlesOf(h))
    BY <1>1, <2>1, TimersAssumption, FS_Subset
  <2> QED
    BY <2>2, FS_CardinalityType
<1> QED
  BY <1>3, <1>4, FS_CardinalityType

\* A step that keeps what the handles hold and the handlers of the timers, and deletes
\* none that has one.
LEMMA HandleFrame ==
    ASSUME IInv, UNCHANGED <<numTimesRegistered_, handle>>,
           \A t \in Times : times'[t].pHandler_ = times[t].pHandler_,
           \A t \in Times : Alive(t) => times'[t].state_ \in {"PENDING", "EXECUTING"}
    PROVE  HandlesApart' /\ RegisteredAreCounted'
<1>1. \A k \in Handles : handle[k] # NULL => handle[k] \in Times
  BY DEF IInv, TypeOK
<1>2. HandlesApart'
  BY <1>1 DEF IInv, HandlesApart, Alive
<1>3. \A h \in Handlers : TimersOf(h)' = TimersOf(h) /\ SetHandlesOf(h)' = SetHandlesOf(h)
  BY DEF TimersOf, SetHandlesOf
<1> QED
  BY <1>2, <1>3 DEF IInv, RegisteredAreCounted

-----------------------------------------------------------------------------
(***************************************************************************)
(* Init                                                                    *)
(***************************************************************************)

LEMMA InitInv == Init => IInv
<1> SUFFICES ASSUME Init PROVE IInv
  OBVIOUS
<1>1. TypeOK
  BY TimersAssumption, FreeIsTime DEF Init, TypeOK, Idle
<1>2. \A t \in Times : times[t].state_ = "free" /\ times[t].pHandler_ = NULL
  BY DEF Init, Free
<1>3. QueueMatchesStates /\ HandlesApart /\ PassInOrder
  BY <1>2, TimersAssumption DEF Init, QueueMatchesStates, HandlesApart, PassInOrder, Idle
<1>6. RegisteredAreCounted
  <2>1. \A h \in Handlers : TimersOf(h) = {} /\ SetHandlesOf(h) = {}
    BY <1>2, TimersAssumption DEF Init, TimersOf, SetHandlesOf
  <2> QED
    BY <2>1, FS_EmptySet DEF Init, RegisteredAreCounted
<1>4. CancelledTimes = {} /\ Cancelled = {}
  BY <1>2 DEF Init, CancelledTimes, Cancelled, isCancelled
<1>5. CancelledAreCounted /\ CancelledShare
  BY <1>4, FS_EmptySet DEF Init, CancelledAreCounted, CancelledShare, CancelledTimes
<1> QED
  BY <1>1, <1>3, <1>5, <1>6 DEF IInv

-----------------------------------------------------------------------------
(***************************************************************************)
(* What handlers do                                                        *)
(***************************************************************************)

LEMMA AddInv ==
    ASSUME IInv, NEW k \in Handles, NEW i \in Intervals, Add(k, i)
    PROVE  IInv'
<1> DEFINE h == handlerOf[k]
<1> USE DEF IInv
<1>0. h \in Handlers /\ h # NULL
  BY TimersAssumption
<1>1. PICK t \in Times :
        /\ times[t] = Free
        /\ times' = [times EXCEPT ![t] =
             [state_ |-> "PENDING", time_ |-> clock + i, interval_ |-> i, pHandler_ |-> h]]
        /\ timeQueue_' = timeQueue_ \cup {t}
        /\ handle' = [handle EXCEPT ![k] = t]
  BY DEF Add
<1>2. /\ handle[k] = NULL
      /\ numTimesRegistered_' = [numTimesRegistered_ EXCEPT ![h] = @ + 1]
      /\ UNCHANGED <<clock, isHeap, numCancelled_, pProcessingNode_, now>>
  BY DEF Add
<1> HIDE DEF h
<1>3. times[t].state_ = "free" /\ times[t].pHandler_ = NULL
  BY <1>1 DEF Free
<1>4. /\ times'[t].state_ = "PENDING" /\ times'[t].pHandler_ = h
      /\ \A u \in Times \ {t} : times'[u] = times[u]
  BY <1>1 DEF TypeOK
<1>5. t \notin timeQueue_ /\ t # pProcessingNode_
  BY <1>3, TimersAssumption DEF QueueMatchesStates
<1>6. TypeOK'
  <2>1. clock + i \in Nat
    BY TimersAssumption DEF TypeOK
  <2>2. [state_ |-> "PENDING", time_ |-> clock + i, interval_ |-> i, pHandler_ |-> h] \in Time
    BY <1>0, <2>1 DEF Time
  <2> QED
    BY <1>0, <1>1, <1>2, <2>2 DEF TypeOK
<1>7. QueueMatchesStates'
  BY <1>1, <1>2, <1>4, <1>5, TimersAssumption DEF QueueMatchesStates, TypeOK
<1>8. HandlesApart' /\ RegisteredAreCounted'
  <2>1. handle'[k] = t /\ \A g \in Handles \ {k} : handle'[g] = handle[g]
    BY <1>1 DEF TypeOK
  <2>2. \A g \in Handles \ {k} : handle[g] # t
    BY <1>3, TimersAssumption DEF HandlesApart, Alive
  <2>3. HandlesApart'
    <3>1. \A g \in Handles : handle'[g] # NULL =>
            /\ times'[handle'[g]].state_ \in {"PENDING", "EXECUTING"}
            /\ times'[handle'[g]].pHandler_ = handlerOf[g]
      BY <1>4, <2>1, <2>2 DEF HandlesApart, Alive, TypeOK, h
    <3>2. \A j, g \in Handles : handle'[j] # NULL /\ handle'[j] = handle'[g] => j = g
      BY <2>1, <2>2 DEF HandlesApart
    <3>3. \A u \in Times :
            times'[u].pHandler_ # NULL => times'[u].state_ \in {"PENDING", "EXECUTING"}
      BY <1>4 DEF HandlesApart, Alive
    <3> QED
      BY <3>1, <3>2, <3>3 DEF HandlesApart, Alive
  <2>4. /\ TimersOf(h)' = TimersOf(h) \cup {t} /\ t \notin TimersOf(h)
        /\ \A g \in Handlers \ {h} : TimersOf(g)' = TimersOf(g)
    BY <1>0, <1>3, <1>4, TimersAssumption DEF TimersOf
  <2>5. /\ SetHandlesOf(h)' = SetHandlesOf(h) \cup {k} /\ k \notin SetHandlesOf(h)
        /\ \A g \in Handlers \ {h} : SetHandlesOf(g)' = SetHandlesOf(g)
    BY <1>2, <2>1, TimersAssumption DEF SetHandlesOf, h
  <2>6. /\ Cardinality(TimersOf(h)') = Cardinality(TimersOf(h)) + 1
        /\ Cardinality(SetHandlesOf(h)') = Cardinality(SetHandlesOf(h)) + 1
    BY <1>0, <2>4, <2>5, CountedSetsAreFinite, FS_AddElement
  <2>7. /\ numTimesRegistered_'[h] = numTimesRegistered_[h] + 1
        /\ \A g \in Handlers \ {h} : numTimesRegistered_'[g] = numTimesRegistered_[g]
    BY <1>0, <1>2 DEF TypeOK
  <2>8. RegisteredAreCounted'
    BY <1>0, <2>4, <2>5, <2>6, <2>7 DEF RegisteredAreCounted
  <2> QED
    BY <2>3, <2>8
<1>9. PassInOrder'
  BY <1>2 DEF PassInOrder
<1>10. CancelledTimes' = CancelledTimes /\ Cancelled' = Cancelled
  BY <1>1, <1>3, <1>4, <1>5 DEF CancelledTimes, Cancelled, isCancelled, TypeOK
<1>11. CancelledAreCounted'
  BY <1>2, <1>10 DEF CancelledAreCounted, CancelledTimes
<1>12. CancelledShare'
  <2>1. Cardinality(timeQueue_') = Cardinality(timeQueue_) + 1
    BY <1>1, <1>5, CountedSetsAreFinite, FS_AddElement
  <2>2. pProcessingNode_ # NULL => (isCancelled(pProcessingNode_)' <=> isCancelled(pProcessingNode_))
    BY <1>2, <1>4, <1>5 DEF isCancelled, TypeOK
  <2> QED
    BY <1>2, <1>10, <2>1, <2>2, CountedSetsAreFinite DEF CancelledShare
<1> QED
  BY <1>6, <1>7, <1>8, <1>9, <1>11, <1>12

\* Cancel in one form: the cancelled timer is marked, and those in dead are deleted -
\* none, or all that are cancelled and in the queue.
LEMMA CancelForm ==
    ASSUME IInv, NEW k \in Handles, Cancel(k)
    PROVE  LET t == handle[k]
               marked == CancelledTimes \cup {t}
           IN /\ t \in Times
              /\ t \notin CancelledTimes
              /\ handle' = [handle EXCEPT ![k] = NULL]
              /\ numTimesRegistered_' = [numTimesRegistered_ EXCEPT ![handlerOf[k]] = @ - 1]
              /\ UNCHANGED <<clock, pProcessingNode_, now>>
              /\ isHeap'
              /\ \E dead \in SUBSET (marked \cap timeQueue_) :
                    /\ times' = Deleted(CancelledTime(t), dead)
                    /\ timeQueue_' = timeQueue_ \ dead
                    /\ numCancelled_' = numCancelled_ + 1 - Cardinality(dead)
                    /\ \/ dead = marked \cap timeQueue_
                       \/ dead = {} /\ (numCancelled_ + 1) * 2 <= Cardinality(timeQueue_)
<1> DEFINE t == handle[k]
           marked == CancelledTimes \cup {t}
<1>1. t \in Times /\ t \notin CancelledTimes
  BY DEF IInv, TypeOK, HandlesApart, Cancel, CancelledTimes, Alive, isCancelled
<1>2. /\ handle' = [handle EXCEPT ![k] = NULL]
      /\ numTimesRegistered_' = [numTimesRegistered_ EXCEPT ![handlerOf[k]] = @ - 1]
      /\ UNCHANGED <<clock, pProcessingNode_, now>>
  BY DEF Cancel
<1>3. Cancelled \cup ({t} \cap timeQueue_) = marked \cap timeQueue_
  BY DEF IInv, TypeOK, Cancelled, CancelledTimes
<1>4. CASE TooMany
  <2>1. purgeCancelledTimes(CancelledTime(t), Cancelled \cup ({t} \cap timeQueue_))
    BY <1>4 DEF Cancel, CancelledTime
  <2> QED
    BY <1>1, <1>2, <1>3, <2>1 DEF purgeCancelledTimes
<1>5. CASE ~TooMany
  <2>1. /\ times' = CancelledTime(t)
        /\ numCancelled_' = numCancelled_ + 1
        /\ UNCHANGED <<timeQueue_, isHeap>>
    BY <1>5 DEF Cancel, CancelledTime
  <2>2. CancelledTime(t) = Deleted(CancelledTime(t), {})
    BY <1>1, CancelledTimeFields DEF Deleted, IInv
  <2>3. (numCancelled_ + 1) * 2 <= Cardinality(timeQueue_)
    BY <1>5, CountedSetsAreFinite DEF TooMany, IInv, TypeOK
  <2>4. numCancelled_' = numCancelled_ + 1 - Cardinality({})
    BY <2>1, FS_EmptySet DEF IInv, TypeOK
  <2>5. isHeap' /\ timeQueue_' = timeQueue_ \ {}
    BY <2>1 DEF IInv, PassInOrder
  <2> HIDE DEF t
  <2> QED
    BY <1>1, <1>2, <2>1, <2>2, <2>3, <2>4, <2>5 DEF t
<1> QED
  BY <1>4, <1>5

LEMMA CancelInv ==
    ASSUME IInv, NEW k \in Handles, Cancel(k)
    PROVE  IInv'
<1> DEFINE t == handle[k]
           h == handlerOf[k]
           marked == CancelledTimes \cup {t}
<1>1. /\ t \in Times
      /\ t \notin CancelledTimes
      /\ handle' = [handle EXCEPT ![k] = NULL]
      /\ numTimesRegistered_' = [numTimesRegistered_ EXCEPT ![h] = @ - 1]
      /\ UNCHANGED <<clock, pProcessingNode_, now>>
      /\ isHeap'
  BY CancelForm
<1>2. PICK dead \in SUBSET (marked \cap timeQueue_) :
        /\ times' = Deleted(CancelledTime(t), dead)
        /\ timeQueue_' = timeQueue_ \ dead
        /\ numCancelled_' = numCancelled_ + 1 - Cardinality(dead)
        /\ \/ dead = marked \cap timeQueue_
           \/ dead = {} /\ (numCancelled_ + 1) * 2 <= Cardinality(timeQueue_)
  BY CancelForm
<1>3. Alive(t) /\ times[t].pHandler_ = h /\ t # NULL
  BY <1>1, TimersAssumption DEF IInv, HandlesApart, Cancel
<1>0. h \in Handlers /\ h # NULL /\ handle[k] # NULL
  BY TimersAssumption DEF Cancel
<1> HIDE DEF t, h
<1>4. /\ CancelledTime(t) \in [Times -> Time]
      /\ CancelledTime(t)[t].state_ = "CANCELLED"
      /\ CancelledTime(t)[t].pHandler_ = NULL
      /\ \A u \in Times \ {t} : CancelledTime(t)[u] = times[u]
  BY <1>1, CancelledTimeFields DEF IInv
<1>5. /\ \A u \in dead : times'[u].state_ = "free" /\ times'[u].pHandler_ = NULL
      /\ t \notin dead => times'[t].state_ = "CANCELLED" /\ times'[t].pHandler_ = NULL
      /\ \A u \in Times \ dead : u # t => times'[u] = times[u]
  BY <1>1, <1>2, <1>4 DEF Deleted, Free, IInv, TypeOK
<1>6. CancelledTimes' = marked \ dead
  BY <1>1, <1>5 DEF CancelledTimes, isCancelled
<1>7. /\ IsFiniteSet(marked) /\ Cardinality(marked) = numCancelled_ + 1
      /\ IsFiniteSet(dead) /\ Cardinality(marked \ dead) = numCancelled_ + 1 - Cardinality(dead)
  <2>1. numCancelled_ = Cardinality(CancelledTimes)
    BY DEF IInv, CancelledAreCounted, CancelledTimes
  <2>2. IsFiniteSet(marked) /\ Cardinality(marked) = numCancelled_ + 1
    <3>1. IsFiniteSet(CancelledTimes)
      BY CountedSetsAreFinite DEF IInv
    <3>2. /\ IsFiniteSet(CancelledTimes \cup {t})
          /\ Cardinality(CancelledTimes \cup {t}) = Cardinality(CancelledTimes) + 1
      BY <1>1, <3>1, FS_AddElement
    <3> QED
      BY <2>1, <3>2
  <2>3. IsFiniteSet(dead) /\ Cardinality(dead) \in Nat
    BY <2>2, FS_Subset, FS_CardinalityType
  <2>4. Cardinality(marked \ dead) = Cardinality(marked) - Cardinality(dead)
    BY <2>2, SubsetRemoved
  <2>5. Cardinality(marked \ dead) = numCancelled_ + 1 - Cardinality(dead)
    BY <2>2, <2>3, <2>4 DEF IInv, TypeOK
  <2> QED
    BY <2>2, <2>3, <2>5
<1>8. numCancelled_' = Cardinality(CancelledTimes')
  BY <1>2, <1>6, <1>7
<1>9. TypeOK'
  <2>1. times' \in [Times -> Time]
    BY <1>2, <1>4, FreeIsTime DEF Deleted
  <2>2. numCancelled_' \in Nat
    BY <1>6, <1>7, <1>8, FS_Subset, FS_CardinalityType
  <2>3. numTimesRegistered_[h] - 1 \in Nat
    <3>1. t \in TimersOf(h)
      BY <1>1, <1>3 DEF TimersOf
    <3>2. Cardinality(TimersOf(h)) - 1 = Cardinality(TimersOf(h) \ {t})
      BY <1>0, <3>1, CountedSetsAreFinite, FS_RemoveElement DEF IInv
    <3>3. Cardinality(TimersOf(h) \ {t}) \in Nat
      BY <1>0, CountedSetsAreFinite, FS_RemoveElement, FS_CardinalityType DEF IInv
    <3> QED
      BY <1>0, <3>2, <3>3 DEF IInv, RegisteredAreCounted
  <2>4. numTimesRegistered_' \in [Handlers -> Nat] /\ handle' \in [Handles -> Times \cup {NULL}]
    BY <1>0, <1>1, <2>3 DEF IInv, TypeOK
  <2> QED
    BY <1>1, <1>2, <2>1, <2>2, <2>4 DEF IInv, TypeOK
<1>10. QueueMatchesStates'
  <2>1. \A u \in timeQueue_' : times'[u].state_ \in {"PENDING", "CANCELLED"}
    BY <1>2, <1>5 DEF IInv, TypeOK, QueueMatchesStates
  <2>2. \A u \in Times : times'[u].state_ = "PENDING" => u \in timeQueue_'
    BY <1>2, <1>5 DEF IInv, QueueMatchesStates
  <2>3. \A u \in Times :
          times'[u].state_ \in {"EXECUTING", "CANCELLED"} /\ u \notin timeQueue_'
              => u = pProcessingNode_'
    BY <1>1, <1>2, <1>3, <1>5 DEF IInv, QueueMatchesStates, Alive
  <2>4. pProcessingNode_' # NULL =>
          /\ pProcessingNode_' \notin timeQueue_'
          /\ times'[pProcessingNode_'].state_ \in {"EXECUTING", "CANCELLED"}
    BY <1>1, <1>2, <1>5 DEF IInv, TypeOK, QueueMatchesStates
  <2> QED
    BY <2>1, <2>2, <2>3, <2>4 DEF QueueMatchesStates
<1>11. HandlesApart' /\ RegisteredAreCounted'
  <2>1. handle'[k] = NULL /\ \A g \in Handles \ {k} : handle'[g] = handle[g]
    BY <1>1 DEF IInv, TypeOK
  <2>2. \A g \in Handles \ {k} : handle[g] # NULL => handle[g] \in Times \ (marked \cup dead)
    <3> SUFFICES ASSUME NEW g \in Handles \ {k}, handle[g] # NULL
                 PROVE  handle[g] \in Times /\ handle[g] \notin CancelledTimes /\ handle[g] # t
      OBVIOUS
    <3>1. handle[g] # t
      BY <1>0 DEF IInv, HandlesApart, t
    <3> QED
      BY <3>1 DEF IInv, TypeOK, HandlesApart, Alive, CancelledTimes, isCancelled
  <2>3. HandlesApart'
    <3>1. \A g \in Handles : handle'[g] # NULL =>
            /\ times'[handle'[g]].state_ \in {"PENDING", "EXECUTING"}
            /\ times'[handle'[g]].pHandler_ = handlerOf[g]
      BY <1>5, <2>1, <2>2 DEF IInv, HandlesApart, Alive
    <3>2. \A j, g \in Handles : handle'[j] # NULL /\ handle'[j] = handle'[g] => j = g
      BY <2>1 DEF IInv, HandlesApart
    <3>3. \A u \in Times :
            times'[u].pHandler_ # NULL => times'[u].state_ \in {"PENDING", "EXECUTING"}
      BY <1>5 DEF IInv, HandlesApart, Alive
    <3> QED
      BY <3>1, <3>2, <3>3 DEF HandlesApart, Alive
  <2>4. /\ TimersOf(h)' = TimersOf(h) \ {t} /\ t \in TimersOf(h)
        /\ \A g \in Handlers \ {h} : TimersOf(g)' = TimersOf(g)
    <3>1. \A u \in dead \ {t} : times[u].pHandler_ = NULL
      BY <1>2 DEF IInv, HandlesApart, Alive, CancelledTimes, isCancelled
    <3>2. \A u \in Times \ {t} : times'[u].pHandler_ = times[u].pHandler_
      BY <1>5, <3>1
    <3>3. times'[t].pHandler_ = NULL
      BY <1>5
    <3> QED
      BY <1>0, <1>1, <1>3, <3>2, <3>3, TimersAssumption DEF TimersOf
  <2>5. /\ SetHandlesOf(h)' = SetHandlesOf(h) \ {k} /\ k \in SetHandlesOf(h)
        /\ \A g \in Handlers \ {h} : SetHandlesOf(g)' = SetHandlesOf(g)
    BY <1>0, <2>1 DEF SetHandlesOf, h
  <2>6. /\ Cardinality(TimersOf(h)') = Cardinality(TimersOf(h)) - 1
        /\ Cardinality(SetHandlesOf(h)') = Cardinality(SetHandlesOf(h)) - 1
    BY <1>0, <2>4, <2>5, CountedSetsAreFinite, FS_RemoveElement DEF IInv
  <2>7. /\ numTimesRegistered_'[h] = numTimesRegistered_[h] - 1
        /\ \A g \in Handlers \ {h} : numTimesRegistered_'[g] = numTimesRegistered_[g]
    BY <1>0, <1>1 DEF IInv, TypeOK
  <2>8. RegisteredAreCounted'
    BY <1>0, <2>4, <2>5, <2>6, <2>7 DEF IInv, RegisteredAreCounted
  <2> QED
    BY <2>3, <2>8
<1>12. PassInOrder'
  BY <1>1 DEF IInv, PassInOrder
<1>13. CancelledShare'
  <2>1. Cancelled' = (marked \ dead) \cap timeQueue_'
    BY <1>6, <1>9 DEF Cancelled, CancelledTimes, TypeOK
  <2>2. IsFiniteSet(timeQueue_') /\ Cardinality(timeQueue_') \in Nat
    BY <1>2, CountedSetsAreFinite, FS_Subset, FS_CardinalityType DEF IInv
  <2>3. CASE dead = marked \cap timeQueue_
    <3>1. Cancelled' = {}
      BY <1>2, <2>1, <2>3
    <3> QED
      BY <2>2, <3>1, FS_EmptySet DEF CancelledShare
  <2>4. CASE dead = {} /\ (numCancelled_ + 1) * 2 <= Cardinality(timeQueue_)
    <3>1. Cancelled' \in SUBSET marked /\ timeQueue_' = timeQueue_
      BY <1>2, <2>1, <2>4
    <3>2. Cardinality(Cancelled') \in Nat /\ Cardinality(Cancelled') <= numCancelled_ + 1
      BY <1>7, <3>1, FS_Subset, FS_CardinalityType
    <3>3. 2 * Cardinality(Cancelled') <= Cardinality(timeQueue_')
      BY <2>2, <2>4, <3>1, <3>2 DEF IInv, TypeOK
    <3> QED
      BY <2>2, <3>2, <3>3 DEF CancelledShare
  <2> QED
    BY <1>2, <2>3, <2>4
<1> QED
  BY <1>8, <1>9, <1>10, <1>11, <1>12, <1>13 DEF IInv, CancelledAreCounted, CancelledTimes

-----------------------------------------------------------------------------
(***************************************************************************)
(* The clock and process                                                   *)
(***************************************************************************)

\* The steps that leave the timers alone.
LEMMA ClockInv ==
    ASSUME IInv, Tick \/ BeginPass \/ EndPass \/ UNCHANGED vars
    PROVE  IInv'
<1>1. UNCHANGED <<times, timeQueue_, isHeap, numCancelled_, pProcessingNode_,
                  numTimesRegistered_, handle>>
  BY DEF Tick, BeginPass, EndPass, vars
<1>2. TypeOK'
  BY <1>1, TimersAssumption DEF IInv, TypeOK, Tick, BeginPass, EndPass, vars, Idle
<1>3. PassInOrder'
  BY <1>1 DEF IInv, TypeOK, PassInOrder, Tick, BeginPass, EndPass, InPass, vars, Idle
<1>4. QueueMatchesStates' /\ HandlesApart' /\ RegisteredAreCounted'
  <2>1. QueueMatchesStates'
    BY <1>1 DEF IInv, QueueMatchesStates
  <2> QED
    BY <1>1, <2>1, HandleFrame DEF Alive
<1>5. CancelledAreCounted' /\ CancelledShare'
  BY <1>1 DEF IInv, CancelledAreCounted, CancelledShare, Cancelled, isCancelled
<1> QED
  BY <1>2, <1>3, <1>4, <1>5 DEF IInv

LEMMA FireInv ==
    ASSUME IInv, NEW t \in Times, Fire(t)
    PROVE  IInv'
<1>1. /\ now # Idle /\ pProcessingNode_ = NULL
      /\ t \in timeQueue_ /\ ~isCancelled(t)
      /\ times' = [times EXCEPT ![t].state_ = "EXECUTING"]
      /\ timeQueue_' = timeQueue_ \ {t}
      /\ pProcessingNode_' = t
      /\ UNCHANGED <<clock, isHeap, numCancelled_, now, numTimesRegistered_, handle>>
  BY DEF Fire, InPass, IsTop
<1>2. /\ times'[t].state_ = "EXECUTING" /\ times'[t].pHandler_ = times[t].pHandler_
      /\ \A u \in Times \ {t} : times'[u] = times[u]
      /\ times' \in [Times -> Time]
  <2>1. times'[t] = [times[t] EXCEPT !.state_ = "EXECUTING"]
    BY <1>1 DEF IInv, TypeOK
  <2>2. \A u \in Times \ {t} : times'[u] = times[u]
    BY <1>1 DEF IInv, TypeOK
  <2>3. times'[t] \in Time
    BY <2>1 DEF IInv, TypeOK, Time
  <2> QED
    BY <1>1, <2>1, <2>2, <2>3 DEF IInv, TypeOK, Time
<1>3. TypeOK'
  BY <1>1, <1>2 DEF IInv, TypeOK
<1>4. QueueMatchesStates'
  <2>1. \A u \in timeQueue_' : times'[u].state_ \in {"PENDING", "CANCELLED"}
    BY <1>1, <1>2 DEF IInv, TypeOK, QueueMatchesStates
  <2>2. \A u \in Times : times'[u].state_ = "PENDING" => u \in timeQueue_'
    BY <1>1, <1>2 DEF IInv, QueueMatchesStates
  <2>3. \A u \in Times \ {t} :
          times[u].state_ \in {"EXECUTING", "CANCELLED"} => u \in timeQueue_
    BY <1>1, TimersAssumption DEF IInv, QueueMatchesStates
  <2>4. \A u \in Times :
          times'[u].state_ \in {"EXECUTING", "CANCELLED"} /\ u \notin timeQueue_'
              => u = pProcessingNode_'
    BY <1>1, <1>2, <2>3
  <2>5. pProcessingNode_' \notin timeQueue_' /\ times'[pProcessingNode_'].state_ = "EXECUTING"
    BY <1>1, <1>2
  <2> QED
    BY <2>1, <2>2, <2>4, <2>5 DEF QueueMatchesStates
<1>5. HandlesApart' /\ RegisteredAreCounted'
  <2>1. \A u \in Times : Alive(u) => times'[u].state_ \in {"PENDING", "EXECUTING"}
    BY <1>2 DEF Alive
  <2>2. \A u \in Times : times'[u].pHandler_ = times[u].pHandler_
    BY <1>2
  <2> QED
    BY <1>1, <2>1, <2>2, HandleFrame
<1>6. PassInOrder'
  BY <1>1 DEF IInv, PassInOrder
<1>7. CancelledTimes' = CancelledTimes /\ Cancelled' = Cancelled
  BY <1>1, <1>2 DEF IInv, TypeOK, CancelledTimes, Cancelled, isCancelled
<1>8. CancelledAreCounted'
  BY <1>1, <1>7 DEF IInv, CancelledAreCounted, CancelledTimes
<1>9. CancelledShare'
  <2>1. Cardinality(timeQueue_') = Cardinality(timeQueue_) - 1
    BY <1>1, CountedSetsAreFinite, FS_RemoveElement DEF IInv
  <2>2. ~isCancelled(pProcessingNode_)' /\ pProcessingNode_' # NULL
    BY <1>1, <1>2, TimersAssumption DEF isCancelled
  <2> QED
    BY <1>1, <1>7, <2>1, <2>2, CountedSetsAreFinite DEF IInv, CancelledShare
<1> QED
  BY <1>3, <1>4, <1>5, <1>6, <1>8, <1>9 DEF IInv

LEMMA ReturnInv ==
    ASSUME IInv, NEW t \in Times, Return(t)
    PROVE  IInv'
<1>1. /\ pProcessingNode_ = t /\ ~isCancelled(t)
      /\ times' = [times EXCEPT ![t].state_ = "PENDING", ![t].time_ = @ + times[t].interval_]
      /\ timeQueue_' = timeQueue_ \cup {t}
      /\ pProcessingNode_' = NULL
      /\ UNCHANGED <<clock, isHeap, numCancelled_, now, numTimesRegistered_, handle>>
  BY DEF Return
<1>2. /\ times'[t].state_ = "PENDING" /\ times'[t].pHandler_ = times[t].pHandler_
      /\ \A u \in Times \ {t} : times'[u] = times[u]
      /\ times' \in [Times -> Time]
  <2>1. times'[t] = [times[t] EXCEPT !.state_ = "PENDING", !.time_ = @ + times[t].interval_]
    BY <1>1 DEF IInv, TypeOK
  <2>2. \A u \in Times \ {t} : times'[u] = times[u]
    BY <1>1 DEF IInv, TypeOK
  <2>3. times[t].time_ + times[t].interval_ \in Nat
    <3>1. times[t] \in Time
      BY DEF IInv, TypeOK
    <3>2. times[t].time_ \in Nat /\ times[t].interval_ \in Intervals \cup {0}
      BY <3>1 DEF Time
    <3>3. \A i \in Intervals \cup {0} : i \in Nat
      <4>1. 0 \in Nat /\ \A i \in Intervals : i \in Nat
        BY TimersAssumption
      <4> QED
        BY <4>1, Zenon
    <3>4. times[t].interval_ \in Nat
      BY <3>2, <3>3
    <3> QED
      BY <3>2, <3>4
  <2>4. times'[t] \in Time
    BY <2>1, <2>3 DEF IInv, TypeOK, Time
  <2> QED
    BY <1>1, <2>1, <2>2, <2>4 DEF IInv, TypeOK, Time
<1>3. t \notin timeQueue_ /\ t # NULL
  BY <1>1, TimersAssumption DEF IInv, QueueMatchesStates
<1>4. TypeOK'
  BY <1>1, <1>2 DEF IInv, TypeOK
<1>5. QueueMatchesStates'
  BY <1>1, <1>2, <1>3 DEF IInv, TypeOK, QueueMatchesStates
<1>6. HandlesApart' /\ RegisteredAreCounted'
  <2>1. \A u \in Times : Alive(u) => times'[u].state_ \in {"PENDING", "EXECUTING"}
    BY <1>2 DEF Alive
  <2>2. \A u \in Times : times'[u].pHandler_ = times[u].pHandler_
    BY <1>2
  <2> QED
    BY <1>1, <2>1, <2>2, HandleFrame
<1>7. PassInOrder'
  BY <1>1 DEF IInv, PassInOrder
<1>8. CancelledTimes' = CancelledTimes /\ Cancelled' = Cancelled
  BY <1>1, <1>2 DEF IInv, TypeOK, CancelledTimes, Cancelled, isCancelled
<1>9. CancelledAreCounted'
  BY <1>1, <1>8 DEF IInv, CancelledAreCounted, CancelledTimes
<1>10. CancelledShare'
  <2>1. Cardinality(timeQueue_') = Cardinality(timeQueue_) + 1
    BY <1>1, <1>3, CountedSetsAreFinite, FS_AddElement DEF IInv
  <2> QED
    BY <1>1, <1>3, <1>8, <2>1, CountedSetsAreFinite DEF IInv, CancelledShare
<1> QED
  BY <1>4, <1>5, <1>6, <1>7, <1>9, <1>10 DEF IInv

\* Discard and ReturnCancelled: a cancelled timer is taken out, and deleted.
LEMMA DeleteInv ==
    ASSUME IInv, NEW t \in Times, Discard(t) \/ ReturnCancelled(t)
    PROVE  IInv'
<1>1. /\ isCancelled(t)
      /\ times' = Deleted(times, {t})
      /\ numCancelled_' = numCancelled_ - 1
      /\ timeQueue_' = timeQueue_ \ {t}
      /\ pProcessingNode_' = NULL
      /\ UNCHANGED <<clock, isHeap, now, numTimesRegistered_, handle>>
      /\ \/ pProcessingNode_ = NULL /\ t \in timeQueue_
         \/ pProcessingNode_ = t
  <2>1. CASE Discard(t)
    BY <2>1 DEF Discard, InPass, IsTop
  <2>2. CASE ReturnCancelled(t)
    <3>1. pProcessingNode_ = t /\ t # NULL
      BY <2>2, TimersAssumption DEF ReturnCancelled
    <3>2. t \notin timeQueue_
      BY <3>1 DEF IInv, QueueMatchesStates
    <3>3. timeQueue_' = timeQueue_ \ {t}
      BY <2>2, <3>2 DEF ReturnCancelled
    <3> QED
      BY <2>2, <3>3 DEF ReturnCancelled
  <2> QED
    BY <2>1, <2>2
<1>2. /\ times'[t] = Free /\ times'[t].state_ = "free" /\ times'[t].pHandler_ = NULL
      /\ \A u \in Times \ {t} : times'[u] = times[u]
      /\ times' \in [Times -> Time]
  BY <1>1, FreeIsTime DEF IInv, TypeOK, Deleted, Free
<1>3. CancelledTimes' = CancelledTimes \ {t} /\ Cancelled' = Cancelled \ {t}
  BY <1>1, <1>2 DEF IInv, TypeOK, CancelledTimes, Cancelled, isCancelled
<1>4. t \in CancelledTimes
  BY <1>1 DEF CancelledTimes
<1>5. numCancelled_' = Cardinality(CancelledTimes') /\ numCancelled_' \in Nat
  <2>1. numCancelled_ = Cardinality(CancelledTimes)
    BY DEF IInv, CancelledAreCounted, CancelledTimes
  <2>2. IsFiniteSet(CancelledTimes)
    BY CountedSetsAreFinite DEF IInv
  <2>3. /\ IsFiniteSet(CancelledTimes \ {t})
        /\ Cardinality(CancelledTimes \ {t}) = Cardinality(CancelledTimes) - 1
    BY <1>4, <2>2, FS_RemoveElement
  <2>4. Cardinality(CancelledTimes \ {t}) \in Nat
    BY <2>3, FS_CardinalityType
  <2> QED
    BY <1>1, <1>3, <2>1, <2>3, <2>4
<1>6. TypeOK'
  BY <1>1, <1>2, <1>5 DEF IInv, TypeOK
<1>7. QueueMatchesStates'
  BY <1>1, <1>2 DEF IInv, TypeOK, QueueMatchesStates
<1>8. HandlesApart' /\ RegisteredAreCounted'
  <2>1. ~Alive(t) /\ times[t].pHandler_ = NULL
    BY <1>1 DEF IInv, HandlesApart, Alive, isCancelled
  <2>2. \A u \in Times : Alive(u) => times'[u].state_ \in {"PENDING", "EXECUTING"}
    BY <1>2, <2>1 DEF Alive
  <2>3. \A u \in Times : times'[u].pHandler_ = times[u].pHandler_
    BY <1>2, <2>1
  <2> QED
    BY <1>1, <2>2, <2>3, HandleFrame
<1>9. PassInOrder'
  BY <1>1 DEF IInv, PassInOrder
<1>10. CancelledShare'
  <2>1. /\ Cardinality(timeQueue_') =
             IF t \in timeQueue_ THEN Cardinality(timeQueue_) - 1 ELSE Cardinality(timeQueue_)
        /\ Cardinality(Cancelled') =
             IF t \in Cancelled THEN Cardinality(Cancelled) - 1 ELSE Cardinality(Cancelled)
    BY <1>1, <1>3, CountedSetsAreFinite, FS_RemoveElement DEF IInv
  <2>2. t \in Cancelled <=> t \in timeQueue_
    BY <1>1 DEF Cancelled
  <2>3. 2 * Cardinality(Cancelled) <= Cardinality(timeQueue_)
    BY <1>1, CountedSetsAreFinite DEF IInv, CancelledShare
  <2> QED
    BY <1>1, <2>1, <2>2, <2>3, CountedSetsAreFinite DEF IInv, CancelledShare
<1> QED
  BY <1>5, <1>6, <1>7, <1>8, <1>9, <1>10 DEF IInv, CancelledAreCounted, CancelledTimes

-----------------------------------------------------------------------------
(***************************************************************************)
(* The theorems                                                            *)
(***************************************************************************)

LEMMA NextInv == IInv /\ [Next]_vars => IInv'
<1> SUFFICES ASSUME IInv, [Next]_vars PROVE IInv'
  OBVIOUS
<1>1. CASE Tick \/ BeginPass \/ EndPass \/ UNCHANGED vars
  BY <1>1, ClockInv
<1>2. CASE \E t \in Times : Fire(t) \/ Discard(t) \/ Return(t) \/ ReturnCancelled(t)
  BY <1>2, FireInv, ReturnInv, DeleteInv
<1>3. CASE \E k \in Handles : Cancel(k) \/ \E i \in Intervals : Add(k, i)
  BY <1>3, AddInv, CancelInv
<1> QED
  BY <1>1, <1>2, <1>3 DEF Next, Process

\* The queue, the states of the timers, the handles and the count of the cancelled
\* timers agree in every reachable state.
THEOREM Invariant == Spec => []IInv
<1> QED
  BY InitInv, NextInv, PTL DEF Spec

\* Every reachable state has the declared type.
THEOREM TypeCorrect == Spec => []TypeOK
<1>1. IInv => TypeOK
  BY DEF IInv
<1> QED
  BY <1>1, Invariant, PTL

\* numCancelled_ is the number of cancelled timers, whoever cancels which timer in
\* which call-back.
THEOREM CancelledAreCountedHolds == Spec => []CancelledAreCounted
<1>1. IInv => CancelledAreCounted
  BY DEF IInv
<1> QED
  BY <1>1, Invariant, PTL

\* A handle never holds the address of a deleted timer or of another's, and the count of
\* a handler is the number of its timers and the number of its handles that hold one.
THEOREM HandlesAreAliveHolds == Spec => []HandlesAreAlive
<1>1. IInv => HandlesAreAlive
  BY DEF IInv, HandlesApart, RegisteredAreCounted, HandlesAreAlive
<1> QED
  BY <1>1, Invariant, PTL

\* Between two passes at most half of the queue is cancelled timers.
THEOREM CancelledAreFewHolds == Spec => []CancelledAreFew
<1>1. IInv => CancelledAreFew
  <2> SUFFICES ASSUME IInv, now = Idle
               PROVE  Cardinality(Cancelled) * 2 <= Cardinality(timeQueue_)
    BY DEF CancelledAreFew
  <2>1. pProcessingNode_ = NULL
    BY DEF IInv, PassInOrder
  <2> QED
    BY <2>1, CountedSetsAreFinite DEF IInv, CancelledShare
<1> QED
  BY <1>1, Invariant, PTL

\* Timers fire in the order of their times and none before its time.
THEOREM FiresInOrderHolds == Spec => FiresInOrder
<1> DEFINE FiresNext(t) ==
      times[t].state_ = "PENDING" /\ times[t]'.state_ = "EXECUTING" =>
          /\ times[t].time_ <= clock
          /\ \A u \in Times : times[u].state_ = "PENDING" => times[t].time_ <= times[u].time_
<1>1. IInv /\ [Next]_vars => [\A t \in Times : FiresNext(t)]_vars
  <2> SUFFICES ASSUME IInv, Next, NEW t \in Times,
                      times[t].state_ = "PENDING", times[t]'.state_ = "EXECUTING"
               PROVE  /\ times[t].time_ <= clock
                      /\ \A u \in Times :
                            times[u].state_ = "PENDING" => times[t].time_ <= times[u].time_
    OBVIOUS
  <2>1. Fire(t)
    <3>1. ~(Tick \/ BeginPass \/ EndPass)
      BY DEF Tick, BeginPass, EndPass
    <3>2. \A k \in Handles, i \in Intervals : ~Add(k, i)
      BY DEF Add, IInv, TypeOK
    <3>3. \A k \in Handles : ~Cancel(k)
      <4> SUFFICES ASSUME NEW k \in Handles, Cancel(k) PROVE FALSE
        OBVIOUS
      <4>1. PICK dead \in SUBSET Times : times' = Deleted(CancelledTime(handle[k]), dead)
        BY CancelForm DEF IInv, TypeOK
      <4>2. handle[k] \in Times
        BY CancelForm
      <4> QED
        BY <4>1, <4>2, CancelledTimeFields DEF IInv, Deleted, Free
    <3>4. \A u \in Times : ~Discard(u) /\ ~ReturnCancelled(u)
      BY DEF Discard, ReturnCancelled, Deleted, Free
    <3>5. \A u \in Times : ~Return(u)
      <4> SUFFICES ASSUME NEW u \in Times, Return(u) PROVE FALSE
        OBVIOUS
      <4>1. times' = [times EXCEPT ![u] =
                        [times[u] EXCEPT !.state_ = "PENDING", !.time_ = @ + times[u].interval_]]
        BY DEF Return, IInv, TypeOK
      <4>2. u = t => times'[t].state_ = "PENDING"
        BY <4>1 DEF IInv, TypeOK, Time
      <4>3. u # t => times'[t] = times[t]
        BY <4>1 DEF IInv, TypeOK
      <4> QED
        BY <4>2, <4>3
    <3>6. \A u \in Times \ {t} : ~Fire(u)
      BY DEF Fire, IInv, TypeOK
    <3> QED
      BY <3>1, <3>2, <3>3, <3>4, <3>5, <3>6 DEF Next, Process
  <2>2. times[t].time_ <= now /\ now <= clock
    BY <2>1 DEF Fire, Due, IInv, PassInOrder
  <2>3. times[t].time_ \in Nat /\ now \in Int /\ clock \in Nat
    BY DEF IInv, TypeOK, Time, Idle
  <2>4. \A u \in timeQueue_ : times[t].time_ <= times[u].time_
    BY <2>1 DEF Fire, IsTop, IInv, PassInOrder
  <2> QED
    BY <2>2, <2>3, <2>4 DEF IInv, QueueMatchesStates
<1> QED
  BY <1>1, Invariant, PTL DEF Spec, FiresInOrder

=============================================================================
