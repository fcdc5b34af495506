----------------------- MODULE BufferedDBTasksProofs -----------------------
(***************************************************************************)
(* Proofs about BufferedDBTasks, for every set of tasks, every assignment  *)
(* of database and entity ids, and every number of workers.                *)
(***************************************************************************)
EXTENDS BufferedDBTasks, SequenceTheorems, TLAPS

-----------------------------------------------------------------------------

\* Every entity task is filed under one of the keys.
LEMMA KeyInKeys == \A t \in EntityTasks : Key(t) \in Keys
  BY DEF Keys

\* The successor of a task is an entity task filed second under its key, or NULL.
LEMMA SuccessorType ==
    ASSUME TypeOK, NEW t \in DBTasks
    PROVE  Successor(t) \in EntityTasks \cup {NULL}
  BY KeyInKeys DEF Successor, TypeOK, DBTasks

\* What is left of a sequence without its head.
LEMMA TailFacts ==
    ASSUME NEW S, NEW s \in Seq(S), s # <<>>
    PROVE  /\ Len(s) \in Nat \ {0}
           /\ Len(Tail(s)) = Len(s) - 1
           /\ \A i \in 1 .. (Len(s) - 1) : Tail(s)[i] = s[i + 1]
           /\ Tail(s) = <<>> <=> Len(s) = 1
<1>1. Len(s) \in Nat \ {0}
  OBVIOUS
<1>2. Tail(s) \in Seq(S) /\ Len(Tail(s)) = Len(s) - 1
  OBVIOUS
<1>3. \A i \in 1 .. (Len(s) - 1) : Tail(s)[i] = s[i + 1]
  OBVIOUS
<1>4. Tail(s) = <<>> <=> Len(Tail(s)) = 0
  BY <1>2, EmptySeq
<1> QED
  BY <1>1, <1>2, <1>3, <1>4

-----------------------------------------------------------------------------

\* No step leaves the declared types.
LEMMA TypeStep == TypeOK /\ [Next]_vars => TypeOK'
<1> SUFFICES ASSUME TypeOK, [Next]_vars PROVE TypeOK'
  OBVIOUS
<1> USE KeyInKeys DEF TypeOK, Stages, history
<1>1. ASSUME NEW t \in EntityTasks, AddTask(t) PROVE TypeOK'
  <2>1. Key(t) \in Keys /\ t \in DBTasks
    BY DEF DBTasks
  <2>2. arrival' \in [EntityTasks -> Nat] /\ requests' \in Nat
    BY <1>1 DEF AddTask, Arrive
  <2>3. CASE AddBehind(t)
    BY <1>1, <2>1, <2>2, <2>3 DEF AddTask, AddBehind
  <2>4. CASE AddFirst(t)
    BY <1>1, <2>1, <2>2, <2>4 DEF AddTask, AddFirst
  <2> QED
    BY <1>1, <2>3, <2>4 DEF AddTask
<1>2. ASSUME NEW t \in EntityTasks, HandToPool(t) PROVE TypeOK'
  BY <1>2 DEF HandToPool
<1>3. ASSUME NEW t \in PlainTasks, AddPlainTask(t) PROVE TypeOK'
  BY <1>3 DEF AddPlainTask
<1>4. ASSUME NEW t \in DBTasks, PickUp(t) PROVE TypeOK'
  BY <1>4 DEF PickUp
<1>5. ASSUME NEW t \in DBTasks, TryGetNextTask(t) PROVE TypeOK'
  <2>1. Successor(t) \in EntityTasks \cup {NULL}
    BY SuccessorType
  <2>2. follow' \in [DBTasks -> EntityTasks \cup {NULL}]
    BY <1>5, <2>1 DEF TryGetNextTask
  <2>3. stage' \in [DBTasks -> Stages]
    BY <1>5 DEF TryGetNextTask
  <2>4. buffered' \in [Keys -> Seq(EntityTasks \cup {NULL})]
    BY <1>5 DEF TryGetNextTask
  <2> QED
    BY <1>5, <2>2, <2>3, <2>4 DEF TryGetNextTask
<1>6. ASSUME NEW t \in DBTasks, AddFiniTask(t) PROVE TypeOK'
  <2>1. stage' \in [DBTasks -> Stages]
    BY <1>6 DEF AddFiniTask
  <2>2. follow' \in [DBTasks -> EntityTasks \cup {NULL}]
    BY <1>6 DEF AddFiniTask
  <2>3. finiTaskList' \in Seq(DBTasks)
    BY <1>6 DEF AddFiniTask
  <2> QED
    BY <1>6, <2>1, <2>2, <2>3 DEF AddFiniTask
<1>7. CASE OnMainThreadTick
  BY <1>7 DEF OnMainThreadTick
<1>8. CASE UNCHANGED vars
  BY <1>8 DEF vars
<1> QED
  BY <1>1, <1>2, <1>3, <1>4, <1>5, <1>6, <1>7, <1>8 DEF Next

\* Every reachable state has the declared type.
THEOREM TypeCorrect == Spec => []TypeOK
<1>1. Init => TypeOK
  BY KeyInKeys DEF Init, TypeOK, Stages
<1> QED
  BY <1>1, TypeStep, PTL DEF Spec

-----------------------------------------------------------------------------
(***************************************************************************)
(* The inductive invariant.  Besides MutualExclusion it says what the      *)
(* entries of the maps are, and how they and the links between a released  *)
(* task and its successor agree with the stages and the arrival numbers.   *)
(***************************************************************************)

Served(t) == stage[t] \in {"released", "fini", "presented"}

\* Behind the first entry, which may be NULL or a task, a key has the tasks that
\* wait for it, oldest first.
Behind(k) == 2 .. Len(buffered[k])

HoldersOccupy ==
    \A t \in EntityTasks : Holding(t) => buffered[Key(t)] # <<>>

OccupiedIsHeld ==
    \A k \in Keys :
        buffered[k] # <<>> => \E t \in EntityTasks : Key(t) = k /\ Holding(t)

EntriesWait ==
    \A k \in Keys : \A i \in Behind(k) :
        /\ buffered[k][i] \in EntityTasks
        /\ Key(buffered[k][i]) = k
        /\ stage[buffered[k][i]] = "waiting"

WaitersAreEntries ==
    \A t \in EntityTasks :
        stage[t] = "waiting" =>
            \E i \in Behind(Key(t)) : buffered[Key(t)][i] = t

EntriesInOrder ==
    \A k \in Keys : \A i, j \in Behind(k) :
        i < j => arrival[buffered[k][i]] < arrival[buffered[k][j]]

ArrivalsCounted ==
    \A t \in EntityTasks :
        /\ arrival[t] <= requests
        /\ arrival[t] = 0 <=> stage[t] = "new"

\* Whatever came before a task that is no longer waiting has been served.
EarlierServed ==
    \A u, t \in EntityTasks :
        RequestedBefore(u, t) /\ stage[t] # "waiting" => Served(u)

\* follow links a released task to the successor its worker holds.
FollowLinks ==
    \A t \in DBTasks :
        follow[t] # NULL =>
            /\ t \in EntityTasks
            /\ Key(follow[t]) = Key(t)
            /\ stage[t] = "released"
            /\ stage[follow[t]] = "chained"

FollowInjective ==
    \A t, u \in DBTasks : follow[t] # NULL /\ follow[t] = follow[u] => t = u

\* No request about the entity came between a task and its successor.
FollowAdjacent ==
    \A t, u \in EntityTasks :
        follow[t] # NULL /\ RequestedBefore(t, u) =>
            u = follow[t] \/ arrival[follow[t]] < arrival[u]

IInv ==
    /\ TypeOK
    /\ MutualExclusion
    /\ HoldersOccupy
    /\ OccupiedIsHeld
    /\ EntriesWait
    /\ WaitersAreEntries
    /\ EntriesInOrder
    /\ ArrivalsCounted
    /\ EarlierServed
    /\ FollowLinks
    /\ FollowInjective
    /\ FollowAdjacent

\* A step that moves tasks between stages the invariant does not tell apart
\* (handing, given and running; fini and presented) preserves it.
LEMMA QuietStep ==
    ASSUME IInv, TypeOK',
           UNCHANGED <<buffered, follow, history>>,
           \A t \in EntityTasks :
               /\ stage'[t] # stage[t] =>
                     \/ {stage[t], stage'[t]} \subseteq {"handing", "given", "running"}
                     \/ {stage[t], stage'[t]} \subseteq {"fini", "presented"}
    PROVE  IInv'
<1> DEFINE Same(t) == /\ Holding(t)' <=> Holding(t)
                      /\ Served(t)' <=> Served(t)
                      /\ \A s \in {"new", "waiting", "released", "chained"} :
                            stage'[t] = s <=> stage[t] = s
<1>1. \A t \in EntityTasks : Same(t)
  BY DEF Holding, Served, IInv, TypeOK, Stages
<1>2. buffered' = buffered /\ follow' = follow /\ arrival' = arrival /\ requests' = requests
  BY DEF history
<1> HIDE DEF Same
<1>3. MutualExclusion'
  BY <1>1 DEF IInv, MutualExclusion, Same
<1>4. HoldersOccupy'
  BY <1>1, <1>2 DEF IInv, HoldersOccupy, Same
<1>5. OccupiedIsHeld'
  BY <1>1, <1>2 DEF IInv, OccupiedIsHeld, Same
<1>6. EntriesWait'
  BY <1>1, <1>2 DEF IInv, EntriesWait, Same, Behind
<1>7. WaitersAreEntries'
  BY <1>1, <1>2 DEF IInv, WaitersAreEntries, Same, Behind
<1>8. EntriesInOrder'
  BY <1>2 DEF IInv, EntriesInOrder, Behind
<1>9. ArrivalsCounted'
  BY <1>1, <1>2 DEF IInv, ArrivalsCounted, Same
<1>10. EarlierServed'
  BY <1>1, <1>2 DEF IInv, EarlierServed, RequestedBefore, Same
<1>11. FollowLinks'
  <2> SUFFICES ASSUME NEW t \in DBTasks, follow[t] # NULL
               PROVE  /\ t \in EntityTasks
                      /\ Key(follow[t]) = Key(t)
                      /\ stage'[t] = "released"
                      /\ stage'[follow[t]] = "chained"
    BY <1>2 DEF FollowLinks
  <2>1. follow[t] \in EntityTasks
    BY DEF IInv, TypeOK
  <2> QED
    BY <1>1, <2>1 DEF IInv, FollowLinks, Same
<1>12. FollowInjective'
  BY <1>2 DEF IInv, FollowInjective
<1>13. FollowAdjacent'
  BY <1>2 DEF IInv, FollowAdjacent, RequestedBefore
<1> QED
  BY <1>3, <1>4, <1>5, <1>6, <1>7, <1>8, <1>9, <1>10, <1>11, <1>12, <1>13 DEF IInv

\* A task filed behind the others of its key keeps the invariant: the new entry is
\* the last of its key and has the largest arrival number.
LEMMA AddBehindStep ==
    ASSUME IInv, TypeOK', NEW t \in EntityTasks, AddTask(t), AddBehind(t)
    PROVE  IInv'
<1> DEFINE b == buffered[Key(t)]
<1>1. /\ Key(t) \in Keys
      /\ b \in Seq(EntityTasks \cup {NULL})
      /\ b # <<>>
      /\ stage[t] = "new"
  BY KeyInKeys DEF AddTask, AddBehind, IInv, TypeOK
<1>2. /\ buffered' = [buffered EXCEPT ![Key(t)] = Append(b, t)]
      /\ stage' = [stage EXCEPT ![t] = "waiting"]
      /\ arrival' = [arrival EXCEPT ![t] = requests + 1]
      /\ requests' = requests + 1
      /\ follow' = follow
  BY DEF AddTask, AddBehind, Arrive
<1>3. /\ stage'[t] = "waiting"
      /\ arrival'[t] = requests + 1
      /\ \A u \in EntityTasks \ {t} : stage'[u] = stage[u] /\ arrival'[u] = arrival[u]
      /\ \A u \in EntityTasks : arrival[u] \in Nat /\ arrival[u] <= requests
      /\ requests \in Nat
  BY <1>2 DEF IInv, TypeOK, DBTasks, ArrivalsCounted
<1>4. /\ \A k \in Keys \ {Key(t)} : buffered'[k] = buffered[k]
      /\ buffered'[Key(t)] = Append(b, t)
  BY <1>1, <1>2 DEF IInv, TypeOK
<1>5. /\ Len(Append(b, t)) = Len(b) + 1
      /\ Len(b) \in Nat \ {0}
      /\ \A i \in 1 .. Len(b) : Append(b, t)[i] = b[i]
      /\ Append(b, t)[Len(b) + 1] = t
  BY <1>1
<1>6. \A k \in Keys : \A i \in Behind(k)' :
         \/ i \in Behind(k) /\ buffered'[k][i] = buffered[k][i]
         \/ k = Key(t) /\ i = Len(b) + 1 /\ buffered'[k][i] = t
  BY <1>4, <1>5 DEF Behind
<1>7. \A k \in Keys : \A i \in Behind(k) :
         /\ i \in Behind(k)' /\ buffered'[k][i] = buffered[k][i]
         /\ buffered[k][i] \in EntityTasks \ {t}
  BY <1>1, <1>4, <1>5 DEF Behind, IInv, EntriesWait
<1> HIDE DEF b
<1>8. \A u \in EntityTasks : Holding(u)' <=> Holding(u)
  BY <1>1, <1>3 DEF Holding
<1>9. MutualExclusion'
  BY <1>8 DEF IInv, MutualExclusion
<1>10. HoldersOccupy'
  BY <1>4, <1>5, <1>8, KeyInKeys DEF IInv, HoldersOccupy
<1>11. OccupiedIsHeld'
  BY <1>1, <1>4, <1>8 DEF IInv, OccupiedIsHeld, b
<1>12. EntriesWait'
  BY <1>3, <1>6, <1>7 DEF IInv, EntriesWait
<1>13. WaitersAreEntries'
  <2> SUFFICES ASSUME NEW u \in EntityTasks, stage'[u] = "waiting"
               PROVE  \E i \in Behind(Key(u))' : buffered'[Key(u)][i] = u
    BY DEF WaitersAreEntries
  <2>1. CASE u = t
    BY <1>4, <1>5, <2>1 DEF Behind
  <2>2. CASE u # t
    BY <1>3, <1>7, <2>2, KeyInKeys DEF IInv, WaitersAreEntries
  <2> QED
    BY <2>1, <2>2
<1>14. EntriesInOrder'
  <2> SUFFICES ASSUME NEW k \in Keys, NEW i \in Behind(k)', NEW j \in Behind(k)', i < j
               PROVE  arrival'[buffered'[k][i]] < arrival'[buffered'[k][j]]
    BY DEF EntriesInOrder
  <2>1. i \in Behind(k) /\ buffered'[k][i] = buffered[k][i]
    BY <1>4, <1>5, <1>6 DEF Behind
  <2>2. CASE j \in Behind(k) /\ buffered'[k][j] = buffered[k][j]
    BY <1>3, <1>7, <2>1, <2>2 DEF IInv, EntriesInOrder
  <2>3. CASE buffered'[k][j] = t
    <3>1. arrival'[buffered'[k][i]] <= requests
      BY <1>3, <1>7, <2>1
    <3>2. arrival'[buffered'[k][i]] \in Nat
      BY <1>3, <1>7, <2>1
    <3> QED
      BY <1>3, <2>3, <3>1, <3>2
  <2> QED
    BY <1>6, <2>2, <2>3
<1>15. ArrivalsCounted'
  BY <1>2, <1>3 DEF IInv, ArrivalsCounted
<1>16. EarlierServed'
  <2> SUFFICES ASSUME NEW u \in EntityTasks, NEW v \in EntityTasks,
                      RequestedBefore(u, v)', stage'[v] # "waiting"
               PROVE  Served(u)'
    BY DEF EarlierServed
  <2>1. v # t /\ arrival'[v] <= requests
    BY <1>3
  <2>2. u # t
    BY <1>3, <2>1 DEF RequestedBefore
  <2> QED
    BY <1>3, <2>1, <2>2 DEF IInv, EarlierServed, RequestedBefore, Served
<1>17. FollowLinks'
  BY <1>1, <1>2, <1>3 DEF IInv, FollowLinks, TypeOK, DBTasks
<1>18. FollowInjective'
  BY <1>2 DEF IInv, FollowInjective
<1>19. FollowAdjacent'
  <2> SUFFICES ASSUME NEW u \in EntityTasks, NEW v \in EntityTasks,
                      follow[u] # NULL, RequestedBefore(u, v)', v # follow[u],
                      ~(arrival'[follow[u]] < arrival'[v])
               PROVE  FALSE
    BY <1>2 DEF FollowAdjacent
  <2>1. u \in DBTasks /\ follow[u] \in EntityTasks
    BY DEF IInv, TypeOK, DBTasks
  <2>2. stage[u] = "released" /\ stage[follow[u]] = "chained"
    BY <2>1 DEF IInv, FollowLinks
  <2>3. u # t /\ follow[u] # t
    BY <1>1, <2>2
  <2>4. v # t
    BY <1>3, <2>1, <2>3
  <2> QED
    BY <1>3, <2>1, <2>3, <2>4 DEF IInv, FollowAdjacent, RequestedBefore
<1> QED
  BY <1>9, <1>10, <1>11, <1>12, <1>13, <1>14, <1>15, <1>16, <1>17, <1>18, <1>19 DEF IInv

\* A task that finds its key free keeps the invariant: nobody held the key, so all
\* that came before it for that key has been served.
LEMMA AddFirstStep ==
    ASSUME IInv, TypeOK', NEW t \in EntityTasks, AddTask(t), AddFirst(t)
    PROVE  IInv'
<1>1. /\ Key(t) \in Keys
      /\ buffered[Key(t)] = <<>>
      /\ stage[t] = "new"
  BY KeyInKeys DEF AddTask, AddFirst
<1>2. /\ buffered' = [buffered EXCEPT ![Key(t)] = <<NULL>>]
      /\ stage' = [stage EXCEPT ![t] = "handing"]
      /\ arrival' = [arrival EXCEPT ![t] = requests + 1]
      /\ requests' = requests + 1
      /\ follow' = follow
  BY DEF AddTask, AddFirst, Arrive
<1>3. /\ stage'[t] = "handing"
      /\ arrival'[t] = requests + 1
      /\ \A u \in EntityTasks \ {t} : stage'[u] = stage[u] /\ arrival'[u] = arrival[u]
      /\ \A u \in EntityTasks : arrival[u] \in Nat /\ arrival[u] <= requests
      /\ requests \in Nat
  BY <1>2 DEF IInv, TypeOK, DBTasks, ArrivalsCounted
<1>4. /\ \A k \in Keys \ {Key(t)} : buffered'[k] = buffered[k]
      /\ buffered'[Key(t)] = <<NULL>>
  BY <1>1, <1>2 DEF IInv, TypeOK
<1>5. /\ Behind(Key(t)) = {}
      /\ Behind(Key(t))' = {}
      /\ \A k \in Keys \ {Key(t)} : Behind(k)' = Behind(k)
  BY <1>1, <1>4 DEF Behind
<1>6. \A u \in EntityTasks : Holding(u)' <=> Holding(u) \/ u = t
  BY <1>1, <1>3 DEF Holding
<1>7. \A u \in EntityTasks : Key(u) = Key(t) => ~Holding(u) /\ stage[u] # "waiting"
  BY <1>1, <1>5 DEF IInv, HoldersOccupy, WaitersAreEntries
<1>8. MutualExclusion'
  BY <1>6, <1>7 DEF IInv, MutualExclusion
<1>9. HoldersOccupy'
  BY <1>4, <1>6, KeyInKeys DEF IInv, HoldersOccupy
<1>10. OccupiedIsHeld'
  BY <1>4, <1>6 DEF IInv, OccupiedIsHeld
<1>11. EntriesWait'
  <2> SUFFICES ASSUME NEW k \in Keys \ {Key(t)}, NEW i \in Behind(k)
               PROVE  /\ buffered[k][i] \in EntityTasks
                      /\ Key(buffered[k][i]) = k
                      /\ stage'[buffered[k][i]] = "waiting"
    BY <1>4, <1>5 DEF EntriesWait
  <2> QED
    BY <1>1, <1>3 DEF IInv, EntriesWait
<1>12. WaitersAreEntries'
  <2> SUFFICES ASSUME NEW u \in EntityTasks, stage'[u] = "waiting"
               PROVE  \E i \in Behind(Key(u))' : buffered'[Key(u)][i] = u
    BY DEF WaitersAreEntries
  <2>1. u # t /\ stage[u] = "waiting"
    BY <1>3
  <2>2. Key(u) \in Keys \ {Key(t)}
    BY <1>7, <2>1, KeyInKeys
  <2> QED
    BY <1>4, <1>5, <2>1, <2>2 DEF IInv, WaitersAreEntries
<1>13. EntriesInOrder'
  <2> SUFFICES ASSUME NEW k \in Keys \ {Key(t)},
                      NEW i \in Behind(k), NEW j \in Behind(k), i < j
               PROVE  arrival'[buffered[k][i]] < arrival'[buffered[k][j]]
    BY <1>4, <1>5 DEF EntriesInOrder
  <2>1. /\ buffered[k][i] \in EntityTasks \ {t}
        /\ buffered[k][j] \in EntityTasks \ {t}
    BY DEF IInv, EntriesWait
  <2> QED
    BY <1>3, <2>1 DEF IInv, EntriesInOrder
<1>14. ArrivalsCounted'
  BY <1>2, <1>3 DEF IInv, ArrivalsCounted
<1>15. EarlierServed'
  <2> SUFFICES ASSUME NEW u \in EntityTasks, NEW v \in EntityTasks,
                      RequestedBefore(u, v)', stage'[v] # "waiting"
               PROVE  Served(u)'
    BY DEF EarlierServed
  <2>1. CASE v = t
    <3>1. u # t /\ Key(u) = Key(t) /\ arrival[u] # 0
      BY <1>3, <2>1 DEF RequestedBefore
    <3>2. stage[u] # "new" /\ stage[u] # "waiting" /\ ~Holding(u)
      BY <1>7, <3>1 DEF IInv, ArrivalsCounted
    <3> QED
      BY <1>3, <3>1, <3>2 DEF IInv, TypeOK, Stages, DBTasks, Holding, Served
  <2>2. CASE v # t
    <3>1. u # t
      BY <1>3, <2>2 DEF RequestedBefore
    <3> QED
      BY <1>3, <2>2, <3>1 DEF IInv, EarlierServed, RequestedBefore, Served
  <2> QED
    BY <2>1, <2>2
<1>16. FollowLinks'
  BY <1>1, <1>2, <1>3 DEF IInv, FollowLinks, TypeOK, DBTasks
<1>17. FollowInjective'
  BY <1>2 DEF IInv, FollowInjective
<1>18. FollowAdjacent'
  <2> SUFFICES ASSUME NEW u \in EntityTasks, NEW v \in EntityTasks,
                      follow[u] # NULL, RequestedBefore(u, v)', v # follow[u],
                      ~(arrival'[follow[u]] < arrival'[v])
               PROVE  FALSE
    BY <1>2 DEF FollowAdjacent
  <2>1. u \in DBTasks /\ follow[u] \in EntityTasks
    BY DEF IInv, TypeOK, DBTasks
  <2>2. stage[u] = "released" /\ stage[follow[u]] = "chained"
    BY <2>1 DEF IInv, FollowLinks
  <2>3. u # t /\ follow[u] # t
    BY <1>1, <2>2
  <2>4. v # t
    BY <1>3, <2>1, <2>3
  <2> QED
    BY <1>3, <2>1, <2>3, <2>4 DEF IInv, FollowAdjacent, RequestedBefore
<1> QED
  BY <1>8, <1>9, <1>10, <1>11, <1>12, <1>13, <1>14, <1>15, <1>16, <1>17, <1>18 DEF IInv

\* A worker that queues its finished task keeps the invariant: the successor was
\* held by this worker alone.
LEMMA AddFiniTaskStep ==
    ASSUME IInv, TypeOK', NEW t \in DBTasks, AddFiniTask(t)
    PROVE  IInv'
<1>1. /\ stage[t] = "released"
      /\ follow' = [follow EXCEPT ![t] = NULL]
      /\ buffered' = buffered /\ arrival' = arrival /\ requests' = requests
      /\ stage' = IF follow[t] = NULL THEN [stage EXCEPT ![t] = "fini"]
                  ELSE [stage EXCEPT ![t] = "fini", ![follow[t]] = "given"]
  BY DEF AddFiniTask, history
<1>2. follow[t] # NULL => /\ follow[t] \in EntityTasks
                          /\ stage[follow[t]] = "chained"
                          /\ follow[t] # t
  BY <1>1 DEF IInv, TypeOK, FollowLinks
<1>3. /\ stage'[t] = "fini"
      /\ follow[t] # NULL => stage'[follow[t]] = "given"
      /\ \A u \in DBTasks : u # t /\ u # follow[t] => stage'[u] = stage[u]
  BY <1>1, <1>2 DEF IInv, TypeOK, DBTasks
<1>4. \A u \in EntityTasks :
         /\ Holding(u)' <=> Holding(u)
         /\ Served(u)' <=> Served(u)
         /\ \A s \in {"new", "waiting"} : stage'[u] = s <=> stage[u] = s
  <2> SUFFICES ASSUME NEW u \in EntityTasks
               PROVE  /\ Holding(u)' <=> Holding(u)
                      /\ Served(u)' <=> Served(u)
                      /\ \A s \in {"new", "waiting"} : stage'[u] = s <=> stage[u] = s
    OBVIOUS
  <2>1. CASE u = t
    BY <1>1, <1>3, <2>1 DEF Holding, Served
  <2>2. CASE u = follow[t]
    BY <1>2, <1>3, <2>2, TasksAssumption DEF Holding, Served
  <2>3. CASE u # t /\ u # follow[t]
    BY <1>3, <2>3 DEF Holding, Served, DBTasks
  <2> QED
    BY <2>1, <2>2, <2>3
<1>5. follow'[t] = NULL /\ \A u \in DBTasks \ {t} : follow'[u] = follow[u]
  BY <1>1 DEF IInv, TypeOK
<1>6. MutualExclusion'
  BY <1>4 DEF IInv, MutualExclusion
<1>7. HoldersOccupy'
  BY <1>1, <1>4 DEF IInv, HoldersOccupy
<1>8. OccupiedIsHeld'
  BY <1>1, <1>4 DEF IInv, OccupiedIsHeld
<1>9. EntriesWait'
  BY <1>1, <1>4 DEF IInv, EntriesWait, Behind
<1>10. WaitersAreEntries'
  BY <1>1, <1>4 DEF IInv, WaitersAreEntries, Behind
<1>11. EntriesInOrder'
  BY <1>1 DEF IInv, EntriesInOrder, Behind
<1>12. ArrivalsCounted'
  BY <1>1, <1>4 DEF IInv, ArrivalsCounted
<1>13. EarlierServed'
  BY <1>1, <1>4 DEF IInv, EarlierServed, RequestedBefore
<1>14. FollowLinks'
  <2> SUFFICES ASSUME NEW u \in DBTasks, follow'[u] # NULL
               PROVE  /\ u \in EntityTasks
                      /\ Key(follow'[u]) = Key(u)
                      /\ stage'[u] = "released"
                      /\ stage'[follow'[u]] = "chained"
    BY DEF FollowLinks
  <2>1. u # t /\ follow'[u] = follow[u]
    BY <1>5
  <2>2. follow[u] \in EntityTasks /\ follow[u] # follow[t]
    BY <2>1 DEF IInv, TypeOK, FollowInjective
  <2>3. /\ u \in EntityTasks
        /\ Key(follow[u]) = Key(u)
        /\ stage[u] = "released"
        /\ stage[follow[u]] = "chained"
    BY <2>1 DEF IInv, FollowLinks
  <2>4. u # follow[t] /\ follow[u] # t
    BY <1>1, <1>2, <2>1, <2>3, TasksAssumption
  <2> QED
    BY <1>3, <2>1, <2>2, <2>3, <2>4 DEF DBTasks
<1>15. FollowInjective'
  BY <1>5 DEF IInv, FollowInjective
<1>16. FollowAdjacent'
  BY <1>1, <1>5 DEF IInv, FollowAdjacent, RequestedBefore, DBTasks
<1> QED
  BY <1>6, <1>7, <1>8, <1>9, <1>10, <1>11, <1>12, <1>13, <1>14, <1>15, <1>16 DEF IInv

\* A worker that releases the key of its task keeps the invariant: the task filed
\* second is the oldest that waits, and all that came before it has been served.
LEMMA TryGetNextTaskStep ==
    ASSUME IInv, TypeOK', NEW t \in EntityTasks, TryGetNextTask(t)
    PROVE  IInv'
<1> DEFINE k0 == Key(t)
           b == buffered[k0]
           next == Successor(t)
<1>1. /\ stage[t] = "running"
      /\ t \in DBTasks
      /\ k0 \in Keys
      /\ b \in Seq(EntityTasks \cup {NULL})
      /\ b # <<>>
  BY KeyInKeys DEF TryGetNextTask, DBTasks, IInv, TypeOK, HoldersOccupy, Holding
<1>2. /\ buffered' = [buffered EXCEPT ![k0] = Tail(b)]
      /\ follow' = [follow EXCEPT ![t] = next]
      /\ arrival' = arrival /\ requests' = requests
      /\ stage' = IF next = NULL THEN [stage EXCEPT ![t] = "released"]
                  ELSE [stage EXCEPT ![t] = "released", ![next] = "chained"]
  BY <1>1 DEF TryGetNextTask, history
<1>3. /\ Len(b) \in Nat \ {0}
      /\ Len(Tail(b)) = Len(b) - 1
      /\ \A i \in 1 .. (Len(b) - 1) : Tail(b)[i] = b[i + 1]
      /\ Tail(b) = <<>> <=> Len(b) = 1
  BY <1>1, TailFacts
<1>4. next = IF Len(b) > 1 THEN b[2] ELSE NULL
  BY DEF Successor
<1>5. Len(b) > 1 => /\ next \in EntityTasks
                    /\ Key(next) = k0
                    /\ stage[next] = "waiting"
  BY <1>1, <1>3, <1>4 DEF IInv, EntriesWait, Behind
<1>6. /\ next # NULL <=> Len(b) > 1
      /\ next # t
      /\ t # NULL
  BY <1>1, <1>4, <1>5, TasksAssumption
<1>7. /\ \A k \in Keys \ {k0} : buffered'[k] = buffered[k]
      /\ buffered'[k0] = Tail(b)
  BY <1>1, <1>2 DEF IInv, TypeOK
<1>8. /\ stage'[t] = "released"
      /\ next # NULL => stage'[next] = "chained"
      /\ \A u \in DBTasks : u # t /\ u # next => stage'[u] = stage[u]
  BY <1>1, <1>2, <1>5, <1>6 DEF IInv, TypeOK, DBTasks
<1>9. \A u \in EntityTasks : u # next /\ Holding(u) /\ Key(u) = k0 => u = t
  BY <1>1 DEF IInv, MutualExclusion, Holding
<1> HIDE DEF next, b, k0
<1>10. \A u \in EntityTasks : Holding(u)' <=> u = next \/ (Holding(u) /\ u # t)
  BY <1>6, <1>8, TasksAssumption DEF Holding, DBTasks
<1>11. \A k \in Keys \ {k0} : Behind(k)' = Behind(k)
  BY <1>7 DEF Behind
<1>12. \A i \in Behind(k0)' : i + 1 \in Behind(k0) /\ i + 1 > 2
                              /\ buffered'[k0][i] = buffered[k0][i + 1]
  BY <1>3, <1>7 DEF Behind, b
<1>13. Key(t) = k0 /\ b = buffered[k0]
  BY DEF k0, b
<1>14. \A k \in Keys : \A i \in Behind(k) :
          buffered[k][i] = next => k = k0 /\ i = 2
  <2> SUFFICES ASSUME NEW k \in Keys, NEW i \in Behind(k), buffered[k][i] = next
               PROVE  k = k0 /\ i = 2
    OBVIOUS
  <2>1. next \in EntityTasks /\ Key(next) = k
    BY DEF IInv, EntriesWait
  <2>2. k = k0 /\ Len(b) > 1 /\ next = b[2]
    BY <1>4, <1>5, <2>1, TasksAssumption DEF DBTasks
  <2>3. i \in 2 .. Len(b) /\ 2 \in Behind(k) /\ arrival[next] \in Nat
    BY <1>3, <1>13, <2>1, <2>2 DEF Behind, IInv, TypeOK
  <2> QED
    BY <1>13, <2>2, <2>3 DEF IInv, EntriesInOrder, Behind
<1>15. MutualExclusion'
  <2> SUFFICES ASSUME NEW u \in EntityTasks, NEW v \in EntityTasks,
                      Key(u) = Key(v), Holding(u)', Holding(v)'
               PROVE  u = v
    BY DEF MutualExclusion
  <2>1. CASE u # next /\ v # next
    BY <1>10, <2>1 DEF IInv, MutualExclusion
  <2>2. CASE u = next \/ v = next
    <3>1. Key(u) = k0
      BY <1>5, <1>6, <2>2, TasksAssumption DEF DBTasks
    <3> QED
      BY <1>9, <1>10, <2>2, <3>1
  <2> QED
    BY <2>1, <2>2
<1>16. HoldersOccupy'
  <2> SUFFICES ASSUME NEW u \in EntityTasks, Holding(u)'
               PROVE  buffered'[Key(u)] # <<>>
    BY DEF HoldersOccupy
  <2>1. CASE u = next
    BY <1>3, <1>5, <1>6, <1>7, <2>1, TasksAssumption DEF DBTasks
  <2>2. CASE u # next
    <3>1. Holding(u) /\ Key(u) # k0
      BY <1>9, <1>10, <2>2
    <3> QED
      BY <1>7, <3>1, KeyInKeys DEF IInv, HoldersOccupy
  <2> QED
    BY <2>1, <2>2
<1>17. OccupiedIsHeld'
  <2> SUFFICES ASSUME NEW k \in Keys, buffered'[k] # <<>>
               PROVE  \E u \in EntityTasks : Key(u) = k /\ Holding(u)'
    BY DEF OccupiedIsHeld
  <2>1. CASE k = k0
    BY <1>3, <1>5, <1>7, <1>10, <2>1
  <2>2. CASE k # k0
    BY <1>7, <1>10, <1>13, <2>2 DEF IInv, OccupiedIsHeld
  <2> QED
    BY <2>1, <2>2
<1>18. EntriesWait'
  <2> SUFFICES ASSUME NEW k \in Keys, NEW i \in Behind(k)'
               PROVE  /\ buffered'[k][i] \in EntityTasks
                      /\ Key(buffered'[k][i]) = k
                      /\ stage'[buffered'[k][i]] = "waiting"
    BY DEF EntriesWait
  <2>1. \E j \in Behind(k) : /\ buffered'[k][i] = buffered[k][j]
                             /\ ~(k = k0 /\ j = 2)
    <3>1. CASE k = k0
      <4>1. i + 1 \in Behind(k) /\ buffered'[k][i] = buffered[k][i + 1] /\ i + 1 # 2
        BY <1>12, <3>1
      <4> QED
        BY <4>1
    <3>2. CASE k # k0
      BY <1>7, <1>11, <3>2
    <3> QED
      BY <3>1, <3>2
  <2>2. PICK j \in Behind(k) : /\ buffered'[k][i] = buffered[k][j]
                               /\ ~(k = k0 /\ j = 2)
    BY <2>1
  <2>3. /\ buffered[k][j] \in EntityTasks
        /\ Key(buffered[k][j]) = k
        /\ stage[buffered[k][j]] = "waiting"
    BY DEF IInv, EntriesWait
  <2>4. buffered[k][j] # next /\ buffered[k][j] # t
    BY <1>1, <1>14, <2>2, <2>3
  <2> QED
    BY <1>8, <2>2, <2>3, <2>4 DEF DBTasks
<1>19. WaitersAreEntries'
  <2> SUFFICES ASSUME NEW u \in EntityTasks, stage'[u] = "waiting"
               PROVE  \E i \in Behind(Key(u))' : buffered'[Key(u)][i] = u
    BY DEF WaitersAreEntries
  <2>1. u # t /\ u # next /\ stage[u] = "waiting"
    BY <1>6, <1>8, TasksAssumption DEF DBTasks
  <2>2. PICK j \in Behind(Key(u)) : buffered[Key(u)][j] = u
    BY <2>1 DEF IInv, WaitersAreEntries
  <2>3. CASE Key(u) = k0
    <3>1. j \in 2 .. Len(b) /\ b[j] = u
      BY <1>13, <2>2, <2>3 DEF Behind
    <3>2. j # 2
      BY <1>3, <1>4, <2>1, <3>1
    <3>3. j - 1 \in Behind(k0)' /\ buffered'[k0][j - 1] = u
      BY <1>3, <1>7, <3>1, <3>2 DEF Behind
    <3> QED
      BY <2>3, <3>3
  <2>4. CASE Key(u) # k0
    BY <1>7, <1>11, <2>2, <2>4, KeyInKeys
  <2> QED
    BY <2>3, <2>4
<1>20. EntriesInOrder'
  <2> SUFFICES ASSUME NEW k \in Keys, NEW i \in Behind(k)', NEW j \in Behind(k)', i < j
               PROVE  arrival[buffered'[k][i]] < arrival[buffered'[k][j]]
    BY <1>2 DEF EntriesInOrder
  <2>1. CASE k = k0
    BY <1>1, <1>12, <2>1 DEF IInv, EntriesInOrder, Behind
  <2>2. CASE k # k0
    BY <1>7, <1>11, <2>2 DEF IInv, EntriesInOrder
  <2> QED
    BY <2>1, <2>2
<1>21. ArrivalsCounted'
  <2>1. \A u \in EntityTasks : stage'[u] = "new" <=> stage[u] = "new"
    BY <1>1, <1>5, <1>6, <1>8, TasksAssumption DEF DBTasks
  <2> QED
    BY <1>2, <2>1 DEF IInv, ArrivalsCounted
<1>22. EarlierServed'
  <2> SUFFICES ASSUME NEW u \in EntityTasks, NEW v \in EntityTasks,
                      RequestedBefore(u, v), stage'[v] # "waiting"
               PROVE  Served(u)'
    BY <1>2 DEF EarlierServed, RequestedBefore
  <2>1. CASE v # next
    <3>1. stage[v] # "waiting"
      BY <1>1, <1>8, <2>1 DEF DBTasks
    <3>2. Served(u)
      BY <3>1 DEF IInv, EarlierServed
    <3> QED
      BY <1>1, <1>5, <1>6, <1>8, <3>2, TasksAssumption DEF Served, DBTasks
  <2>2. CASE v = next
    <3>1. /\ Len(b) > 1 /\ v = b[2] /\ Key(u) = k0
          /\ arrival[u] \in Nat /\ arrival[v] \in Nat
          /\ arrival[u] # 0 /\ arrival[u] < arrival[v]
      BY <1>4, <1>5, <1>6, <2>2, TasksAssumption DEF RequestedBefore, DBTasks, IInv, TypeOK
    <3>2. stage[u] # "new" /\ u # next
      BY <2>2, <3>1 DEF IInv, ArrivalsCounted
    <3>3. stage[u] # "waiting"
      <4> SUFFICES ASSUME stage[u] = "waiting" PROVE FALSE
        OBVIOUS
      <4>1. PICK j \in 2 .. Len(b) : b[j] = u
        BY <1>13, <3>1 DEF IInv, WaitersAreEntries, Behind
      <4>2. j # 2 /\ 2 \in 2 .. Len(b)
        BY <1>3, <2>2, <3>1, <3>2, <4>1
      <4>3. arrival[v] < arrival[u]
        BY <1>1, <1>13, <3>1, <4>1, <4>2 DEF IInv, EntriesInOrder, Behind
      <4> QED
        BY <3>1, <4>3
    <3>4. CASE u = t
      BY <1>8, <3>4 DEF Served
    <3>5. CASE u # t
      <4>1. ~Holding(u)
        BY <1>9, <3>1, <3>2, <3>5
      <4>2. Served(u)
        BY <3>2, <3>3, <4>1 DEF Served, Holding, IInv, TypeOK, Stages, DBTasks
      <4> QED
        BY <1>8, <3>2, <3>5, <4>2 DEF Served, DBTasks
    <3> QED
      BY <3>4, <3>5
  <2> QED
    BY <2>1, <2>2
<1>23. follow'[t] = next /\ \A u \in DBTasks \ {t} : follow'[u] = follow[u]
  BY <1>1, <1>2 DEF IInv, TypeOK
<1>24. FollowLinks'
  <2> SUFFICES ASSUME NEW u \in DBTasks, follow'[u] # NULL
               PROVE  /\ u \in EntityTasks
                      /\ Key(follow'[u]) = Key(u)
                      /\ stage'[u] = "released"
                      /\ stage'[follow'[u]] = "chained"
    BY DEF FollowLinks
  <2>1. CASE u = t
    BY <1>5, <1>6, <1>8, <1>13, <1>23, <2>1
  <2>2. CASE u # t
    <3>1. /\ u \in EntityTasks
          /\ Key(follow[u]) = Key(u)
          /\ stage[u] = "released"
          /\ stage[follow[u]] = "chained"
          /\ follow'[u] = follow[u]
          /\ follow[u] \in DBTasks
      BY <1>23, <2>2 DEF IInv, FollowLinks, TypeOK, DBTasks
    <3>2. u # next /\ follow[u] # next /\ follow[u] # t
      BY <1>1, <1>5, <1>6, <2>2, <3>1, TasksAssumption DEF DBTasks
    <3> QED
      BY <1>8, <2>2, <3>1, <3>2
  <2> QED
    BY <2>1, <2>2
<1>25. FollowInjective'
  <2>1. \A u \in DBTasks : u # t /\ follow[u] # NULL => follow[u] # next
    BY <1>5, <1>6 DEF IInv, FollowLinks
  <2> QED
    BY <1>23, <2>1 DEF IInv, FollowInjective
<1>26. FollowAdjacent'
  <2> SUFFICES ASSUME NEW u \in EntityTasks, NEW v \in EntityTasks,
                      follow'[u] # NULL, RequestedBefore(u, v), v # follow'[u],
                      ~(arrival[follow'[u]] < arrival[v])
               PROVE  FALSE
    BY <1>2 DEF FollowAdjacent, RequestedBefore
  <2>1. CASE u # t
    BY <1>23, <2>1 DEF IInv, FollowAdjacent, DBTasks
  <2>2. CASE u = t
    <3>1. /\ next \in EntityTasks /\ Len(b) > 1 /\ next = b[2] /\ Key(v) = k0
          /\ v # next /\ ~(arrival[next] < arrival[v])
      BY <1>4, <1>5, <1>6, <1>13, <1>23, <2>2 DEF RequestedBefore, IInv, TypeOK
    <3>2. ~Served(t)
      BY <1>1 DEF Served
    <3>3. stage[v] = "waiting"
      BY <2>2, <3>2 DEF IInv, EarlierServed
    <3>4. PICK j \in 2 .. Len(b) : b[j] = v
      BY <1>13, <3>1, <3>3 DEF IInv, WaitersAreEntries, Behind
    <3>5. j # 2 /\ 2 \in 2 .. Len(b)
      BY <1>3, <3>1, <3>4
    <3>6. arrival[next] < arrival[v]
      BY <1>1, <1>13, <3>1, <3>4, <3>5 DEF IInv, EntriesInOrder, Behind
    <3> QED
      BY <3>1, <3>6
  <2> QED
    BY <2>1, <2>2
<1> QED
  BY <1>15, <1>16, <1>17, <1>18, <1>19, <1>20, <1>21, <1>22, <1>24, <1>25, <1>26 DEF IInv

-----------------------------------------------------------------------------

\* The invariant holds initially, and every step preserves it.
LEMMA IInvInit == Init => IInv
<1> SUFFICES ASSUME Init PROVE IInv
  OBVIOUS
<1> USE DEF Init
<1>1. TypeOK
  BY KeyInKeys DEF TypeOK, Stages
<1>2. MutualExclusion /\ HoldersOccupy /\ OccupiedIsHeld /\ WaitersAreEntries
  BY KeyInKeys DEF MutualExclusion, HoldersOccupy, OccupiedIsHeld, WaitersAreEntries,
                   Holding, DBTasks
<1>3. EntriesWait /\ EntriesInOrder
  BY DEF EntriesWait, EntriesInOrder, Behind
<1>4. ArrivalsCounted /\ EarlierServed
  BY DEF ArrivalsCounted, EarlierServed, RequestedBefore, DBTasks
<1>5. FollowLinks /\ FollowInjective /\ FollowAdjacent
  BY DEF FollowLinks, FollowInjective, FollowAdjacent, DBTasks
<1> QED
  BY <1>1, <1>2, <1>3, <1>4, <1>5 DEF IInv

LEMMA IInvStep == IInv /\ [Next]_vars => IInv'
<1> SUFFICES ASSUME IInv, [Next]_vars PROVE IInv'
  OBVIOUS
<1>1. TypeOK'
  BY TypeStep DEF IInv
<1>2. stage \in [DBTasks -> Stages]
  BY DEF IInv, TypeOK
<1>3. ASSUME NEW t \in EntityTasks, AddTask(t) PROVE IInv'
  BY <1>1, <1>3, AddBehindStep, AddFirstStep DEF AddTask
<1>4. ASSUME NEW t \in EntityTasks, HandToPool(t) PROVE IInv'
  BY <1>1, <1>2, <1>4, QuietStep DEF HandToPool, DBTasks
<1>5. ASSUME NEW t \in PlainTasks, AddPlainTask(t) PROVE IInv'
  BY <1>1, <1>2, <1>5, QuietStep, TasksAssumption DEF AddPlainTask, DBTasks
<1>6. ASSUME NEW t \in DBTasks, PickUp(t) PROVE IInv'
  BY <1>1, <1>2, <1>6, QuietStep DEF PickUp, DBTasks
<1>7. ASSUME NEW t \in DBTasks, TryGetNextTask(t) PROVE IInv'
  <2>1. CASE t \in EntityTasks
    BY <1>1, <1>7, <2>1, TryGetNextTaskStep
  <2>2. CASE t \notin EntityTasks
    <3>1. Successor(t) = NULL /\ follow[t] = NULL
      BY <2>2 DEF Successor, IInv, FollowLinks
    <3>2. /\ UNCHANGED <<buffered, follow, history>>
          /\ stage' = [stage EXCEPT ![t] = "released"]
      BY <1>7, <2>2, <3>1 DEF TryGetNextTask, IInv, TypeOK
    <3> QED
      BY <1>1, <1>2, <2>2, <3>2, QuietStep DEF DBTasks
  <2> QED
    BY <2>1, <2>2
<1>8. ASSUME NEW t \in DBTasks, AddFiniTask(t) PROVE IInv'
  BY <1>1, <1>8, AddFiniTaskStep
<1>9. CASE OnMainThreadTick
  BY <1>1, <1>2, <1>9, QuietStep DEF OnMainThreadTick, DBTasks
<1>10. CASE UNCHANGED vars
  BY <1>1, <1>10, QuietStep DEF vars, history
<1> QED
  BY <1>3, <1>4, <1>5, <1>6, <1>7, <1>8, <1>9, <1>10 DEF Next

\* The inductive invariant holds in every reachable state.
THEOREM Invariant == Spec => []IInv
  BY IInvInit, IInvStep, PTL DEF Spec

\* Two transactions about one entity never overlap.
THEOREM MutualExclusionHolds == Spec => []MutualExclusion
<1>1. IInv => MutualExclusion
  BY DEF IInv
<1> QED
  BY <1>1, Invariant, PTL

\* A key is occupied in the maps exactly while some task holds it, so a finished
\* task never leaves an entry behind that would block its entity for good.
THEOREM KeyOccupiedIffHeldHolds == Spec => []KeyOccupiedIffHeld
<1>1. IInv => KeyOccupiedIffHeld
  BY DEF IInv, KeyOccupiedIffHeld, HoldersOccupy, OccupiedIsHeld
<1> QED
  BY <1>1, Invariant, PTL

\* A reply overtakes an earlier request about the entity only when that request
\* has released its key and had nobody filed behind it.
THEOREM RepliesOvertakeOnlyReleasedHolds == Spec => []RepliesOvertakeOnlyReleased
<1>1. IInv => RepliesOvertakeOnlyReleased
  <2> SUFFICES ASSUME IInv, NEW u \in EntityTasks, NEW t \in EntityTasks,
                      RequestedBefore(u, t), stage[t] \in {"fini", "presented"}
               PROVE  \/ stage[u] = "released" /\ follow[u] = NULL
                      \/ stage[u] \in {"fini", "presented"}
    BY DEF RepliesOvertakeOnlyReleased
  <2>1. Served(u)
    BY DEF IInv, EarlierServed
  <2>2. ASSUME follow[u] # NULL PROVE FALSE
    <3>1. /\ u \in DBTasks
          /\ follow[u] \in EntityTasks
          /\ Key(follow[u]) = Key(t)
          /\ stage[follow[u]] = "chained"
          /\ ~Served(follow[u])
      BY <2>2 DEF IInv, TypeOK, FollowLinks, RequestedBefore, Served, DBTasks
    <3>2. t # follow[u] => arrival[follow[u]] < arrival[t]
      BY <2>2 DEF IInv, FollowAdjacent
    <3>3. ~RequestedBefore(follow[u], t)
      BY <3>1 DEF IInv, EarlierServed
    <3>4. arrival[follow[u]] # 0
      BY <3>1 DEF IInv, ArrivalsCounted
    <3>5. t = follow[u]
      BY <3>1, <3>2, <3>3, <3>4 DEF RequestedBefore
    <3> QED
      BY <3>1, <3>5
  <2> QED
    BY <2>1, <2>2 DEF Served
<1> QED
  BY <1>1, Invariant, PTL

-----------------------------------------------------------------------------
(***************************************************************************)
(* The queue implements SerialQueues.                                      *)
(***************************************************************************)

\* The abstract status each stage maps to.
LEMMA StatusOfStage ==
    /\ \A s \in {"handing", "waiting", "given", "chained"} : StatusOf(s) = "waiting"
    /\ \A s \in {"released", "fini", "presented"} : StatusOf(s) = "done"
    /\ StatusOf("new") = "none"
    /\ StatusOf("running") = "active"
  BY DEF StatusOf

\* A step that changes neither arrivals nor the abstract status of any entity
\* task is a stuttering step of SerialQueues.
LEMMA SerialStutter ==
    ASSUME UNCHANGED arrival,
           \A t \in EntityTasks : StatusOf(stage'[t]) = StatusOf(stage[t])
    PROVE  UNCHANGED Serial!vars
  BY DEF Serial!vars

\* Every step of the queue is a step of SerialQueues or a stuttering step.
LEMMA SerialStep ==
    ASSUME IInv, [Next]_vars
    PROVE  [Serial!Next]_Serial!vars
<1> DEFINE status == [t \in EntityTasks |-> StatusOf(stage[t])]
<1>1. stage \in [DBTasks -> Stages]
  BY DEF IInv, TypeOK
<1>2. ASSUME NEW t \in EntityTasks, AddTask(t) PROVE Serial!Submit(t)
  <2>1. /\ stage[t] = "new"
        /\ stage'[t] \in {"handing", "waiting"}
        /\ \A u \in EntityTasks \ {t} : stage'[u] = stage[u]
    BY <1>1, <1>2 DEF AddTask, AddBehind, AddFirst, DBTasks
  <2>2. /\ arrival' = [arrival EXCEPT ![t] = requests + 1]
        /\ arrival'[t] = requests + 1
        /\ requests \in Nat
        /\ \A u \in EntityTasks : arrival[u] \in Nat /\ arrival[u] <= requests
    BY <1>2 DEF AddTask, Arrive, IInv, TypeOK, ArrivalsCounted
  <2>3. status' = [status EXCEPT ![t] = "waiting"]
    BY <2>1, StatusOfStage
  <2>4. status[t] = "none"
    BY <2>1, StatusOfStage
  <2>5. /\ \A u \in EntityTasks \ {t} : arrival[u] < arrival'[t]
        /\ arrival'[t] \in Nat \ {0}
    BY <2>2
  <2>6. arrival' = [arrival EXCEPT ![t] = arrival'[t]]
    BY <2>2, Zenon
  <2> QED
    BY <2>3, <2>4, <2>5, <2>6 DEF Serial!Submit
<1>3. ASSUME NEW t \in EntityTasks, PickUp(t) PROVE Serial!Start(t)
  <2>1. /\ stage[t] = "given"
        /\ stage' = [stage EXCEPT ![t] = "running"]
        /\ arrival' = arrival
    BY <1>3 DEF PickUp, history
  <2>2. status' = [status EXCEPT ![t] = "active"] /\ status[t] = "waiting"
    BY <1>1, <2>1, StatusOfStage DEF DBTasks
  <2>3. ASSUME NEW u \in EntityTasks, RequestedBefore(u, t) PROVE status[u] = "done"
    BY <2>1, <2>3, StatusOfStage DEF IInv, EarlierServed, Served
  <2>4. \A u \in EntityTasks : Serial!Earlier(u, t) => status[u] = "done"
    BY <2>3 DEF Serial!Earlier, RequestedBefore
  <2> QED
    BY <2>1, <2>2, <2>4 DEF Serial!Start
<1>4. ASSUME NEW t \in EntityTasks, TryGetNextTask(t) PROVE Serial!Finish(t)
  <2> DEFINE next == Successor(t)
  <2>1. /\ stage[t] = "running"
        /\ arrival' = arrival
        /\ stage' = IF next = NULL THEN [stage EXCEPT ![t] = "released"]
                    ELSE [stage EXCEPT ![t] = "released", ![next] = "chained"]
    BY <1>4 DEF TryGetNextTask, history
  <2>2. next # NULL => next \in EntityTasks /\ stage[next] = "waiting"
    BY KeyInKeys DEF Successor, IInv, TypeOK, EntriesWait, Behind
  <2> HIDE DEF next
  <2>3. /\ stage'[t] = "released"
        /\ next # NULL => stage'[next] = "chained"
        /\ \A u \in EntityTasks : u # t /\ u # next => stage'[u] = stage[u]
    BY <1>1, <2>1, <2>2 DEF DBTasks
  <2>4. \A u \in EntityTasks \ {t} : StatusOf(stage'[u]) = StatusOf(stage[u])
    BY <2>2, <2>3, StatusOfStage, TasksAssumption DEF DBTasks
  <2>5. StatusOf(stage'[t]) = "done" /\ status[t] = "active"
    BY <2>1, <2>3, StatusOfStage
  <2>6. \A u \in EntityTasks :
           StatusOf(stage'[u]) = IF u = t THEN "done" ELSE StatusOf(stage[u])
    BY <2>4, <2>5
  <2>7. status' = [status EXCEPT ![t] = "done"]
    BY <2>6
  <2> QED
    BY <2>1, <2>5, <2>7 DEF Serial!Finish
<1>5. ASSUME NEW t \in EntityTasks, HandToPool(t) PROVE UNCHANGED Serial!vars
  BY <1>1, <1>5, StatusOfStage, SerialStutter DEF HandToPool, history, DBTasks
<1>6. ASSUME NEW t \in PlainTasks, AddPlainTask(t) PROVE UNCHANGED Serial!vars
  BY <1>1, <1>6, SerialStutter, TasksAssumption DEF AddPlainTask, history, DBTasks
<1>7. ASSUME NEW t \in PlainTasks, PickUp(t) PROVE UNCHANGED Serial!vars
  BY <1>1, <1>7, SerialStutter, TasksAssumption DEF PickUp, history, DBTasks
<1>8. ASSUME NEW t \in PlainTasks, TryGetNextTask(t) PROVE UNCHANGED Serial!vars
  <2>1. Successor(t) = NULL
    BY TasksAssumption DEF Successor
  <2> QED
    BY <1>1, <1>8, <2>1, SerialStutter, TasksAssumption DEF TryGetNextTask, history, DBTasks
<1>9. ASSUME NEW t \in DBTasks, AddFiniTask(t) PROVE UNCHANGED Serial!vars
  <2>1. follow[t] # NULL => follow[t] \in EntityTasks /\ stage[follow[t]] = "chained"
    BY DEF IInv, TypeOK, FollowLinks
  <2>2. /\ stage[t] = "released"
        /\ arrival' = arrival
        /\ stage' = IF follow[t] = NULL THEN [stage EXCEPT ![t] = "fini"]
                    ELSE [stage EXCEPT ![t] = "fini", ![follow[t]] = "given"]
    BY <1>9 DEF AddFiniTask, history
  <2>3. \A u \in EntityTasks :
           \/ stage'[u] = stage[u]
           \/ stage[u] = "released" /\ stage'[u] = "fini"
           \/ stage[u] = "chained" /\ stage'[u] = "given"
    BY <1>1, <2>1, <2>2 DEF DBTasks
  <2> QED
    BY <2>2, <2>3, StatusOfStage, SerialStutter
<1>10. CASE OnMainThreadTick
  BY <1>1, <1>10, StatusOfStage, SerialStutter DEF OnMainThreadTick, history, DBTasks
<1>11. CASE UNCHANGED vars
  BY <1>11, SerialStutter DEF vars
<1> QED
  BY <1>2, <1>3, <1>4, <1>5, <1>6, <1>7, <1>8, <1>9, <1>10, <1>11
  DEF Next, Serial!Next, DBTasks

\* Requests about one entity are processed one at a time and in the order in which
\* the handlers made them, for any number of tasks, entities and workers.
THEOREM ServedSeriallyHolds == Spec => ServedSerially
<1>1. Init => Serial!Init
  BY StatusOfStage DEF Init, Serial!Init, DBTasks
<1>2. IInv /\ [Next]_vars => [Serial!Next]_Serial!vars
  BY SerialStep
<1> QED
  BY <1>1, <1>2, Invariant, PTL DEF Spec, ServedSerially, Serial!Spec

=============================================================================
