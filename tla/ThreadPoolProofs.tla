-------------------------- MODULE ThreadPoolProofs --------------------------
(***************************************************************************)
(* Proofs about ThreadPool: the lists, the counters and the threads agree  *)
(* whatever the threads do, every task is in one place, and no task is     *)
(* deleted unprocessed in a pool that never adds a timed thread.           *)
(***************************************************************************)
EXTENDS ThreadPool, SequenceTheorems, FiniteSetTheorems, TLAPS

-----------------------------------------------------------------------------
(***************************************************************************)
(* The inductive invariant                                                 *)
(***************************************************************************)

\* A thread is a member of the pool exactly while its object exists.
MembersExist ==
    \A p \in Threads : (pc[p] = "absent") <=> (p \notin allThreadList)

\* Where a thread is says whether it has a task in hand, and another one popped.
TaskByPlace ==
    \A p \in Threads :
        /\ pc[p] \in {"process", "tryget", "chain", "complete"} => currTask[p] # NULL
        /\ pc[p] = "free" => currTask[p] = NULL
        /\ (task1[p] # NULL) <=> (pc[p] = "chain")

\* In the pool, to be busy is to have a task or to be on the way back to the free
\* list; a thread that is free or gone has none.
TaskByList ==
    ~finalised =>
        \A p \in Threads :
            /\ p \in busyThreadList => currTask[p] # NULL \/ pc[p] = "free"
            /\ p \notin busyThreadList => currTask[p] = NULL

\* In a live pool only a thread that has been given a task ends: it was about to
\* give up when addTask chose it.
LeaversAreBusy ==
    \A p \in Threads : pc[p] \in {"exit", "end"} /\ ~isDestroyed => p \in busyThreadList

\* destroy() begins between two ticks and leaves no thread behind.
Shutdown ==
    /\ finalised => isDestroyed /\ allThreadList = {}
    /\ isDestroyed => finitasks = <<>>

WorkersAreBusy == ~finalised => \A p \in Threads : pc[p] \in Working => p \in busyThreadList

PoolInv ==
    /\ TypeOK
    /\ CountsMatchLists
    /\ MembersExist
    /\ TaskByPlace
    /\ TaskByList
    /\ WorkersAreBusy
    /\ LeaversAreBusy
    /\ AssignedSleeperIsSignalled
    /\ Shutdown

-----------------------------------------------------------------------------
(***************************************************************************)
(* Lists without repetition                                                *)
(***************************************************************************)

LEMMA DistinctTail ==
    ASSUME NEW S, NEW s \in Seq(S), s # <<>>, Distinct(s)
    PROVE  /\ Tail(s) \in Seq(S)
           /\ Len(Tail(s)) = Len(s) - 1
           /\ Distinct(Tail(s))
           /\ Elements(Tail(s)) = Elements(s) \ {Head(s)}
           /\ Head(s) \in Elements(s)
           /\ Head(s) \in S
<1>1. /\ Tail(s) \in Seq(S)
      /\ Len(s) \in Nat \ {0}
      /\ DOMAIN s = 1 .. Len(s)
      /\ Head(s) = s[1]
      /\ Head(s) \in S
      /\ Len(Tail(s)) = Len(s) - 1
      /\ DOMAIN Tail(s) = 1 .. Len(s) - 1
      /\ \A i \in 1 .. Len(s) - 1 : Tail(s)[i] = s[i + 1]
  BY LenProperties, EmptySeq, HeadTailProperties
<1>2. Distinct(Tail(s))
  BY <1>1 DEF Distinct
<1>3. Elements(Tail(s)) \subseteq Elements(s) \ {Head(s)}
  <2> SUFFICES ASSUME NEW i \in 1 .. Len(s) - 1
               PROVE  s[i + 1] \in Elements(s) \ {s[1]}
    BY <1>1 DEF Elements
  <2> QED  BY <1>1 DEF Elements, Distinct
<1>4. Elements(s) \ {Head(s)} \subseteq Elements(Tail(s))
  <2> SUFFICES ASSUME NEW i \in 1 .. Len(s), i # 1
               PROVE  s[i] \in Elements(Tail(s))
    BY <1>1 DEF Elements
  <2>1. i - 1 \in 1 .. Len(s) - 1 /\ s[i] = Tail(s)[i - 1]
    BY <1>1
  <2> QED  BY <2>1, <1>1 DEF Elements
<1> QED  BY <1>1, <1>2, <1>3, <1>4 DEF Elements

LEMMA DistinctAppend ==
    ASSUME NEW S, NEW s \in Seq(S), NEW x \in S, Distinct(s), x \notin Elements(s)
    PROVE  /\ Append(s, x) \in Seq(S)
           /\ Len(Append(s, x)) = Len(s) + 1
           /\ Distinct(Append(s, x))
           /\ Elements(Append(s, x)) = Elements(s) \cup {x}
<1>1. /\ Append(s, x) \in Seq(S)
      /\ Len(s) \in Nat
      /\ DOMAIN s = 1 .. Len(s)
      /\ Len(Append(s, x)) = Len(s) + 1
      /\ DOMAIN Append(s, x) = 1 .. Len(s) + 1
      /\ \A i \in 1 .. Len(s) : Append(s, x)[i] = s[i]
      /\ Append(s, x)[Len(s) + 1] = x
  BY LenProperties, AppendProperties
<1>2. Distinct(Append(s, x))
  BY <1>1 DEF Distinct, Elements
<1>3. Elements(Append(s, x)) \subseteq Elements(s) \cup {x}
  BY <1>1 DEF Elements
<1>4. Elements(s) \cup {x} \subseteq Elements(Append(s, x))
  <2>1. \A i \in 1 .. Len(s) : i \in 1 .. Len(s) + 1
    BY <1>1
  <2>2. Len(s) + 1 \in 1 .. Len(s) + 1
    BY <1>1
  <2> QED  BY <1>1, <2>1, <2>2 DEF Elements
<1> QED  BY <1>1, <1>2, <1>3, <1>4

LEMMA DistinctConcat ==
    ASSUME NEW S, NEW s \in Seq(S), NEW r \in Seq(S), Distinct(s), Distinct(r),
           Elements(s) \cap Elements(r) = {}
    PROVE  /\ s \o r \in Seq(S)
           /\ Len(s \o r) = Len(s) + Len(r)
           /\ Distinct(s \o r)
           /\ Elements(s \o r) = Elements(s) \cup Elements(r)
<1>1. /\ Len(s) \in Nat /\ Len(r) \in Nat
      /\ DOMAIN s = 1 .. Len(s) /\ DOMAIN r = 1 .. Len(r)
      /\ s \o r \in Seq(S)
      /\ Len(s \o r) = Len(s) + Len(r)
      /\ DOMAIN (s \o r) = 1 .. Len(s) + Len(r)
      /\ \A i \in 1 .. Len(s) + Len(r) :
            (s \o r)[i] = IF i <= Len(s) THEN s[i] ELSE r[i - Len(s)]
  BY LenProperties, ConcatProperties
<1>2. \A i \in 1 .. Len(s) : i \in 1 .. Len(s) + Len(r) /\ (s \o r)[i] = s[i]
  BY <1>1
<1>3. \A i \in 1 .. Len(r) :
        Len(s) + i \in 1 .. Len(s) + Len(r) /\ (s \o r)[Len(s) + i] = r[i]
  BY <1>1
<1>4. \A i \in 1 .. Len(s) + Len(r) :
        \/ i \in 1 .. Len(s) /\ (s \o r)[i] = s[i]
        \/ i - Len(s) \in 1 .. Len(r) /\ (s \o r)[i] = r[i - Len(s)]
  BY <1>1
<1>5. Distinct(s \o r)
  <2> SUFFICES ASSUME NEW i \in 1 .. Len(s) + Len(r), NEW j \in 1 .. Len(s) + Len(r),
                      (s \o r)[i] = (s \o r)[j]
               PROVE  i = j
    BY <1>1 DEF Distinct
  <2>1. CASE i \in 1 .. Len(s) /\ j \in 1 .. Len(s)
    BY <2>1, <1>1, <1>2 DEF Distinct
  <2>2. CASE i - Len(s) \in 1 .. Len(r) /\ j - Len(s) \in 1 .. Len(r)
    <3>1. r[i - Len(s)] = r[j - Len(s)]
      BY <2>2, <1>1
    <3>2. i - Len(s) = j - Len(s)
      BY <3>1, <2>2, <1>1 DEF Distinct
    <3> QED  BY <3>2, <1>1
  <2>3. CASE i \in 1 .. Len(s) /\ j - Len(s) \in 1 .. Len(r)
    <3>1. s[i] \in Elements(s) /\ r[j - Len(s)] \in Elements(r)
      BY <2>3, <1>1 DEF Elements
    <3> QED  BY <3>1, <2>3, <1>1
  <2>4. CASE j \in 1 .. Len(s) /\ i - Len(s) \in 1 .. Len(r)
    <3>1. s[j] \in Elements(s) /\ r[i - Len(s)] \in Elements(r)
      BY <2>4, <1>1 DEF Elements
    <3> QED  BY <3>1, <2>4, <1>1
  <2> QED  BY <1>4, <2>1, <2>2, <2>3, <2>4
<1>6. Elements(s \o r) \subseteq Elements(s) \cup Elements(r)
  BY <1>1, <1>4 DEF Elements
<1>7. Elements(s) \subseteq Elements(s \o r)
  BY <1>1, <1>2 DEF Elements
<1>8. Elements(r) \subseteq Elements(s \o r)
  BY <1>1, <1>3 DEF Elements
<1> QED  BY <1>1, <1>5, <1>6, <1>7, <1>8

LEMMA DistinctWithout ==
    ASSUME NEW S, NEW s \in Seq(S), NEW x, Distinct(s), x \in Elements(s)
    PROVE  /\ SeqWithout(s, x) \in Seq(S)
           /\ Len(SeqWithout(s, x)) = Len(s) - 1
           /\ Len(s) >= 1
           /\ Distinct(SeqWithout(s, x))
           /\ Elements(SeqWithout(s, x)) = Elements(s) \ {x}
<1>1. /\ Len(s) \in Nat
      /\ DOMAIN s = 1 .. Len(s)
      /\ \A i \in 1 .. Len(s) : s[i] \in S
  BY LenProperties
<1>2. PICK k \in 1 .. Len(s) : s[k] = x
  BY <1>1 DEF Elements
<1>3. (CHOOSE i \in DOMAIN s : s[i] = x /\ \A j \in 1 .. i - 1 : s[j] # x) = k
  <2>1. \A j \in 1 .. k - 1 : s[j] # x
    BY <1>1, <1>2 DEF Distinct
  <2>2. \A i \in DOMAIN s : s[i] = x => i = k
    BY <1>1, <1>2 DEF Distinct
  <2> QED  BY <1>1, <1>2, <2>1, <2>2
<1> DEFINE w == [i \in 1 .. Len(s) - 1 |-> IF i < k THEN s[i] ELSE s[i + 1]]
<1>4. SeqWithout(s, x) = w
  BY <1>1, <1>2, <1>3 DEF SeqWithout, InSeq
<1>5. Len(s) - 1 \in Nat
  BY <1>1, <1>2
<1>6. w \in Seq(S) /\ Len(w) = Len(s) - 1
  <2>1. \A i \in 1 .. Len(s) - 1 : (IF i < k THEN s[i] ELSE s[i + 1]) \in S
    BY <1>1, <1>2, <1>5
  <2> QED  BY <2>1, <1>5, IsASeq
<1>7. DOMAIN w = 1 .. Len(s) - 1
  OBVIOUS
<1>8. \A i \in 1 .. Len(s) - 1 :
        \/ i < k /\ i \in 1 .. Len(s) /\ w[i] = s[i]
        \/ i >= k /\ i + 1 \in 1 .. Len(s) /\ w[i] = s[i + 1]
  BY <1>1, <1>2, <1>5
<1>9. Distinct(w)
  <2> HIDE DEF w
  <2> SUFFICES ASSUME NEW i \in 1 .. Len(s) - 1, NEW j \in 1 .. Len(s) - 1, w[i] = w[j]
               PROVE  i = j
    BY <1>7 DEF Distinct
  <2> QED  BY <1>1, <1>2, <1>8 DEF Distinct
<1>10. Elements(w) \subseteq Elements(s) \ {x}
  <2> HIDE DEF w
  <2> SUFFICES ASSUME NEW i \in 1 .. Len(s) - 1
               PROVE  w[i] \in Elements(s) \ {x}
    BY <1>7 DEF Elements
  <2> QED  BY <1>1, <1>2, <1>8 DEF Distinct, Elements
<1>11. Elements(s) \ {x} \subseteq Elements(w)
  <2> HIDE DEF w
  <2> SUFFICES ASSUME NEW i \in 1 .. Len(s), i # k
               PROVE  s[i] \in Elements(w)
    BY <1>1, <1>2 DEF Elements
  <2>1. CASE i < k
    <3>1. i \in 1 .. Len(s) - 1 /\ w[i] = s[i]
      BY <2>1, <1>1, <1>2, <1>8
    <3> QED  BY <3>1, <1>7 DEF Elements
  <2>2. CASE i > k
    <3>1. i - 1 \in 1 .. Len(s) - 1 /\ w[i - 1] = s[i]
      BY <2>2, <1>1, <1>2, <1>8
    <3> QED  BY <3>1, <1>7 DEF Elements
  <2> QED  BY <2>1, <2>2, <1>2
<1> QED  BY <1>1, <1>4, <1>5, <1>6, <1>9, <1>10, <1>11

\* As many threads as there are places in a list without repetition.
LEMMA DistinctCount ==
    ASSUME NEW S, NEW n \in Nat, NEW f \in [1 .. n -> S], Distinct(f)
    PROVE  /\ f \in Seq(S)
           /\ Len(f) = n
           /\ Elements(f) \subseteq S
           /\ IsFiniteSet(Elements(f))
           /\ Cardinality(Elements(f)) = n
<1>1. f \in Seq(S) /\ Len(f) = n
  BY IsASeq, LenProperties
<1>2. Elements(f) \subseteq S
  BY DEF Elements
<1>3. f \in Bijection(1 .. n, Elements(f))
  BY DEF Bijection, Injection, IsInjective, Surjection, Elements, Distinct
<1>4. IsFiniteSet(1 .. n) /\ Cardinality(1 .. n) = n
  BY FS_Interval
<1>5. ExistsBijection(1 .. n, Elements(f))
  BY <1>3 DEF ExistsBijection
<1> QED  BY <1>1, <1>2, <1>4, <1>5, FS_Bijection

-----------------------------------------------------------------------------
(***************************************************************************)
(* The steps of a thread                                                   *)
(***************************************************************************)

\* A thread goes to sleep only without a task: it is not busy then.
LEMMA LoopTopInv ==
    ASSUME PoolInv, NEW p \in Threads, LoopTop(p)
    PROVE  PoolInv'
<1> USE LoopTop(p) DEF LoopTop, Goto, unchangedButPc, poolVars, mainVars
<1>1. TypeOK'
  BY DEF PoolInv, TypeOK, PCs
<1>2. CountsMatchLists'
  BY DEF PoolInv, TypeOK, CountsMatchLists
<1>3. MembersExist'
  BY DEF PoolInv, TypeOK, MembersExist
<1>4. TaskByPlace'
  BY DEF PoolInv, TypeOK, TaskByPlace
<1>5. TaskByList'
  BY DEF PoolInv, TypeOK, TaskByList
<1>6. WorkersAreBusy'
  BY DEF PoolInv, TypeOK, WorkersAreBusy, Working
<1>7. LeaversAreBusy'
  BY DEF PoolInv, TypeOK, LeaversAreBusy
<1>8. AssignedSleeperIsSignalled'
  BY DEF PoolInv, TypeOK, AssignedSleeperIsSignalled, TaskByList, MembersExist, Shutdown
<1>9. Shutdown'
  BY DEF PoolInv, Shutdown
<1> QED  BY <1>1, <1>2, <1>3, <1>4, <1>5, <1>6, <1>7, <1>8, <1>9 DEF PoolInv

LEMMA EnterWaitInv ==
    ASSUME PoolInv, NEW p \in Threads, EnterWait(p)
    PROVE  PoolInv'
<1> USE EnterWait(p) DEF EnterWait, Goto, unchangedButPc, poolVars, mainVars
<1>1. TypeOK'
  BY DEF PoolInv, TypeOK, PCs
<1>2. CountsMatchLists'
  BY DEF PoolInv, TypeOK, CountsMatchLists
<1>3. MembersExist'
  BY DEF PoolInv, TypeOK, MembersExist
<1>4. TaskByPlace'
  BY DEF PoolInv, TypeOK, TaskByPlace
<1>5. TaskByList'
  BY DEF PoolInv, TypeOK, TaskByList
<1>6. WorkersAreBusy'
  BY DEF PoolInv, TypeOK, WorkersAreBusy, Working
<1>7. LeaversAreBusy'
  BY DEF PoolInv, TypeOK, LeaversAreBusy
<1>8. AssignedSleeperIsSignalled'
  BY DEF PoolInv, TypeOK, AssignedSleeperIsSignalled
<1>9. Shutdown'
  BY DEF PoolInv, Shutdown
<1> QED  BY <1>1, <1>2, <1>3, <1>4, <1>5, <1>6, <1>7, <1>8, <1>9 DEF PoolInv

LEMMA WaitSignalledInv ==
    ASSUME PoolInv, NEW p \in Threads, WaitSignalled(p)
    PROVE  PoolInv'
<1> USE WaitSignalled(p) DEF WaitSignalled, Goto, unchangedButPc, poolVars, mainVars
<1>1. TypeOK'
  BY DEF PoolInv, TypeOK, PCs
<1>2. CountsMatchLists'
  BY DEF PoolInv, TypeOK, CountsMatchLists
<1>3. MembersExist'
  BY DEF PoolInv, TypeOK, MembersExist
<1>4. TaskByPlace'
  BY DEF PoolInv, TypeOK, TaskByPlace
<1>5. TaskByList'
  BY DEF PoolInv, TypeOK, TaskByList
<1>6. WorkersAreBusy'
  BY DEF PoolInv, TypeOK, WorkersAreBusy, Working
<1>7. LeaversAreBusy'
  BY DEF PoolInv, TypeOK, LeaversAreBusy
<1>8. AssignedSleeperIsSignalled'
  BY DEF PoolInv, TypeOK, AssignedSleeperIsSignalled
<1>9. Shutdown'
  BY DEF PoolInv, Shutdown
<1> QED  BY <1>1, <1>2, <1>3, <1>4, <1>5, <1>6, <1>7, <1>8, <1>9 DEF PoolInv

LEMMA WaitTimeoutInv ==
    ASSUME PoolInv, NEW p \in Threads, WaitTimeout(p)
    PROVE  PoolInv'
<1> USE WaitTimeout(p) DEF WaitTimeout, Goto, unchangedButPc, poolVars, mainVars
<1>1. TypeOK'
  BY DEF PoolInv, TypeOK, PCs
<1>2. CountsMatchLists'
  BY DEF PoolInv, TypeOK, CountsMatchLists
<1>3. MembersExist'
  BY DEF PoolInv, TypeOK, MembersExist
<1>4. TaskByPlace'
  BY DEF PoolInv, TypeOK, TaskByPlace
<1>5. TaskByList'
  BY DEF PoolInv, TypeOK, TaskByList
<1>6. WorkersAreBusy'
  BY DEF PoolInv, TypeOK, WorkersAreBusy, Working
<1>7. LeaversAreBusy'
  BY DEF PoolInv, TypeOK, LeaversAreBusy
<1>8. AssignedSleeperIsSignalled'
  BY DEF PoolInv, TypeOK, AssignedSleeperIsSignalled
<1>9. Shutdown'
  BY DEF PoolInv, Shutdown
<1> QED  BY <1>1, <1>2, <1>3, <1>4, <1>5, <1>6, <1>7, <1>8, <1>9 DEF PoolInv

LEMMA ResetEventInv ==
    ASSUME PoolInv, NEW p \in Threads, ResetEvent(p)
    PROVE  PoolInv'
<1> USE ResetEvent(p) DEF ResetEvent, Goto, unchangedButPc, poolVars, mainVars
<1>1. TypeOK'
  BY DEF PoolInv, TypeOK, PCs
<1>2. CountsMatchLists'
  BY DEF PoolInv, TypeOK, CountsMatchLists
<1>3. MembersExist'
  BY DEF PoolInv, TypeOK, MembersExist
<1>4. TaskByPlace'
  BY DEF PoolInv, TypeOK, TaskByPlace
<1>5. TaskByList'
  BY DEF PoolInv, TypeOK, TaskByList
<1>6. WorkersAreBusy'
  BY DEF PoolInv, TypeOK, WorkersAreBusy, Working
<1>7. LeaversAreBusy'
  BY DEF PoolInv, TypeOK, LeaversAreBusy
<1>8. AssignedSleeperIsSignalled'
  BY DEF PoolInv, TypeOK, AssignedSleeperIsSignalled
<1>9. Shutdown'
  BY DEF PoolInv, Shutdown
<1> QED  BY <1>1, <1>2, <1>3, <1>4, <1>5, <1>6, <1>7, <1>8, <1>9 DEF PoolInv

LEMMA CheckInv ==
    ASSUME PoolInv, NEW p \in Threads, Check(p)
    PROVE  PoolInv'
<1> USE Check(p) DEF Check, Goto, unchangedButPc, poolVars, mainVars
<1>1. TypeOK'
  BY DEF PoolInv, TypeOK, PCs
<1>2. CountsMatchLists'
  BY DEF PoolInv, TypeOK, CountsMatchLists
<1>3. MembersExist'
  BY DEF PoolInv, TypeOK, MembersExist
<1>4. TaskByPlace'
  BY DEF PoolInv, TypeOK, TaskByPlace
<1>5. TaskByList'
  BY DEF PoolInv, TypeOK, TaskByList
<1>6. WorkersAreBusy'
  BY DEF PoolInv, TypeOK, WorkersAreBusy, Working, TaskByList
<1>7. LeaversAreBusy'
  BY DEF PoolInv, TypeOK, LeaversAreBusy
<1>8. AssignedSleeperIsSignalled'
  BY DEF PoolInv, TypeOK, AssignedSleeperIsSignalled
<1>9. Shutdown'
  BY DEF PoolInv, Shutdown
<1> QED  BY <1>1, <1>2, <1>3, <1>4, <1>5, <1>6, <1>7, <1>8, <1>9 DEF PoolInv

LEMMA ProcessTaskInv ==
    ASSUME PoolInv, NEW p \in Threads, ProcessTask(p)
    PROVE  PoolInv'
<1> USE ProcessTask(p) DEF ProcessTask, Goto, unchangedButPc, poolVars, mainVars
<1>1. TypeOK'
  BY DEF PoolInv, TypeOK, PCs
<1>2. CountsMatchLists'
  BY DEF PoolInv, TypeOK, CountsMatchLists
<1>3. MembersExist'
  BY DEF PoolInv, TypeOK, MembersExist
<1>4. TaskByPlace'
  BY DEF PoolInv, TypeOK, TaskByPlace
<1>5. TaskByList'
  BY DEF PoolInv, TypeOK, TaskByList
<1>6. WorkersAreBusy'
  BY DEF PoolInv, TypeOK, WorkersAreBusy, Working
<1>7. LeaversAreBusy'
  BY DEF PoolInv, TypeOK, LeaversAreBusy
<1>8. AssignedSleeperIsSignalled'
  BY DEF PoolInv, TypeOK, AssignedSleeperIsSignalled
<1>9. Shutdown'
  BY DEF PoolInv, Shutdown
<1> QED  BY <1>1, <1>2, <1>3, <1>4, <1>5, <1>6, <1>7, <1>8, <1>9 DEF PoolInv

LEMMA TryGetTaskInv ==
    ASSUME PoolInv, NEW p \in Threads, TryGetTask(p)
    PROVE  PoolInv'
<1> USE TryGetTask(p) DEF TryGetTask, Goto, unchangedButPc, poolVars, mainVars
<1>a. bufferedTaskList # <<>> =>
        Head(bufferedTaskList) \in Tasks /\ Tail(bufferedTaskList) \in Seq(Tasks)
  BY HeadTailProperties DEF PoolInv, TypeOK
<1>1. TypeOK'
  BY <1>a DEF PoolInv, TypeOK, PCs
<1>2. CountsMatchLists'
  BY DEF PoolInv, TypeOK, CountsMatchLists
<1>3. MembersExist'
  BY DEF PoolInv, TypeOK, MembersExist
<1>4. TaskByPlace'
  BY <1>a, ThreadsAssumption DEF PoolInv, TypeOK, TaskByPlace
<1>5. TaskByList'
  BY DEF PoolInv, TypeOK, TaskByList
<1>6. WorkersAreBusy'
  BY DEF PoolInv, TypeOK, WorkersAreBusy, Working
<1>7. LeaversAreBusy'
  BY DEF PoolInv, TypeOK, LeaversAreBusy
<1>8. AssignedSleeperIsSignalled'
  BY DEF PoolInv, TypeOK, AssignedSleeperIsSignalled
<1>9. Shutdown'
  BY DEF PoolInv, Shutdown
<1> QED  BY <1>1, <1>2, <1>3, <1>4, <1>5, <1>6, <1>7, <1>8, <1>9 DEF PoolInv

LEMMA ChainTaskInv ==
    ASSUME PoolInv, NEW p \in Threads, ChainTask(p)
    PROVE  PoolInv'
<1> USE ChainTask(p) DEF ChainTask, Goto, unchangedButPc, poolVars, mainVars
<1>a. currTask[p] \in Tasks /\ task1[p] \in Tasks
  BY DEF PoolInv, TypeOK, TaskByPlace
<1>b. Append(finiTaskList, currTask[p]) \in Seq(Tasks)
  BY <1>a, AppendProperties DEF PoolInv, TypeOK
<1>1. TypeOK'
  BY <1>a, <1>b DEF PoolInv, TypeOK, PCs
<1>2. CountsMatchLists'
  BY DEF PoolInv, TypeOK, CountsMatchLists
<1>3. MembersExist'
  BY DEF PoolInv, TypeOK, MembersExist
<1>4. TaskByPlace'
  BY <1>a, ThreadsAssumption DEF PoolInv, TypeOK, TaskByPlace
<1>5. TaskByList'
  BY <1>a, ThreadsAssumption DEF PoolInv, TypeOK, TaskByList, WorkersAreBusy, Working
<1>6. WorkersAreBusy'
  BY DEF PoolInv, TypeOK, WorkersAreBusy, Working
<1>7. LeaversAreBusy'
  BY DEF PoolInv, TypeOK, LeaversAreBusy
<1>8. AssignedSleeperIsSignalled'
  BY DEF PoolInv, TypeOK, AssignedSleeperIsSignalled
<1>9. Shutdown'
  BY DEF PoolInv, Shutdown
<1> QED  BY <1>1, <1>2, <1>3, <1>4, <1>5, <1>6, <1>7, <1>8, <1>9 DEF PoolInv

LEMMA CompleteTaskInv ==
    ASSUME PoolInv, NEW p \in Threads, CompleteTask(p)
    PROVE  PoolInv'
<1> USE CompleteTask(p) DEF CompleteTask, Goto, unchangedButPc, poolVars, mainVars
<1>a. Append(finiTaskList, currTask[p]) \in Seq(Tasks)
  BY AppendProperties DEF PoolInv, TypeOK, TaskByPlace
<1>1. TypeOK'
  BY <1>a DEF PoolInv, TypeOK, PCs
<1>2. CountsMatchLists'
  BY DEF PoolInv, TypeOK, CountsMatchLists
<1>3. MembersExist'
  BY DEF PoolInv, TypeOK, MembersExist
<1>4. TaskByPlace'
  BY DEF PoolInv, TypeOK, TaskByPlace
<1>5. TaskByList'
  BY DEF PoolInv, TypeOK, TaskByList
<1>6. WorkersAreBusy'
  BY DEF PoolInv, TypeOK, WorkersAreBusy, Working
<1>7. LeaversAreBusy'
  BY DEF PoolInv, TypeOK, LeaversAreBusy
<1>8. AssignedSleeperIsSignalled'
  BY DEF PoolInv, TypeOK, AssignedSleeperIsSignalled
<1>9. Shutdown'
  BY DEF PoolInv, Shutdown
<1> QED  BY <1>1, <1>2, <1>3, <1>4, <1>5, <1>6, <1>7, <1>8, <1>9 DEF PoolInv

LEMMA ThreadEndInv ==
    ASSUME PoolInv, NEW p \in Threads, ThreadEnd(p)
    PROVE  PoolInv'
<1> USE ThreadEnd(p) DEF ThreadEnd, Goto, unchangedButPc, poolVars, mainVars
<1>1. TypeOK'
  BY DEF PoolInv, TypeOK, PCs
<1>2. CountsMatchLists'
  BY DEF PoolInv, TypeOK, CountsMatchLists
<1>3. MembersExist'
  BY DEF PoolInv, TypeOK, MembersExist
<1>4. TaskByPlace'
  BY DEF PoolInv, TypeOK, TaskByPlace
<1>5. TaskByList'
  BY DEF PoolInv, TypeOK, TaskByList
<1>6. WorkersAreBusy'
  BY DEF PoolInv, TypeOK, WorkersAreBusy, Working
<1>7. LeaversAreBusy'
  BY DEF PoolInv, TypeOK, LeaversAreBusy
<1>8. AssignedSleeperIsSignalled'
  BY DEF PoolInv, TypeOK, AssignedSleeperIsSignalled
<1>9. Shutdown'
  BY DEF PoolInv, Shutdown
<1> QED  BY <1>1, <1>2, <1>3, <1>4, <1>5, <1>6, <1>7, <1>8, <1>9 DEF PoolInv

-----------------------------------------------------------------------------
(***************************************************************************)
(* The steps of the main thread                                            *)
(***************************************************************************)

LEMMA TickTakeInv ==
    ASSUME PoolInv, TickTake
    PROVE  PoolInv'
<1> USE TickTake DEF TickTake, Goto, unchangedButPc, poolVars, mainVars
<1>1. TypeOK'
  BY EmptySeq DEF PoolInv, TypeOK
<1>2. CountsMatchLists'
  BY DEF PoolInv, TypeOK, CountsMatchLists
<1>3. MembersExist'
  BY DEF PoolInv, TypeOK, MembersExist
<1>4. TaskByPlace'
  BY DEF PoolInv, TypeOK, TaskByPlace
<1>5. TaskByList'
  BY DEF PoolInv, TypeOK, TaskByList
<1>6. WorkersAreBusy'
  BY DEF PoolInv, TypeOK, WorkersAreBusy
<1>7. LeaversAreBusy'
  BY DEF PoolInv, TypeOK, LeaversAreBusy
<1>8. AssignedSleeperIsSignalled'
  BY DEF PoolInv, TypeOK, AssignedSleeperIsSignalled
<1>9. Shutdown'
  BY DEF PoolInv, Shutdown, MainThreadIdle
<1> QED  BY <1>1, <1>2, <1>3, <1>4, <1>5, <1>6, <1>7, <1>8, <1>9 DEF PoolInv

LEMMA PresentCompletedInv ==
    ASSUME PoolInv, PresentCompleted
    PROVE  PoolInv'
<1> USE PresentCompleted DEF PresentCompleted, Goto, unchangedButPc, poolVars, mainVars
<1>1. TypeOK'
  BY HeadTailProperties DEF PoolInv, TypeOK
<1>2. CountsMatchLists'
  BY DEF PoolInv, TypeOK, CountsMatchLists
<1>3. MembersExist'
  BY DEF PoolInv, TypeOK, MembersExist
<1>4. TaskByPlace'
  BY DEF PoolInv, TypeOK, TaskByPlace
<1>5. TaskByList'
  BY DEF PoolInv, TypeOK, TaskByList
<1>6. WorkersAreBusy'
  BY DEF PoolInv, TypeOK, WorkersAreBusy
<1>7. LeaversAreBusy'
  BY DEF PoolInv, TypeOK, LeaversAreBusy
<1>8. AssignedSleeperIsSignalled'
  BY DEF PoolInv, TypeOK, AssignedSleeperIsSignalled
<1>9. Shutdown'
  BY DEF PoolInv, Shutdown
<1> QED  BY <1>1, <1>2, <1>3, <1>4, <1>5, <1>6, <1>7, <1>8, <1>9 DEF PoolInv

LEMMA PresentContinueMainInv ==
    ASSUME PoolInv, PresentContinueMain
    PROVE  PoolInv'
<1> USE PresentContinueMain DEF PresentContinueMain, Goto, unchangedButPc, poolVars, mainVars
<1>a. Append(finiTaskList, Head(finitasks)) \in Seq(Tasks) /\ Tail(finitasks) \in Seq(Tasks)
  BY HeadTailProperties, AppendProperties DEF PoolInv, TypeOK
<1>1. TypeOK'
  BY <1>a DEF PoolInv, TypeOK
<1>2. CountsMatchLists'
  BY DEF PoolInv, TypeOK, CountsMatchLists
<1>3. MembersExist'
  BY DEF PoolInv, TypeOK, MembersExist
<1>4. TaskByPlace'
  BY DEF PoolInv, TypeOK, TaskByPlace
<1>5. TaskByList'
  BY DEF PoolInv, TypeOK, TaskByList
<1>6. WorkersAreBusy'
  BY DEF PoolInv, TypeOK, WorkersAreBusy
<1>7. LeaversAreBusy'
  BY DEF PoolInv, TypeOK, LeaversAreBusy
<1>8. AssignedSleeperIsSignalled'
  BY DEF PoolInv, TypeOK, AssignedSleeperIsSignalled
<1>9. Shutdown'
  BY DEF PoolInv, Shutdown
<1> QED  BY <1>1, <1>2, <1>3, <1>4, <1>5, <1>6, <1>7, <1>8, <1>9 DEF PoolInv

LEMMA DestroyBeginInv ==
    ASSUME PoolInv, DestroyBegin
    PROVE  PoolInv'
<1> USE DestroyBegin DEF DestroyBegin, Goto, unchangedButPc, poolVars, mainVars
<1>1. TypeOK'
  BY DEF PoolInv, TypeOK
<1>2. CountsMatchLists'
  BY DEF PoolInv, TypeOK, CountsMatchLists
<1>3. MembersExist'
  BY DEF PoolInv, TypeOK, MembersExist
<1>4. TaskByPlace'
  BY DEF PoolInv, TypeOK, TaskByPlace
<1>5. TaskByList'
  BY DEF PoolInv, TypeOK, TaskByList
<1>6. WorkersAreBusy'
  BY DEF PoolInv, TypeOK, WorkersAreBusy
<1>7. LeaversAreBusy'
  BY DEF PoolInv, TypeOK, LeaversAreBusy
<1>8. AssignedSleeperIsSignalled'
  BY DEF PoolInv, TypeOK, AssignedSleeperIsSignalled
<1>9. Shutdown'
  BY DEF PoolInv, Shutdown, MainThreadIdle
<1> QED  BY <1>1, <1>2, <1>3, <1>4, <1>5, <1>6, <1>7, <1>8, <1>9 DEF PoolInv

LEMMA DestroySignalInv ==
    ASSUME PoolInv, DestroySignal
    PROVE  PoolInv'
<1> USE DestroySignal DEF DestroySignal, Goto, unchangedButPc, poolVars, mainVars
<1>1. TypeOK'
  BY DEF PoolInv, TypeOK
<1>2. CountsMatchLists'
  BY DEF PoolInv, TypeOK, CountsMatchLists
<1>3. MembersExist'
  BY DEF PoolInv, TypeOK, MembersExist
<1>4. TaskByPlace'
  BY DEF PoolInv, TypeOK, TaskByPlace
<1>5. TaskByList'
  BY DEF PoolInv, TypeOK, TaskByList
<1>6. WorkersAreBusy'
  BY DEF PoolInv, TypeOK, WorkersAreBusy
<1>7. LeaversAreBusy'
  BY DEF PoolInv, TypeOK, LeaversAreBusy
<1>8. AssignedSleeperIsSignalled'
  BY DEF PoolInv, TypeOK, AssignedSleeperIsSignalled
<1>9. Shutdown'
  BY DEF PoolInv, Shutdown
<1> QED  BY <1>1, <1>2, <1>3, <1>4, <1>5, <1>6, <1>7, <1>8, <1>9 DEF PoolInv

LEMMA DestroyEndInv ==
    ASSUME PoolInv, DestroyEnd
    PROVE  PoolInv'
<1> USE DestroyEnd DEF DestroyEnd, Goto, unchangedButPc, poolVars, mainVars
<1>1. TypeOK'
  BY EmptySeq DEF PoolInv, TypeOK, PCs
<1>2. CountsMatchLists'
  BY DEF PoolInv, TypeOK, CountsMatchLists
<1>3. MembersExist'
  BY DEF PoolInv, TypeOK, MembersExist
<1>4. TaskByPlace'
  BY DEF PoolInv, TypeOK, TaskByPlace, MembersExist
<1>5. TaskByList'
  BY DEF PoolInv, TypeOK, TaskByList, MembersExist
<1>6. WorkersAreBusy'
  BY DEF PoolInv, TypeOK, WorkersAreBusy, MembersExist, Working
<1>7. LeaversAreBusy'
  BY DEF PoolInv, TypeOK, LeaversAreBusy, MembersExist, Shutdown
<1>8. AssignedSleeperIsSignalled'
  BY DEF PoolInv, TypeOK, AssignedSleeperIsSignalled, MembersExist
<1>9. Shutdown'
  BY DEF PoolInv, Shutdown
<1> QED  BY <1>1, <1>2, <1>3, <1>4, <1>5, <1>6, <1>7, <1>8, <1>9 DEF PoolInv

\* The thread is found among the busy ones: they alone come back.
LEMMA AddFreeThreadInv ==
    ASSUME PoolInv, NEW p \in Threads, AddFreeThread(p)
    PROVE  PoolInv'
<1> USE AddFreeThread(p) DEF AddFreeThread, Goto, unchangedButPc, poolVars, mainVars
<1>a. /\ ~finalised
      /\ p \in busyThreadList
      /\ p \notin Elements(freeThreadList)
      /\ Distinct(freeThreadList)
      /\ Elements(freeThreadList) \cup busyThreadList = allThreadList
      /\ Elements(freeThreadList) \cap busyThreadList = {}
  BY DEF PoolInv, CountsMatchLists, WorkersAreBusy, Working, MembersExist, Shutdown
<1>b. PICK f : f = freeThreadList /\ freeThreadList' = Append(f, p)
  BY <1>a
<1>c. /\ Append(f, p) \in Seq(Threads)
      /\ Len(Append(f, p)) = Len(f) + 1
      /\ Distinct(Append(f, p))
      /\ Elements(Append(f, p)) = Elements(f) \cup {p}
  BY <1>a, <1>b, DistinctAppend DEF PoolInv, TypeOK
<1>d. /\ busyThreadList' = busyThreadList \ {p}
      /\ currentFreeThreadCount' = currentFreeThreadCount + 1
      /\ pc' = [pc EXCEPT ![p] = "top"]
      /\ UNCHANGED <<allThreadList, currentThreadCount, finalised>>
  BY <1>a
<1>e. /\ Distinct(freeThreadList)'
      /\ Elements(freeThreadList)' = Elements(freeThreadList) \cup {p}
      /\ Len(freeThreadList') = Len(freeThreadList) + 1
  BY <1>b, <1>c DEF Distinct, Elements
<1>1. TypeOK'
  BY <1>b, <1>c, <1>d DEF PoolInv, TypeOK, PCs
<1>2. CountsMatchLists'
  BY <1>a, <1>b, <1>c, <1>d, <1>e DEF PoolInv, TypeOK, CountsMatchLists
<1>3. MembersExist'
  BY <1>d DEF PoolInv, TypeOK, MembersExist
<1>4. TaskByPlace'
  BY <1>d DEF PoolInv, TypeOK, TaskByPlace
<1>5. TaskByList'
  BY <1>d DEF PoolInv, TypeOK, TaskByList, TaskByPlace
<1>6. WorkersAreBusy'
  BY <1>d DEF PoolInv, TypeOK, WorkersAreBusy, Working
<1>7. LeaversAreBusy'
  BY <1>d DEF PoolInv, TypeOK, LeaversAreBusy
<1>8. AssignedSleeperIsSignalled'
  BY <1>d DEF PoolInv, TypeOK, AssignedSleeperIsSignalled
<1>9. Shutdown'
  BY DEF PoolInv, Shutdown
<1> QED  BY <1>1, <1>2, <1>3, <1>4, <1>5, <1>6, <1>7, <1>8, <1>9 DEF PoolInv

\* A thread that is still free goes off the lists; one that is not is busy.
LEMMA RemoveHangThreadInv ==
    ASSUME PoolInv, NEW p \in Threads, RemoveHangThread(p)
    PROVE  PoolInv'
<1> USE RemoveHangThread(p) DEF RemoveHangThread, Goto, poolVars, mainVars
<1>a. /\ ~finalised
      /\ p \in allThreadList
      /\ Distinct(freeThreadList)
      /\ Elements(freeThreadList) \cup busyThreadList = allThreadList
      /\ Elements(freeThreadList) \cap busyThreadList = {}
      /\ currentFreeThreadCount = Len(freeThreadList)
      /\ currentThreadCount = Cardinality(allThreadList)
  BY DEF PoolInv, CountsMatchLists, MembersExist, Shutdown
<1>b. InSeq(p, freeThreadList) <=> p \in Elements(freeThreadList)
  BY DEF InSeq, Elements
<1>1. CASE p \in Elements(freeThreadList)
  <2>a. /\ freeThreadList' = SeqWithout(freeThreadList, p)
        /\ allThreadList' = allThreadList \ {p}
        /\ currentThreadCount' = currentThreadCount - 1
        /\ currentFreeThreadCount' = currentFreeThreadCount - 1
        /\ timed' = [timed EXCEPT ![p] = FALSE]
        /\ pc' = [pc EXCEPT ![p] = "absent"]
    BY <1>1, <1>a, <1>b
  <2>b. PICK f : f = freeThreadList
    OBVIOUS
  <2>c. /\ SeqWithout(f, p) \in Seq(Threads)
        /\ Len(SeqWithout(f, p)) = Len(f) - 1
        /\ Len(f) \in Nat /\ Len(f) >= 1
        /\ Distinct(SeqWithout(f, p))
        /\ Elements(SeqWithout(f, p)) = Elements(f) \ {p}
    BY <1>1, <1>a, <2>b, DistinctWithout, LenProperties DEF PoolInv, TypeOK
  <2>d. PICK g : g = SeqWithout(f, p)
    OBVIOUS
  <2>e. freeThreadList' = g
    BY <2>a, <2>b, <2>d
  <2>f. /\ Cardinality(allThreadList) \in Nat \ {0}
        /\ Cardinality(allThreadList \ {p}) = Cardinality(allThreadList) - 1
    <3>1. IsFiniteSet(allThreadList)
      BY ThreadsAssumption, FS_Subset DEF PoolInv, TypeOK
    <3>2. Cardinality(allThreadList) \in Nat /\ Cardinality(allThreadList) # 0
      BY <1>a, <3>1, FS_CardinalityType, FS_EmptySet
    <3>3. Cardinality(allThreadList \ {p}) = Cardinality(allThreadList) - 1
      BY <1>a, <3>1, FS_RemoveElement
    <3> QED  BY <3>2, <3>3
  <2>g. /\ Distinct(freeThreadList)'
        /\ Elements(freeThreadList)' = Elements(freeThreadList) \ {p}
        /\ Len(freeThreadList') = Len(freeThreadList) - 1
    <3>1. Distinct(g) /\ Elements(g) = Elements(f) \ {p} /\ Len(g) = Len(f) - 1
      BY <2>c, <2>d
    <3>2. Distinct(freeThreadList)'
      BY <2>e, <3>1 DEF Distinct
    <3>3. Elements(freeThreadList)' = Elements(g)
      BY <2>e DEF Elements
    <3>4. Elements(f) = Elements(freeThreadList) /\ Len(f) = Len(freeThreadList)
      BY <2>b
    <3> QED  BY <2>e, <3>1, <3>2, <3>3, <3>4
  <2>1. TypeOK'
    BY <1>a, <2>a, <2>b, <2>c, <2>d, <2>e, <2>f DEF PoolInv, TypeOK, PCs
  <2>2. CountsMatchLists'
    BY <1>1, <1>a, <2>a, <2>f, <2>g DEF PoolInv, TypeOK, CountsMatchLists
  <2>3. MembersExist'
    BY <2>a DEF PoolInv, TypeOK, MembersExist
  <2>4. TaskByPlace'
    BY <2>a DEF PoolInv, TypeOK, TaskByPlace
  <2>5. TaskByList'
    BY <2>a DEF PoolInv, TypeOK, TaskByList
  <2>6. WorkersAreBusy'
    BY <2>a DEF PoolInv, TypeOK, WorkersAreBusy, Working
  <2>7. LeaversAreBusy'
    BY <2>a DEF PoolInv, TypeOK, LeaversAreBusy
  <2>8. AssignedSleeperIsSignalled'
    BY <2>a DEF PoolInv, TypeOK, AssignedSleeperIsSignalled
  <2>9. Shutdown'
    BY <1>a, <2>a DEF PoolInv, Shutdown
  <2> QED  BY <2>1, <2>2, <2>3, <2>4, <2>5, <2>6, <2>7, <2>8, <2>9 DEF PoolInv
<1>2. CASE p \notin Elements(freeThreadList)
  <2>a. /\ p \in busyThreadList
        /\ pc' = [pc EXCEPT ![p] = "exit"]
        /\ UNCHANGED <<freeThreadList, allThreadList, currentThreadCount,
                       currentFreeThreadCount, timed>>
    BY <1>2, <1>a, <1>b
  <2>1. TypeOK'
    BY <2>a DEF PoolInv, TypeOK, PCs
  <2>2. CountsMatchLists'
    BY <2>a DEF PoolInv, TypeOK, CountsMatchLists
  <2>3. MembersExist'
    BY <2>a DEF PoolInv, TypeOK, MembersExist
  <2>4. TaskByPlace'
    BY <2>a DEF PoolInv, TypeOK, TaskByPlace
  <2>5. TaskByList'
    BY <2>a DEF PoolInv, TypeOK, TaskByList
  <2>6. WorkersAreBusy'
    BY <2>a DEF PoolInv, TypeOK, WorkersAreBusy, Working
  <2>7. LeaversAreBusy'
    BY <2>a DEF PoolInv, TypeOK, LeaversAreBusy
  <2>8. AssignedSleeperIsSignalled'
    BY <2>a DEF PoolInv, TypeOK, AssignedSleeperIsSignalled
  <2>9. Shutdown'
    BY <2>a DEF PoolInv, Shutdown
  <2> QED  BY <2>1, <2>2, <2>3, <2>4, <2>5, <2>6, <2>7, <2>8, <2>9 DEF PoolInv
<1> QED  BY <1>1, <1>2

-----------------------------------------------------------------------------
(***************************************************************************)
(* addTask                                                                 *)
(***************************************************************************)

\* What the main thread leaves alone while it adds a task.
WhileAdding ==
    /\ ~isDestroyed
    /\ UNCHANGED <<finiTaskList, task1, isDestroyed, finalised>>
    /\ finitasks' \in Seq(Tasks)
    /\ live' \in SUBSET Tasks
    /\ lost' \in SUBSET Tasks

\* The thread at the front of the free list has no task and has not left.
LEMMA GiveToFreeThreadInv ==
    ASSUME PoolInv, WhileAdding, NEW t \in Tasks, GiveToFreeThread(t)
    PROVE  PoolInv'
<1> USE WhileAdding DEF WhileAdding
<1>a. /\ ~finalised
      /\ Distinct(freeThreadList)
      /\ Elements(freeThreadList) \cup busyThreadList = allThreadList
      /\ Elements(freeThreadList) \cap busyThreadList = {}
      /\ currentFreeThreadCount = Len(freeThreadList)
      /\ currentThreadCount = Cardinality(allThreadList)
  BY DEF PoolInv, CountsMatchLists, Shutdown
<1>b. PICK f : f = freeThreadList
  OBVIOUS
<1>c. PICK p : p = Head(f)
  OBVIOUS
<1>d. /\ currentFreeThreadCount > 0
      /\ freeThreadList' = Tail(f)
      /\ busyThreadList' = busyThreadList \cup {p}
      /\ currentFreeThreadCount' = currentFreeThreadCount - 1
      /\ currTask' = [currTask EXCEPT ![p] = t]
      /\ signalled' = [signalled EXCEPT ![p] = TRUE]
      /\ UNCHANGED <<bufferedTaskList, allThreadList, currentThreadCount, pc, timed>>
  BY <1>b, <1>c, GiveToFreeThread(t) DEF GiveToFreeThread
<1>e. /\ Tail(f) \in Seq(Threads)
      /\ Len(Tail(f)) = Len(f) - 1
      /\ Distinct(Tail(f))
      /\ Elements(Tail(f)) = Elements(f) \ {p}
      /\ p \in Elements(f)
      /\ p \in Threads
  <2>1. f \in Seq(Threads) /\ f # <<>> /\ Distinct(f)
    BY <1>a, <1>b, <1>d, EmptySeq DEF PoolInv, TypeOK
  <2> QED  BY <2>1, <1>c, DistinctTail
<1>f. /\ Distinct(freeThreadList)'
      /\ Elements(freeThreadList)' = Elements(freeThreadList) \ {p}
      /\ Len(freeThreadList') = Len(freeThreadList) - 1
      /\ p \in Elements(freeThreadList)
  <2>1. PICK g : g = Tail(f)
    OBVIOUS
  <2>2. freeThreadList' = g
    BY <1>d, <2>1
  <2>3. Distinct(g) /\ Elements(g) = Elements(f) \ {p} /\ Len(g) = Len(f) - 1
    BY <1>e, <2>1
  <2>4. Distinct(freeThreadList)'
    BY <2>2, <2>3 DEF Distinct
  <2>5. Elements(freeThreadList)' = Elements(g)
    BY <2>2 DEF Elements
  <2>6. Elements(f) = Elements(freeThreadList) /\ Len(f) = Len(freeThreadList)
    BY <1>b
  <2> QED  BY <1>e, <2>2, <2>3, <2>4, <2>5, <2>6
<1>g. p \notin busyThreadList
  BY <1>a, <1>f
<1>1. TypeOK'
  BY <1>d, <1>e DEF PoolInv, TypeOK
<1>2. CountsMatchLists'
  BY <1>a, <1>d, <1>f DEF PoolInv, TypeOK, CountsMatchLists
<1>3. MembersExist'
  BY <1>d DEF PoolInv, TypeOK, MembersExist
<1>4. TaskByPlace'
  <2>1. pc[p] \notin Working
    BY <1>a, <1>e, <1>g DEF PoolInv, WorkersAreBusy
  <2> QED  BY <1>d, <1>e, <2>1, ThreadsAssumption DEF PoolInv, TypeOK, TaskByPlace, Working
<1>5. TaskByList'
  BY <1>d, <1>e, ThreadsAssumption DEF PoolInv, TypeOK, TaskByList
<1>6. WorkersAreBusy'
  BY <1>d DEF PoolInv, TypeOK, WorkersAreBusy
<1>7. LeaversAreBusy'
  BY <1>d DEF PoolInv, TypeOK, LeaversAreBusy
<1>8. AssignedSleeperIsSignalled'
  BY <1>d, <1>e DEF PoolInv, TypeOK, AssignedSleeperIsSignalled
<1>9. Shutdown'
  BY DEF PoolInv, Shutdown
<1> QED  BY <1>1, <1>2, <1>3, <1>4, <1>5, <1>6, <1>7, <1>8, <1>9 DEF PoolInv

LEMMA BufferOnlyInv ==
    ASSUME PoolInv, WhileAdding, NEW t \in Tasks, BufferOnly(t)
    PROVE  PoolInv'
<1> USE WhileAdding, BufferOnly(t) DEF WhileAdding, BufferOnly, poolVars
<1>a. Append(bufferedTaskList, t) \in Seq(Tasks)
  BY AppendProperties DEF PoolInv, TypeOK
<1>1. TypeOK'
  BY <1>a DEF PoolInv, TypeOK
<1>2. CountsMatchLists'
  BY DEF PoolInv, TypeOK, CountsMatchLists
<1>3. MembersExist'
  BY DEF PoolInv, TypeOK, MembersExist
<1>4. TaskByPlace'
  BY DEF PoolInv, TypeOK, TaskByPlace
<1>5. TaskByList'
  BY DEF PoolInv, TypeOK, TaskByList
<1>6. WorkersAreBusy'
  BY DEF PoolInv, TypeOK, WorkersAreBusy
<1>7. LeaversAreBusy'
  BY DEF PoolInv, TypeOK, LeaversAreBusy
<1>8. AssignedSleeperIsSignalled'
  BY DEF PoolInv, TypeOK, AssignedSleeperIsSignalled
<1>9. Shutdown'
  BY DEF PoolInv, Shutdown
<1> QED  BY <1>1, <1>2, <1>3, <1>4, <1>5, <1>6, <1>7, <1>8, <1>9 DEF PoolInv

\* The new threads were absent, so on no list; they are counted twice over.
LEMMA BufferAndGrowInv ==
    ASSUME PoolInv, WhileAdding, NEW t \in Tasks, BufferAndGrow(t)
    PROVE  PoolInv'
<1> USE WhileAdding DEF WhileAdding
<1>a. /\ ~finalised
      /\ Distinct(freeThreadList)
      /\ Elements(freeThreadList) \cup busyThreadList = allThreadList
      /\ Elements(freeThreadList) \cap busyThreadList = {}
      /\ currentFreeThreadCount = Len(freeThreadList)
      /\ currentThreadCount = Cardinality(allThreadList)
  BY DEF PoolInv, CountsMatchLists, Shutdown
<1>b. PICK f : f = freeThreadList
  OBVIOUS
<1>c. PICK s \in [1 .. extraNewAddThreadCount -> {p \in Threads : pc[p] = "absent"}] :
        /\ Distinct(s)
        /\ allThreadList' = allThreadList \cup Elements(s)
        /\ freeThreadList' = f \o s
        /\ pc' = [p \in Threads |-> IF p \in Elements(s) THEN "top" ELSE pc[p]]
        /\ timed' = [p \in Threads |-> p \in Elements(s) \/ timed[p]]
        /\ signalled' = [p \in Threads |-> p \notin Elements(s) /\ signalled[p]]
        /\ currentThreadCount' = currentThreadCount + extraNewAddThreadCount
        /\ currentFreeThreadCount' = currentFreeThreadCount + extraNewAddThreadCount
  BY <1>b, BufferAndGrow(t) DEF BufferAndGrow, Elements
<1>d. PICK new : new = Elements(s)
  OBVIOUS
<1>e. /\ bufferedTaskList' = Append(bufferedTaskList, t)
      /\ Append(bufferedTaskList, t) \in Seq(Tasks)
      /\ UNCHANGED <<busyThreadList, currTask>>
  BY BufferAndGrow(t), AppendProperties DEF BufferAndGrow, PoolInv, TypeOK
<1>f. /\ s \in Seq(Threads)
      /\ Len(s) = extraNewAddThreadCount
      /\ new \subseteq Threads
      /\ IsFiniteSet(new)
      /\ Cardinality(new) = extraNewAddThreadCount
  <2>1. s \in [1 .. extraNewAddThreadCount -> Threads]
    OBVIOUS
  <2> QED  BY <1>c, <1>d, <2>1, CountsAssumption, DistinctCount
<1>g. \A p \in new : pc[p] = "absent" /\ p \notin allThreadList
  BY <1>d, <1>f DEF Elements, PoolInv, MembersExist
<1>h. \A p \in new : currTask[p] = NULL /\ task1[p] = NULL
  BY <1>a, <1>f, <1>g DEF PoolInv, TypeOK, TaskByPlace, TaskByList
<1>i. /\ f \o s \in Seq(Threads)
      /\ Len(f \o s) = Len(f) + extraNewAddThreadCount
      /\ Distinct(f \o s)
      /\ Elements(f \o s) = Elements(f) \cup new
  <2>1. f \in Seq(Threads) /\ Distinct(f) /\ Elements(f) \cap Elements(s) = {}
    BY <1>a, <1>b, <1>d, <1>g DEF PoolInv, TypeOK
  <2> QED  BY <2>1, <1>c, <1>d, <1>f, DistinctConcat
<1>j. /\ Distinct(freeThreadList)'
      /\ Elements(freeThreadList)' = Elements(freeThreadList) \cup new
      /\ Len(freeThreadList') = Len(freeThreadList) + extraNewAddThreadCount
  <2>1. PICK g : g = f \o s
    OBVIOUS
  <2>2. freeThreadList' = g
    BY <1>c, <2>1
  <2>3. /\ Distinct(g)
        /\ Elements(g) = Elements(f) \cup new
        /\ Len(g) = Len(f) + extraNewAddThreadCount
    BY <1>i, <2>1
  <2>4. Distinct(freeThreadList)'
    BY <2>2, <2>3 DEF Distinct
  <2>5. Elements(freeThreadList)' = Elements(g)
    BY <2>2 DEF Elements
  <2>6. Elements(f) = Elements(freeThreadList) /\ Len(f) = Len(freeThreadList)
    BY <1>b
  <2> QED  BY <2>2, <2>3, <2>4, <2>5, <2>6
<1>k. Cardinality(allThreadList \cup new) = Cardinality(allThreadList) + extraNewAddThreadCount
  <2>1. IsFiniteSet(allThreadList) /\ Cardinality(allThreadList) \in Nat
    BY ThreadsAssumption, FS_Subset, FS_CardinalityType DEF PoolInv, TypeOK
  <2>2. allThreadList \cap new = {}
    BY <1>g
  <2>3. Cardinality(allThreadList \cup new)
          = Cardinality(allThreadList) + Cardinality(new) - Cardinality(allThreadList \cap new)
    BY <2>1, <1>f, FS_Union
  <2>4. Cardinality(allThreadList \cap new) = 0
    BY <2>2, FS_EmptySet
  <2>5. extraNewAddThreadCount \in Nat
    BY CountsAssumption
  <2> QED  BY <2>1, <2>3, <2>4, <2>5, <1>f
<1>l. /\ allThreadList' = allThreadList \cup new
      /\ pc' = [p \in Threads |-> IF p \in new THEN "top" ELSE pc[p]]
      /\ timed' = [p \in Threads |-> p \in new \/ timed[p]]
      /\ signalled' = [p \in Threads |-> p \notin new /\ signalled[p]]
  BY <1>c, <1>d
<1>1. TypeOK'
  BY <1>c, <1>e, <1>f, <1>i, <1>l, CountsAssumption DEF PoolInv, TypeOK, PCs
<1>2. CountsMatchLists'
  BY <1>a, <1>c, <1>e, <1>g, <1>j, <1>k, <1>l DEF PoolInv, TypeOK, CountsMatchLists
<1>3. MembersExist'
  BY <1>e, <1>g, <1>h, <1>l DEF PoolInv, TypeOK, MembersExist
<1>4. TaskByPlace'
  BY <1>e, <1>g, <1>h, <1>l DEF PoolInv, TypeOK, TaskByPlace
<1>5. TaskByList'
  BY <1>e, <1>g, <1>h, <1>l DEF PoolInv, TypeOK, TaskByList
<1>6. WorkersAreBusy'
  BY <1>e, <1>g, <1>h, <1>l DEF PoolInv, TypeOK, WorkersAreBusy, Working
<1>7. LeaversAreBusy'
  BY <1>e, <1>g, <1>h, <1>l DEF PoolInv, TypeOK, LeaversAreBusy
<1>8. AssignedSleeperIsSignalled'
  BY <1>e, <1>g, <1>h, <1>l DEF PoolInv, TypeOK, AssignedSleeperIsSignalled
<1>9. Shutdown'
  BY DEF PoolInv, Shutdown
<1> QED  BY <1>1, <1>2, <1>3, <1>4, <1>5, <1>6, <1>7, <1>8, <1>9 DEF PoolInv

LEMMA AddTaskBodyInv ==
    ASSUME PoolInv, WhileAdding, NEW t \in Tasks, AddTaskBody(t)
    PROVE  PoolInv'
BY GiveToFreeThreadInv, BufferOnlyInv, BufferAndGrowInv DEF AddTaskBody

LEMMA AddTaskInv ==
    ASSUME PoolInv, NEW t \in Tasks, AddTask(t)
    PROVE  PoolInv'
<1>1. WhileAdding
  BY AddTask(t) DEF AddTask, MainThreadIdle, mainVars, WhileAdding, PoolInv, TypeOK
<1> QED  BY <1>1, AddTask(t), AddTaskBodyInv DEF AddTask

LEMMA PresentContinueChildInv ==
    ASSUME PoolInv, PresentContinueChild
    PROVE  PoolInv'
<1> USE PresentContinueChild DEF PresentContinueChild
<1>1. Head(finitasks) \in Tasks /\ Tail(finitasks) \in Seq(Tasks)
  BY HeadTailProperties DEF PoolInv, TypeOK
<1>2. WhileAdding
  BY <1>1 DEF WhileAdding, PoolInv, TypeOK, Shutdown
<1> QED  BY <1>1, <1>2, AddTaskBodyInv

-----------------------------------------------------------------------------
(***************************************************************************)
(* The invariant holds                                                     *)
(***************************************************************************)

LEMMA InitInv == Init => PoolInv
<1> SUFFICES ASSUME Init  PROVE PoolInv
  OBVIOUS
<1> USE DEF Init
<1>1. PICK s \in [1 .. normalThreadCount -> Threads] :
        Distinct(s) /\ freeThreadList = s /\ allThreadList = Elements(s)
  BY DEF Elements
<1>2. /\ s \in Seq(Threads)
      /\ Len(s) = normalThreadCount
      /\ Elements(s) \subseteq Threads
      /\ Cardinality(Elements(s)) = normalThreadCount
      /\ normalThreadCount \in Nat
  BY <1>1, CountsAssumption, DistinctCount
<1>3. TypeOK
  BY <1>1, <1>2, EmptySeq DEF TypeOK, PCs
<1>4. CountsMatchLists
  BY <1>1, <1>2 DEF CountsMatchLists
<1>5. MembersExist /\ TaskByPlace /\ TaskByList /\ WorkersAreBusy /\ LeaversAreBusy
  BY DEF MembersExist, TaskByPlace, TaskByList, WorkersAreBusy, Working, LeaversAreBusy
<1>6. AssignedSleeperIsSignalled /\ Shutdown
  BY DEF AssignedSleeperIsSignalled, Shutdown
<1> QED  BY <1>3, <1>4, <1>5, <1>6 DEF PoolInv

LEMMA StutterInv == PoolInv /\ UNCHANGED vars => PoolInv'
<1> SUFFICES ASSUME PoolInv, UNCHANGED vars  PROVE PoolInv'
  OBVIOUS
<1> USE DEF vars, poolVars, mainVars
<1>1. TypeOK' /\ CountsMatchLists'
  BY DEF PoolInv, TypeOK, CountsMatchLists, Distinct, Elements
<1>2. MembersExist' /\ TaskByPlace' /\ TaskByList'
  BY DEF PoolInv, MembersExist, TaskByPlace, TaskByList
<1>3. WorkersAreBusy' /\ LeaversAreBusy' /\ AssignedSleeperIsSignalled' /\ Shutdown'
  BY DEF PoolInv, WorkersAreBusy, LeaversAreBusy, AssignedSleeperIsSignalled, Shutdown
<1> QED  BY <1>1, <1>2, <1>3 DEF PoolInv

LEMMA NextInv == PoolInv /\ [Next]_vars => PoolInv'
<1> SUFFICES ASSUME PoolInv, [Next]_vars  PROVE PoolInv'
  OBVIOUS
<1>1. ASSUME NEW t \in Tasks, AddTask(t)  PROVE PoolInv'
  BY <1>1, AddTaskInv
<1>2. CASE TickTake \/ PresentCompleted \/ PresentContinueChild \/ PresentContinueMain
  BY <1>2, TickTakeInv, PresentCompletedInv, PresentContinueChildInv, PresentContinueMainInv
<1>3. CASE DestroyBegin \/ DestroySignal \/ DestroyEnd
  BY <1>3, DestroyBeginInv, DestroySignalInv, DestroyEndInv
<1>4. ASSUME NEW p \in Threads, ThreadStep(p)  PROVE PoolInv'
  <2>1. CASE LoopTop(p) \/ EnterWait(p) \/ WaitSignalled(p) \/ WaitTimeout(p)
    BY <2>1, LoopTopInv, EnterWaitInv, WaitSignalledInv, WaitTimeoutInv
  <2>2. CASE ResetEvent(p) \/ RemoveHangThread(p) \/ Check(p) \/ ProcessTask(p)
    BY <2>2, ResetEventInv, RemoveHangThreadInv, CheckInv, ProcessTaskInv
  <2>3. CASE TryGetTask(p) \/ ChainTask(p) \/ CompleteTask(p)
    BY <2>3, TryGetTaskInv, ChainTaskInv, CompleteTaskInv
  <2>4. CASE AddFreeThread(p) \/ ThreadEnd(p)
    BY <2>4, AddFreeThreadInv, ThreadEndInv
  <2> QED  BY <1>4, <2>1, <2>2, <2>3, <2>4 DEF ThreadStep
<1>5. CASE UNCHANGED vars
  BY <1>5, StutterInv
<1> QED  BY <1>1, <1>2, <1>3, <1>4, <1>5 DEF Next, MainStep, Present

\* The lists, the counters, the places of the threads and their tasks agree in every
\* reachable state of the pool.
THEOREM Invariant == Spec => []PoolInv
BY InitInv, NextInv, PTL DEF Spec

\* Type correctness: the variables of the pool, of its threads and of the main thread.
THEOREM TypeCorrect == Spec => []TypeOK
<1>1. PoolInv => TypeOK
  BY DEF PoolInv
<1> QED  BY <1>1, Invariant, PTL

\* addTask, addFreeThread and removeHangThread keep the two counters and the three
\* lists together: addTask never takes the front of an empty free list.
THEOREM CountsMatch == Spec => []CountsMatchLists
<1>1. PoolInv => CountsMatchLists
  BY DEF PoolInv
<1> QED  BY <1>1, Invariant, PTL

\* A free thread has no task and a working one is busy: addFreeThread never deletes
\* the thread that is running it.
THEOREM ListsMatch == Spec => []ListsMatchThreads
<1>1. PoolInv => ListsMatchThreads
  BY DEF PoolInv, TypeOK, CountsMatchLists, TaskByList, TaskByPlace, WorkersAreBusy,
         ListsMatchThreads, Working
<1> QED  BY <1>1, Invariant, PTL

\* No wake-up is lost: a sleeping thread that was given a task has its event set.
THEOREM NoLostWakeUp == Spec => []AssignedSleeperIsSignalled
<1>1. PoolInv => AssignedSleeperIsSignalled
  BY DEF PoolInv
<1> QED  BY <1>1, Invariant, PTL

-----------------------------------------------------------------------------
(***************************************************************************)
(* A pool of permanent threads                                             *)
(***************************************************************************)

\* A pool created at its maximum, as the database pools are, never adds a thread: none
\* times out, so none ends before destroy().
PermanentInv ==
    /\ lost = {}
    /\ currentThreadCount >= maxThreadCount
    /\ \A p \in Threads :
          /\ ~timed[p]
          /\ pc[p] # "timedout"
          /\ pc[p] = "exit" => isDestroyed

LEMMA PermanentInit == normalThreadCount >= maxThreadCount /\ Init => PermanentInv
BY DEF Init, PermanentInv

LEMMA PermanentNext == PoolInv /\ PermanentInv /\ [Next]_vars => PermanentInv'
<1> SUFFICES ASSUME PoolInv, PermanentInv, [Next]_vars  PROVE PermanentInv'
  OBVIOUS
<1> USE DEF PermanentInv, PoolInv, TypeOK, poolVars, mainVars, unchangedButPc, Goto
<1>0. currentThreadCount \in Nat /\ maxThreadCount \in Nat
  BY CountsAssumption
<1>1. ASSUME NEW t \in Tasks, AddTaskBody(t)
      PROVE  UNCHANGED <<currentThreadCount, pc, timed>>
  BY <1>1, <1>0 DEF AddTaskBody, GiveToFreeThread, BufferOnly, BufferAndGrow, isThreadCountMax
<1>2. ASSUME NEW t \in Tasks, AddTask(t)  PROVE PermanentInv'
  BY <1>1, <1>2 DEF AddTask
<1>3. CASE PresentContinueChild
  <2>1. Head(finitasks) \in Tasks
    BY <1>3, HeadTailProperties DEF PresentContinueChild
  <2> QED  BY <1>1, <1>3, <2>1 DEF PresentContinueChild
<1>4. CASE TickTake \/ PresentCompleted \/ PresentContinueMain
  BY <1>4 DEF TickTake, PresentCompleted, PresentContinueMain
<1>5. CASE DestroyBegin \/ DestroySignal \/ DestroyEnd
  BY <1>5 DEF DestroyBegin, DestroySignal, DestroyEnd
<1>6. ASSUME NEW p \in Threads, ThreadStep(p)  PROVE PermanentInv'
  <2>1. CASE LoopTop(p) \/ EnterWait(p) \/ WaitSignalled(p) \/ ResetEvent(p)
    BY <2>1 DEF LoopTop, EnterWait, WaitSignalled, ResetEvent
  <2>2. CASE WaitTimeout(p) \/ RemoveHangThread(p)
    BY <2>2 DEF WaitTimeout, RemoveHangThread
  <2>3. CASE Check(p)
    BY <2>3 DEF Check
  <2>4. CASE ProcessTask(p) \/ TryGetTask(p) \/ ChainTask(p) \/ CompleteTask(p)
    BY <2>4 DEF ProcessTask, TryGetTask, ChainTask, CompleteTask
  <2>5. CASE AddFreeThread(p)
    BY <2>5 DEF AddFreeThread
  <2>6. CASE ThreadEnd(p)
    BY <2>6 DEF ThreadEnd
  <2> QED  BY <1>6, <2>1, <2>2, <2>3, <2>4, <2>5, <2>6 DEF ThreadStep
<1>7. CASE UNCHANGED vars
  BY <1>7 DEF vars
<1> QED  BY <1>2, <1>3, <1>4, <1>5, <1>6, <1>7 DEF Next, MainStep, Present

\* Where no thread may be added (normalThreadCount >= maxThreadCount), no thread leaves
\* the live pool and so no task is deleted unprocessed.
THEOREM PermanentPoolLosesNothing ==
    normalThreadCount >= maxThreadCount => (Spec => []NoTaskLost)
<1> SUFFICES ASSUME normalThreadCount >= maxThreadCount
             PROVE  Spec => []NoTaskLost
  OBVIOUS
<1>1. Init => PermanentInv
  BY PermanentInit
<1>2. PermanentInv => NoTaskLost
  BY DEF PermanentInv, NoTaskLost
<1> QED  BY <1>1, <1>2, PermanentNext, Invariant, PTL DEF Spec

-----------------------------------------------------------------------------
(***************************************************************************)
(* Every task is in exactly one place: given to a thread, popped by a      *)
(* thread, buffered, finished or being presented.                          *)
(***************************************************************************)

-----------------------------------------------------------------------------
(***************************************************************************)
(* How often a task stands in a list                                       *)
(***************************************************************************)

Once(b) == IF b THEN 1 ELSE 0

LEMMA AtCount ==
    ASSUME NEW s \in Seq(Tasks), NEW t
    PROVE  /\ IsFiniteSet(At(t, s))
           /\ Cardinality(At(t, s)) \in Nat
           /\ (Cardinality(At(t, s)) = 0) <=> ~InSeq(t, s)
<1>1. Len(s) \in Nat /\ DOMAIN s = 1 .. Len(s)
  BY LenProperties
<1>2. IsFiniteSet(1 .. Len(s))
  BY <1>1, FS_Interval
<1>3. IsFiniteSet(At(t, s))
  BY <1>1, <1>2, FS_Subset DEF At
<1>4. (At(t, s) = {}) <=> ~InSeq(t, s)
  BY DEF At, InSeq
<1> QED  BY <1>3, <1>4, FS_CardinalityType, FS_EmptySet

LEMMA AtEmpty == \A t : Cardinality(At(t, <<>>)) = 0
<1> SUFFICES ASSUME NEW t PROVE Cardinality(At(t, <<>>)) = 0
  OBVIOUS
<1>1. At(t, <<>>) = {}
  BY DEF At
<1> QED  BY <1>1, FS_EmptySet

LEMMA AtAppend ==
    ASSUME NEW s \in Seq(Tasks), NEW x \in Tasks, NEW t
    PROVE  Cardinality(At(t, Append(s, x))) = Cardinality(At(t, s)) + Once(x = t)
<1>1. /\ Len(s) \in Nat
      /\ DOMAIN s = 1 .. Len(s)
      /\ DOMAIN Append(s, x) = 1 .. Len(s) + 1
      /\ \A i \in 1 .. Len(s) : Append(s, x)[i] = s[i]
      /\ Append(s, x)[Len(s) + 1] = x
  BY LenProperties, AppendProperties
<1>2. At(t, Append(s, x)) = IF x = t THEN At(t, s) \cup {Len(s) + 1} ELSE At(t, s)
  <2>1. \A i \in 1 .. Len(s) + 1 : i \in 1 .. Len(s) \/ i = Len(s) + 1
    BY <1>1
  <2>2. \A i \in 1 .. Len(s) : i \in 1 .. Len(s) + 1
    BY <1>1
  <2>3. Len(s) + 1 \in 1 .. Len(s) + 1
    BY <1>1
  <2> QED  BY <1>1, <2>1, <2>2, <2>3 DEF At
<1>3. Len(s) + 1 \notin At(t, s)
  BY <1>1 DEF At
<1>4. IsFiniteSet(At(t, s)) /\ Cardinality(At(t, s)) \in Nat
  BY AtCount
<1>5. Cardinality(At(t, s) \cup {Len(s) + 1}) = Cardinality(At(t, s)) + 1
  BY <1>3, <1>4, FS_AddElement
<1> QED  BY <1>2, <1>4, <1>5 DEF Once

LEMMA AtTail ==
    ASSUME NEW s \in Seq(Tasks), s # <<>>, NEW t
    PROVE  Cardinality(At(t, s)) = Cardinality(At(t, Tail(s))) + Once(Head(s) = t)
<1>1. /\ Len(s) \in Nat \ {0}
      /\ DOMAIN s = 1 .. Len(s)
      /\ Head(s) = s[1]
      /\ Tail(s) \in Seq(Tasks)
      /\ DOMAIN Tail(s) = 1 .. Len(s) - 1
      /\ \A i \in 1 .. Len(s) - 1 : Tail(s)[i] = s[i + 1]
  BY LenProperties, EmptySeq, HeadTailProperties
<1> DEFINE shift == [i \in At(t, Tail(s)) |-> i + 1]
<1>2. \A i \in At(t, Tail(s)) : i \in 1 .. Len(s) - 1 /\ i + 1 \in At(t, s) \ {1}
  BY <1>1 DEF At
<1>3. \A j \in At(t, s) \ {1} : j - 1 \in At(t, Tail(s)) /\ j = (j - 1) + 1
  BY <1>1 DEF At
<1>4. shift \in Bijection(At(t, Tail(s)), At(t, s) \ {1})
  <2>1. shift \in [At(t, Tail(s)) -> At(t, s) \ {1}]
    BY <1>2
  <2>2. \A i, j \in At(t, Tail(s)) : shift[i] = shift[j] => i = j
    BY <1>2
  <2>3. \A j \in At(t, s) \ {1} : \E i \in At(t, Tail(s)) : shift[i] = j
    BY <1>3
  <2> QED  BY <2>1, <2>2, <2>3 DEF Bijection, Injection, IsInjective, Surjection
<1>5. IsFiniteSet(At(t, Tail(s))) /\ Cardinality(At(t, Tail(s))) \in Nat
  BY <1>1, AtCount
<1>6. Cardinality(At(t, s) \ {1}) = Cardinality(At(t, Tail(s)))
  BY <1>4, <1>5, FS_Bijection DEF ExistsBijection
<1>7. IsFiniteSet(At(t, s)) /\ Cardinality(At(t, s)) \in Nat
  BY AtCount
<1>8. Cardinality(At(t, s) \ {1})
        = IF 1 \in At(t, s) THEN Cardinality(At(t, s)) - 1 ELSE Cardinality(At(t, s))
  BY <1>7, FS_RemoveElement
<1>9. 1 \in At(t, s) <=> Head(s) = t
  BY <1>1 DEF At
<1> QED  BY <1>5, <1>6, <1>7, <1>8, <1>9 DEF Once

-----------------------------------------------------------------------------
(***************************************************************************)
(* The five counts of a task, and how a step changes one of them           *)
(***************************************************************************)

\* The places of t, counted.
Counted(t, h, q, b, f, m) ==
    /\ h \in Nat /\ q \in Nat /\ b \in Nat /\ f \in Nat /\ m \in Nat
    /\ h = Cardinality(InHand(t))
    /\ q = Cardinality(Popped(t))
    /\ b = Cardinality(At(t, bufferedTaskList))
    /\ f = Cardinality(At(t, finiTaskList))
    /\ m = Cardinality(At(t, finitasks))

InOnePlace(t) ==
    Cardinality(InHand(t)) + Cardinality(Popped(t))
      + Cardinality(At(t, bufferedTaskList)) + Cardinality(At(t, finiTaskList))
      + Cardinality(At(t, finitasks))
    = IF t \in live THEN 1 ELSE 0

HasCounts(t) == \E h, q, b, f, m : Counted(t, h, q, b, f, m)

LEMMA CountsExist == ASSUME TypeOK, NEW t PROVE HasCounts(t)
<1>1. IsFiniteSet(InHand(t)) /\ IsFiniteSet(Popped(t))
  BY ThreadsAssumption, FS_Subset DEF InHand, Popped
<1>2. Cardinality(InHand(t)) \in Nat /\ Cardinality(Popped(t)) \in Nat
  BY <1>1, FS_CardinalityType
<1>3. /\ Cardinality(At(t, bufferedTaskList)) \in Nat
      /\ Cardinality(At(t, finiTaskList)) \in Nat
      /\ Cardinality(At(t, finitasks)) \in Nat
  BY AtCount DEF TypeOK
<1> QED  BY <1>2, <1>3 DEF HasCounts, Counted

LEMMA Buffered ==
    ASSUME TypeOK, NEW t, NEW x \in Tasks, bufferedTaskList' = Append(bufferedTaskList, x)
    PROVE  Cardinality(At(t, bufferedTaskList))'
             = Cardinality(At(t, bufferedTaskList)) + Once(x = t)
<1>1. PICK s \in Seq(Tasks) : s = bufferedTaskList
  BY DEF TypeOK
<1>2. PICK r : r = Append(s, x)
  OBVIOUS
<1>3. Cardinality(At(t, r)) = Cardinality(At(t, s)) + Once(x = t)
  BY <1>2, AtAppend
<1>4. bufferedTaskList' = r
  BY <1>1, <1>2
<1>5. At(t, bufferedTaskList)' = At(t, r)
  BY <1>4 DEF At
<1> QED  BY <1>1, <1>3, <1>5

LEMMA Finished ==
    ASSUME TypeOK, NEW t, NEW x \in Tasks, finiTaskList' = Append(finiTaskList, x)
    PROVE  Cardinality(At(t, finiTaskList))'
             = Cardinality(At(t, finiTaskList)) + Once(x = t)
<1>1. PICK s \in Seq(Tasks) : s = finiTaskList
  BY DEF TypeOK
<1>2. PICK r : r = Append(s, x)
  OBVIOUS
<1>3. Cardinality(At(t, r)) = Cardinality(At(t, s)) + Once(x = t)
  BY <1>2, AtAppend
<1>4. finiTaskList' = r
  BY <1>1, <1>2
<1>5. At(t, finiTaskList)' = At(t, r)
  BY <1>4 DEF At
<1> QED  BY <1>1, <1>3, <1>5

LEMMA Unbuffered ==
    ASSUME TypeOK, NEW t, bufferedTaskList # <<>>,
           NEW x, x = Head(bufferedTaskList), bufferedTaskList' = Tail(bufferedTaskList)
    PROVE  Cardinality(At(t, bufferedTaskList))' = Cardinality(At(t, bufferedTaskList)) + (-Once(x = t))
<1>1. PICK s \in Seq(Tasks) : s = bufferedTaskList
  BY DEF TypeOK
<1>2. PICK r : r = Tail(s)
  OBVIOUS
<1>3. Cardinality(At(t, s)) = Cardinality(At(t, r)) + Once(x = t)
  BY <1>1, <1>2, AtTail
<1>4. bufferedTaskList' = r
  BY <1>1, <1>2
<1>5. At(t, bufferedTaskList)' = At(t, r)
  BY <1>4 DEF At
<1>6. Cardinality(At(t, r)) = Cardinality(At(t, s)) + (-Once(x = t))
  <2>1. r \in Seq(Tasks)
    BY <1>1, <1>2, HeadTailProperties
  <2>2. Cardinality(At(t, s)) \in Nat /\ Cardinality(At(t, r)) \in Nat
    BY <2>1, AtCount
  <2> QED  BY <1>3, <2>2 DEF Once
<1> QED  BY <1>1, <1>5, <1>6

LEMMA Presented ==
    ASSUME TypeOK, NEW t, finitasks # <<>>,
           NEW x, x = Head(finitasks), finitasks' = Tail(finitasks)
    PROVE  Cardinality(At(t, finitasks))' = Cardinality(At(t, finitasks)) + (-Once(x = t))
<1>1. PICK s \in Seq(Tasks) : s = finitasks
  BY DEF TypeOK
<1>2. PICK r : r = Tail(s)
  OBVIOUS
<1>3. Cardinality(At(t, s)) = Cardinality(At(t, r)) + Once(x = t)
  BY <1>1, <1>2, AtTail
<1>4. finitasks' = r
  BY <1>1, <1>2
<1>5. At(t, finitasks)' = At(t, r)
  BY <1>4 DEF At
<1>6. Cardinality(At(t, r)) = Cardinality(At(t, s)) + (-Once(x = t))
  <2>1. r \in Seq(Tasks)
    BY <1>1, <1>2, HeadTailProperties
  <2>2. Cardinality(At(t, s)) \in Nat /\ Cardinality(At(t, r)) \in Nat
    BY <2>1, AtCount
  <2> QED  BY <1>3, <2>2 DEF Once
<1> QED  BY <1>1, <1>5, <1>6

\* The counts of t change by dh, dq, db, df and dm, and t is created or deleted
\* accordingly.
Moves(t, dh, dq, db, df, dm) ==
    /\ dh \in Int /\ dq \in Int /\ db \in Int /\ df \in Int /\ dm \in Int
    /\ Cardinality(InHand(t))' = Cardinality(InHand(t)) + dh
    /\ Cardinality(Popped(t))' = Cardinality(Popped(t)) + dq
    /\ Cardinality(At(t, bufferedTaskList))' = Cardinality(At(t, bufferedTaskList)) + db
    /\ Cardinality(At(t, finiTaskList))' = Cardinality(At(t, finiTaskList)) + df
    /\ Cardinality(At(t, finitasks))' = Cardinality(At(t, finitasks)) + dm
    /\ (IF t \in live' THEN 1 ELSE 0)
         = (IF t \in live THEN 1 ELSE 0) + dh + dq + db + df + dm

LEMMA Moved ==
    ASSUME TypeOK, EachTaskInOnePlace, NEW t \in Tasks,
           NEW dh, NEW dq, NEW db, NEW df, NEW dm, Moves(t, dh, dq, db, df, dm)
    PROVE  InOnePlace(t)'
<1>1. PICK h, q, b, f, m : Counted(t, h, q, b, f, m)
  BY CountsExist DEF HasCounts
<1>2. h + q + b + f + m = IF t \in live THEN 1 ELSE 0
  BY <1>1 DEF EachTaskInOnePlace, Counted
<1>3. (h + dh) + (q + dq) + (b + db) + (f + df) + (m + dm) = IF t \in live' THEN 1 ELSE 0
  BY <1>1, <1>2 DEF Counted, Moves
<1> QED  BY <1>1, <1>3 DEF InOnePlace, Counted, Moves

\* A list that stays as it is.
LEMMA SameList ==
    ASSUME TypeOK, NEW t
    PROVE  /\ bufferedTaskList' = bufferedTaskList =>
                 Cardinality(At(t, bufferedTaskList))' = Cardinality(At(t, bufferedTaskList)) + 0
           /\ finiTaskList' = finiTaskList =>
                 Cardinality(At(t, finiTaskList))' = Cardinality(At(t, finiTaskList)) + 0
           /\ finitasks' = finitasks =>
                 Cardinality(At(t, finitasks))' = Cardinality(At(t, finitasks)) + 0
           /\ task1' = task1 =>
                 Cardinality(Popped(t))' = Cardinality(Popped(t)) + 0
           /\ InHand(t)' = InHand(t) =>
                 Cardinality(InHand(t))' = Cardinality(InHand(t)) + 0
<1>1. PICK h, q, b, f, m : Counted(t, h, q, b, f, m)
  BY CountsExist DEF HasCounts
<1>2. bufferedTaskList' = bufferedTaskList =>
        At(t, bufferedTaskList)' = At(t, bufferedTaskList)
  BY DEF At
<1>3. finiTaskList' = finiTaskList => At(t, finiTaskList)' = At(t, finiTaskList)
  BY DEF At
<1>4. finitasks' = finitasks => At(t, finitasks)' = At(t, finitasks)
  BY DEF At
<1>5. task1' = task1 => Popped(t)' = Popped(t)
  BY DEF Popped
<1> QED  BY <1>1, <1>2, <1>3, <1>4, <1>5 DEF Counted

-----------------------------------------------------------------------------
(***************************************************************************)
(* The steps that move no task                                             *)
(***************************************************************************)

LEMMA NoTaskMoves ==
    ASSUME EachTaskInOnePlace,
           UNCHANGED <<task1, bufferedTaskList, finiTaskList, finitasks, live>>,
           \A t \in Tasks : InHand(t)' = InHand(t)
    PROVE  EachTaskInOnePlace'
<1>1. \A t \in Tasks : Popped(t)' = Popped(t)
  BY DEF Popped
<1>2. \A t \in Tasks : /\ At(t, bufferedTaskList)' = At(t, bufferedTaskList)
                       /\ At(t, finiTaskList)' = At(t, finiTaskList)
                       /\ At(t, finitasks)' = At(t, finitasks)
  BY DEF At
<1> QED  BY <1>1, <1>2 DEF EachTaskInOnePlace

\* A thread that goes on with the loop keeps what it has in hand.
LEMMA MovesOn ==
    ASSUME TypeOK, EachTaskInOnePlace, NEW p \in Threads, NEW l,
           pc[p] \notin {"absent", "end"}, l \notin {"absent", "end"},
           pc' = [pc EXCEPT ![p] = l],
           UNCHANGED <<currTask, task1, bufferedTaskList, finiTaskList, finitasks, live>>
    PROVE  EachTaskInOnePlace'
<1>1. \A t \in Tasks : InHand(t)' = InHand(t)
  BY DEF InHand, TypeOK
<1> QED  BY <1>1, NoTaskMoves

LEMMA ThreadRestsPlaces ==
    ASSUME PoolInv, EachTaskInOnePlace, NEW p \in Threads,
           \/ LoopTop(p) \/ EnterWait(p) \/ WaitSignalled(p) \/ WaitTimeout(p)
           \/ ResetEvent(p) \/ Check(p) \/ ProcessTask(p)
    PROVE  EachTaskInOnePlace'
<1> USE DEF unchangedButPc, poolVars, mainVars
<1>0. TypeOK
  BY DEF PoolInv
<1>1. UNCHANGED <<currTask, task1, bufferedTaskList, finiTaskList, finitasks, live>>
  BY DEF LoopTop, EnterWait, WaitSignalled, WaitTimeout, ResetEvent, Check, ProcessTask
<1>2. pc[p] \notin {"absent", "end"}
  BY DEF LoopTop, EnterWait, WaitSignalled, WaitTimeout, ResetEvent, Check, ProcessTask
<1>3. PICK l : l = pc'[p]
  OBVIOUS
<1>4. pc' = [pc EXCEPT ![p] = l] /\ l \notin {"absent", "end"}
  BY <1>0, <1>3 DEF LoopTop, EnterWait, WaitSignalled, WaitTimeout, ResetEvent, Check,
                    ProcessTask, Goto, TypeOK
<1> QED  BY <1>0, <1>1, <1>2, <1>4, MovesOn

LEMMA AddFreeThreadPlaces ==
    ASSUME PoolInv, EachTaskInOnePlace, NEW p \in Threads, AddFreeThread(p)
    PROVE  EachTaskInOnePlace'
<1>0. TypeOK
  BY DEF PoolInv
<1>1. ~finalised /\ p \in busyThreadList
  BY AddFreeThread(p)
  DEF AddFreeThread, PoolInv, TypeOK, MembersExist, Shutdown, WorkersAreBusy, Working
<1>2. /\ pc[p] = "free"
      /\ pc' = [pc EXCEPT ![p] = "top"]
      /\ UNCHANGED <<currTask, task1, bufferedTaskList, finiTaskList, finitasks, live>>
  BY <1>1, AddFreeThread(p) DEF AddFreeThread, Goto, mainVars
<1>3. pc[p] \notin {"absent", "end"}
  BY <1>2
<1> QED  BY <1>0, <1>2, <1>3, MovesOn

\* The thread that is deleted was free: it has no task.
LEMMA RemoveHangThreadPlaces ==
    ASSUME PoolInv, EachTaskInOnePlace, NEW p \in Threads, RemoveHangThread(p)
    PROVE  EachTaskInOnePlace'
<1>0. TypeOK
  BY DEF PoolInv
<1>1. /\ pc[p] = "timedout"
      /\ UNCHANGED <<currTask, task1, bufferedTaskList, finiTaskList, finitasks, live>>
  BY RemoveHangThread(p) DEF RemoveHangThread, mainVars
<1>2. pc[p] \notin {"absent", "end"}
  BY <1>1
<1>3. CASE InSeq(p, freeThreadList) /\ p \in allThreadList
  <2>1. pc' = [pc EXCEPT ![p] = "absent"]
    BY <1>3, RemoveHangThread(p) DEF RemoveHangThread, Goto
  <2>2. currTask[p] = NULL
    BY <1>3 DEF PoolInv, CountsMatchLists, TaskByList, Shutdown, Elements, InSeq
  <2>3. \A t \in Tasks : InHand(t)' = InHand(t)
    BY <1>0, <1>1, <2>1, <2>2, ThreadsAssumption DEF InHand, TypeOK
  <2> QED  BY <1>1, <2>3, NoTaskMoves
<1>4. CASE ~(InSeq(p, freeThreadList) /\ p \in allThreadList)
  <2>1. pc' = [pc EXCEPT ![p] = "exit"]
    BY <1>4, RemoveHangThread(p) DEF RemoveHangThread, Goto
  <2> QED  BY <1>0, <1>1, <1>2, <2>1, MovesOn
<1> QED  BY <1>3, <1>4

LEMMA MainRestsPlaces ==
    ASSUME PoolInv, EachTaskInOnePlace, DestroyBegin \/ DestroySignal \/ UNCHANGED vars
    PROVE  EachTaskInOnePlace'
<1> USE DEF unchangedButPc, mainVars
<1>1. UNCHANGED <<pc, currTask, task1, bufferedTaskList, finiTaskList, finitasks, live>>
  BY DEF DestroyBegin, DestroySignal, vars
<1>2. \A t \in Tasks : InHand(t)' = InHand(t)
  BY <1>1 DEF InHand
<1> QED  BY <1>1, <1>2, NoTaskMoves

-----------------------------------------------------------------------------
(***************************************************************************)
(* The steps of a thread that move a task                                  *)
(***************************************************************************)

\* The thread with p's task in hand takes the next one from the buffer.
LEMMA TryGetTaskPlaces ==
    ASSUME PoolInv, EachTaskInOnePlace, NEW p \in Threads, TryGetTask(p)
    PROVE  EachTaskInOnePlace'
<1> USE DEF mainVars
<1>0. TypeOK
  BY DEF PoolInv
<1>a. pc[p] = "tryget" /\ pc[p] \notin {"absent", "end"}
  BY TryGetTask(p) DEF TryGetTask
<1>1. CASE bufferedTaskList = <<>>
  <2>1. /\ pc' = [pc EXCEPT ![p] = "complete"]
        /\ UNCHANGED <<currTask, task1, bufferedTaskList, finiTaskList, finitasks, live>>
    BY <1>1, TryGetTask(p) DEF TryGetTask, Goto
  <2> QED  BY <1>0, <1>a, <2>1, MovesOn
<1>2. CASE bufferedTaskList # <<>>
  <2>1. PICK x : x = Head(bufferedTaskList)
    OBVIOUS
  <2>2. /\ task1' = [task1 EXCEPT ![p] = x]
        /\ bufferedTaskList' = Tail(bufferedTaskList)
        /\ pc' = [pc EXCEPT ![p] = "chain"]
        /\ UNCHANGED <<currTask, finiTaskList, finitasks, live>>
    BY <1>2, <2>1, TryGetTask(p) DEF TryGetTask, Goto
  <2>3. task1[p] = NULL
    BY <1>a DEF PoolInv, TaskByPlace
  <2> SUFFICES ASSUME NEW t \in Tasks  PROVE InOnePlace(t)'
    BY DEF EachTaskInOnePlace, InOnePlace
  <2>4. InHand(t)' = InHand(t)
    BY <1>0, <1>a, <2>2 DEF InHand, TypeOK
  <2>5. Cardinality(Popped(t))' = Cardinality(Popped(t)) + Once(x = t)
    <3>1. Popped(t)' = IF x = t THEN Popped(t) \cup {p} ELSE Popped(t)
      BY <1>0, <2>2, <2>3, ThreadsAssumption DEF Popped, TypeOK
    <3>2. p \notin Popped(t) /\ IsFiniteSet(Popped(t))
      BY <2>3, ThreadsAssumption, FS_Subset DEF Popped
    <3>3. /\ Cardinality(Popped(t) \cup {p}) = Cardinality(Popped(t)) + 1
          /\ Cardinality(Popped(t)) \in Nat
      BY <3>2, FS_AddElement, FS_CardinalityType
    <3> QED  BY <3>1, <3>3 DEF Once
  <2>6. Cardinality(At(t, bufferedTaskList))'
          = Cardinality(At(t, bufferedTaskList)) + (-Once(x = t))
    BY <1>0, <1>2, <2>1, <2>2, Unbuffered
  <2>7. /\ Cardinality(At(t, finiTaskList))' = Cardinality(At(t, finiTaskList)) + 0
        /\ Cardinality(At(t, finitasks))' = Cardinality(At(t, finitasks)) + 0
        /\ Cardinality(InHand(t))' = Cardinality(InHand(t)) + 0
    BY <1>0, <2>2, <2>4, SameList
  <2>8. PICK d \in Int : d = Once(x = t)
    BY DEF Once
  <2>9. PICK e \in Int : e = -d
    OBVIOUS
  <2>10. Moves(t, 0, d, e, 0, 0)
    BY <2>2, <2>5, <2>6, <2>7, <2>8, <2>9 DEF Moves
  <2> QED  BY <1>0, <2>10, Moved
<1> QED  BY <1>1, <1>2

\* t leaves a hand if it was c, and comes into one if it is u.
HandsSwap(t, c, u) ==
    Cardinality(InHand(t))' = Cardinality(InHand(t)) + (Once(u = t) - Once(c = t))

\* p, which stays in the loop, has u in hand instead of c.
LEMMA HandChanges ==
    ASSUME TypeOK, NEW t \in Tasks, NEW p \in Threads, NEW c, NEW u, NEW l,
           c = currTask[p],
           pc[p] \notin {"absent", "end"}, l \notin {"absent", "end"},
           currTask' = [currTask EXCEPT ![p] = u],
           pc' = [pc EXCEPT ![p] = l]
    PROVE  HandsSwap(t, c, u)
<1>1. p \in InHand(t) <=> c = t
  BY DEF InHand
<1>2. InHand(t)' = IF u = t THEN InHand(t) \cup {p} ELSE InHand(t) \ {p}
  BY DEF InHand, TypeOK
<1>3. IsFiniteSet(InHand(t)) /\ Cardinality(InHand(t)) \in Nat
  BY ThreadsAssumption, FS_Subset, FS_CardinalityType DEF InHand
<1>4. Cardinality(InHand(t) \cup {p})
        = IF c = t THEN Cardinality(InHand(t)) ELSE Cardinality(InHand(t)) + 1
  BY <1>1, <1>3, FS_AddElement
<1>5. Cardinality(InHand(t) \ {p})
        = IF c = t THEN Cardinality(InHand(t)) - 1 ELSE Cardinality(InHand(t))
  BY <1>1, <1>3, FS_RemoveElement
<1> QED  BY <1>2, <1>3, <1>4, <1>5 DEF Once, HandsSwap

\* currTask[p] goes to the finished tasks, task1[p] to currTask[p].
LEMMA ChainTaskPlaces ==
    ASSUME PoolInv, EachTaskInOnePlace, NEW p \in Threads, ChainTask(p)
    PROVE  EachTaskInOnePlace'
<1> USE DEF mainVars
<1>0. TypeOK
  BY DEF PoolInv
<1>1. PICK c \in Tasks : c = currTask[p]
  BY ChainTask(p) DEF ChainTask, PoolInv, TypeOK, TaskByPlace
<1>2. PICK u \in Tasks : u = task1[p]
  BY ChainTask(p) DEF ChainTask, PoolInv, TypeOK, TaskByPlace
<1>3. /\ pc[p] = "chain"
      /\ pc' = [pc EXCEPT ![p] = "check"]
      /\ finiTaskList' = Append(finiTaskList, c)
      /\ currTask' = [currTask EXCEPT ![p] = u]
      /\ task1' = [task1 EXCEPT ![p] = NULL]
      /\ UNCHANGED <<bufferedTaskList, finitasks, live>>
  BY <1>1, <1>2, ChainTask(p) DEF ChainTask, Goto
<1> SUFFICES ASSUME NEW t \in Tasks  PROVE InOnePlace(t)'
  BY DEF EachTaskInOnePlace, InOnePlace
<1>4. HandsSwap(t, c, u)
  <2>1. pc[p] \notin {"absent", "end"}
    BY <1>3
  <2>2. PICK l : l = "check"
    OBVIOUS
  <2> QED  BY <1>0, <1>1, <1>3, <2>1, <2>2, HandChanges
<1>5. Cardinality(Popped(t))' = Cardinality(Popped(t)) + (-Once(u = t))
  <2>1. Popped(t)' = Popped(t) \ {p}
    BY <1>0, <1>3, ThreadsAssumption DEF Popped, TypeOK
  <2>2. p \in Popped(t) <=> u = t
    BY <1>2 DEF Popped
  <2>3. IsFiniteSet(Popped(t)) /\ Cardinality(Popped(t)) \in Nat
    BY ThreadsAssumption, FS_Subset, FS_CardinalityType DEF Popped
  <2>4. Cardinality(Popped(t) \ {p})
          = IF u = t THEN Cardinality(Popped(t)) - 1 ELSE Cardinality(Popped(t))
    BY <2>2, <2>3, FS_RemoveElement
  <2> QED  BY <2>1, <2>3, <2>4 DEF Once
<1>6. Cardinality(At(t, finiTaskList))' = Cardinality(At(t, finiTaskList)) + Once(c = t)
  BY <1>0, <1>3, Finished
<1>7. /\ Cardinality(At(t, bufferedTaskList))' = Cardinality(At(t, bufferedTaskList)) + 0
      /\ Cardinality(At(t, finitasks))' = Cardinality(At(t, finitasks)) + 0
  BY <1>0, <1>3, SameList
<1>8. PICK a \in Int, d \in Int : a = Once(c = t) /\ d = Once(u = t)
  BY DEF Once
<1>9. PICK e \in Int, g \in Int : e = -d /\ g = d - a
  OBVIOUS
<1>10. Moves(t, g, e, 0, a, 0)
  <2>1. Cardinality(InHand(t))' = Cardinality(InHand(t)) + g
    BY <1>4, <1>8, <1>9 DEF HandsSwap
  <2>2. Cardinality(Popped(t))' = Cardinality(Popped(t)) + e
    BY <1>5, <1>8, <1>9
  <2>3. PICK v \in Int : v = IF t \in live THEN 1 ELSE 0
    OBVIOUS
  <2>4. v = v + g + e + 0 + a + 0
    BY <1>8, <1>9
  <2>5. live' = live
    BY <1>3
  <2> QED  BY <1>6, <1>7, <1>8, <2>1, <2>2, <2>3, <2>4, <2>5 DEF Moves
<1> QED  BY <1>0, <1>10, Moved

\* currTask[p] goes to the finished tasks.
LEMMA CompleteTaskPlaces ==
    ASSUME PoolInv, EachTaskInOnePlace, NEW p \in Threads, CompleteTask(p)
    PROVE  EachTaskInOnePlace'
<1> USE DEF mainVars
<1>0. TypeOK
  BY DEF PoolInv
<1>1. PICK c \in Tasks : c = currTask[p]
  BY CompleteTask(p) DEF CompleteTask, PoolInv, TypeOK, TaskByPlace
<1>3. /\ pc[p] = "complete"
      /\ pc' = [pc EXCEPT ![p] = "free"]
      /\ finiTaskList' = Append(finiTaskList, c)
      /\ currTask' = [currTask EXCEPT ![p] = NULL]
      /\ UNCHANGED <<bufferedTaskList, task1, finitasks, live>>
  BY <1>1, CompleteTask(p) DEF CompleteTask, Goto
<1> SUFFICES ASSUME NEW t \in Tasks  PROVE InOnePlace(t)'
  BY DEF EachTaskInOnePlace, InOnePlace
<1>4. Cardinality(InHand(t))' = Cardinality(InHand(t)) + (-Once(c = t))
  <2>1. pc[p] \notin {"absent", "end"}
    BY <1>3
  <2>2. PICK l : l = "free"
    OBVIOUS
  <2>3. HandsSwap(t, c, NULL)
    BY <1>0, <1>1, <1>3, <2>1, <2>2, HandChanges
  <2>4. Once(NULL = t) = 0 /\ Once(c = t) \in Nat
    BY ThreadsAssumption DEF Once
  <2> QED  BY <2>3, <2>4 DEF HandsSwap
<1>5. Cardinality(At(t, finiTaskList))' = Cardinality(At(t, finiTaskList)) + Once(c = t)
  BY <1>0, <1>3, Finished
<1>6. /\ Cardinality(At(t, bufferedTaskList))' = Cardinality(At(t, bufferedTaskList)) + 0
      /\ Cardinality(At(t, finitasks))' = Cardinality(At(t, finitasks)) + 0
      /\ Cardinality(Popped(t))' = Cardinality(Popped(t)) + 0
  BY <1>0, <1>3, SameList
<1>7. PICK d \in Int : d = Once(c = t)
  BY DEF Once
<1>8. PICK e \in Int : e = -d
  OBVIOUS
<1>9. Moves(t, e, 0, 0, d, 0)
  BY <1>3, <1>4, <1>5, <1>6, <1>7, <1>8 DEF Moves
<1> QED  BY <1>0, <1>9, Moved

\* The task the thread still has in hand is deleted with it.
LEMMA ThreadEndPlaces ==
    ASSUME PoolInv, EachTaskInOnePlace, NEW p \in Threads, ThreadEnd(p)
    PROVE  EachTaskInOnePlace'
<1> USE DEF mainVars
<1>0. TypeOK
  BY DEF PoolInv
<1>1. PICK c : c = currTask[p]
  OBVIOUS
<1>2. /\ pc[p] = "exit"
      /\ pc' = [pc EXCEPT ![p] = "end"]
      /\ live' = live \ {c}
      /\ UNCHANGED <<currTask, task1, bufferedTaskList, finiTaskList, finitasks>>
  BY <1>1, ThreadEnd(p) DEF ThreadEnd, Goto
<1> SUFFICES ASSUME NEW t \in Tasks  PROVE InOnePlace(t)'
  BY DEF EachTaskInOnePlace, InOnePlace
<1>3. p \in InHand(t) <=> c = t
  BY <1>1, <1>2 DEF InHand
<1>4. InHand(t)' = InHand(t) \ {p}
  BY <1>0, <1>2 DEF InHand, TypeOK
<1>5. IsFiniteSet(InHand(t)) /\ Cardinality(InHand(t)) \in Nat
  BY ThreadsAssumption, FS_Subset, FS_CardinalityType DEF InHand
<1>6. Cardinality(InHand(t) \ {p})
        = IF c = t THEN Cardinality(InHand(t)) - 1 ELSE Cardinality(InHand(t))
  BY <1>3, <1>5, FS_RemoveElement
<1>7. Cardinality(InHand(t))' = Cardinality(InHand(t)) + (-Once(c = t))
  BY <1>4, <1>5, <1>6 DEF Once
<1>8. /\ Cardinality(At(t, bufferedTaskList))' = Cardinality(At(t, bufferedTaskList)) + 0
      /\ Cardinality(At(t, finiTaskList))' = Cardinality(At(t, finiTaskList)) + 0
      /\ Cardinality(At(t, finitasks))' = Cardinality(At(t, finitasks)) + 0
      /\ Cardinality(Popped(t))' = Cardinality(Popped(t)) + 0
  BY <1>0, <1>2, SameList
<1>9. c = t => t \in live
  <2>1. PICK h, q, b, f, m : Counted(t, h, q, b, f, m)
    BY <1>0, CountsExist DEF HasCounts
  <2>2. c = t => h # 0
    BY <1>3, <1>5, <2>1, FS_EmptySet DEF Counted
  <2> QED  BY <2>1, <2>2 DEF EachTaskInOnePlace, Counted
<1>10. PICK e \in Int : e = -Once(c = t)
  BY DEF Once
<1>11. Moves(t, e, 0, 0, 0, 0)
  BY <1>2, <1>7, <1>8, <1>9, <1>10 DEF Moves, Once
<1> QED  BY <1>0, <1>11, Moved

-----------------------------------------------------------------------------
(***************************************************************************)
(* The steps of the main thread                                            *)
(***************************************************************************)

\* The task added is given to a thread or buffered, once.
TakenIn(t, dh, db) ==
    /\ dh \in Int /\ db \in Int
    /\ Cardinality(InHand(t))' = Cardinality(InHand(t)) + dh
    /\ Cardinality(At(t, bufferedTaskList))' = Cardinality(At(t, bufferedTaskList)) + db

IsTakenIn(x, t) == \E dh, db : TakenIn(t, dh, db) /\ dh + db = Once(x = t)

LEMMA GiveToFreeThreadPlaces ==
    ASSUME PoolInv, WhileAdding, NEW x \in Tasks, GiveToFreeThread(x), NEW t \in Tasks
    PROVE  IsTakenIn(x, t)
<1>0. TypeOK
  BY DEF PoolInv
<1>1. PICK p : p = Head(freeThreadList)
  OBVIOUS
<1>2. /\ currTask' = [currTask EXCEPT ![p] = x]
      /\ UNCHANGED <<bufferedTaskList, pc>>
  BY <1>1, GiveToFreeThread(x) DEF GiveToFreeThread
<1>3. p \in Threads /\ p \in Elements(freeThreadList)
  <2>1. freeThreadList \in Seq(Threads) /\ freeThreadList # <<>> /\ ~finalised
    BY GiveToFreeThread(x), EmptySeq
    DEF WhileAdding, GiveToFreeThread, PoolInv, TypeOK, CountsMatchLists, Shutdown
  <2>2. Distinct(freeThreadList)
    BY <2>1 DEF PoolInv, CountsMatchLists
  <2>3. PICK f : f = freeThreadList
    OBVIOUS
  <2>4. Head(f) \in Elements(f) /\ Head(f) \in Threads
    BY <2>1, <2>2, <2>3, DistinctTail
  <2> QED  BY <1>1, <2>3, <2>4
<1>4. ~finalised /\ p \in allThreadList /\ p \notin busyThreadList
  BY <1>3 DEF PoolInv, CountsMatchLists, Shutdown, WhileAdding
<1>5. currTask[p] = NULL /\ pc[p] \notin {"absent", "end"}
  BY <1>3, <1>4 DEF PoolInv, MembersExist, TaskByList, LeaversAreBusy, WhileAdding
<1>6. PICK l : l = pc[p]
  OBVIOUS
<1>7. pc' = [pc EXCEPT ![p] = l] /\ l \notin {"absent", "end"}
  BY <1>0, <1>2, <1>3, <1>5, <1>6 DEF TypeOK
<1>8. HandsSwap(t, NULL, x)
  BY <1>0, <1>2, <1>3, <1>5, <1>7, HandChanges
<1>9. Cardinality(At(t, bufferedTaskList))' = Cardinality(At(t, bufferedTaskList)) + 0
  BY <1>0, <1>2, SameList
<1>10. PICK d \in Int : d = Once(x = t)
  BY DEF Once
<1>11. Once(x = t) - Once(NULL = t) = d
  BY <1>10, ThreadsAssumption DEF Once
<1>12. TakenIn(t, d, 0) /\ d + 0 = Once(x = t)
  BY <1>8, <1>9, <1>10, <1>11 DEF TakenIn, HandsSwap
<1> QED  BY <1>12 DEF IsTakenIn

LEMMA BufferPlaces ==
    ASSUME PoolInv, WhileAdding, NEW x \in Tasks, BufferOnly(x) \/ BufferAndGrow(x),
           NEW t \in Tasks
    PROVE  IsTakenIn(x, t)
<1>0. TypeOK
  BY DEF PoolInv
<1>1. /\ bufferedTaskList' = Append(bufferedTaskList, x)
      /\ currTask' = currTask
  BY DEF BufferOnly, BufferAndGrow
<1>2. InHand(t)' = InHand(t)
  <2>1. CASE BufferOnly(x)
    BY <1>1, <2>1 DEF BufferOnly, InHand
  <2>2. CASE BufferAndGrow(x)
    <3>a. PICK s \in [1 .. extraNewAddThreadCount -> {p \in Threads : pc[p] = "absent"}] :
            pc' = [p \in Threads |-> IF p \in {s[i] : i \in DOMAIN s} THEN "top" ELSE pc[p]]
      BY <2>2 DEF BufferAndGrow
    <3>b. PICK new : new = {s[i] : i \in DOMAIN s}
      OBVIOUS
    <3>1. /\ \A p \in new : p \in Threads /\ pc[p] = "absent"
          /\ pc' = [p \in Threads |-> IF p \in new THEN "top" ELSE pc[p]]
      BY <3>a, <3>b
    <3>2. \A p \in new : currTask[p] = NULL
      BY <3>1 DEF PoolInv, CountsMatchLists, MembersExist, TaskByList, Shutdown, WhileAdding
    <3> QED  BY <1>1, <3>1, <3>2, ThreadsAssumption DEF InHand
  <2> QED  BY <2>1, <2>2
<1>3. Cardinality(InHand(t))' = Cardinality(InHand(t)) + 0
  BY <1>0, <1>2, SameList
<1>4. Cardinality(At(t, bufferedTaskList))'
        = Cardinality(At(t, bufferedTaskList)) + Once(x = t)
  BY <1>0, <1>1, Buffered
<1>5. PICK d \in Int : d = Once(x = t)
  BY DEF Once
<1>6. TakenIn(t, 0, d) /\ 0 + d = Once(x = t)
  BY <1>3, <1>4, <1>5 DEF TakenIn
<1> QED  BY <1>6 DEF IsTakenIn

LEMMA AddTaskBodyPlaces ==
    ASSUME PoolInv, WhileAdding, NEW x \in Tasks, AddTaskBody(x), NEW t \in Tasks
    PROVE  IsTakenIn(x, t)
BY GiveToFreeThreadPlaces, BufferPlaces DEF AddTaskBody

\* The task is new: it was in no place.
LEMMA AddTaskPlaces ==
    ASSUME PoolInv, EachTaskInOnePlace, NEW x \in Tasks, AddTask(x)
    PROVE  EachTaskInOnePlace'
<1> SUFFICES ASSUME NEW t \in Tasks  PROVE InOnePlace(t)'
  BY DEF EachTaskInOnePlace, InOnePlace
<1>0. TypeOK
  BY DEF PoolInv
<1>1. /\ x \notin live
      /\ live' = live \cup {x}
      /\ AddTaskBody(x)
      /\ UNCHANGED <<finiTaskList, task1, finitasks>>
  BY AddTask(x) DEF AddTask, mainVars
<1>2. WhileAdding
  BY AddTask(x) DEF AddTask, MainThreadIdle, mainVars, WhileAdding, PoolInv, TypeOK
<1>3. PICK dh, db : TakenIn(t, dh, db) /\ dh + db = Once(x = t)
  BY <1>1, <1>2, AddTaskBodyPlaces DEF IsTakenIn
<1>4. /\ Cardinality(At(t, finiTaskList))' = Cardinality(At(t, finiTaskList)) + 0
      /\ Cardinality(At(t, finitasks))' = Cardinality(At(t, finitasks)) + 0
      /\ Cardinality(Popped(t))' = Cardinality(Popped(t)) + 0
  BY <1>0, <1>1, SameList
<1>5. (IF t \in live' THEN 1 ELSE 0) = (IF t \in live THEN 1 ELSE 0) + (dh + db)
  BY <1>1, <1>3 DEF Once
<1>6. Moves(t, dh, 0, db, 0, 0)
  BY <1>3, <1>4, <1>5 DEF Moves, TakenIn
<1> QED  BY <1>0, <1>6, Moved

\* The task presented is added again.
LEMMA PresentContinueChildPlaces ==
    ASSUME PoolInv, EachTaskInOnePlace, PresentContinueChild
    PROVE  EachTaskInOnePlace'
<1> SUFFICES ASSUME NEW t \in Tasks  PROVE InOnePlace(t)'
  BY DEF EachTaskInOnePlace, InOnePlace
<1>0. TypeOK
  BY DEF PoolInv
<1>1. PICK x \in Tasks : x = Head(finitasks)
  BY <1>0, PresentContinueChild, HeadTailProperties DEF PresentContinueChild, TypeOK
<1>2. /\ finitasks # <<>>
      /\ finitasks' = Tail(finitasks)
      /\ AddTaskBody(x)
      /\ UNCHANGED <<finiTaskList, task1, live>>
  BY <1>1, PresentContinueChild DEF PresentContinueChild
<1>3. WhileAdding
  BY <1>0, <1>2, PresentContinueChild, HeadTailProperties
  DEF PresentContinueChild, WhileAdding, PoolInv, TypeOK, Shutdown
<1>4. PICK dh, db : TakenIn(t, dh, db) /\ dh + db = Once(x = t)
  BY <1>2, <1>3, AddTaskBodyPlaces DEF IsTakenIn
<1>5. Cardinality(At(t, finitasks))' = Cardinality(At(t, finitasks)) + (-Once(x = t))
  BY <1>0, <1>1, <1>2, Presented
<1>6. /\ Cardinality(At(t, finiTaskList))' = Cardinality(At(t, finiTaskList)) + 0
      /\ Cardinality(Popped(t))' = Cardinality(Popped(t)) + 0
  BY <1>0, <1>2, SameList
<1>7. PICK e \in Int : e = -Once(x = t)
  BY DEF Once
<1>8. dh + db + e = 0
  BY <1>4, <1>7 DEF TakenIn, Once
<1>9. (IF t \in live' THEN 1 ELSE 0)
        = (IF t \in live THEN 1 ELSE 0) + dh + 0 + db + 0 + e
  BY <1>2, <1>4, <1>7, <1>8 DEF TakenIn
<1>10. Moves(t, dh, 0, db, 0, e)
  BY <1>4, <1>5, <1>6, <1>7, <1>9 DEF Moves, TakenIn
<1> QED  BY <1>0, <1>10, Moved

\* The task presented is deleted.
LEMMA PresentCompletedPlaces ==
    ASSUME PoolInv, EachTaskInOnePlace, PresentCompleted
    PROVE  EachTaskInOnePlace'
<1> SUFFICES ASSUME NEW t \in Tasks  PROVE InOnePlace(t)'
  BY DEF EachTaskInOnePlace, InOnePlace
<1>0. TypeOK
  BY DEF PoolInv
<1>1. PICK x \in Tasks : x = Head(finitasks)
  BY <1>0, PresentCompleted, HeadTailProperties DEF PresentCompleted, TypeOK
<1>2. /\ finitasks # <<>>
      /\ finitasks' = Tail(finitasks)
      /\ live' = live \ {x}
      /\ UNCHANGED <<pc, currTask, task1, bufferedTaskList, finiTaskList>>
  BY <1>1, PresentCompleted DEF PresentCompleted
<1>3. Cardinality(At(t, finitasks))' = Cardinality(At(t, finitasks)) + (-Once(x = t))
  BY <1>0, <1>1, <1>2, Presented
<1>4. InHand(t)' = InHand(t)
  BY <1>2 DEF InHand
<1>5. /\ Cardinality(At(t, finiTaskList))' = Cardinality(At(t, finiTaskList)) + 0
      /\ Cardinality(At(t, bufferedTaskList))' = Cardinality(At(t, bufferedTaskList)) + 0
      /\ Cardinality(Popped(t))' = Cardinality(Popped(t)) + 0
      /\ Cardinality(InHand(t))' = Cardinality(InHand(t)) + 0
  BY <1>0, <1>2, <1>4, SameList
<1>6. x = t => t \in live
  <2>1. PICK h, q, b, f, m : Counted(t, h, q, b, f, m)
    BY <1>0, CountsExist DEF HasCounts
  <2>2. h + q + b + f + m = IF t \in live THEN 1 ELSE 0
    BY <2>1 DEF EachTaskInOnePlace, Counted
  <2> SUFFICES ASSUME x = t  PROVE t \in live
    OBVIOUS
  <2>3. InSeq(t, finitasks)
    BY <1>0, <1>1, <1>2, EmptySeq, HeadTailProperties, LenProperties DEF InSeq, TypeOK
  <2>4. m # 0
    BY <1>0, <2>1, <2>3, AtCount DEF Counted, TypeOK
  <2>5. h \in Nat /\ q \in Nat /\ b \in Nat /\ f \in Nat /\ m \in Nat
    BY <2>1 DEF Counted
  <2>6. h + q + b + f + m # 0
    BY <2>4, <2>5
  <2> QED  BY <2>2, <2>6
<1>7. PICK e \in Int : e = -Once(x = t)
  BY DEF Once
<1>8. Moves(t, 0, 0, 0, 0, e)
  BY <1>2, <1>3, <1>5, <1>6, <1>7 DEF Moves, Once
<1> QED  BY <1>0, <1>8, Moved

\* The task presented goes back to the finished ones.
LEMMA PresentContinueMainPlaces ==
    ASSUME PoolInv, EachTaskInOnePlace, PresentContinueMain
    PROVE  EachTaskInOnePlace'
<1> SUFFICES ASSUME NEW t \in Tasks  PROVE InOnePlace(t)'
  BY DEF EachTaskInOnePlace, InOnePlace
<1>0. TypeOK
  BY DEF PoolInv
<1>1. PICK x \in Tasks : x = Head(finitasks)
  BY <1>0, PresentContinueMain, HeadTailProperties DEF PresentContinueMain, TypeOK
<1>2. /\ finitasks # <<>>
      /\ finitasks' = Tail(finitasks)
      /\ finiTaskList' = Append(finiTaskList, x)
      /\ UNCHANGED <<pc, currTask, task1, bufferedTaskList, live>>
  BY <1>1, PresentContinueMain DEF PresentContinueMain
<1>3. Cardinality(At(t, finitasks))' = Cardinality(At(t, finitasks)) + (-Once(x = t))
  BY <1>0, <1>1, <1>2, Presented
<1>4. Cardinality(At(t, finiTaskList))' = Cardinality(At(t, finiTaskList)) + Once(x = t)
  BY <1>0, <1>2, Finished
<1>5. InHand(t)' = InHand(t)
  BY <1>2 DEF InHand
<1>6. /\ Cardinality(At(t, bufferedTaskList))' = Cardinality(At(t, bufferedTaskList)) + 0
      /\ Cardinality(Popped(t))' = Cardinality(Popped(t)) + 0
      /\ Cardinality(InHand(t))' = Cardinality(InHand(t)) + 0
  BY <1>0, <1>2, <1>5, SameList
<1>7. PICK d \in Int : d = Once(x = t)
  BY DEF Once
<1>8. PICK e \in Int : e = -d
  OBVIOUS
<1>9. Moves(t, 0, 0, 0, d, e)
  BY <1>2, <1>3, <1>4, <1>6, <1>7, <1>8 DEF Moves
<1> QED  BY <1>0, <1>9, Moved

\* All the finished tasks become the ones being presented.
LEMMA TickTakePlaces ==
    ASSUME PoolInv, EachTaskInOnePlace, TickTake
    PROVE  EachTaskInOnePlace'
<1> SUFFICES ASSUME NEW t \in Tasks  PROVE InOnePlace(t)'
  BY DEF EachTaskInOnePlace, InOnePlace
<1>0. TypeOK
  BY DEF PoolInv
<1>1. /\ finitasks = <<>>
      /\ finitasks' = finiTaskList
      /\ finiTaskList' = <<>>
      /\ UNCHANGED <<pc, currTask, task1, bufferedTaskList, live>>
  BY TickTake DEF TickTake, MainThreadIdle
<1>2. PICK h, q, b, f, m : Counted(t, h, q, b, f, m)
  BY <1>0, CountsExist DEF HasCounts
<1>3. m = 0
  BY <1>1, <1>2, AtEmpty DEF Counted
<1>4. Cardinality(At(t, finitasks))' = f
  <2>1. At(t, finitasks)' = At(t, finiTaskList)
    BY <1>1 DEF At
  <2> QED  BY <1>2, <2>1 DEF Counted
<1>5. Cardinality(At(t, finiTaskList))' = 0
  <2>1. At(t, finiTaskList)' = At(t, <<>>)
    BY <1>1 DEF At
  <2> QED  BY <2>1, AtEmpty
<1>6. InHand(t)' = InHand(t)
  BY <1>1 DEF InHand
<1>7. /\ Cardinality(At(t, bufferedTaskList))' = Cardinality(At(t, bufferedTaskList)) + 0
      /\ Cardinality(Popped(t))' = Cardinality(Popped(t)) + 0
      /\ Cardinality(InHand(t))' = Cardinality(InHand(t)) + 0
  BY <1>0, <1>1, <1>6, SameList
<1>8. PICK e \in Int : e = -f
  BY <1>2 DEF Counted
<1>9. Moves(t, 0, 0, 0, e, f)
  BY <1>1, <1>2, <1>3, <1>4, <1>5, <1>7, <1>8 DEF Moves, Counted
<1> QED  BY <1>0, <1>9, Moved

\* No thread is left; what is in the two lists is deleted.
LEMMA DestroyEndPlaces ==
    ASSUME PoolInv, EachTaskInOnePlace, DestroyEnd
    PROVE  EachTaskInOnePlace'
<1> SUFFICES ASSUME NEW t \in Tasks  PROVE InOnePlace(t)'
  BY DEF EachTaskInOnePlace, InOnePlace
<1>0. TypeOK
  BY DEF PoolInv
<1>1. /\ \A p \in allThreadList : pc[p] = "end"
      /\ pc' = [p \in Threads |-> IF p \in allThreadList THEN "absent" ELSE pc[p]]
      /\ live' = live \ {r \in Tasks : InSeq(r, finiTaskList) \/ InSeq(r, bufferedTaskList)}
      /\ finiTaskList' = <<>>
      /\ bufferedTaskList' = <<>>
      /\ finitasks = <<>>
      /\ UNCHANGED <<currTask, task1, finitasks>>
  BY DestroyEnd DEF DestroyEnd, PoolInv, Shutdown
<1>2. PICK h, q, b, f, m : Counted(t, h, q, b, f, m)
  BY <1>0, CountsExist DEF HasCounts
<1>3. \A p \in Threads : pc[p] \in {"absent", "end"}
  BY <1>1 DEF PoolInv, MembersExist
<1>4. InHand(t) = {} /\ Popped(t) = {}
  BY <1>3, ThreadsAssumption DEF InHand, Popped, PoolInv, TaskByPlace
<1>5. h = 0 /\ q = 0 /\ m = 0
  BY <1>1, <1>2, <1>4, AtEmpty, FS_EmptySet DEF Counted
<1>6. InHand(t)' = InHand(t)
  BY <1>1, <1>3, <1>4 DEF InHand
<1>7. /\ Cardinality(At(t, bufferedTaskList))' = 0
      /\ Cardinality(At(t, finiTaskList))' = 0
  <2>1. At(t, bufferedTaskList)' = At(t, <<>>) /\ At(t, finiTaskList)' = At(t, <<>>)
    BY <1>1 DEF At
  <2> QED  BY <2>1, AtEmpty
<1>8. /\ Cardinality(At(t, finitasks))' = Cardinality(At(t, finitasks)) + 0
      /\ Cardinality(Popped(t))' = Cardinality(Popped(t)) + 0
      /\ Cardinality(InHand(t))' = Cardinality(InHand(t)) + 0
  BY <1>0, <1>1, <1>6, SameList
<1>9. /\ (b = 0) <=> ~InSeq(t, bufferedTaskList)
      /\ (f = 0) <=> ~InSeq(t, finiTaskList)
  BY <1>0, <1>2, AtCount DEF Counted, TypeOK
<1>10. b + f = IF t \in live THEN 1 ELSE 0
  <2>1. h + q + b + f + m = IF t \in live THEN 1 ELSE 0
    BY <1>2 DEF EachTaskInOnePlace, Counted
  <2> QED  BY <1>2, <1>5, <2>1 DEF Counted
<1>11. t \notin live'
  BY <1>1, <1>2, <1>9, <1>10 DEF Counted
<1>12. PICK d \in Int, e \in Int : d = -b /\ e = -f
  BY <1>2 DEF Counted
<1>13. Moves(t, 0, 0, d, e, 0)
  BY <1>2, <1>7, <1>8, <1>10, <1>11, <1>12 DEF Moves, Counted
<1> QED  BY <1>0, <1>13, Moved

-----------------------------------------------------------------------------

LEMMA InitPlaces == Init => EachTaskInOnePlace
<1> SUFFICES ASSUME Init, NEW t \in Tasks  PROVE InOnePlace(t)
  BY DEF EachTaskInOnePlace, InOnePlace
<1>1. InHand(t) = {} /\ Popped(t) = {} /\ t \notin live
  BY ThreadsAssumption DEF Init, InHand, Popped
<1>2. /\ Cardinality(At(t, bufferedTaskList)) = 0
      /\ Cardinality(At(t, finiTaskList)) = 0
      /\ Cardinality(At(t, finitasks)) = 0
  BY AtEmpty DEF Init
<1> QED  BY <1>1, <1>2, FS_EmptySet DEF InOnePlace

LEMMA NextPlaces == PoolInv /\ EachTaskInOnePlace /\ [Next]_vars => EachTaskInOnePlace'
<1> SUFFICES ASSUME PoolInv, EachTaskInOnePlace, [Next]_vars  PROVE EachTaskInOnePlace'
  OBVIOUS
<1>1. ASSUME NEW t \in Tasks, AddTask(t)  PROVE EachTaskInOnePlace'
  BY <1>1, AddTaskPlaces
<1>2. CASE TickTake \/ Present
  BY <1>2, TickTakePlaces, PresentCompletedPlaces, PresentContinueChildPlaces,
     PresentContinueMainPlaces DEF Present
<1>3. CASE DestroyBegin \/ DestroySignal \/ UNCHANGED vars
  BY <1>3, MainRestsPlaces
<1>4. CASE DestroyEnd
  BY <1>4, DestroyEndPlaces
<1>5. ASSUME NEW p \in Threads, ThreadStep(p)  PROVE EachTaskInOnePlace'
  <2>1. CASE \/ LoopTop(p) \/ EnterWait(p) \/ WaitSignalled(p) \/ WaitTimeout(p)
             \/ ResetEvent(p) \/ Check(p) \/ ProcessTask(p)
    BY <2>1, ThreadRestsPlaces
  <2>2. CASE RemoveHangThread(p) \/ AddFreeThread(p)
    BY <2>2, RemoveHangThreadPlaces, AddFreeThreadPlaces
  <2>3. CASE TryGetTask(p) \/ ChainTask(p)
    BY <2>3, TryGetTaskPlaces, ChainTaskPlaces
  <2>4. CASE CompleteTask(p) \/ ThreadEnd(p)
    BY <2>4, CompleteTaskPlaces, ThreadEndPlaces
  <2> QED  BY <1>5, <2>1, <2>2, <2>3, <2>4 DEF ThreadStep
<1> QED  BY <1>1, <1>2, <1>3, <1>4, <1>5 DEF Next, MainStep

\* No task is leaked, processed by two threads or deleted twice: until it is deleted it
\* is given to one thread, popped by one, buffered, finished or being presented.
THEOREM OnePlace == Spec => []EachTaskInOnePlace
BY InitPlaces, NextPlaces, Invariant, PTL DEF Spec

=============================================================================
