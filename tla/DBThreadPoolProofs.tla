------------------------- MODULE DBThreadPoolProofs -------------------------
(***************************************************************************)
(* Proofs about DBThreadPool: the thread pool with the maps in front of it *)
(* implements the queue of BufferedDBTasks.                                *)
(***************************************************************************)
EXTENDS DBThreadPool, ThreadPoolProofs

-----------------------------------------------------------------------------
(***************************************************************************)
(* The inductive invariant                                                 *)
(***************************************************************************)

\* The tasks f gives to the threads, and that it gives none to two of them.
Held(f) == {f[p] : p \in Threads} \ {NULL}
HeldOnce(f) == \A p, q \in Threads : f[p] = f[q] /\ f[p] # NULL => p = q

\* The tasks filed behind the first entry of a key.
Behind == {t \in Tasks : Waiting(t)}

Given == Elements(bufferedTaskList)
Fini == Elements(finiTaskList)
Ticked == Elements(finitasks)
Hands == Held(currTask)
Nexts == Held(task1)
Handing == {handing} \ {NULL}

QueueTypeOK ==
    /\ buffered \in [Queue!Keys -> Seq(EntityTasks \cup {NULL})]
    /\ handing \in EntityTasks \cup {NULL}
    /\ asked \in [Threads -> BOOLEAN]
    /\ presented \in SUBSET Tasks

\* The pool is at its maximum, so that every thread is permanent and none leaves.
NoneLeaves ==
    /\ ~isDestroyed
    /\ lost = {}
    /\ currentThreadCount = maxThreadCount
    /\ \A p \in Threads : ~timed[p] /\ pc[p] \notin {"timedout", "exit", "end"}

\* A thread has asked for a successor only while it is done with a task.
AskedByPlace ==
    \A p \in Threads : asked[p] => pc[p] \in {"tryget", "chain", "complete"}

\* What is filed behind the first entry of a key is a task, and filed once.
BehindOnce ==
    /\ \A k \in Queue!Keys : \A i \in DOMAIN buffered[k] :
          i > 1 => buffered[k][i] \in EntityTasks
    /\ \A k, l \in Queue!Keys : \A i \in DOMAIN buffered[k], j \in DOMAIN buffered[l] :
          i > 1 /\ j > 1 /\ buffered[k][i] = buffered[l][j] => k = l /\ i = j

NoneTwice ==
    /\ Distinct(bufferedTaskList) /\ Distinct(finiTaskList) /\ Distinct(finitasks)
    /\ HeldOnce(currTask) /\ HeldOnce(task1)

\* A task is in one place.
Apart ==
    /\ Handing \cap (Given \cup Hands \cup Nexts \cup Fini \cup Ticked \cup Behind) = {}
    /\ Given \cap (Hands \cup Nexts \cup Fini \cup Ticked \cup Behind) = {}
    /\ Hands \cap (Nexts \cup Fini \cup Ticked \cup Behind) = {}
    /\ Nexts \cap (Fini \cup Ticked \cup Behind) = {}
    /\ Fini \cap (Ticked \cup Behind) = {}
    /\ Ticked \cap Behind = {}
    /\ presented \cap live = {}

\* No task is leaked.
AllPlaced ==
    live = Handing \cup Given \cup Hands \cup Nexts \cup Fini \cup Ticked \cup Behind

DBInv ==
    /\ PoolInv
    /\ QueueTypeOK
    /\ NoneLeaves
    /\ AskedByPlace
    /\ BehindOnce
    /\ NoneTwice
    /\ Apart
    /\ AllPlaced

-----------------------------------------------------------------------------
(***************************************************************************)
(* How the places change                                                   *)
(***************************************************************************)

LEMMA ListEmpty == Elements(<<>>) = {} /\ Distinct(<<>>)
BY DEF Elements, Distinct

\* Thread p takes u for what it held.
LEMMA HeldChanges ==
    ASSUME NEW f \in [Threads -> Tasks \cup {NULL}], HeldOnce(f),
           NEW p \in Threads, NEW u \in Tasks \cup {NULL}, u \notin Held(f),
           NEW g, g[p] = u, \A q \in Threads \ {p} : g[q] = f[q]
    PROVE  /\ HeldOnce(g)
           /\ Held(g) = (Held(f) \ {f[p]}) \cup ({u} \ {NULL})
<1>1. g[p] = u /\ \A q \in Threads : q # p => g[q] = f[q]
  OBVIOUS
<1>2. HeldOnce(g)
  BY <1>1 DEF HeldOnce, Held
<1>3. Held(g) \subseteq (Held(f) \ {f[p]}) \cup ({u} \ {NULL})
  BY <1>1 DEF HeldOnce, Held
<1>4. (Held(f) \ {f[p]}) \cup ({u} \ {NULL}) \subseteq Held(g)
  BY <1>1 DEF HeldOnce, Held
<1> QED  BY <1>2, <1>3, <1>4

LEMMA HandsChange ==
    ASSUME TypeOK, NoneTwice, NEW p \in Threads, NEW u \in Tasks \cup {NULL},
           u \notin Hands, currTask' = [currTask EXCEPT ![p] = u],
           NEW c, c = currTask[p]
    PROVE  HeldOnce(currTask)' /\ Hands' = (Hands \ {c}) \cup ({u} \ {NULL})
<1>1. PICK f \in [Threads -> Tasks \cup {NULL}] : f = currTask
  BY DEF TypeOK
<1>2. PICK g : g = [f EXCEPT ![p] = u]
  OBVIOUS
<1>3. HeldOnce(f) /\ u \notin Held(f) /\ Held(f) = Hands /\ f[p] = c
  BY <1>1 DEF NoneTwice, Hands
<1>a. g[p] = u /\ \A q \in Threads \ {p} : g[q] = f[q]
  BY <1>2
<1>4. HeldOnce(g) /\ Held(g) = (Held(f) \ {f[p]}) \cup ({u} \ {NULL})
  BY <1>1, <1>3, <1>a, HeldChanges
<1>5. currTask' = g
  BY <1>1, <1>2
<1>6. HeldOnce(currTask)' = HeldOnce(g) /\ Hands' = Held(g)
  BY <1>5 DEF HeldOnce, Hands, Held
<1> QED  BY <1>3, <1>4, <1>6

LEMMA NextsChange ==
    ASSUME TypeOK, NoneTwice, NEW p \in Threads, NEW u \in Tasks \cup {NULL},
           u \notin Nexts, task1' = [task1 EXCEPT ![p] = u],
           NEW c, c = task1[p]
    PROVE  HeldOnce(task1)' /\ Nexts' = (Nexts \ {c}) \cup ({u} \ {NULL})
<1>1. PICK f \in [Threads -> Tasks \cup {NULL}] : f = task1
  BY DEF TypeOK
<1>2. PICK g : g = [f EXCEPT ![p] = u]
  OBVIOUS
<1>3. HeldOnce(f) /\ u \notin Held(f) /\ Held(f) = Nexts /\ f[p] = c
  BY <1>1 DEF NoneTwice, Nexts
<1>a. g[p] = u /\ \A q \in Threads \ {p} : g[q] = f[q]
  BY <1>2
<1>4. HeldOnce(g) /\ Held(g) = (Held(f) \ {f[p]}) \cup ({u} \ {NULL})
  BY <1>1, <1>3, <1>a, HeldChanges
<1>5. task1' = g
  BY <1>1, <1>2
<1>6. HeldOnce(task1)' = HeldOnce(g) /\ Nexts' = Held(g)
  BY <1>5 DEF HeldOnce, Nexts, Held
<1> QED  BY <1>3, <1>4, <1>6

LEMMA BufferGains ==
    ASSUME TypeOK, NoneTwice, NEW x \in Tasks, x \notin Given,
           bufferedTaskList' = Append(bufferedTaskList, x)
    PROVE  Distinct(bufferedTaskList)' /\ Given' = Given \cup {x}
<1>1. PICK s \in Seq(Tasks) : s = bufferedTaskList
  BY DEF TypeOK
<1>2. PICK g : g = Append(s, x)
  OBVIOUS
<1>3. Distinct(s) /\ x \notin Elements(s) /\ Elements(s) = Given
  BY <1>1 DEF NoneTwice, Given
<1>4. Distinct(g) /\ Elements(g) = Elements(s) \cup {x}
  BY <1>2, <1>3, DistinctAppend
<1>5. bufferedTaskList' = g
  BY <1>1, <1>2
<1>6. Distinct(bufferedTaskList)' = Distinct(g) /\ Given' = Elements(g)
  BY <1>5 DEF Distinct, Given, Elements
<1> QED  BY <1>3, <1>4, <1>6

LEMMA BufferGives ==
    ASSUME TypeOK, NoneTwice, bufferedTaskList # <<>>, NEW x, x = Head(bufferedTaskList),
           bufferedTaskList' = Tail(bufferedTaskList)
    PROVE  Distinct(bufferedTaskList)' /\ Given' = Given \ {x} /\ x \in Given /\ x \in Tasks
<1>1. PICK s \in Seq(Tasks) : s = bufferedTaskList
  BY DEF TypeOK
<1>2. PICK g : g = Tail(s)
  OBVIOUS
<1>3. Distinct(s) /\ s # <<>> /\ Elements(s) = Given /\ Head(s) = x
  BY <1>1 DEF NoneTwice, Given
<1>4. Distinct(g) /\ Elements(g) = Elements(s) \ {x} /\ x \in Elements(s) /\ x \in Tasks
  BY <1>2, <1>3, DistinctTail
<1>5. bufferedTaskList' = g
  BY <1>1, <1>2
<1>6. Distinct(bufferedTaskList)' = Distinct(g) /\ Given' = Elements(g)
  BY <1>5 DEF Distinct, Given, Elements
<1> QED  BY <1>3, <1>4, <1>6

LEMMA FiniGains ==
    ASSUME TypeOK, NoneTwice, NEW x \in Tasks, x \notin Fini,
           finiTaskList' = Append(finiTaskList, x)
    PROVE  Distinct(finiTaskList)' /\ Fini' = Fini \cup {x}
<1>1. PICK s \in Seq(Tasks) : s = finiTaskList
  BY DEF TypeOK
<1>2. PICK g : g = Append(s, x)
  OBVIOUS
<1>3. Distinct(s) /\ x \notin Elements(s) /\ Elements(s) = Fini
  BY <1>1 DEF NoneTwice, Fini
<1>4. Distinct(g) /\ Elements(g) = Elements(s) \cup {x}
  BY <1>2, <1>3, DistinctAppend
<1>5. finiTaskList' = g
  BY <1>1, <1>2
<1>6. Distinct(finiTaskList)' = Distinct(g) /\ Fini' = Elements(g)
  BY <1>5 DEF Distinct, Fini, Elements
<1> QED  BY <1>3, <1>4, <1>6

LEMMA TickedGives ==
    ASSUME TypeOK, NoneTwice, finitasks # <<>>, NEW x, x = Head(finitasks),
           finitasks' = Tail(finitasks)
    PROVE  Distinct(finitasks)' /\ Ticked' = Ticked \ {x} /\ x \in Ticked /\ x \in Tasks
<1>1. PICK s \in Seq(Tasks) : s = finitasks
  BY DEF TypeOK
<1>2. PICK g : g = Tail(s)
  OBVIOUS
<1>3. Distinct(s) /\ s # <<>> /\ Elements(s) = Ticked /\ Head(s) = x
  BY <1>1 DEF NoneTwice, Ticked
<1>4. Distinct(g) /\ Elements(g) = Elements(s) \ {x} /\ x \in Elements(s) /\ x \in Tasks
  BY <1>2, <1>3, DistinctTail
<1>5. finitasks' = g
  BY <1>1, <1>2
<1>6. Distinct(finitasks)' = Distinct(g) /\ Ticked' = Elements(g)
  BY <1>5 DEF Distinct, Ticked, Elements
<1> QED  BY <1>3, <1>4, <1>6

\* The places whose lists stay as they are.
LEMMA SamePlaces ==
    /\ bufferedTaskList' = bufferedTaskList =>
          Given' = Given /\ Distinct(bufferedTaskList)' = Distinct(bufferedTaskList)
    /\ finiTaskList' = finiTaskList =>
          Fini' = Fini /\ Distinct(finiTaskList)' = Distinct(finiTaskList)
    /\ finitasks' = finitasks =>
          Ticked' = Ticked /\ Distinct(finitasks)' = Distinct(finitasks)
    /\ currTask' = currTask => Hands' = Hands /\ HeldOnce(currTask)' = HeldOnce(currTask)
    /\ task1' = task1 => Nexts' = Nexts /\ HeldOnce(task1)' = HeldOnce(task1)
    /\ handing' = handing => Handing' = Handing
    /\ buffered' = buffered => Behind' = Behind /\ BehindOnce' = BehindOnce
<1>1. bufferedTaskList' = bufferedTaskList =>
         Given' = Given /\ Distinct(bufferedTaskList)' = Distinct(bufferedTaskList)
  BY DEF Given, Elements, Distinct
<1>2. finiTaskList' = finiTaskList =>
         Fini' = Fini /\ Distinct(finiTaskList)' = Distinct(finiTaskList)
  BY DEF Fini, Elements, Distinct
<1>3. finitasks' = finitasks =>
         Ticked' = Ticked /\ Distinct(finitasks)' = Distinct(finitasks)
  BY DEF Ticked, Elements, Distinct
<1>4. currTask' = currTask => Hands' = Hands /\ HeldOnce(currTask)' = HeldOnce(currTask)
  BY DEF Hands, Held, HeldOnce
<1>5. task1' = task1 => Nexts' = Nexts /\ HeldOnce(task1)' = HeldOnce(task1)
  BY DEF Nexts, Held, HeldOnce
<1>6. handing' = handing => Handing' = Handing
  BY DEF Handing
<1>7. buffered' = buffered => Behind' = Behind
  BY DEF Behind, Waiting
<1>8. buffered' = buffered => BehindOnce' = BehindOnce
  BY DEF BehindOnce
<1> QED  BY <1>1, <1>2, <1>3, <1>4, <1>5, <1>6, <1>7, <1>8

-----------------------------------------------------------------------------
(***************************************************************************)
(* The maps                                                                *)
(***************************************************************************)

LEMMA KeyInKeys == \A t \in EntityTasks : Queue!Key(t) \in Queue!Keys
BY DEF Queue!Keys

\* The keys other than k have the entries they had.
LEMMA OtherKeys ==
    ASSUME QueueTypeOK, NEW k \in Queue!Keys, NEW r, buffered' = [buffered EXCEPT ![k] = r]
    PROVE  /\ DOMAIN buffered = Queue!Keys /\ DOMAIN buffered' = Queue!Keys
           /\ buffered'[k] = r
           /\ \A l \in Queue!Keys : l # k => buffered'[l] = buffered[l]
BY DEF QueueTypeOK

LEMMA BehindGains ==
    ASSUME QueueTypeOK, BehindOnce, DBPoolAssumption, NEW k \in Queue!Keys,
           NEW t \in EntityTasks, t \notin Behind, buffered[k] # <<>>,
           buffered' = [buffered EXCEPT ![k] = Append(@, t)]
    PROVE  /\ buffered' \in [Queue!Keys -> Seq(EntityTasks \cup {NULL})]
           /\ BehindOnce'
           /\ Behind' = Behind \cup {t}
<1>1. PICK s \in Seq(EntityTasks \cup {NULL}) : s = buffered[k]
  BY DEF QueueTypeOK
<1>2. PICK r : r = Append(s, t)
  OBVIOUS
<1>3. /\ r \in Seq(EntityTasks \cup {NULL})
      /\ Len(s) \in Nat \ {0}
      /\ DOMAIN s = 1 .. Len(s)
      /\ DOMAIN r = 1 .. Len(s) + 1
      /\ \A i \in 1 .. Len(s) : r[i] = s[i]
      /\ r[Len(s) + 1] = t
  BY <1>1, <1>2, LenProperties, AppendProperties, EmptySeq
<1>4. buffered' = [buffered EXCEPT ![k] = r]
  BY <1>1, <1>2
<1>5. /\ DOMAIN buffered = Queue!Keys /\ DOMAIN buffered' = Queue!Keys
      /\ buffered'[k] = r
      /\ \A l \in Queue!Keys : l # k => buffered'[l] = buffered[l]
  BY <1>4, OtherKeys
<1>6. buffered' \in [Queue!Keys -> Seq(EntityTasks \cup {NULL})]
  BY <1>3, <1>4 DEF QueueTypeOK
<1>7. \A l \in Queue!Keys : \A i \in DOMAIN buffered'[l] : i > 1 =>
        \/ i \in DOMAIN buffered[l] /\ buffered'[l][i] = buffered[l][i]
        \/ l = k /\ i = Len(s) + 1 /\ buffered'[l][i] = t
  BY <1>1, <1>3, <1>5
<1>8. \A l \in Queue!Keys : \A i \in DOMAIN buffered[l] : i > 1 => buffered[l][i] # t
  BY <1>5, DBPoolAssumption DEF Behind, Waiting
<1>9. BehindOnce'
  <2>1. \A l \in Queue!Keys : \A i \in DOMAIN buffered'[l] :
           i > 1 => buffered'[l][i] \in EntityTasks
    BY <1>7 DEF BehindOnce
  <2>2. ASSUME NEW l \in Queue!Keys, NEW m \in Queue!Keys,
               NEW i \in DOMAIN buffered'[l], NEW j \in DOMAIN buffered'[m],
               i > 1, j > 1, buffered'[l][i] = buffered'[m][j]
        PROVE  l = m /\ i = j
    BY <1>7, <1>8, <2>2 DEF BehindOnce
  <2> QED  BY <2>1, <2>2 DEF BehindOnce
<1>10. Behind' \subseteq Behind \cup {t}
  BY <1>5, <1>7 DEF Behind, Waiting
<1>11. Behind \subseteq Behind'
  <2> SUFFICES ASSUME NEW u \in Tasks, NEW l \in Queue!Keys, NEW i \in DOMAIN buffered[l],
                      i > 1, buffered[l][i] = u
               PROVE  i \in DOMAIN buffered'[l] /\ buffered'[l][i] = u
    BY <1>5 DEF Behind, Waiting
  <2> QED  BY <1>1, <1>3, <1>5
<1>12. t \in Behind'
  <2>1. Len(s) + 1 \in DOMAIN buffered'[k] /\ Len(s) + 1 > 1 /\ buffered'[k][Len(s) + 1] = t
    BY <1>3, <1>5
  <2> QED  BY <1>5, <2>1, DBPoolAssumption DEF Behind, Waiting
<1> QED  BY <1>6, <1>9, <1>10, <1>11, <1>12

LEMMA KeyIsHeld ==
    ASSUME QueueTypeOK, BehindOnce, NEW k \in Queue!Keys, buffered[k] = <<>>,
           buffered' = [buffered EXCEPT ![k] = <<NULL>>]
    PROVE  /\ buffered' \in [Queue!Keys -> Seq(EntityTasks \cup {NULL})]
           /\ BehindOnce'
           /\ Behind' = Behind
<1>1. PICK r : r = <<NULL>>
  OBVIOUS
<1>2. r \in Seq(EntityTasks \cup {NULL}) /\ DOMAIN r = {1}
  BY <1>1
<1>3. /\ DOMAIN buffered = Queue!Keys /\ DOMAIN buffered' = Queue!Keys
      /\ buffered'[k] = r
      /\ \A l \in Queue!Keys : l # k => buffered'[l] = buffered[l]
  BY <1>1, OtherKeys
<1>4. buffered' \in [Queue!Keys -> Seq(EntityTasks \cup {NULL})]
  BY <1>1, <1>2 DEF QueueTypeOK
<1>5. \A l \in Queue!Keys : \A i : i > 1 =>
         (i \in DOMAIN buffered[l] <=> i \in DOMAIN buffered'[l])
  <2>1. DOMAIN buffered[k] = {}
    OBVIOUS
  <2> QED  BY <1>2, <1>3, <2>1
<1>6. \A l \in Queue!Keys : \A i \in DOMAIN buffered'[l] :
         i > 1 => buffered'[l][i] = buffered[l][i]
  BY <1>2, <1>3
<1>7. BehindOnce'
  BY <1>5, <1>6 DEF BehindOnce
<1>8. Behind' = Behind
  BY <1>3, <1>5, <1>6 DEF Behind, Waiting
<1> QED  BY <1>4, <1>7, <1>8

\* The task behind the first entry becomes the first.
LEMMA BehindGives ==
    ASSUME QueueTypeOK, BehindOnce, DBPoolAssumption, NEW k \in Queue!Keys,
           buffered[k] # <<>>, buffered' = [buffered EXCEPT ![k] = Tail(@)]
    PROVE  /\ buffered' \in [Queue!Keys -> Seq(EntityTasks \cup {NULL})]
           /\ BehindOnce'
           /\ Len(buffered[k]) > 1 =>
                /\ buffered[k][2] \in Behind
                /\ buffered[k][2] \in EntityTasks
                /\ Behind' = Behind \ {buffered[k][2]}
           /\ ~(Len(buffered[k]) > 1) => Behind' = Behind
<1>1. PICK s \in Seq(EntityTasks \cup {NULL}) : s = buffered[k]
  BY DEF QueueTypeOK
<1>2. PICK r : r = Tail(s)
  OBVIOUS
<1>3. /\ r \in Seq(EntityTasks \cup {NULL})
      /\ Len(s) \in Nat \ {0}
      /\ DOMAIN s = 1 .. Len(s)
      /\ DOMAIN r = 1 .. Len(s) - 1
      /\ \A i \in 1 .. Len(s) - 1 : r[i] = s[i + 1]
  BY <1>1, <1>2, LenProperties, HeadTailProperties, EmptySeq
<1>4. buffered' = [buffered EXCEPT ![k] = r]
  BY <1>1, <1>2
<1>5. /\ DOMAIN buffered = Queue!Keys /\ DOMAIN buffered' = Queue!Keys
      /\ buffered'[k] = r
      /\ \A l \in Queue!Keys : l # k => buffered'[l] = buffered[l]
  BY <1>4, OtherKeys
<1>6. buffered' \in [Queue!Keys -> Seq(EntityTasks \cup {NULL})]
  BY <1>3, <1>4 DEF QueueTypeOK
<1>7. \A i \in DOMAIN r : i > 1 =>
        /\ i + 1 \in DOMAIN s /\ i + 1 > 2 /\ r[i] = s[i + 1]
  BY <1>3
<1>8. \A l \in Queue!Keys : \A i \in DOMAIN buffered'[l] : i > 1 =>
        \E j \in DOMAIN buffered[l] :
            /\ j = IF l = k THEN i + 1 ELSE i
            /\ buffered'[l][i] = buffered[l][j]
            /\ j > 1 /\ (l = k => j > 2)
  BY <1>1, <1>3, <1>5, <1>7
<1>9. BehindOnce'
  <2>1. \A l \in Queue!Keys : \A i \in DOMAIN buffered'[l] :
           i > 1 => buffered'[l][i] \in EntityTasks
    BY <1>8 DEF BehindOnce
  <2>2. ASSUME NEW l \in Queue!Keys, NEW m \in Queue!Keys,
               NEW i \in DOMAIN buffered'[l], NEW j \in DOMAIN buffered'[m],
               i > 1, j > 1, buffered'[l][i] = buffered'[m][j]
        PROVE  l = m /\ i = j
    <3>1. PICK i1 \in DOMAIN buffered[l] :
            i1 = (IF l = k THEN i + 1 ELSE i) /\ buffered'[l][i] = buffered[l][i1] /\ i1 > 1
      BY <1>8, <2>2
    <3>2. PICK j1 \in DOMAIN buffered[m] :
            j1 = (IF m = k THEN j + 1 ELSE j) /\ buffered'[m][j] = buffered[m][j1] /\ j1 > 1
      BY <1>8, <2>2
    <3>3. l = m /\ i1 = j1
      BY <2>2, <3>1, <3>2 DEF BehindOnce
    <3>4. l = k => i \in Nat /\ j \in Nat
      BY <1>3, <1>5, <3>3
    <3> QED  BY <3>1, <3>2, <3>3, <3>4
  <2> QED  BY <2>1, <2>2 DEF BehindOnce
<1>10. Behind' \subseteq Behind
  BY <1>5, <1>8 DEF Behind, Waiting
<1>11. CASE Len(s) > 1
  <2>1. 2 \in DOMAIN s /\ s[2] \in EntityTasks
    BY <1>1, <1>3, <1>11 DEF BehindOnce
  <2>2. s[2] \in Behind
    BY <1>1, <1>5, <2>1, DBPoolAssumption DEF Behind, Waiting
  <2>3. s[2] \notin Behind'
    <3> SUFFICES ASSUME NEW l \in Queue!Keys, NEW i \in DOMAIN buffered'[l], i > 1,
                        buffered'[l][i] = s[2]
                 PROVE  FALSE
      BY <1>5 DEF Behind, Waiting
    <3>1. PICK j \in DOMAIN buffered[l] :
            buffered'[l][i] = buffered[l][j] /\ j > 1 /\ (l = k => j > 2)
      BY <1>8
    <3>2. l = k /\ j = 2
      BY <1>1, <2>1, <3>1 DEF BehindOnce
    <3> QED  BY <3>1, <3>2
  <2>4. Behind \ {s[2]} \subseteq Behind'
    <3> SUFFICES ASSUME NEW u \in Tasks, NEW l \in Queue!Keys, NEW i \in DOMAIN buffered[l],
                        i > 1, buffered[l][i] = u, u # s[2]
                 PROVE  \E j \in DOMAIN buffered'[l] : j > 1 /\ buffered'[l][j] = u
      BY <1>5 DEF Behind, Waiting
    <3>1. CASE l = k
      <4>1. i - 1 \in DOMAIN r /\ i - 1 > 1 /\ r[i - 1] = s[i]
        BY <1>1, <1>3, <3>1
      <4> QED  BY <1>1, <1>5, <3>1, <4>1
    <3>2. CASE l # k
      BY <1>5, <3>2
    <3> QED  BY <3>1, <3>2
  <2> QED  BY <1>1, <1>6, <1>9, <1>10, <1>11, <2>1, <2>2, <2>3, <2>4
<1>12. CASE ~(Len(s) > 1)
  <2>1. DOMAIN s = {1}
    BY <1>3, <1>12
  <2>2. Behind \subseteq Behind'
    BY <1>1, <1>5, <2>1 DEF Behind, Waiting
  <2> QED  BY <1>1, <1>6, <1>9, <1>10, <1>12, <2>2
<1> QED  BY <1>11, <1>12

-----------------------------------------------------------------------------
(***************************************************************************)
(* The invariant is kept                                                   *)
(***************************************************************************)

\* A task is created: nothing else of the pool changes.
LEMMA LiveChanges ==
    ASSUME PoolInv, live' \in SUBSET Tasks,
           UNCHANGED <<bufferedTaskList, finiTaskList, poolVars, pc, currTask, task1, timed,
                       signalled, mainVars, lost>>
    PROVE  PoolInv'
<1> USE DEF poolVars, mainVars
<1>1. TypeOK' /\ CountsMatchLists'
  BY DEF PoolInv, TypeOK, CountsMatchLists, Distinct, Elements
<1>2. MembersExist' /\ TaskByPlace' /\ TaskByList'
  BY DEF PoolInv, MembersExist, TaskByPlace, TaskByList
<1>3. WorkersAreBusy' /\ LeaversAreBusy' /\ AssignedSleeperIsSignalled' /\ Shutdown'
  BY DEF PoolInv, WorkersAreBusy, LeaversAreBusy, AssignedSleeperIsSignalled, Shutdown
<1> QED  BY <1>1, <1>2, <1>3 DEF PoolInv

\* A thread with a task in hand is given the successor of that one.
LEMMA SuccessorNamed ==
    ASSUME PoolInv, NEW p \in Threads, pc[p] = "tryget", NEW u \in Tasks,
           task1' = [task1 EXCEPT ![p] = u], pc' = [pc EXCEPT ![p] = "chain"],
           UNCHANGED <<bufferedTaskList, finiTaskList, poolVars, currTask, timed, signalled,
                       mainVars, live, lost>>
    PROVE  PoolInv'
<1> USE DEF poolVars, mainVars
<1>1. TypeOK'
  BY DEF PoolInv, TypeOK, PCs
<1>2. CountsMatchLists'
  BY DEF PoolInv, CountsMatchLists, Distinct, Elements
<1>3. MembersExist'
  BY DEF PoolInv, TypeOK, MembersExist
<1>4. TaskByPlace'
  BY ThreadsAssumption DEF PoolInv, TypeOK, TaskByPlace
<1>5. TaskByList'
  BY DEF PoolInv, TypeOK, TaskByList
<1>6. WorkersAreBusy'
  BY DEF PoolInv, TypeOK, WorkersAreBusy, Working
<1>7. LeaversAreBusy'
  BY DEF PoolInv, TypeOK, LeaversAreBusy
<1>8. AssignedSleeperIsSignalled'
  BY DEF PoolInv, TypeOK, AssignedSleeperIsSignalled
<1>9. Shutdown'
  BY DEF PoolInv, Shutdown
<1> QED  BY <1>1, <1>2, <1>3, <1>4, <1>5, <1>6, <1>7, <1>8, <1>9 DEF PoolInv

\* The places of a thread that may be free.
Resting == {"top", "sleep", "wait", "reset", "check"}

GivenTo(t, p) ==
    /\ currTask[p] = NULL
    /\ pc[p] \in Resting
    /\ currTask' = [currTask EXCEPT ![p] = t]
    /\ UNCHANGED bufferedTaskList

PutAside(t) ==
    /\ bufferedTaskList' = Append(bufferedTaskList, t)
    /\ UNCHANGED currTask

\* addTask in a pool at its maximum: no thread is added.
Added(t) ==
    /\ UNCHANGED <<pc, timed, currentThreadCount>>
    /\ PutAside(t) \/ \E p \in Threads : GivenTo(t, p)

LEMMA AddedTask == ASSUME DBInv, NEW t \in Tasks, AddTaskBody(t)  PROVE Added(t)
<1>1. CASE BufferOnly(t)
  BY <1>1 DEF BufferOnly, Added, PutAside, poolVars
<1>2. CASE GiveToFreeThread(t)
  <2>1. PICK p : p = Head(freeThreadList)
    OBVIOUS
  <2>2. PICK s \in Seq(Threads) : s = freeThreadList
    BY DEF DBInv, PoolInv, TypeOK
  <2>3. s # <<>> /\ Distinct(s) /\ Head(s) = p /\ Elements(s) = Elements(freeThreadList)
    BY <1>2, <2>1, <2>2, EmptySeq
    DEF GiveToFreeThread, DBInv, PoolInv, TypeOK, CountsMatchLists, NoneLeaves, Shutdown
  <2>4. p \in Threads /\ p \in Elements(freeThreadList)
    BY <2>2, <2>3, DistinctTail
  <2>5. p \notin busyThreadList /\ p \in allThreadList /\ ~finalised
    BY <2>4 DEF DBInv, PoolInv, CountsMatchLists, NoneLeaves, Shutdown
  <2>6. currTask[p] = NULL
    BY <2>4, <2>5 DEF DBInv, PoolInv, TaskByList
  <2>7. pc[p] \in Resting
    BY <2>4, <2>5 DEF DBInv, PoolInv, TypeOK, PCs, NoneLeaves, WorkersAreBusy, Working,
                      MembersExist, Resting
  <2>8. /\ currTask' = [currTask EXCEPT ![p] = t]
        /\ UNCHANGED <<bufferedTaskList, pc, timed, currentThreadCount>>
    BY <1>2, <2>1 DEF GiveToFreeThread
  <2> QED  BY <2>4, <2>6, <2>7, <2>8 DEF Added, GivenTo
<1>3. ~BufferAndGrow(t)
  BY CountsAssumption DEF BufferAndGrow, isThreadCountMax, DBInv, NoneLeaves
<1> QED  BY <1>1, <1>2, <1>3 DEF AddTaskBody

\* The task goes from t's place to a thread or to the buffer of the pool.
LEMMA AddedPlaces ==
    ASSUME DBInv, NEW t \in Tasks, t \notin Hands, t \notin Given, Added(t)
    PROVE  /\ HeldOnce(currTask)' /\ Distinct(bufferedTaskList)'
           /\ \/ Hands' = Hands \cup {t} /\ Given' = Given
              \/ Hands' = Hands /\ Given' = Given \cup {t}
<1>0. TypeOK /\ NoneTwice
  BY DEF DBInv, PoolInv
<1>1. CASE PutAside(t)
  <2>1. bufferedTaskList' = Append(bufferedTaskList, t) /\ currTask' = currTask
    BY <1>1 DEF PutAside
  <2>2. Distinct(bufferedTaskList)' /\ Given' = Given \cup {t}
    BY <1>0, <2>1, BufferGains
  <2>3. HeldOnce(currTask)' /\ Hands' = Hands
    BY <1>0, <2>1, SamePlaces DEF NoneTwice
  <2> QED  BY <2>2, <2>3
<1>2. ASSUME NEW p \in Threads, GivenTo(t, p)
      PROVE  /\ HeldOnce(currTask)' /\ Distinct(bufferedTaskList)'
             /\ Hands' = Hands \cup {t} /\ Given' = Given
  <2>1. PICK c : c = currTask[p]
    OBVIOUS
  <2>2. /\ c = NULL /\ currTask' = [currTask EXCEPT ![p] = t]
        /\ bufferedTaskList' = bufferedTaskList
    BY <1>2, <2>1 DEF GivenTo
  <2>3. HeldOnce(currTask)' /\ Hands' = (Hands \ {c}) \cup ({t} \ {NULL})
    BY <1>0, <2>1, <2>2, HandsChange
  <2>4. Distinct(bufferedTaskList)' /\ Given' = Given
    BY <1>0, <2>2, SamePlaces DEF NoneTwice
  <2>5. NULL \notin Hands /\ t # NULL
    BY ThreadsAssumption DEF Hands, Held
  <2> QED  BY <2>2, <2>3, <2>4, <2>5
<1> QED  BY <1>1, <1>2 DEF Added

\* A task that has a place is alive.
LEMMA PlacedIsAlive ==
    ASSUME DBInv, NEW t, t \notin live
    PROVE  /\ t \notin Given /\ t \notin Hands /\ t \notin Nexts /\ t \notin Fini
           /\ t \notin Ticked /\ t \notin Behind /\ t \notin Handing
BY DEF DBInv, AllPlaced

LEMMA FileTaskKeeps ==
    ASSUME DBInv, NEW t \in EntityTasks, FileTask(t)
    PROVE  DBInv'
<1>1. /\ t \in Tasks /\ t \notin live /\ t \notin presented /\ handing = NULL
      /\ live' = live \cup {t}
      /\ UNCHANGED <<bufferedTaskList, finiTaskList, finitasks, currTask, task1, asked,
                     presented, pc, timed, isDestroyed, lost, currentThreadCount>>
  BY DBPoolAssumption DEF FileTask, poolVars, mainVars
<1>2. PoolInv'
  <2>1. PoolInv /\ live' \in SUBSET Tasks
    BY <1>1 DEF DBInv, PoolInv, TypeOK
  <2> QED  BY <2>1, LiveChanges DEF FileTask
<1>3. NoneLeaves' /\ AskedByPlace'
  BY <1>1 DEF DBInv, NoneLeaves, AskedByPlace
<1>4. /\ Given' = Given /\ Fini' = Fini /\ Ticked' = Ticked /\ Hands' = Hands /\ Nexts' = Nexts
      /\ NoneTwice'
  BY <1>1, SamePlaces DEF DBInv, NoneTwice
<1>5. PICK k \in Queue!Keys : k = Queue!Key(t)
  BY KeyInKeys
<1>6. /\ t \notin Given /\ t \notin Hands /\ t \notin Nexts /\ t \notin Fini
      /\ t \notin Ticked /\ t \notin Behind /\ t \notin Handing
  BY <1>1, PlacedIsAlive
<1>7. CASE buffered[k] = <<>>
  <2>1. buffered' = [buffered EXCEPT ![k] = <<NULL>>] /\ handing' = t
    BY <1>5, <1>7 DEF FileTask
  <2>2. /\ buffered' \in [Queue!Keys -> Seq(EntityTasks \cup {NULL})]
        /\ BehindOnce' /\ Behind' = Behind
    BY <1>7, <2>1, KeyIsHeld DEF DBInv
  <2>3. QueueTypeOK'
    BY <1>1, <2>1, <2>2 DEF DBInv, QueueTypeOK
  <2>4. Handing' = {t} /\ Handing = {}
    BY <1>1, <2>1, ThreadsAssumption DEF Handing
  <2>5. Apart'
    BY <1>1, <1>4, <1>6, <2>2, <2>4 DEF DBInv, Apart
  <2>6. AllPlaced'
    BY <1>1, <1>4, <2>2, <2>4 DEF DBInv, AllPlaced
  <2> QED  BY <1>2, <1>3, <1>4, <2>2, <2>3, <2>5, <2>6 DEF DBInv
<1>8. CASE buffered[k] # <<>>
  <2>1. buffered' = [buffered EXCEPT ![k] = Append(@, t)] /\ handing' = handing
    BY <1>5, <1>8 DEF FileTask
  <2>2. /\ buffered' \in [Queue!Keys -> Seq(EntityTasks \cup {NULL})]
        /\ BehindOnce' /\ Behind' = Behind \cup {t}
    BY <1>6, <1>8, <2>1, DBPoolAssumption, BehindGains DEF DBInv
  <2>3. QueueTypeOK'
    BY <1>1, <2>1, <2>2 DEF DBInv, QueueTypeOK
  <2>4. Handing' = Handing
    BY <2>1, SamePlaces
  <2>5. Apart'
    BY <1>1, <1>4, <1>6, <2>2, <2>4 DEF DBInv, Apart
  <2>6. AllPlaced'
    BY <1>1, <1>4, <2>2, <2>4 DEF DBInv, AllPlaced
  <2> QED  BY <1>2, <1>3, <1>4, <2>2, <2>3, <2>5, <2>6 DEF DBInv
<1> QED  BY <1>7, <1>8

LEMMA HandTaskKeeps ==
    ASSUME DBInv, HandTask
    PROVE  DBInv'
<1>1. PICK t \in Tasks : t = handing
  BY DBPoolAssumption DEF HandTask, DBInv, QueueTypeOK
<1>2. /\ AddTaskBody(t) /\ handing' = NULL
      /\ UNCHANGED <<finiTaskList, task1, finitasks, isDestroyed, finalised, live, lost,
                     buffered, asked, presented>>
  BY <1>1 DEF HandTask, mainVars
<1>3. PoolInv'
  <2>1. WhileAdding /\ PoolInv
    BY <1>2 DEF WhileAdding, DBInv, PoolInv, TypeOK, NoneLeaves
  <2> QED  BY <1>2, <2>1, AddTaskBodyInv
<1>4. Added(t)
  BY <1>2, AddedTask
<1>5. NoneLeaves' /\ AskedByPlace' /\ QueueTypeOK'
  BY <1>2, <1>4 DEF Added, DBInv, NoneLeaves, AskedByPlace, QueueTypeOK
<1>6. Handing = {t} /\ Handing' = {}
  BY <1>1, <1>2, ThreadsAssumption DEF Handing
<1>7. t \notin Hands /\ t \notin Given /\ t \notin Nexts
  BY <1>6 DEF DBInv, Apart
<1>8. /\ HeldOnce(currTask)' /\ Distinct(bufferedTaskList)'
      /\ \/ Hands' = Hands \cup {t} /\ Given' = Given
         \/ Hands' = Hands /\ Given' = Given \cup {t}
  BY <1>4, <1>7, AddedPlaces
<1>9. /\ Fini' = Fini /\ Ticked' = Ticked /\ Nexts' = Nexts /\ Behind' = Behind
      /\ BehindOnce' /\ NoneTwice'
  BY <1>2, <1>8, SamePlaces DEF DBInv, NoneTwice
<1>10. Apart'
  BY <1>2, <1>6, <1>8, <1>9 DEF DBInv, Apart
<1>11. AllPlaced'
  BY <1>2, <1>6, <1>8, <1>9 DEF DBInv, AllPlaced
<1> QED  BY <1>3, <1>5, <1>9, <1>10, <1>11 DEF DBInv

LEMMA AddPlainTaskKeeps ==
    ASSUME DBInv, NEW t \in PlainTasks, AddPlainTask(t)
    PROVE  DBInv'
<1>1. /\ t \in Tasks /\ t \notin live /\ t \notin presented /\ AddTask(t)
      /\ UNCHANGED <<buffered, handing, asked, presented>>
  BY DEF AddPlainTask, AddTask, PlainTasks, queueVars
<1>2. /\ AddTaskBody(t) /\ live' = live \cup {t}
      /\ UNCHANGED <<finiTaskList, task1, finitasks, isDestroyed, lost>>
  BY <1>1 DEF AddTask, mainVars
<1>3. PoolInv'
  BY <1>1, AddTaskInv DEF DBInv
<1>4. Added(t)
  BY <1>1, <1>2, AddedTask
<1>5. NoneLeaves' /\ AskedByPlace' /\ QueueTypeOK'
  BY <1>1, <1>2, <1>4 DEF Added, DBInv, NoneLeaves, AskedByPlace, QueueTypeOK
<1>6. /\ t \notin Given /\ t \notin Hands /\ t \notin Nexts /\ t \notin Fini
      /\ t \notin Ticked /\ t \notin Behind /\ t \notin Handing
  BY <1>1, PlacedIsAlive
<1>7. /\ HeldOnce(currTask)' /\ Distinct(bufferedTaskList)'
      /\ \/ Hands' = Hands \cup {t} /\ Given' = Given
         \/ Hands' = Hands /\ Given' = Given \cup {t}
  BY <1>1, <1>4, <1>6, AddedPlaces
<1>8. /\ Fini' = Fini /\ Ticked' = Ticked /\ Nexts' = Nexts /\ Behind' = Behind
      /\ Handing' = Handing /\ BehindOnce' /\ NoneTwice'
  BY <1>1, <1>2, <1>7, SamePlaces DEF DBInv, NoneTwice
<1>9. Apart'
  BY <1>1, <1>2, <1>6, <1>7, <1>8 DEF DBInv, Apart
<1>10. AllPlaced'
  BY <1>2, <1>7, <1>8 DEF DBInv, AllPlaced
<1> QED  BY <1>3, <1>5, <1>8, <1>9, <1>10 DEF DBInv

LEMMA TickTakeKeeps ==
    ASSUME DBInv, DBTickTake
    PROVE  DBInv'
<1>1. /\ TickTake /\ finitasks = <<>>
      /\ finitasks' = finiTaskList /\ finiTaskList' = <<>>
      /\ UNCHANGED <<bufferedTaskList, currTask, task1, pc, timed, isDestroyed, lost, live,
                     currentThreadCount, buffered, handing, asked, presented>>
  BY DEF DBTickTake, TickTake, MainThreadIdle, poolVars, queueVars
<1>2. PoolInv'
  BY <1>1, TickTakeInv DEF DBInv
<1>3. NoneLeaves' /\ AskedByPlace' /\ QueueTypeOK'
  BY <1>1 DEF DBInv, NoneLeaves, AskedByPlace, QueueTypeOK
<1>4. /\ Given' = Given /\ Hands' = Hands /\ Nexts' = Nexts /\ Behind' = Behind
      /\ Handing' = Handing /\ BehindOnce'
      /\ Distinct(bufferedTaskList)' /\ HeldOnce(currTask)' /\ HeldOnce(task1)'
  BY <1>1, SamePlaces DEF DBInv, NoneTwice
<1>5. Ticked = {} /\ Ticked' = Fini /\ Fini' = {}
  BY <1>1, ListEmpty DEF Ticked, Fini, Elements
<1>6. Distinct(finitasks)' /\ Distinct(finiTaskList)'
  BY <1>1 DEF DBInv, NoneTwice, Distinct
<1>7. NoneTwice'
  BY <1>4, <1>6 DEF NoneTwice
<1>8. Apart'
  BY <1>1, <1>4, <1>5 DEF DBInv, Apart
<1>9. AllPlaced'
  BY <1>1, <1>4, <1>5 DEF DBInv, AllPlaced
<1> QED  BY <1>2, <1>3, <1>4, <1>7, <1>8, <1>9 DEF DBInv

LEMMA PresentKeeps ==
    ASSUME DBInv, DBPresent
    PROVE  DBInv'
<1>1. PICK x : x = Head(finitasks)
  OBVIOUS
<1>2. /\ PresentCompleted /\ finitasks # <<>>
      /\ finitasks' = Tail(finitasks) /\ live' = live \ {x}
      /\ presented' = presented \cup {x}
      /\ UNCHANGED <<bufferedTaskList, finiTaskList, currTask, task1, pc, timed, isDestroyed,
                     lost, currentThreadCount, buffered, handing, asked>>
  BY <1>1 DEF DBPresent, PresentCompleted, poolVars
<1>3. PoolInv'
  BY <1>2, PresentCompletedInv DEF DBInv
<1>4. Distinct(finitasks)' /\ Ticked' = Ticked \ {x} /\ x \in Ticked /\ x \in Tasks
  BY <1>1, <1>2, TickedGives DEF DBInv, PoolInv
<1>5. NoneLeaves' /\ AskedByPlace' /\ QueueTypeOK'
  BY <1>2, <1>4 DEF DBInv, NoneLeaves, AskedByPlace, QueueTypeOK
<1>6. /\ Given' = Given /\ Hands' = Hands /\ Nexts' = Nexts /\ Fini' = Fini
      /\ Behind' = Behind /\ Handing' = Handing /\ BehindOnce' /\ NoneTwice'
  BY <1>2, <1>4, SamePlaces DEF DBInv, NoneTwice
<1>7. Apart'
  BY <1>2, <1>4, <1>6 DEF DBInv, Apart
<1>8. AllPlaced'
  BY <1>2, <1>4, <1>6 DEF DBInv, AllPlaced, Apart
<1> QED  BY <1>3, <1>5, <1>6, <1>7, <1>8 DEF DBInv

\* The task p is done with, as a rigid value, and what it is known to be.
LEMMA TaskInHand ==
    ASSUME DBInv, NEW p \in Threads, pc[p] \in {"process", "tryget", "chain", "complete"},
           NEW c, c = currTask[p]
    PROVE  c \in Tasks /\ c \in Hands
BY DEF DBInv, PoolInv, TypeOK, TaskByPlace, Hands, Held

LEMMA AskNextTaskKeeps ==
    ASSUME DBInv, NEW p \in Threads, AskNextTask(p)
    PROVE  DBInv'
<1>1. PICK t : t = currTask[p]
  OBVIOUS
<1>2. pc[p] = "tryget" /\ ~asked[p] /\ t \in Tasks
  BY <1>1, TaskInHand DEF AskNextTask
<1>3. UNCHANGED <<bufferedTaskList, finiTaskList, poolVars, currTask, timed, signalled,
                  mainVars, live, lost, handing, presented>>
  BY DEF AskNextTask
<1>4. NoneLeaves /\ AskedByPlace /\ QueueTypeOK /\ BehindOnce /\ TypeOK /\ PoolInv
  BY DEF DBInv, PoolInv
<1>5. /\ Given' = Given /\ Hands' = Hands /\ Fini' = Fini /\ Ticked' = Ticked
      /\ Handing' = Handing
      /\ Distinct(bufferedTaskList)' /\ Distinct(finiTaskList)' /\ Distinct(finitasks)'
      /\ HeldOnce(currTask)'
  BY <1>3, SamePlaces DEF DBInv, NoneTwice, mainVars
<1>6. CASE \E k \in Queue!Keys : /\ buffered[k] # <<>>
                                 /\ Len(buffered[k]) > 1
                                 /\ buffered' = [buffered EXCEPT ![k] = Tail(@)]
                                 /\ task1' = [task1 EXCEPT ![p] = buffered[k][2]]
                                 /\ Goto(p, "chain")
                                 /\ UNCHANGED asked
  <2>1. PICK k \in Queue!Keys : /\ buffered[k] # <<>>
                                /\ Len(buffered[k]) > 1
                                /\ buffered' = [buffered EXCEPT ![k] = Tail(@)]
                                /\ task1' = [task1 EXCEPT ![p] = buffered[k][2]]
                                /\ pc' = [pc EXCEPT ![p] = "chain"]
                                /\ UNCHANGED asked
    BY <1>6 DEF Goto
  <2>2. PICK u : u = buffered[k][2]
    OBVIOUS
  <2>3. /\ buffered' \in [Queue!Keys -> Seq(EntityTasks \cup {NULL})]
        /\ BehindOnce' /\ Behind' = Behind \ {u} /\ u \in Behind /\ u \in Tasks
    BY <1>4, <2>1, <2>2, BehindGives, DBPoolAssumption
  <2>4. task1' = [task1 EXCEPT ![p] = u]
    BY <2>1, <2>2
  <2>5. PoolInv'
    BY <1>2, <1>3, <1>4, <2>1, <2>3, <2>4, SuccessorNamed
  <2>6. PICK c : c = task1[p]
    OBVIOUS
  <2>7. c = NULL /\ u \notin Nexts /\ NULL \notin Nexts /\ u # NULL
    BY <1>2, <1>4, <2>3, <2>6, ThreadsAssumption
    DEF DBInv, Apart, PoolInv, TaskByPlace, Nexts, Held
  <2>8. HeldOnce(task1)' /\ Nexts' = (Nexts \ {c}) \cup ({u} \ {NULL})
    BY <1>4, <2>3, <2>4, <2>6, <2>7, NextsChange DEF DBInv
  <2>9. Nexts' = Nexts \cup {u}
    BY <2>7, <2>8
  <2>10. NoneLeaves' /\ AskedByPlace' /\ QueueTypeOK'
    BY <1>2, <1>3, <1>4, <2>1, <2>3
    DEF NoneLeaves, AskedByPlace, QueueTypeOK, TypeOK, poolVars, mainVars
  <2>11. NoneTwice'
    BY <1>5, <2>8 DEF NoneTwice
  <2>12. Apart'
    BY <1>3, <1>5, <2>3, <2>9 DEF DBInv, Apart
  <2>13. AllPlaced'
    BY <1>3, <1>5, <2>3, <2>9 DEF DBInv, AllPlaced
  <2> QED  BY <2>3, <2>5, <2>10, <2>11, <2>12, <2>13 DEF DBInv
<1>7. CASE /\ asked' = [asked EXCEPT ![p] = TRUE]
           /\ UNCHANGED <<pc, task1>>
           /\ \/ UNCHANGED buffered
              \/ \E k \in Queue!Keys : /\ buffered[k] # <<>>
                                       /\ ~(Len(buffered[k]) > 1)
                                       /\ buffered' = [buffered EXCEPT ![k] = Tail(@)]
  <2>1. UNCHANGED vars
    BY <1>3, <1>7 DEF vars
  <2>2. PoolInv'
    BY <1>4, <2>1, StutterInv
  <2>3. /\ buffered' \in [Queue!Keys -> Seq(EntityTasks \cup {NULL})]
        /\ BehindOnce' /\ Behind' = Behind
    <3>1. CASE UNCHANGED buffered
      BY <1>4, <3>1, SamePlaces DEF QueueTypeOK
    <3>2. CASE \E k \in Queue!Keys : /\ buffered[k] # <<>>
                                     /\ ~(Len(buffered[k]) > 1)
                                     /\ buffered' = [buffered EXCEPT ![k] = Tail(@)]
      BY <1>4, <3>2, BehindGives, DBPoolAssumption
    <3> QED  BY <1>7, <3>1, <3>2
  <2>4. Nexts' = Nexts /\ HeldOnce(task1)'
    BY <1>7, SamePlaces DEF DBInv, NoneTwice
  <2>5. NoneLeaves' /\ AskedByPlace' /\ QueueTypeOK'
    BY <1>2, <1>3, <1>4, <1>7, <2>3
    DEF NoneLeaves, AskedByPlace, QueueTypeOK, TypeOK, poolVars, mainVars
  <2>6. NoneTwice'
    BY <1>5, <2>4 DEF NoneTwice
  <2>7. Apart'
    BY <1>3, <1>5, <2>3, <2>4 DEF DBInv, Apart
  <2>8. AllPlaced'
    BY <1>3, <1>5, <2>3, <2>4 DEF DBInv, AllPlaced
  <2> QED  BY <2>2, <2>3, <2>5, <2>6, <2>7, <2>8 DEF DBInv
<1> QED
  <2>1. PICK k : k = Queue!Key(t)
    OBVIOUS
  <2>2. t \in EntityTasks => k \in Queue!Keys
    BY <2>1, KeyInKeys
  <2>3. CASE t \in EntityTasks /\ Len(buffered[k]) > 1
    <3>1. buffered[k] # <<>>
      BY <1>4, <2>2, <2>3, EmptySeq DEF QueueTypeOK
    <3>2. buffered[k][2] # NULL
      BY <1>4, <2>2, <2>3, <3>1, BehindGives, DBPoolAssumption, ThreadsAssumption
      DEF BehindOnce, QueueTypeOK
    <3>3. /\ buffered' = [buffered EXCEPT ![k] = Tail(@)]
          /\ task1' = [task1 EXCEPT ![p] = buffered[k][2]]
          /\ Goto(p, "chain")
          /\ UNCHANGED asked
      BY <1>1, <2>1, <2>3, <3>1, <3>2 DEF AskNextTask
    <3> QED  BY <1>6, <2>2, <2>3, <3>1, <3>3
  <2>4. CASE ~(t \in EntityTasks /\ Len(buffered[k]) > 1)
    <3>1. asked' = [asked EXCEPT ![p] = TRUE] /\ UNCHANGED <<pc, task1>>
      BY <1>1, <2>1, <2>4 DEF AskNextTask
    <3>2. \/ UNCHANGED buffered
          \/ t \in EntityTasks /\ buffered[k] # <<>> /\ buffered' = [buffered EXCEPT ![k] = Tail(@)]
      BY <1>1, <2>1 DEF AskNextTask
    <3> QED  BY <1>7, <2>2, <2>4, <3>1, <3>2
  <2> QED  BY <2>3, <2>4

LEMMA PopTaskKeeps ==
    ASSUME DBInv, NEW p \in Threads, PopTask(p)
    PROVE  DBInv'
<1>1. /\ TryGetTask(p) /\ asked[p] /\ pc[p] = "tryget"
      /\ UNCHANGED <<finiTaskList, finitasks, currTask, timed, isDestroyed, lost, live,
                     currentThreadCount, buffered, handing, asked, presented>>
  BY DEF PopTask, TryGetTask, poolVars, mainVars, queueVars
<1>2. PoolInv'
  BY <1>1, TryGetTaskInv DEF DBInv
<1>3. NoneLeaves /\ AskedByPlace /\ QueueTypeOK /\ TypeOK /\ NoneTwice
  BY DEF DBInv, PoolInv
<1>4. PICK l \in {"chain", "complete"} : pc' = [pc EXCEPT ![p] = l]
  BY <1>1 DEF TryGetTask, Goto
<1>5. NoneLeaves' /\ AskedByPlace' /\ QueueTypeOK'
  BY <1>1, <1>3, <1>4 DEF NoneLeaves, AskedByPlace, QueueTypeOK, TypeOK
<1>6. /\ Hands' = Hands /\ Fini' = Fini /\ Ticked' = Ticked /\ Behind' = Behind
      /\ Handing' = Handing /\ BehindOnce'
      /\ Distinct(finiTaskList)' /\ Distinct(finitasks)' /\ HeldOnce(currTask)'
  BY <1>1, SamePlaces DEF DBInv, NoneTwice
<1>7. CASE bufferedTaskList = <<>>
  <2>1. UNCHANGED <<bufferedTaskList, task1>>
    BY <1>1, <1>7 DEF TryGetTask
  <2>2. /\ Given' = Given /\ Nexts' = Nexts
        /\ Distinct(bufferedTaskList)' /\ HeldOnce(task1)'
    BY <1>3, <2>1, SamePlaces DEF NoneTwice
  <2>3. NoneTwice' /\ Apart' /\ AllPlaced'
    BY <1>1, <1>6, <2>2 DEF DBInv, NoneTwice, Apart, AllPlaced
  <2> QED  BY <1>2, <1>5, <1>6, <2>3 DEF DBInv
<1>8. CASE bufferedTaskList # <<>>
  <2>1. PICK x : x = Head(bufferedTaskList)
    OBVIOUS
  <2>2. bufferedTaskList' = Tail(bufferedTaskList) /\ task1' = [task1 EXCEPT ![p] = x]
    BY <1>1, <1>8, <2>1 DEF TryGetTask
  <2>3. Distinct(bufferedTaskList)' /\ Given' = Given \ {x} /\ x \in Given /\ x \in Tasks
    BY <1>3, <1>8, <2>1, <2>2, BufferGives
  <2>4. PICK c : c = task1[p]
    OBVIOUS
  <2>5. c = NULL /\ x \notin Nexts /\ NULL \notin Nexts /\ x # NULL
    BY <1>1, <2>3, <2>4, ThreadsAssumption
    DEF DBInv, Apart, PoolInv, TaskByPlace, Nexts, Held
  <2>6. HeldOnce(task1)' /\ Nexts' = (Nexts \ {c}) \cup ({x} \ {NULL})
    BY <1>3, <2>2, <2>3, <2>4, <2>5, NextsChange
  <2>7. Nexts' = Nexts \cup {x}
    BY <2>5, <2>6
  <2>8. NoneTwice'
    BY <1>6, <2>3, <2>6 DEF NoneTwice
  <2>9. Apart'
    BY <1>1, <1>6, <2>3, <2>7 DEF DBInv, Apart
  <2>10. AllPlaced'
    BY <1>1, <1>6, <2>3, <2>7 DEF DBInv, AllPlaced
  <2> QED  BY <1>2, <1>5, <1>6, <2>8, <2>9, <2>10 DEF DBInv
<1> QED  BY <1>7, <1>8

LEMMA FinishTaskKeeps ==
    ASSUME DBInv, NEW p \in Threads, FinishTask(p)
    PROVE  DBInv'
<1>1. /\ asked' = [asked EXCEPT ![p] = FALSE]
      /\ UNCHANGED <<bufferedTaskList, finitasks, timed, isDestroyed, lost, live,
                     currentThreadCount, buffered, handing, presented>>
  BY DEF FinishTask, ChainTask, CompleteTask, poolVars, mainVars
<1>2. PoolInv'
  BY ChainTaskInv, CompleteTaskInv DEF DBInv, FinishTask
<1>3. NoneLeaves /\ AskedByPlace /\ QueueTypeOK /\ TypeOK /\ NoneTwice
  BY DEF DBInv, PoolInv
<1>4. PICK l \in {"check", "free"} : pc' = [pc EXCEPT ![p] = l]
  BY DEF FinishTask, ChainTask, CompleteTask, Goto
<1>5. NoneLeaves' /\ AskedByPlace' /\ QueueTypeOK'
  BY <1>1, <1>3, <1>4 DEF NoneLeaves, AskedByPlace, QueueTypeOK, TypeOK
<1>6. PICK c : c = currTask[p]
  OBVIOUS
<1>7. /\ c \in Tasks /\ c \in Hands /\ c \notin Fini
      /\ finiTaskList' = Append(finiTaskList, c)
  <2>1. pc[p] \in {"process", "tryget", "chain", "complete"}
    BY DEF FinishTask, ChainTask, CompleteTask
  <2>2. c \in Tasks /\ c \in Hands
    BY <1>6, <2>1, TaskInHand
  <2> QED  BY <1>6, <2>2 DEF FinishTask, ChainTask, CompleteTask, DBInv, Apart
<1>8. Distinct(finiTaskList)' /\ Fini' = Fini \cup {c}
  BY <1>3, <1>7, FiniGains
<1>9. /\ Given' = Given /\ Ticked' = Ticked /\ Behind' = Behind
      /\ Handing' = Handing /\ BehindOnce'
      /\ Distinct(bufferedTaskList)' /\ Distinct(finitasks)'
  BY <1>1, SamePlaces DEF DBInv, NoneTwice
<1>10. CASE ChainTask(p)
  <2>1. PICK u : u = task1[p]
    OBVIOUS
  <2>2. /\ pc[p] = "chain"
        /\ currTask' = [currTask EXCEPT ![p] = u]
        /\ task1' = [task1 EXCEPT ![p] = NULL]
    BY <1>10, <2>1 DEF ChainTask
  <2>3. u \in Tasks /\ u # NULL /\ u \in Nexts /\ u \notin Hands
    BY <1>3, <2>1, <2>2, ThreadsAssumption
    DEF DBInv, Apart, PoolInv, TypeOK, TaskByPlace, Nexts, Held
  <2>4. HeldOnce(currTask)' /\ Hands' = (Hands \ {c}) \cup ({u} \ {NULL})
    BY <1>3, <1>6, <2>2, <2>3, HandsChange
  <2>5. NULL \notin Nexts
    BY DEF Nexts, Held
  <2>6. HeldOnce(task1)' /\ Nexts' = (Nexts \ {u}) \cup ({NULL} \ {NULL})
    BY <1>3, <2>1, <2>2, <2>5, NextsChange
  <2>7. Hands' = (Hands \ {c}) \cup {u} /\ Nexts' = Nexts \ {u}
    BY <2>3, <2>4, <2>6
  <2>8. NoneTwice'
    BY <1>8, <1>9, <2>4, <2>6 DEF NoneTwice
  <2>9. Apart'
    BY <1>1, <1>7, <1>8, <1>9, <2>3, <2>7 DEF DBInv, Apart
  <2>10. AllPlaced'
    BY <1>1, <1>7, <1>8, <1>9, <2>3, <2>7 DEF DBInv, AllPlaced
  <2> QED  BY <1>2, <1>5, <1>9, <2>8, <2>9, <2>10 DEF DBInv
<1>11. CASE CompleteTask(p)
  <2>1. currTask' = [currTask EXCEPT ![p] = NULL] /\ task1' = task1
    BY <1>11 DEF CompleteTask
  <2>2. NULL \notin Hands
    BY DEF Hands, Held
  <2>3. HeldOnce(currTask)' /\ Hands' = (Hands \ {c}) \cup ({NULL} \ {NULL})
    BY <1>3, <1>6, <2>1, <2>2, HandsChange
  <2>4. Hands' = Hands \ {c}
    BY <2>3
  <2>5. Nexts' = Nexts /\ HeldOnce(task1)'
    BY <1>3, <2>1, SamePlaces DEF NoneTwice
  <2>6. NoneTwice'
    BY <1>8, <1>9, <2>3, <2>5 DEF NoneTwice
  <2>7. Apart'
    BY <1>1, <1>7, <1>8, <1>9, <2>4, <2>5 DEF DBInv, Apart
  <2>8. AllPlaced'
    BY <1>1, <1>7, <1>8, <1>9, <2>4, <2>5 DEF DBInv, AllPlaced
  <2> QED  BY <1>2, <1>5, <1>9, <2>6, <2>7, <2>8 DEF DBInv
<1> QED  BY <1>10, <1>11 DEF FinishTask

\* A step that moves no task.
LEMMA NothingMoves ==
    ASSUME DBInv, PoolInv', AskedByPlace', NoneLeaves',
           UNCHANGED <<bufferedTaskList, finiTaskList, finitasks, currTask, task1, live>>,
           UNCHANGED <<buffered, handing, asked, presented>>
    PROVE  DBInv'
<1>1. /\ Given' = Given /\ Hands' = Hands /\ Nexts' = Nexts /\ Fini' = Fini
      /\ Ticked' = Ticked /\ Behind' = Behind /\ Handing' = Handing
      /\ BehindOnce' /\ NoneTwice'
  BY SamePlaces DEF DBInv, NoneTwice
<1>2. QueueTypeOK'
  BY DEF DBInv, QueueTypeOK
<1>3. Apart' /\ AllPlaced'
  BY <1>1 DEF DBInv, Apart, AllPlaced
<1> QED  BY <1>1, <1>2, <1>3 DEF DBInv

LEMMA OtherThreadStepKeeps ==
    ASSUME DBInv, NEW p \in Threads, OtherThreadStep(p)
    PROVE  DBInv'
<1>1. PoolInv'
  BY LoopTopInv, EnterWaitInv, WaitSignalledInv, ResetEventInv, CheckInv, ProcessTaskInv,
     AddFreeThreadInv DEF DBInv, OtherThreadStep
<1>2. UNCHANGED <<bufferedTaskList, finiTaskList, finitasks, currTask, task1, live, lost,
                  isDestroyed, currentThreadCount, timed, buffered, handing, asked, presented>>
  BY DEF OtherThreadStep, LoopTop, EnterWait, WaitSignalled, ResetEvent, Check, ProcessTask,
         AddFreeThread, unchangedButPc, poolVars, mainVars, queueVars
<1>3. PICK l : l = pc'[p]
  OBVIOUS
<1>4. /\ pc' = [pc EXCEPT ![p] = l]
      /\ l \notin {"timedout", "exit", "end"}
      /\ pc[p] \notin {"tryget", "chain", "complete"}
  BY <1>3 DEF OtherThreadStep, LoopTop, EnterWait, WaitSignalled, ResetEvent, Check,
              ProcessTask, AddFreeThread, Goto, DBInv, NoneLeaves, PoolInv, TypeOK
<1>5. NoneLeaves' /\ AskedByPlace'
  BY <1>2, <1>4 DEF DBInv, NoneLeaves, AskedByPlace, PoolInv, TypeOK
<1> QED  BY <1>1, <1>2, <1>5, NothingMoves

LEMMA DBInitInv == DBInit => DBInv
<1> SUFFICES ASSUME DBInit  PROVE DBInv
  OBVIOUS
<1>1. Init /\ PoolInv
  BY InitInv DEF DBInit
<1>2. NoneLeaves /\ AskedByPlace
  BY <1>1, DBPoolAssumption DEF DBInit, Init, NoneLeaves, AskedByPlace
<1>3. QueueTypeOK
  BY DEF DBInit, QueueTypeOK
<1>4. BehindOnce /\ Behind = {}
  BY DEF DBInit, BehindOnce, Behind, Waiting
<1>5. NoneTwice
  BY <1>1, ListEmpty DEF Init, NoneTwice, HeldOnce
<1>6. /\ Given = {} /\ Fini = {} /\ Ticked = {} /\ Hands = {} /\ Nexts = {}
      /\ Handing = {} /\ live = {}
  BY <1>1, ListEmpty DEF DBInit, Init, Given, Fini, Ticked, Hands, Nexts, Held, Handing
<1>7. Apart /\ AllPlaced
  BY <1>4, <1>6 DEF Apart, AllPlaced
<1> QED  BY <1>1, <1>2, <1>3, <1>4, <1>5, <1>7 DEF DBInv

LEMMA DBStep == DBInv /\ [DBNext]_dbVars => DBInv'
<1> SUFFICES ASSUME DBInv, [DBNext]_dbVars  PROVE DBInv'
  OBVIOUS
<1>1. ASSUME NEW t \in EntityTasks, FileTask(t)  PROVE DBInv'
  BY <1>1, FileTaskKeeps
<1>2. ASSUME NEW t \in PlainTasks, AddPlainTask(t)  PROVE DBInv'
  BY <1>2, AddPlainTaskKeeps
<1>3. CASE HandTask \/ DBTickTake \/ DBPresent
  BY <1>3, HandTaskKeeps, TickTakeKeeps, PresentKeeps
<1>4. ASSUME NEW p \in Threads, AskNextTask(p) \/ PopTask(p)  PROVE DBInv'
  BY <1>4, AskNextTaskKeeps, PopTaskKeeps
<1>5. ASSUME NEW p \in Threads, FinishTask(p) \/ OtherThreadStep(p)  PROVE DBInv'
  BY <1>5, FinishTaskKeeps, OtherThreadStepKeeps
<1>6. CASE UNCHANGED dbVars
  <2>1. /\ PoolInv' /\ UNCHANGED vars
        /\ UNCHANGED <<buffered, handing, asked, presented>>
    BY <1>6, StutterInv DEF dbVars, queueVars, DBInv
  <2>2. NoneLeaves' /\ AskedByPlace'
    BY <2>1 DEF DBInv, NoneLeaves, AskedByPlace, vars, poolVars, mainVars
  <2>3. UNCHANGED <<bufferedTaskList, finiTaskList, finitasks, currTask, task1, live>>
    BY <2>1 DEF vars, mainVars
  <2> QED  BY <2>1, <2>2, <2>3, NothingMoves
<1> QED  BY <1>1, <1>2, <1>3, <1>4, <1>5, <1>6 DEF DBNext

\* In every reachable state a database task that is alive is in one place: held back by
\* addTask, filed behind another one, or where a task of the pool can be.
THEOREM PlacesHold == DBSpec => []DBInv
BY DBInitInv, DBStep, PTL DEF DBSpec

-----------------------------------------------------------------------------
(***************************************************************************)
(* The stages, read off the places                                         *)
(***************************************************************************)

\* The stage of a task that a thread has in hand.
StageAt(l, a) ==
    IF l \in Resting THEN "given"
    ELSE IF l = "process" \/ (l = "tryget" /\ ~a) THEN "running" ELSE "released"

StageMap ==
    \A t \in Tasks :
        /\ t \in Handing => Stage(t) = "handing"
        /\ t \in Given => Stage(t) = "given"
        /\ \A p \in Threads :
              task1[p] = t => Stage(t) = IF asked[p] THEN "given" ELSE "chained"
        /\ \A p \in Threads : currTask[p] = t => Stage(t) = StageAt(pc[p], asked[p])
        /\ t \in Fini => Stage(t) = "fini"
        /\ t \in Ticked \cup presented => Stage(t) = "presented"
        /\ t \in Behind => Stage(t) = "waiting"
        /\ t \notin live \cup presented => Stage(t) = "new"

FollowMap ==
    \A t \in Tasks :
        /\ \A p \in Threads :
              currTask[p] = t => Follow(t) = IF asked[p] THEN NULL ELSE task1[p]
        /\ t \notin Hands => Follow(t) = NULL

\* What Stage looks at, in terms of the places.
LEMMA StageGuards ==
    ASSUME DBInv, NEW t \in Tasks
    PROVE  /\ t = handing <=> t \in Handing
           /\ InSeq(t, bufferedTaskList) <=> t \in Given
           /\ InSeq(t, finiTaskList) <=> t \in Fini
           /\ InSeq(t, finitasks) <=> t \in Ticked
           /\ Waiting(t) <=> t \in Behind
           /\ t \notin Nexts => Popped(t) = {}
           /\ t \notin Hands => InHand(t) = {}
<1>1. /\ t = handing <=> t \in Handing
      /\ Waiting(t) <=> t \in Behind
  BY ThreadsAssumption DEF Handing, Behind
<1>2. /\ InSeq(t, bufferedTaskList) <=> t \in Given
      /\ InSeq(t, finiTaskList) <=> t \in Fini
      /\ InSeq(t, finitasks) <=> t \in Ticked
  BY DEF InSeq, Given, Fini, Ticked, Elements
<1>3. t \notin Nexts => Popped(t) = {}
  BY ThreadsAssumption DEF Nexts, Held, Popped
<1>4. t \notin Hands => InHand(t) = {}
  BY ThreadsAssumption DEF Hands, Held, InHand
<1> QED  BY <1>1, <1>2, <1>3, <1>4

\* The thread with a task in hand, or in task1, is the only one.
LEMMA OneThread ==
    ASSUME DBInv, NEW t \in Tasks, NEW p \in Threads
    PROVE  /\ task1[p] = t => Popped(t) = {p} /\ t \in Nexts
           /\ currTask[p] = t => /\ InHand(t) = {p} /\ t \in Hands
                                 /\ pc[p] \in Resting \cup {"process", "tryget", "chain", "complete"}
<1>1. ASSUME task1[p] = t  PROVE Popped(t) = {p} /\ t \in Nexts
  BY <1>1, ThreadsAssumption DEF DBInv, NoneTwice, HeldOnce, Popped, Nexts, Held
<1>2. ASSUME currTask[p] = t
      PROVE  /\ t \in Hands
             /\ pc[p] \in Resting \cup {"process", "tryget", "chain", "complete"}
  <2>1. t # NULL
    BY ThreadsAssumption
  <2>2. p \in busyThreadList /\ ~finalised
    BY <1>2, <2>1 DEF DBInv, PoolInv, TaskByList, NoneLeaves, Shutdown
  <2>3. pc[p] # "absent"
    BY <2>2 DEF DBInv, PoolInv, CountsMatchLists, MembersExist
  <2> QED  BY <1>2, <2>1, <2>3 DEF DBInv, PoolInv, TypeOK, PCs, TaskByPlace, NoneLeaves,
                                   Resting, Hands, Held
<1>3. ASSUME currTask[p] = t  PROVE InHand(t) = {p}
  BY <1>2, <1>3, ThreadsAssumption DEF DBInv, NoneTwice, HeldOnce, InHand, Resting
<1> QED  BY <1>1, <1>2, <1>3

LEMMA StagesByPlace == DBInv => StageMap
<1> SUFFICES ASSUME DBInv, NEW t \in Tasks
             PROVE  /\ t \in Handing => Stage(t) = "handing"
                    /\ t \in Given => Stage(t) = "given"
                    /\ \A p \in Threads :
                          task1[p] = t => Stage(t) = IF asked[p] THEN "given" ELSE "chained"
                    /\ \A p \in Threads : currTask[p] = t => Stage(t) = StageAt(pc[p], asked[p])
                    /\ t \in Fini => Stage(t) = "fini"
                    /\ t \in Ticked \cup presented => Stage(t) = "presented"
                    /\ t \in Behind => Stage(t) = "waiting"
                    /\ t \notin live \cup presented => Stage(t) = "new"
  BY DEF StageMap
<1>1. /\ t = handing <=> t \in Handing
      /\ InSeq(t, bufferedTaskList) <=> t \in Given
      /\ InSeq(t, finiTaskList) <=> t \in Fini
      /\ InSeq(t, finitasks) <=> t \in Ticked
      /\ Waiting(t) <=> t \in Behind
      /\ t \notin Nexts => Popped(t) = {}
      /\ t \notin Hands => InHand(t) = {}
  BY StageGuards
<1>2. Apart /\ AllPlaced
  BY DEF DBInv
<1>3. ASSUME t \in Handing  PROVE Stage(t) = "handing"
  BY <1>1, <1>2, <1>3 DEF Stage, InHandAt, Apart, AllPlaced
<1>4. ASSUME t \in Given  PROVE Stage(t) = "given"
  BY <1>1, <1>2, <1>4 DEF Stage, InHandAt, Apart, AllPlaced
<1>5. ASSUME NEW p \in Threads, task1[p] = t
      PROVE  Stage(t) = IF asked[p] THEN "given" ELSE "chained"
  <2>1. Popped(t) = {p} /\ t \in Nexts
    BY <1>5, OneThread
  <2> QED  BY <1>1, <1>2, <2>1 DEF Stage, InHandAt, Apart, AllPlaced
<1>6. ASSUME NEW p \in Threads, currTask[p] = t  PROVE Stage(t) = StageAt(pc[p], asked[p])
  <2>1. /\ InHand(t) = {p} /\ t \in Hands
        /\ pc[p] \in Resting \cup {"process", "tryget", "chain", "complete"}
    BY <1>6, OneThread
  <2>2. /\ ~(t = handing) /\ ~InSeq(t, bufferedTaskList) /\ ~InSeq(t, finiTaskList)
        /\ ~InSeq(t, finitasks) /\ t \notin presented /\ ~Waiting(t) /\ Popped(t) = {}
        /\ t \in live
    BY <1>1, <1>2, <2>1 DEF Apart, AllPlaced
  <2>3. \A ls : InHandAt(t, ls) <=> pc[p] \in ls
    BY <2>1 DEF InHandAt
  <2>4. \A q \in InHand(t) : q = p
    BY <2>1
  <2>5. CASE pc[p] \in Resting
    BY <2>1, <2>2, <2>3, <2>4, <2>5 DEF Stage, StageAt, Resting, Processed
  <2>6. CASE pc[p] = "process" \/ (pc[p] = "tryget" /\ ~asked[p])
    BY <2>1, <2>2, <2>3, <2>4, <2>6 DEF Stage, StageAt, Resting, Processed
  <2>7. CASE pc[p] \in {"chain", "complete"} \/ (pc[p] = "tryget" /\ asked[p])
    BY <2>1, <2>2, <2>3, <2>4, <2>7 DEF Stage, StageAt, Resting, Processed
  <2> QED  BY <2>1, <2>5, <2>6, <2>7
<1>7. ASSUME t \in Fini  PROVE Stage(t) = "fini"
  BY <1>1, <1>2, <1>7 DEF Stage, InHandAt, Apart, AllPlaced
<1>8. ASSUME t \in Ticked \cup presented  PROVE Stage(t) = "presented"
  BY <1>1, <1>2, <1>8 DEF Stage, InHandAt, Apart, AllPlaced
<1>9. ASSUME t \in Behind  PROVE Stage(t) = "waiting"
  BY <1>1, <1>2, <1>9 DEF Stage, InHandAt, Apart, AllPlaced
<1>10. ASSUME t \notin live \cup presented  PROVE Stage(t) = "new"
  BY <1>1, <1>2, <1>10 DEF Stage, InHandAt, AllPlaced
<1> QED  BY <1>3, <1>4, <1>5, <1>6, <1>7, <1>8, <1>9, <1>10

LEMMA FollowsByPlace == DBInv => FollowMap
<1> SUFFICES ASSUME DBInv, NEW t \in Tasks
             PROVE  /\ \A p \in Threads :
                          currTask[p] = t => Follow(t) = IF asked[p] THEN NULL ELSE task1[p]
                    /\ t \notin Hands => Follow(t) = NULL
  BY DEF FollowMap
<1>1. ASSUME NEW p \in Threads, currTask[p] = t
      PROVE  Follow(t) = IF asked[p] THEN NULL ELSE task1[p]
  <2>1. InHand(t) = {p}
    BY <1>1, OneThread
  <2>2. ~asked[p] => (CHOOSE q \in InHand(t) : ~asked[q]) = p
    BY <2>1
  <2> QED  BY <2>1, <2>2 DEF Follow
<1>2. ASSUME t \notin Hands  PROVE Follow(t) = NULL
  <2>1. InHand(t) = {}
    BY <1>2, StageGuards
  <2> QED  BY <2>1 DEF Follow
<1> QED  BY <1>1, <1>2

LEMMA MapsHold == DBInv => StageMap /\ FollowMap
BY StagesByPlace, FollowsByPlace

\* The same after a step.
LEMMA MapsHoldNext == DBInv' => StageMap' /\ FollowMap'
BY MapsHold, PTL

-----------------------------------------------------------------------------
(***************************************************************************)
(* The steps of the pool are steps of the queue                            *)
(***************************************************************************)

\* u keeps its place, or goes to one of the same stage.
StaysPut(u) ==
    \/ u \in Handing /\ u \in Handing'
    \/ u \in Given /\ u \in Given'
    \/ \E p \in Threads : task1[p] = u /\ task1'[p] = u /\ asked'[p] = asked[p]
    \/ \E p \in Threads : /\ currTask[p] = u /\ currTask'[p] = u
                          /\ StageAt(pc'[p], asked'[p]) = StageAt(pc[p], asked[p])
    \/ u \in Fini /\ u \in Fini'
    \/ u \in Ticked \cup presented /\ u \in Ticked' \cup presented'
    \/ u \in Behind /\ u \in Behind'
    \/ u \notin live \cup presented /\ u \notin live' \cup presented'

\* The thread that has u in hand, if any, goes on with the same successor.
KeepsFollow(u) ==
    \/ u \notin Hands /\ u \notin Hands'
    \/ \E p \in Threads : /\ currTask[p] = u /\ currTask'[p] = u
                          /\ asked'[p] = asked[p]
                          /\ asked[p] \/ task1'[p] = task1[p]

LEMMA StageStays ==
    ASSUME DBInv, DBInv', NEW u \in Tasks, StaysPut(u)
    PROVE  Stage(u)' = Stage(u)
<1>1. StageMap /\ StageMap'
  BY MapsHold, MapsHoldNext
<1>2. CASE \E p \in Threads : task1[p] = u /\ task1'[p] = u /\ asked'[p] = asked[p]
  BY <1>1, <1>2 DEF StageMap
<1>3. CASE \E p \in Threads : /\ currTask[p] = u /\ currTask'[p] = u
                              /\ StageAt(pc'[p], asked'[p]) = StageAt(pc[p], asked[p])
  <2>1. PICK p \in Threads : /\ currTask[p] = u /\ currTask'[p] = u
                             /\ StageAt(pc'[p], asked'[p]) = StageAt(pc[p], asked[p])
    BY <1>3
  <2>2. Stage(u) = StageAt(pc[p], asked[p])
    BY <1>1, <2>1 DEF StageMap
  <2>3. Stage(u)' = StageAt(pc'[p], asked'[p])
    BY <1>1, <2>1 DEF StageMap
  <2> QED  BY <2>1, <2>2, <2>3
<1>4. CASE \/ u \in Handing /\ u \in Handing'
           \/ u \in Given /\ u \in Given'
           \/ u \in Fini /\ u \in Fini'
           \/ u \in Ticked \cup presented /\ u \in Ticked' \cup presented'
           \/ u \in Behind /\ u \in Behind'
           \/ u \notin live \cup presented /\ u \notin live' \cup presented'
  BY <1>1, <1>4 DEF StageMap
<1> QED  BY <1>2, <1>3, <1>4 DEF StaysPut

LEMMA FollowStays ==
    ASSUME DBInv, DBInv', NEW u \in Tasks, KeepsFollow(u)
    PROVE  Follow(u)' = Follow(u)
<1>1. FollowMap /\ FollowMap'
  BY MapsHold, MapsHoldNext
<1> QED  BY <1>1 DEF KeepsFollow, FollowMap

\* A task has a place, or is not in the system.
LEMMA SomePlace ==
    ASSUME DBInv, NEW u \in Tasks
    PROVE  \/ u \in Handing \/ u \in Given
           \/ u \in Nexts /\ \E p \in Threads : task1[p] = u
           \/ u \in Hands /\ \E p \in Threads : currTask[p] = u
           \/ u \in Fini \/ u \in Ticked \cup presented \/ u \in Behind
           \/ u \notin live \cup presented
BY DEF DBInv, AllPlaced, Hands, Nexts, Held

\* The steps that move no task and end no processing.
LEMMA AllStay ==
    ASSUME DBInv, DBInv', \A u \in Tasks : StaysPut(u) /\ KeepsFollow(u),
           UNCHANGED <<buffered, finiTaskList, arrival, requests>>
    PROVE  UNCHANGED Queue!vars
<1>1. \A u \in Tasks : Stage(u)' = Stage(u) /\ Follow(u)' = Follow(u)
  BY StageStays, FollowStays
<1> QED  BY <1>1 DEF Queue!vars

LEMMA MainThreadIsFree ==
    ASSUME DBInv, handing = NULL
    PROVE  Queue!MainThreadFree
<1> SUFFICES ASSUME NEW u \in Tasks  PROVE Stage(u) # "handing"
  BY DBPoolAssumption DEF Queue!MainThreadFree, Queue!DBTasks, PlainTasks
<1>1. StageMap
  BY MapsHold
<1>2. u \notin Handing
  BY DEF Handing
<1>3. \A l, a : StageAt(l, a) # "handing"
  BY DEF StageAt
<1> QED  BY <1>1, <1>2, <1>3, SomePlace DEF StageMap

LEMMA TasksAreDBTasks == Queue!DBTasks = Tasks
BY DBPoolAssumption DEF Queue!DBTasks, PlainTasks

\* A task that addTask has passed on is with a thread, which goes on with it, or in the
\* buffer of the pool; the others stay where they are.
LEMMA AddedImplements ==
    ASSUME DBInv, DBInv', NEW t \in Tasks, t \notin Hands, t \notin Given, t \notin Nexts,
           Added(t), UNCHANGED <<finiTaskList, finitasks, task1, buffered, asked, presented>>,
           Handing' = Handing \ {t}, live' = live \cup {t}
    PROVE  /\ Stage(t)' = "given"
           /\ \A u \in Tasks : u # t => Stage(u)' = Stage(u)
           /\ \A u \in Tasks : Follow(u)' = Follow(u)
<1>1. /\ UNCHANGED pc
      /\ \/ Hands' = Hands \cup {t} /\ Given' = Given
         \/ Hands' = Hands /\ Given' = Given \cup {t}
  BY AddedPlaces DEF Added
<1>2. Fini' = Fini /\ Ticked' = Ticked /\ Nexts' = Nexts /\ Behind' = Behind
  BY SamePlaces
<1>3. \A p \in Threads : currTask[p] # NULL => currTask'[p] = currTask[p]
  BY DEF Added, PutAside, GivenTo, DBInv, PoolInv, TypeOK
<1>4. ASSUME NEW p \in Threads, currTask'[p] = t
      PROVE  pc'[p] \in Resting /\ task1'[p] = NULL
  <2>1. currTask[p] # t /\ t # NULL
    BY ThreadsAssumption DEF Hands, Held
  <2>2. pc[p] \in Resting
    BY <1>4, <2>1 DEF Added, PutAside, GivenTo, DBInv, PoolInv, TypeOK
  <2> QED  BY <1>1, <2>2 DEF DBInv, PoolInv, TaskByPlace, Resting
<1>5. Stage(t)' = "given"
  <2>1. StageMap'
    BY MapsHoldNext
  <2>2. CASE t \in Given'
    BY <2>1, <2>2 DEF StageMap
  <2>3. CASE t \in Hands'
    <3>1. PICK p \in Threads : currTask'[p] = t
      BY <2>3 DEF Hands, Held
    <3> QED  BY <1>4, <2>1, <3>1 DEF StageMap, StageAt
  <2> QED  BY <1>1, <2>2, <2>3
<1>6. ASSUME NEW u \in Tasks, u # t  PROVE StaysPut(u) /\ KeepsFollow(u)
  <2>1. u # NULL
    BY ThreadsAssumption
  <2>2. StaysPut(u)
    BY <1>1, <1>2, <1>3, <1>6, <2>1, SomePlace DEF StaysPut
  <2>3. KeepsFollow(u)
    BY <1>1, <1>3, <1>6, <2>1 DEF KeepsFollow, Hands, Held
  <2> QED  BY <2>2, <2>3
<1>7. Follow(t) = NULL /\ Follow(t)' = NULL
  <2>1. FollowMap /\ FollowMap'
    BY MapsHold, MapsHoldNext
  <2>2. CASE t \in Hands'
    <3>1. PICK p \in Threads : currTask'[p] = t
      BY <2>2 DEF Hands, Held
    <3> QED  BY <1>4, <2>1, <3>1 DEF FollowMap
  <2>3. CASE t \notin Hands'
    BY <2>1, <2>3 DEF FollowMap
  <2>4. Follow(t) = NULL
    BY <2>1 DEF FollowMap
  <2> QED  BY <2>2, <2>3, <2>4
<1>8. \A u \in Tasks : u # t => Stage(u)' = Stage(u) /\ Follow(u)' = Follow(u)
  BY <1>6, StageStays, FollowStays
<1> QED  BY <1>5, <1>7, <1>8

\* The last statement of addTask is HandToPool.
LEMMA HandTaskImplements ==
    ASSUME DBInv, DBInv', HandTask
    PROVE  \E t \in EntityTasks : Queue!HandToPool(t)
<1>1. PICK t \in EntityTasks : t = handing
  BY DEF HandTask, DBInv, QueueTypeOK
<1>2. /\ t \in Tasks /\ AddTaskBody(t) /\ handing' = NULL
      /\ UNCHANGED <<finiTaskList, task1, finitasks, live, buffered, asked, presented,
                     arrival, requests>>
  BY <1>1, DBPoolAssumption DEF HandTask, mainVars
<1>3. Handing = {t} /\ Handing' = {}
  BY <1>1, <1>2, ThreadsAssumption DEF Handing
<1>4. Added(t) /\ t \notin Hands /\ t \notin Given /\ t \notin Nexts /\ t \in live
  BY <1>2, <1>3, AddedTask DEF DBInv, Apart, AllPlaced
<1>5. Handing' = Handing \ {t} /\ live' = live \cup {t}
  BY <1>2, <1>3, <1>4
<1>6. /\ Stage(t)' = "given"
      /\ \A u \in Tasks : u # t => Stage(u)' = Stage(u)
      /\ \A u \in Tasks : Follow(u)' = Follow(u)
  BY <1>2, <1>4, <1>5, AddedImplements
<1>7. Stage(t) = "handing"
  BY <1>2, <1>3, MapsHold DEF StageMap
<1> QED  BY <1>2, <1>6, <1>7, TasksAreDBTasks DEF Queue!HandToPool, Queue!history

LEMMA AddPlainTaskImplements ==
    ASSUME DBInv, DBInv', NEW t \in PlainTasks, AddPlainTask(t)
    PROVE  Queue!AddPlainTask(t)
<1>1. /\ t \in Tasks /\ t \notin live /\ t \notin presented /\ AddTask(t) /\ handing = NULL
      /\ UNCHANGED <<buffered, handing, asked, presented, arrival, requests>>
  BY DEF AddPlainTask, AddTask, PlainTasks, queueVars
<1>2. /\ AddTaskBody(t) /\ live' = live \cup {t}
      /\ UNCHANGED <<finiTaskList, task1, finitasks>>
  BY <1>1 DEF AddTask, mainVars
<1>3. t \notin Hands /\ t \notin Given /\ t \notin Nexts /\ Added(t)
  BY <1>1, <1>2, PlacedIsAlive, AddedTask
<1>4. Handing' = Handing \ {t}
  BY <1>1 DEF Handing
<1>5. /\ Stage(t)' = "given"
      /\ \A u \in Tasks : u # t => Stage(u)' = Stage(u)
      /\ \A u \in Tasks : Follow(u)' = Follow(u)
  BY <1>1, <1>2, <1>3, <1>4, AddedImplements
<1>6. Stage(t) = "new"
  BY <1>1, MapsHold DEF StageMap
<1>7. Queue!MainThreadFree
  BY <1>1, MainThreadIsFree
<1> QED  BY <1>1, <1>2, <1>5, <1>6, <1>7 DEF Queue!AddPlainTask, Queue!history

LEMMA FileTaskImplements ==
    ASSUME DBInv, DBInv', NEW t \in EntityTasks, FileTask(t)
    PROVE  Queue!AddTask(t)
<1>1. /\ t \in Tasks /\ t \notin live /\ t \notin presented /\ handing = NULL
      /\ live' = live \cup {t}
      /\ requests' = requests + 1
      /\ arrival' = [arrival EXCEPT ![t] = requests']
      /\ UNCHANGED <<bufferedTaskList, finiTaskList, finitasks, currTask, task1, asked,
                     presented, pc>>
  BY DBPoolAssumption DEF FileTask, mainVars
<1>2. /\ Given' = Given /\ Fini' = Fini /\ Ticked' = Ticked /\ Hands' = Hands /\ Nexts' = Nexts
  BY <1>1, SamePlaces
<1>3. PICK k \in Queue!Keys : k = Queue!Key(t)
  BY KeyInKeys
<1>4. t \notin Behind /\ t \notin Hands
  BY <1>1, PlacedIsAlive
<1>5. Handing = {} /\ StageMap /\ StageMap' /\ FollowMap /\ FollowMap'
  BY <1>1, MapsHold, MapsHoldNext DEF Handing
<1>6. ASSUME NEW u \in Tasks, u # t, Behind \subseteq Behind'  PROVE StaysPut(u)
  <2>1. u \in Nexts => \E p \in Threads : task1[p] = u /\ task1'[p] = u /\ asked'[p] = asked[p]
    BY <1>1 DEF Nexts, Held
  <2>2. u \in Hands => \E p \in Threads : /\ currTask[p] = u /\ currTask'[p] = u
                                          /\ pc'[p] = pc[p] /\ asked'[p] = asked[p]
    BY <1>1 DEF Hands, Held
  <2>3. u \in Hands => StaysPut(u)
    BY <2>2 DEF StaysPut
  <2> QED  BY <1>1, <1>2, <1>5, <1>6, <2>1, <2>3, SomePlace DEF StaysPut
<1>7. \A u \in Tasks : Follow(u)' = Follow(u)
  <2>1. ASSUME NEW u \in Tasks  PROVE KeepsFollow(u)
    BY <1>1, <1>2 DEF KeepsFollow, Hands, Held
  <2> QED  BY <2>1, FollowStays
<1>8. Stage(t) = "new"
  BY <1>1, <1>5 DEF StageMap
<1>9. Queue!MainThreadFree
  BY <1>1, MainThreadIsFree
<1>10. Queue!Arrive(t) /\ UNCHANGED finiTaskList
  BY <1>1 DEF Queue!Arrive
<1>11. CASE buffered[k] = <<>>
  <2>1. buffered' = [buffered EXCEPT ![k] = <<NULL>>] /\ handing' = t
    BY <1>3, <1>11 DEF FileTask
  <2>2. Behind' = Behind
    BY <1>11, <2>1, KeyIsHeld DEF DBInv
  <2>3. t \in Handing'
    BY <1>1, <2>1, ThreadsAssumption DEF Handing
  <2>4. Stage(t)' = "handing"
    BY <1>1, <1>5, <2>3 DEF StageMap
  <2>5. \A u \in Tasks : u # t => Stage(u)' = Stage(u)
    BY <1>6, <2>2, StageStays
  <2>6. Queue!AddFirst(t)
    BY <1>1, <1>3, <1>11, <2>1, <2>4, <2>5 DEF Queue!AddFirst
  <2> QED  BY <1>1, <1>7, <1>8, <1>9, <1>10, <2>6 DEF Queue!AddTask
<1>12. CASE buffered[k] # <<>>
  <2>1. buffered' = [buffered EXCEPT ![k] = Append(@, t)] /\ handing' = handing
    BY <1>3, <1>12 DEF FileTask
  <2>2. Behind' = Behind \cup {t}
    BY <1>4, <1>12, <2>1, BehindGains, DBPoolAssumption DEF DBInv
  <2>3. Stage(t)' = "waiting"
    BY <1>1, <1>5, <2>2 DEF StageMap
  <2>4. \A u \in Tasks : u # t => Stage(u)' = Stage(u)
    BY <1>6, <2>2, StageStays
  <2>5. Queue!AddBehind(t)
    BY <1>1, <1>3, <1>12, <2>1, <2>3, <2>4 DEF Queue!AddBehind
  <2> QED  BY <1>1, <1>7, <1>8, <1>9, <1>10, <2>5 DEF Queue!AddTask
<1> QED  BY <1>11, <1>12

\* The tick takes all finished tasks at once.
LEMMA TickTakeImplements ==
    ASSUME DBInv, DBInv', DBTickTake
    PROVE  Queue!OnMainThreadTick
<1>1. /\ handing = NULL /\ finitasks = <<>> /\ finiTaskList # <<>>
      /\ finitasks' = finiTaskList /\ finiTaskList' = <<>>
      /\ UNCHANGED <<bufferedTaskList, currTask, task1, pc, live, buffered, handing, asked,
                     presented, arrival, requests>>
  BY DEF DBTickTake, TickTake, MainThreadIdle, queueVars
<1>2. /\ Given' = Given /\ Hands' = Hands /\ Nexts' = Nexts /\ Behind' = Behind
      /\ Handing' = Handing
  BY <1>1, SamePlaces
<1>3. Ticked = {} /\ Ticked' = Fini
  BY <1>1, ListEmpty DEF Ticked, Fini, Elements
<1>4. StageMap /\ StageMap'
  BY MapsHold, MapsHoldNext
<1>5. ASSUME NEW u \in Tasks
      PROVE  Stage(u)' = IF Stage(u) = "fini" THEN "presented" ELSE Stage(u)
  <2>1. CASE u \in Fini
    BY <1>3, <1>4, <2>1 DEF StageMap
  <2>2. CASE u \notin Fini
    <3>1. u \in Hands => StaysPut(u)
      BY <1>1 DEF StaysPut, Hands, Held
    <3>2. StaysPut(u)
      BY <1>1, <1>2, <1>3, <2>2, <3>1, SomePlace DEF StaysPut
    <3>3. \A l, a : StageAt(l, a) # "fini"
      BY DEF StageAt
    <3>4. Stage(u) # "fini"
      BY <1>4, <2>2, <3>3, SomePlace DEF StageMap
    <3> QED  BY <3>2, <3>4, StageStays
  <2> QED  BY <2>1, <2>2
<1>6. ASSUME NEW u \in Tasks  PROVE Follow(u)' = Follow(u)
  <2>1. KeepsFollow(u)
    BY <1>1, <1>2 DEF KeepsFollow, Hands, Held
  <2> QED  BY <2>1, FollowStays
<1>7. Queue!MainThreadFree
  BY <1>1, MainThreadIsFree
<1> QED  BY <1>1, <1>5, <1>6, <1>7, TasksAreDBTasks DEF Queue!OnMainThreadTick, Queue!history

\* The queue does not see the tick go through the tasks it has taken.
LEMMA PresentImplements ==
    ASSUME DBInv, DBInv', DBPresent
    PROVE  UNCHANGED Queue!vars
<1>1. PICK x : x = Head(finitasks)
  OBVIOUS
<1>2. /\ finitasks # <<>> /\ finitasks' = Tail(finitasks) /\ live' = live \ {x}
      /\ presented' = presented \cup {x}
      /\ UNCHANGED <<bufferedTaskList, finiTaskList, currTask, task1, pc, buffered, handing,
                     asked, arrival, requests>>
  BY <1>1 DEF DBPresent, PresentCompleted
<1>3. Ticked' = Ticked \ {x} /\ x \in Ticked
  BY <1>1, <1>2, TickedGives DEF DBInv, PoolInv
<1>4. /\ Given' = Given /\ Hands' = Hands /\ Nexts' = Nexts /\ Fini' = Fini
      /\ Behind' = Behind /\ Handing' = Handing
  BY <1>2, SamePlaces
<1>5. ASSUME NEW u \in Tasks  PROVE StaysPut(u) /\ KeepsFollow(u)
  <2>1. u \in Hands => StaysPut(u)
    BY <1>2 DEF StaysPut, Hands, Held
  <2>2. x \in live
    BY <1>3 DEF DBInv, AllPlaced
  <2>3. StaysPut(u)
    BY <1>2, <1>3, <1>4, <2>1, <2>2, SomePlace DEF StaysPut
  <2>4. KeepsFollow(u)
    BY <1>2, <1>4 DEF KeepsFollow, Hands, Held
  <2> QED  BY <2>3, <2>4
<1> QED  BY <1>2, <1>5, AllStay

\* A thread that has been given no successor takes a task of the pool's buffer.
LEMMA PopTaskImplements ==
    ASSUME DBInv, DBInv', NEW p \in Threads, PopTask(p)
    PROVE  UNCHANGED Queue!vars
<1>1. /\ TryGetTask(p) /\ asked[p] /\ pc[p] = "tryget"
      /\ UNCHANGED <<finiTaskList, finitasks, currTask, live, buffered, handing, asked,
                     presented, arrival, requests>>
  BY DEF PopTask, TryGetTask, mainVars, queueVars
<1>2. PICK l \in {"chain", "complete"} : pc' = [pc EXCEPT ![p] = l]
  BY <1>1 DEF TryGetTask, Goto
<1>3. /\ Hands' = Hands /\ Fini' = Fini /\ Ticked' = Ticked /\ Behind' = Behind
      /\ Handing' = Handing
  BY <1>1, SamePlaces
<1>4. PICK x : x = task1'[p]
  OBVIOUS
<1>5. /\ task1' = [task1 EXCEPT ![p] = x] /\ task1[p] = NULL
      /\ Given' \cup {x} = Given \cup {x}
      /\ x = NULL \/ (x \in Given /\ x \in Tasks)
  <2>1. task1[p] = NULL
    BY <1>1 DEF DBInv, PoolInv, TaskByPlace
  <2>2. CASE bufferedTaskList = <<>>
    <3>1. UNCHANGED <<bufferedTaskList, task1>>
      BY <1>1, <2>2 DEF TryGetTask
    <3> QED  BY <1>4, <2>1, <3>1, SamePlaces DEF DBInv, PoolInv, TypeOK
  <2>3. CASE bufferedTaskList # <<>>
    <3>1. PICK y : y = Head(bufferedTaskList)
      OBVIOUS
    <3>2. bufferedTaskList' = Tail(bufferedTaskList) /\ task1' = [task1 EXCEPT ![p] = y]
      BY <1>1, <2>3, <3>1 DEF TryGetTask
    <3>3. Given' = Given \ {y} /\ y \in Given /\ y \in Tasks
      BY <2>3, <3>1, <3>2, BufferGives DEF DBInv, PoolInv
    <3>4. x = y
      BY <1>4, <3>2 DEF DBInv, PoolInv, TypeOK
    <3> QED  BY <2>1, <3>2, <3>3, <3>4
  <2> QED  BY <2>2, <2>3
<1>6. /\ task1'[p] = x
      /\ \A q \in Threads : q # p => task1'[q] = task1[q] /\ pc'[q] = pc[q]
      /\ pc'[p] = l
  BY <1>2, <1>5 DEF DBInv, PoolInv, TypeOK
<1>7. ASSUME NEW u \in Tasks, u # x  PROVE StaysPut(u)
  <2>1. u # NULL
    BY ThreadsAssumption
  <2>2. u \in Nexts => StaysPut(u)
    BY <1>1, <1>5, <1>6, <2>1 DEF StaysPut, Nexts, Held
  <2>3. u \in Hands => StaysPut(u)
    <3>1. StageAt(l, TRUE) = "released" /\ StageAt("tryget", TRUE) = "released"
      BY DEF StageAt, Resting
    <3>2. ASSUME NEW q \in Threads, currTask[q] = u
          PROVE  StageAt(pc'[q], asked'[q]) = StageAt(pc[q], asked[q])
      <4>1. CASE q = p
        <5>1. asked[p] = TRUE
          BY <1>1 DEF DBInv, QueueTypeOK
        <5> QED  BY <1>1, <1>6, <3>1, <4>1, <5>1
      <4>2. CASE q # p
        BY <1>1, <1>6, <4>2
      <4> QED  BY <4>1, <4>2
    <3> QED  BY <1>1, <3>2 DEF StaysPut, Hands, Held
  <2> QED  BY <1>1, <1>3, <1>5, <1>7, <2>2, <2>3, SomePlace DEF StaysPut
<1>8. ASSUME NEW u \in Tasks, u = x  PROVE Stage(u)' = Stage(u)
  <2>1. u \in Given
    BY <1>5, <1>8, ThreadsAssumption
  <2> QED  BY <1>1, <1>6, <1>8, <2>1, MapsHold, MapsHoldNext DEF StageMap
<1>9. \A u \in Tasks : Stage(u)' = Stage(u)
  BY <1>7, <1>8, StageStays
<1>10. ASSUME NEW u \in Tasks  PROVE Follow(u)' = Follow(u)
  <2>1. KeepsFollow(u)
    BY <1>1, <1>3, <1>6 DEF KeepsFollow, Hands, Held
  <2> QED  BY <2>1, FollowStays
<1> QED  BY <1>1, <1>9, <1>10 DEF Queue!vars

\* A thread at "tryget" that has not asked has its task running, and names no successor.
LEMMA AboutToAsk ==
    ASSUME DBInv, NEW p \in Threads, pc[p] = "tryget", ~asked[p], NEW t \in Tasks,
           t = currTask[p]
    PROVE  Stage(t) = "running" /\ task1[p] = NULL
<1>1. task1[p] = NULL
  BY DEF DBInv, PoolInv, TaskByPlace
<1>2. Stage(t) = StageAt("tryget", FALSE)
  BY MapsHold DEF StageMap, DBInv, QueueTypeOK
<1> QED  BY <1>1, <1>2 DEF StageAt, Resting

\* The other threads go on as they are.
LEMMA OtherHandsStay ==
    ASSUME DBInv, NEW p \in Threads, NEW u \in Tasks, u # currTask[p],
           \A q \in Threads : q # p => /\ currTask'[q] = currTask[q] /\ pc'[q] = pc[q]
                                       /\ asked'[q] = asked[q] /\ task1'[q] = task1[q],
           u # currTask'[p]
    PROVE  /\ u \in Hands => StaysPut(u)
           /\ KeepsFollow(u)
<1>1. u \in Hands => StaysPut(u)
  BY DEF StaysPut, Hands, Held
<1>2. KeepsFollow(u)
  BY DEF KeepsFollow, Hands, Held
<1> QED  BY <1>1, <1>2

\* The thread asks the maps for the successor of the task it has processed.
LEMMA AskNextTaskImplements ==
    ASSUME DBInv, DBInv', NEW p \in Threads, AskNextTask(p)
    PROVE  \E t \in Tasks : Queue!TryGetNextTask(t)
<1>1. PICK t : t = currTask[p]
  OBVIOUS
<1>2. pc[p] = "tryget" /\ ~asked[p] /\ t \in Tasks /\ t \in Hands
  BY <1>1, TaskInHand DEF AskNextTask
<1>3. UNCHANGED <<bufferedTaskList, finiTaskList, finitasks, currTask, live, handing,
                  presented, arrival, requests>>
  BY DEF AskNextTask, mainVars
<1>4. /\ Given' = Given /\ Hands' = Hands /\ Fini' = Fini /\ Ticked' = Ticked
      /\ Handing' = Handing
  BY <1>3, SamePlaces
<1>5. Stage(t) = "running" /\ task1[p] = NULL
  BY <1>1, <1>2, AboutToAsk
<1>6. StageMap /\ StageMap' /\ FollowMap /\ FollowMap'
  BY MapsHold, MapsHoldNext
<1>7. PICK k : k = Queue!Key(t)
  OBVIOUS
<1>8. t \in EntityTasks => k \in Queue!Keys
  BY <1>7, KeyInKeys
<1>9. PICK n : n = Queue!Successor(t)
  OBVIOUS
<1>10. buffered' = IF t \in EntityTasks /\ buffered[k] # <<>>
                   THEN [buffered EXCEPT ![k] = Tail(@)] ELSE buffered
  BY <1>1, <1>7 DEF AskNextTask
<1>11. n = IF t \in EntityTasks /\ Len(buffered[k]) > 1 THEN buffered[k][2] ELSE NULL
  BY <1>7, <1>9 DEF Queue!Successor
<1>12. IF n = NULL
       THEN asked' = [asked EXCEPT ![p] = TRUE] /\ UNCHANGED <<pc, task1>>
       ELSE /\ task1' = [task1 EXCEPT ![p] = n] /\ pc' = [pc EXCEPT ![p] = "chain"]
            /\ UNCHANGED asked
  BY <1>1, <1>7, <1>11 DEF AskNextTask, Goto
<1>13. \A q \in Threads : q # p => /\ currTask'[q] = currTask[q] /\ pc'[q] = pc[q]
                                   /\ asked'[q] = asked[q] /\ task1'[q] = task1[q]
  BY <1>3, <1>12 DEF DBInv, PoolInv, TypeOK, QueueTypeOK
<1>14. DBInv /\ QueueTypeOK /\ BehindOnce
  BY DEF DBInv
<1>15. \A u \in Tasks : u # t => (u \in Hands => StaysPut(u)) /\ KeepsFollow(u)
  BY <1>1, <1>3, <1>13, OtherHandsStay
<1>17. CASE n # NULL
  <2>1. t \in EntityTasks /\ Len(buffered[k]) > 1 /\ n = buffered[k][2]
    BY <1>11, <1>17
  <2>2. buffered[k] # <<>>
    BY <1>8, <1>14, <2>1, EmptySeq DEF QueueTypeOK
  <2>3. buffered' = [buffered EXCEPT ![k] = Tail(@)]
    BY <1>10, <2>1, <2>2
  <2>4. n \in Behind /\ n \in EntityTasks /\ Behind' = Behind \ {n}
    BY <1>8, <1>14, <2>1, <2>2, <2>3, BehindGives, DBPoolAssumption
  <2>5. n \in Tasks /\ n # t
    BY <1>2, <2>4, DBPoolAssumption DEF DBInv, Apart
  <2>6. task1'[p] = n /\ pc'[p] = "chain" /\ asked'[p] = asked[p]
    BY <1>12, <1>17 DEF DBInv, PoolInv, TypeOK
  <2>7. Stage(n)' = "chained"
    BY <1>2, <1>6, <2>5, <2>6 DEF StageMap
  <2>8. Stage(t)' = "released"
    <3>1. currTask'[p] = t
      BY <1>1, <1>3
    <3> QED  BY <1>2, <1>6, <2>6, <3>1 DEF StageMap, StageAt, Resting
  <2>9. Follow(t)' = n
    <3>1. currTask'[p] = t
      BY <1>1, <1>3
    <3> QED  BY <1>2, <1>6, <2>6, <3>1 DEF FollowMap
  <2>10. ASSUME NEW u \in Tasks, u # t, u # n  PROVE StaysPut(u)
    <3>1. u # NULL
      BY ThreadsAssumption
    <3>2. u \in Nexts => StaysPut(u)
      BY <1>5, <1>13, <3>1 DEF StaysPut, Nexts, Held
    <3> QED  BY <1>3, <1>4, <1>15, <2>4, <2>10, <3>2, SomePlace DEF StaysPut
  <2>11. /\ \A u \in Tasks : u # t /\ u # n => Stage(u)' = Stage(u)
         /\ \A u \in Tasks : u # t => Follow(u)' = Follow(u)
    BY <1>15, <2>10, StageStays, FollowStays
  <2>12. Queue!TryGetNextTask(t)
    BY <1>2, <1>3, <1>5, <1>7, <1>9, <1>10, <1>17, <2>5, <2>7, <2>8, <2>9, <2>11,
       TasksAreDBTasks
    DEF Queue!TryGetNextTask, Queue!history
  <2> QED  BY <1>2, <2>12
<1>18. CASE n = NULL
  <2>1. asked'[p] = TRUE /\ pc'[p] = pc[p] /\ task1'[p] = task1[p]
    BY <1>12, <1>18 DEF DBInv, QueueTypeOK
  <2>2. Behind' = Behind
    <3>1. CASE t \in EntityTasks /\ buffered[k] # <<>>
      <4>1. ~(Len(buffered[k]) > 1)
        <5>1. ASSUME Len(buffered[k]) > 1  PROVE FALSE
          <6>1. n = buffered[k][2]
            BY <1>11, <3>1, <5>1
          <6>2. buffered[k][2] \in EntityTasks
            BY <1>8, <1>10, <1>14, <3>1, <5>1, BehindGives, DBPoolAssumption
          <6> QED  BY <1>18, <6>1, <6>2, ThreadsAssumption, DBPoolAssumption
        <5> QED  BY <5>1
      <4> QED  BY <1>8, <1>10, <1>14, <3>1, <4>1, BehindGives, DBPoolAssumption
    <3>2. CASE ~(t \in EntityTasks /\ buffered[k] # <<>>)
      BY <1>10, <3>2, SamePlaces
    <3> QED  BY <3>1, <3>2
  <2>3. currTask'[p] = t
    BY <1>1, <1>3
  <2>4. Stage(t)' = "released"
    BY <1>2, <1>6, <2>1, <2>3 DEF StageMap, StageAt, Resting
  <2>5. Follow(t)' = NULL
    BY <1>2, <1>6, <2>1, <2>3 DEF FollowMap
  <2>6. ASSUME NEW u \in Tasks, u # t  PROVE StaysPut(u)
    <3>1. u # NULL
      BY ThreadsAssumption
    <3>2. u \in Nexts => StaysPut(u)
      BY <1>5, <1>13, <3>1 DEF StaysPut, Nexts, Held
    <3> QED  BY <1>3, <1>4, <1>15, <2>2, <2>6, <3>2, SomePlace DEF StaysPut
  <2>7. \A u \in Tasks : u # t => Stage(u)' = Stage(u) /\ Follow(u)' = Follow(u)
    BY <1>15, <2>6, StageStays, FollowStays
  <2>8. Queue!TryGetNextTask(t)
    BY <1>2, <1>3, <1>5, <1>7, <1>9, <1>10, <1>18, <2>4, <2>5, <2>7, TasksAreDBTasks
    DEF Queue!TryGetNextTask, Queue!history
  <2> QED  BY <1>2, <2>8
<1> QED  BY <1>17, <1>18

\* The thread queues the task it is done with, and turns to the next one if it has one.
LEMMA FinishTaskImplements ==
    ASSUME DBInv, DBInv', NEW p \in Threads, FinishTask(p)
    PROVE  \E t \in Tasks : Queue!AddFiniTask(t)
<1>1. PICK t : t = currTask[p]
  OBVIOUS
<1>2. pc[p] \in {"chain", "complete"} /\ t \in Tasks /\ t \in Hands
  <2>1. pc[p] \in {"chain", "complete"}
    BY DEF FinishTask, ChainTask, CompleteTask
  <2> QED  BY <1>1, <2>1, TaskInHand
<1>3. /\ UNCHANGED <<bufferedTaskList, finitasks, live, buffered, handing, presented,
                     arrival, requests>>
      /\ finiTaskList' = Append(finiTaskList, t)
      /\ asked' = [asked EXCEPT ![p] = FALSE]
  BY <1>1 DEF FinishTask, ChainTask, CompleteTask, mainVars
<1>4. /\ Given' = Given /\ Ticked' = Ticked /\ Behind' = Behind /\ Handing' = Handing
  BY <1>3, SamePlaces
<1>5. t \notin Fini /\ DBInv /\ TypeOK /\ NoneTwice
  BY <1>2 DEF DBInv, PoolInv, Apart
<1>6. Fini' = Fini \cup {t}
  BY <1>2, <1>3, <1>5, FiniGains
<1>7. StageMap /\ StageMap' /\ FollowMap /\ FollowMap'
  BY MapsHold, MapsHoldNext
<1>8. PICK c : c = task1[p]
  OBVIOUS
<1>9. PICK l \in {"check", "free"} : pc' = [pc EXCEPT ![p] = l]
  BY DEF FinishTask, ChainTask, CompleteTask, Goto
<1>10. PICK d : d = IF pc[p] = "chain" THEN c ELSE NULL
  OBVIOUS
<1>11. /\ c # NULL <=> pc[p] = "chain"
       /\ d = c
       /\ c \in Tasks \cup {NULL}
  BY <1>2, <1>5, <1>8, <1>10 DEF DBInv, PoolInv, TypeOK, TaskByPlace
<1>12. /\ currTask' = [currTask EXCEPT ![p] = c]
       /\ task1' = [task1 EXCEPT ![p] = NULL]
       /\ c # NULL => l = "check"
  <2>1. CASE ChainTask(p)
    BY <1>2, <1>5, <1>8, <1>9, <2>1 DEF ChainTask, Goto, TypeOK
  <2>2. CASE CompleteTask(p)
    BY <1>2, <1>5, <1>8, <1>11, <2>2 DEF CompleteTask, TypeOK
  <2> QED  BY <2>1, <2>2 DEF FinishTask
<1>13. /\ currTask'[p] = c /\ task1'[p] = NULL /\ asked'[p] = FALSE /\ pc'[p] = l
       /\ \A q \in Threads : q # p => /\ currTask'[q] = currTask[q] /\ pc'[q] = pc[q]
                                      /\ asked'[q] = asked[q] /\ task1'[q] = task1[q]
  BY <1>3, <1>5, <1>9, <1>12 DEF DBInv, TypeOK, QueueTypeOK
<1>14. Stage(t) = "released" /\ Stage(t)' = "fini"
  <2>1. Stage(t) = StageAt(pc[p], asked[p])
    BY <1>1, <1>2, <1>7 DEF StageMap
  <2>2. StageAt(pc[p], asked[p]) = "released"
    BY <1>2 DEF StageAt, Resting
  <2> QED  BY <1>2, <1>6, <1>7, <2>1, <2>2 DEF StageMap
<1>15. ASSUME c \in Tasks
       PROVE  /\ c # t /\ c \notin Hands /\ Stage(c)' = "given"
              /\ Stage(c) = IF asked[p] THEN "given" ELSE "chained"
              /\ Follow(c) = NULL /\ Follow(c)' = NULL
  <2>1. c \in Nexts
    BY <1>8, <1>15, ThreadsAssumption DEF Nexts, Held
  <2>2. c # t /\ c \notin Hands
    BY <1>2, <2>1 DEF DBInv, Apart
  <2>3. Stage(c)' = StageAt(pc'[p], asked'[p])
    BY <1>7, <1>13, <1>15 DEF StageMap
  <2>4. l = "check"
    BY <1>12, <1>15, ThreadsAssumption
  <2>5. Stage(c)' = "given"
    BY <1>13, <2>3, <2>4 DEF StageAt, Resting
  <2>6. Stage(c) = IF asked[p] THEN "given" ELSE "chained"
    BY <1>7, <1>8, <1>15 DEF StageMap
  <2>7. Follow(c) = NULL
    BY <1>7, <1>15, <2>2 DEF FollowMap
  <2>8. Follow(c)' = NULL
    BY <1>7, <1>13, <1>15 DEF FollowMap
  <2> QED  BY <2>2, <2>5, <2>6, <2>7, <2>8
<1>16. Follow(t) = IF asked[p] THEN NULL ELSE c
  BY <1>1, <1>2, <1>7, <1>8 DEF FollowMap
<1>17. Follow(t)' = NULL
  <2>1. t \notin Hands'
    BY <1>2, <1>6 DEF DBInv, Apart
  <2> QED  BY <1>2, <1>7, <2>1 DEF FollowMap
<1>18. ASSUME NEW u \in Tasks, u # t, u # c  PROVE StaysPut(u) /\ KeepsFollow(u)
  <2>1. u # NULL
    BY ThreadsAssumption
  <2>2. (u \in Hands => StaysPut(u)) /\ KeepsFollow(u)
    BY <1>1, <1>13, <1>18, OtherHandsStay
  <2>3. u \in Nexts => StaysPut(u)
    BY <1>8, <1>13, <1>18 DEF StaysPut, Nexts, Held
  <2>4. StaysPut(u)
    BY <1>3, <1>4, <1>6, <2>2, <2>3, SomePlace DEF StaysPut
  <2> QED  BY <2>2, <2>4
<1>19. \A u \in Tasks : u # t /\ u # c => Stage(u)' = Stage(u) /\ Follow(u)' = Follow(u)
  BY <1>18, StageStays, FollowStays
<1>20. /\ \A u \in Tasks : Stage(u)' = IF u = t THEN "fini"
                                       ELSE IF u = Follow(t) THEN "given" ELSE Stage(u)
       /\ \A u \in Tasks : Follow(u)' = IF u = t THEN NULL ELSE Follow(u)
  <2>1. ASSUME NEW u \in Tasks
        PROVE  /\ Stage(u)' = IF u = t THEN "fini"
                              ELSE IF u = Follow(t) THEN "given" ELSE Stage(u)
               /\ Follow(u)' = IF u = t THEN NULL ELSE Follow(u)
    <3>1. CASE u = t
      BY <1>14, <1>17, <3>1
    <3>2. CASE u = c
      BY <1>15, <1>16, <2>1, <3>2
    <3>3. CASE u # t /\ u # c
      BY <1>16, <1>19, <2>1, <3>3, ThreadsAssumption
    <3> QED  BY <3>1, <3>2, <3>3
  <2> QED  BY <2>1
<1>21. PICK f : f = Follow(t)
  OBVIOUS
<1>22. f = NULL \/ (f \in Tasks /\ f # t)
  BY <1>11, <1>15, <1>16, <1>21
<1>23. /\ \A u \in Tasks : Stage(u)' = IF u = t THEN "fini"
                                       ELSE IF u = f THEN "given" ELSE Stage(u)
       /\ \A u \in Tasks : Follow(u)' = IF u = t THEN NULL ELSE Follow(u)
  BY <1>20, <1>21
<1>24. Queue!AddFiniTask(t)
  BY <1>2, <1>3, <1>14, <1>21, <1>22, <1>23, TasksAreDBTasks, ThreadsAssumption
  DEF Queue!AddFiniTask, Queue!history
<1> QED  BY <1>2, <1>24

\* The queue counts with its own copy of FiniteSets.
LEMMA SameCardinality == ASSUME NEW S  PROVE Queue!Cardinality(S) = Cardinality(S)
BY DEF Queue!Cardinality, Cardinality

\* A thread that has a task running or released is in threadFunc, and is no thread that
\* is about to begin one: there is a thread left for every task the queue lets begin.
LEMMA ThreadLeft ==
    ASSUME DBInv, NEW p \in Threads, pc[p] = "check", currTask[p] # NULL
    PROVE  Cardinality(Queue!Occupied) < maxThreadCount
<1> DEFINE Busy == allThreadList \ {p}
           f == [t \in Queue!Occupied |-> CHOOSE q \in Busy : currTask[q] = t]
<1>1. ~finalised /\ allThreadList \in SUBSET Threads
  BY DEF DBInv, NoneLeaves, PoolInv, Shutdown, TypeOK
<1>2. /\ IsFiniteSet(allThreadList)
      /\ Cardinality(allThreadList) = maxThreadCount
      /\ p \in allThreadList
  <2>1. IsFiniteSet(allThreadList)
    BY <1>1, FS_Subset, ThreadsAssumption
  <2>2. Cardinality(allThreadList) = maxThreadCount
    BY <1>1 DEF DBInv, NoneLeaves, PoolInv, CountsMatchLists
  <2>3. p \in allThreadList
    BY DEF DBInv, PoolInv, MembersExist
  <2> QED  BY <2>1, <2>2, <2>3
<1>3. IsFiniteSet(Busy) /\ Cardinality(Busy) = maxThreadCount - 1
  BY <1>2, FS_RemoveElement
<1>4. ASSUME NEW t \in Queue!Occupied
      PROVE  \E q \in Busy : currTask[q] = t
  <2>1. t \in Tasks /\ Stage(t) \in {"running", "released"}
    BY <1>4, TasksAreDBTasks DEF Queue!Occupied
  <2>2. t \in Hands
    BY <2>1, MapsHold, SomePlace DEF StageMap
  <2>3. PICK q \in Threads : currTask[q] = t
    BY <2>2 DEF Hands, Held
  <2>4. q # p
    <3>1. Stage(t) = StageAt(pc[q], asked[q])
      BY <2>1, <2>3, MapsHold DEF StageMap
    <3> QED  BY <2>1, <3>1 DEF StageAt, Resting
  <2>5. pc[q] # "absent"
    BY <2>1, <2>3, OneThread DEF Resting
  <2>6. q \in allThreadList
    BY <2>5 DEF DBInv, PoolInv, MembersExist
  <2> QED  BY <2>3, <2>4, <2>6
<1>5. f \in Injection(Queue!Occupied, Busy)
  <2>1. \A t \in Queue!Occupied : f[t] \in Busy /\ currTask[f[t]] = t
    BY <1>4
  <2> QED  BY <2>1 DEF Injection, IsInjective
<1>6. Cardinality(Queue!Occupied) <= Cardinality(Busy) /\ IsFiniteSet(Queue!Occupied)
  <2> HIDE DEF f, Busy
  <2> QED  BY <1>3, <1>5, FS_Injection
<1>7. Cardinality(Queue!Occupied) \in Nat
  BY <1>6, FS_CardinalityType
<1> QED  BY <1>3, <1>6, <1>7, CountsAssumption

\* A step of a thread that moves no task begins the task in hand, or changes nothing
\* the queue sees.
LEMMA OtherThreadStepImplements ==
    ASSUME DBInv, DBInv', NEW p \in Threads, OtherThreadStep(p)
    PROVE  (\E t \in Tasks : Queue!PickUp(t)) \/ UNCHANGED Queue!vars
<1>1. UNCHANGED <<bufferedTaskList, finiTaskList, finitasks, currTask, task1, live,
                  buffered, handing, asked, presented, arrival, requests>>
  BY DEF OtherThreadStep, LoopTop, EnterWait, WaitSignalled, ResetEvent, Check, ProcessTask,
         AddFreeThread, unchangedButPc, mainVars, queueVars
<1>2. /\ Given' = Given /\ Hands' = Hands /\ Nexts' = Nexts /\ Fini' = Fini
      /\ Ticked' = Ticked /\ Behind' = Behind /\ Handing' = Handing
  BY <1>1, SamePlaces
<1>3. \A q \in Threads : q # p => pc'[q] = pc[q]
  BY DEF OtherThreadStep, LoopTop, EnterWait, WaitSignalled, ResetEvent, Check, ProcessTask,
         AddFreeThread, Goto, DBInv, PoolInv, TypeOK
<1>4. \A u \in Tasks : KeepsFollow(u)
  BY <1>1 DEF KeepsFollow, Hands, Held
<1>5. ASSUME NEW u \in Tasks, u # currTask[p]  PROVE StaysPut(u)
  <2>1. u \in Hands => StaysPut(u)
    BY <1>1, <1>3, <1>5 DEF StaysPut, Hands, Held
  <2>2. u \in Nexts => StaysPut(u)
    BY <1>1 DEF StaysPut, Nexts, Held
  <2> QED  BY <1>1, <1>2, <2>1, <2>2, SomePlace DEF StaysPut
<1>6. PICK t : t = currTask[p]
  OBVIOUS
<1>7. CASE t = NULL
  <2>1. \A u \in Tasks : StaysPut(u)
    BY <1>5, <1>6, <1>7, ThreadsAssumption
  <2> QED  BY <1>1, <1>4, <2>1, AllStay
<1>8. CASE t # NULL /\ pc[p] = "check"
  <2>1. t \in Tasks
    BY <1>6, <1>8 DEF DBInv, PoolInv, TypeOK
  <2>2. pc'[p] = "process"
    BY <1>6, <1>8 DEF OtherThreadStep, LoopTop, EnterWait, WaitSignalled, ResetEvent, Check,
       ProcessTask, AddFreeThread, Goto, DBInv, PoolInv, TypeOK, NoneLeaves
  <2>3. StageMap /\ StageMap'
    BY MapsHold, MapsHoldNext
  <2>4. Stage(t) = "given"
    <3>1. Stage(t) = StageAt(pc[p], asked[p])
      BY <1>6, <2>1, <2>3 DEF StageMap
    <3> QED  BY <1>8, <3>1 DEF StageAt, Resting
  <2>5. Stage(t)' = "running"
    <3>1. Stage(t)' = StageAt(pc'[p], asked'[p])
      BY <1>1, <1>6, <2>1, <2>3 DEF StageMap
    <3> QED  BY <2>2, <3>1 DEF StageAt, Resting
  <2>6. \A u \in Tasks : u # t => Stage(u)' = Stage(u)
    BY <1>5, <1>6, StageStays
  <2>7. \A u \in Tasks : Follow(u)' = Follow(u)
    BY <1>4, FollowStays
  <2>8. Cardinality(Queue!Occupied) < maxThreadCount
    BY <1>6, <1>8, ThreadLeft
  <2>9. Queue!PickUp(t)
    BY <1>1, <2>1, <2>4, <2>5, <2>6, <2>7, <2>8, TasksAreDBTasks, SameCardinality
    DEF Queue!PickUp, Queue!history
  <2> QED  BY <2>1, <2>9
<1>9. CASE t # NULL /\ pc[p] # "check"
  <2>1. t \in Tasks
    BY <1>6, <1>9 DEF DBInv, PoolInv, TypeOK
  <2>2. \/ pc[p] \in Resting /\ pc'[p] \in Resting
        \/ pc[p] = "process" /\ pc'[p] = "tryget"
    BY <1>6, <1>9 DEF OtherThreadStep, LoopTop, EnterWait, WaitSignalled, ResetEvent, Check,
       ProcessTask, AddFreeThread, Goto, DBInv, PoolInv, TypeOK, TaskByPlace, Resting
  <2>3. pc[p] = "process" => ~asked[p]
    BY DEF DBInv, AskedByPlace
  <2>4. StageAt(pc'[p], asked'[p]) = StageAt(pc[p], asked[p])
    <3>1. asked'[p] = asked[p]
      BY <1>1
    <3> QED  BY <2>2, <2>3, <3>1 DEF StageAt, Resting
  <2>5. StaysPut(t)
    BY <1>1, <1>6, <2>4 DEF StaysPut
  <2>6. \A u \in Tasks : StaysPut(u)
    BY <1>5, <1>6, <2>5
  <2> QED  BY <1>1, <1>4, <2>6, AllStay
<1> QED  BY <1>7, <1>8, <1>9

-----------------------------------------------------------------------------
(***************************************************************************)
(* The refinement                                                          *)
(***************************************************************************)

LEMMA QueueInit == DBInit => Queue!Init
<1> SUFFICES ASSUME DBInit  PROVE Queue!Init
  OBVIOUS
<1>1. DBInv
  BY DBInitInv
<1>2. live = {} /\ presented = {} /\ finiTaskList = <<>> /\ Hands = {}
  BY DEF DBInit, Init, Hands, Held
<1>3. \A u \in Tasks : Stage(u) = "new" /\ Follow(u) = NULL
  BY <1>1, <1>2, MapsHold DEF StageMap, FollowMap
<1> QED  BY <1>2, <1>3, TasksAreDBTasks DEF DBInit, Queue!Init

LEMMA QueueStep == DBInv /\ DBInv' /\ [DBNext]_dbVars => [Queue!Next]_(Queue!vars)
<1> SUFFICES ASSUME DBInv, DBInv', [DBNext]_dbVars  PROVE Queue!Next \/ UNCHANGED Queue!vars
  OBVIOUS
<1>1. ASSUME NEW t \in EntityTasks, FileTask(t)  PROVE Queue!Next
  BY <1>1, FileTaskImplements DEF Queue!Next
<1>2. ASSUME NEW t \in PlainTasks, AddPlainTask(t)  PROVE Queue!Next
  BY <1>2, AddPlainTaskImplements DEF Queue!Next
<1>3. ASSUME HandTask  PROVE Queue!Next
  BY <1>3, HandTaskImplements DEF Queue!Next
<1>4. ASSUME DBTickTake  PROVE Queue!Next
  BY <1>4, TickTakeImplements DEF Queue!Next
<1>5. ASSUME DBPresent  PROVE UNCHANGED Queue!vars
  BY <1>5, PresentImplements
<1>6. ASSUME NEW p \in Threads, AskNextTask(p)  PROVE Queue!Next
  BY <1>6, AskNextTaskImplements, TasksAreDBTasks DEF Queue!Next
<1>7. ASSUME NEW p \in Threads, PopTask(p)  PROVE UNCHANGED Queue!vars
  BY <1>7, PopTaskImplements
<1>8. ASSUME NEW p \in Threads, FinishTask(p)  PROVE Queue!Next
  BY <1>8, FinishTaskImplements, TasksAreDBTasks DEF Queue!Next
<1>9. ASSUME NEW p \in Threads, OtherThreadStep(p)
      PROVE  Queue!Next \/ UNCHANGED Queue!vars
  BY <1>9, OtherThreadStepImplements, TasksAreDBTasks DEF Queue!Next
<1>10. ASSUME UNCHANGED dbVars  PROVE UNCHANGED Queue!vars
  <2>1. UNCHANGED <<bufferedTaskList, finiTaskList, finitasks, currTask, task1, pc, live,
                    buffered, handing, asked, presented, arrival, requests>>
    BY <1>10 DEF dbVars, vars, mainVars, queueVars
  <2>2. /\ Given' = Given /\ Hands' = Hands /\ Nexts' = Nexts /\ Fini' = Fini
        /\ Ticked' = Ticked /\ Behind' = Behind /\ Handing' = Handing
    BY <2>1, SamePlaces
  <2>3. ASSUME NEW u \in Tasks  PROVE StaysPut(u) /\ KeepsFollow(u)
    <3>1. (u \in Hands => StaysPut(u)) /\ (u \in Nexts => StaysPut(u))
      BY <2>1 DEF StaysPut, Hands, Nexts, Held
    <3>2. KeepsFollow(u)
      BY <2>1 DEF KeepsFollow, Hands, Held
    <3> QED  BY <2>1, <2>2, <3>1, <3>2, SomePlace DEF StaysPut
  <2> QED  BY <2>1, <2>3, AllStay
<1> QED  BY <1>1, <1>2, <1>3, <1>4, <1>5, <1>6, <1>7, <1>8, <1>9, <1>10 DEF DBNext

\* The thread pool of the database, with Buffered_DBTasks in front of it, is the queue
\* that BufferedDBTasks describes, for every number of threads and tasks: a task that is
\* given to the pool is begun by one thread, gives up its key to the one filed behind it,
\* and is presented once, and no more tasks are under way than the pool has threads.
THEOREM QueueImplemented == DBSpec => ImplementsQueue
<1>1. DBInit => DBInv /\ Queue!Init
  BY DBInitInv, QueueInit
<1>2. DBInv /\ [DBNext]_dbVars => DBInv'
  BY DBStep
<1>3. DBInv /\ DBInv' /\ [DBNext]_dbVars => [Queue!Next]_(Queue!vars)
  BY QueueStep
<1> QED  BY <1>1, <1>2, <1>3, PTL DEF DBSpec, ImplementsQueue, Queue!Spec

-----------------------------------------------------------------------------
(***************************************************************************)
(* What is proved of the queue holds of the pool                           *)
(***************************************************************************)

\* Queue once more, with the theorems about it.
Proved ==
    INSTANCE BufferedDBTasksProofs WITH
        NumWorkers <- maxThreadCount,
        stage <- [t \in Tasks |-> Stage(t)],
        follow <- [t \in Tasks |-> Follow(t)]

LEMMA QueueAssumptions ==
    Proved!TasksAssumption /\ Proved!IdsAssumption /\ Proved!WorkersAssumption
BY EntityIdsAssumption, ThreadsAssumption, CountsAssumption, DBPoolAssumption
DEF Proved!TasksAssumption, Proved!IdsAssumption, Proved!WorkersAssumption, PlainTasks

LEMMA SameQueueState ==
    /\ Queue!Init <=> Proved!Init
    /\ \A t : Queue!Key(t) = Proved!Key(t) /\ Queue!Successor(t) = Proved!Successor(t)
    /\ Queue!Occupied = Proved!Occupied
    /\ Queue!MainThreadFree <=> Proved!MainThreadFree
    /\ Queue!vars = Proved!vars /\ Queue!vars' = Proved!vars'
    /\ \A S : Queue!Cardinality(S) = Proved!Cardinality(S)
<1>1. Queue!Init <=> Proved!Init
  BY DEF Queue!Init, Proved!Init, Queue!Keys, Proved!Keys, Queue!Key, Proved!Key,
         Queue!DBTasks, Proved!DBTasks
<1>2. \A t : Queue!Key(t) = Proved!Key(t) /\ Queue!Successor(t) = Proved!Successor(t)
  BY DEF Queue!Key, Proved!Key, Queue!Successor, Proved!Successor
<1>3. /\ Queue!Occupied = Proved!Occupied
      /\ Queue!MainThreadFree <=> Proved!MainThreadFree
  BY DEF Queue!Occupied, Proved!Occupied, Queue!DBTasks, Proved!DBTasks,
         Queue!MainThreadFree, Proved!MainThreadFree
<1>4. Queue!vars = Proved!vars /\ Queue!vars' = Proved!vars'
  BY DEF Queue!vars, Proved!vars
<1>5. ASSUME NEW S  PROVE Queue!Cardinality(S) = Proved!Cardinality(S)
  BY DEF Queue!Cardinality, Proved!Cardinality
<1> QED  BY <1>1, <1>2, <1>3, <1>4, <1>5

LEMMA SameQueueStep == [Queue!Next]_(Queue!vars) <=> [Proved!Next]_(Proved!vars)
<1>1. \A t : Queue!AddTask(t) <=> Proved!AddTask(t)
  BY SameQueueState
  DEF Queue!AddTask, Proved!AddTask, Queue!AddBehind, Proved!AddBehind, Queue!AddFirst,
      Proved!AddFirst, Queue!Arrive, Proved!Arrive, Queue!Key, Proved!Key
<1>2. /\ \A t : Queue!HandToPool(t) <=> Proved!HandToPool(t)
      /\ \A t : Queue!AddPlainTask(t) <=> Proved!AddPlainTask(t)
  BY SameQueueState
  DEF Queue!HandToPool, Proved!HandToPool, Queue!AddPlainTask, Proved!AddPlainTask,
      Queue!history, Proved!history
<1>3. \A t : Queue!PickUp(t) <=> Proved!PickUp(t)
  BY SameQueueState DEF Queue!PickUp, Proved!PickUp, Queue!history, Proved!history
<1>4. \A t : Queue!TryGetNextTask(t) <=> Proved!TryGetNextTask(t)
  BY SameQueueState
  DEF Queue!TryGetNextTask, Proved!TryGetNextTask, Queue!Key, Proved!Key, Queue!Successor,
      Proved!Successor, Queue!history, Proved!history
<1>5. \A t : Queue!AddFiniTask(t) <=> Proved!AddFiniTask(t)
  BY DEF Queue!AddFiniTask, Proved!AddFiniTask, Queue!history, Proved!history
<1>6. Queue!OnMainThreadTick <=> Proved!OnMainThreadTick
  BY SameQueueState
  DEF Queue!OnMainThreadTick, Proved!OnMainThreadTick, Queue!DBTasks, Proved!DBTasks,
      Queue!history, Proved!history
<1>7. Queue!DBTasks = Proved!DBTasks
  BY DEF Queue!DBTasks, Proved!DBTasks
<1> QED
  BY <1>1, <1>2, <1>3, <1>4, <1>5, <1>6, <1>7, SameQueueState DEF Queue!Next, Proved!Next

\* The pool takes the steps of the queue the theorems are about.
LEMMA ImplementsProved == DBSpec => Proved!Spec
BY SameQueueState, SameQueueStep, QueueImplemented, PTL
DEF ImplementsQueue, Queue!Spec, Proved!Spec

\* Threads p and q are in processTask, each with a request about the same entity.
BothProcess(p, q) ==
    /\ pc[p] = "process" /\ pc[q] = "process"
    /\ currTask[p] \in EntityTasks /\ currTask[q] \in EntityTasks
    /\ Queue!Key(currTask[p]) = Queue!Key(currTask[q])

\* Two threads of the database pool never run transactions about one entity at the same
\* time, whatever the order in which requests come, threads wake up and tasks end.
OneTransactionPerEntity == \A p, q \in Threads : BothProcess(p, q) => p = q

LEMMA ExclusionOfThreads ==
    ASSUME DBInv, Proved!MutualExclusion
    PROVE  OneTransactionPerEntity
<1> SUFFICES ASSUME NEW p \in Threads, NEW q \in Threads, BothProcess(p, q)
             PROVE  p = q
  BY DEF OneTransactionPerEntity
<1>1. PICK t \in EntityTasks : t = currTask[p]
  BY DEF BothProcess
<1>2. PICK u \in EntityTasks : u = currTask[q]
  BY DEF BothProcess
<1>3. Proved!Key(t) = Proved!Key(u)
  BY <1>1, <1>2, SameQueueState DEF BothProcess
<1>4. t \in Tasks /\ u \in Tasks
  BY DBPoolAssumption
<1>5. Stage(t) = StageAt(pc[p], asked[p]) /\ Stage(u) = StageAt(pc[q], asked[q])
  BY <1>1, <1>2, <1>4, MapsHold DEF StageMap
<1>6. Stage(t) = "running" /\ Stage(u) = "running"
  BY <1>5 DEF BothProcess, StageAt, Resting
<1>7. Proved!Holding(t) /\ Proved!Holding(u)
  BY <1>4, <1>6 DEF Proved!Holding
<1>8. t = u /\ t # NULL
  BY <1>3, <1>4, <1>7, ThreadsAssumption DEF Proved!MutualExclusion
<1> QED  BY <1>1, <1>2, <1>8 DEF DBInv, NoneTwice, HeldOnce

\* Database transactions about one entity never overlap in the threads of the pool.
THEOREM TransactionsExclude == DBSpec => []OneTransactionPerEntity
<1>1. DBSpec => []Proved!MutualExclusion
  BY ImplementsProved, QueueAssumptions, Proved!MutualExclusionHolds, PTL
<1> QED  BY <1>1, PlacesHold, ExclusionOfThreads, PTL

LEMMA SameSerial ==
    /\ Queue!Serial!Init <=> Proved!Serial!Init
    /\ [Queue!Serial!Next]_(Queue!Serial!vars) <=> [Proved!Serial!Next]_(Proved!Serial!vars)
<1>1. Queue!Serial!Init <=> Proved!Serial!Init
  BY DEF Queue!Serial!Init, Proved!Serial!Init, Queue!StatusOf, Proved!StatusOf
<1>2. /\ \A t : Queue!Serial!Submit(t) <=> Proved!Serial!Submit(t)
      /\ \A t : Queue!Serial!Start(t) <=> Proved!Serial!Start(t)
      /\ \A t : Queue!Serial!Finish(t) <=> Proved!Serial!Finish(t)
  BY DEF Queue!Serial!Submit, Proved!Serial!Submit, Queue!Serial!Start, Proved!Serial!Start,
         Queue!Serial!Finish, Proved!Serial!Finish, Queue!StatusOf, Proved!StatusOf,
         Queue!Serial!Earlier, Proved!Serial!Earlier, Queue!Key, Proved!Key
<1>3. /\ Queue!Serial!vars = Proved!Serial!vars
      /\ Queue!Serial!vars' = Proved!Serial!vars'
  BY DEF Queue!Serial!vars, Proved!Serial!vars, Queue!StatusOf, Proved!StatusOf
<1> QED  BY <1>1, <1>2, <1>3 DEF Queue!Serial!Next, Proved!Serial!Next

\* Requests about one entity are served by the threads of the pool one at a time, in the
\* order in which the handlers of dbmgr made them.
THEOREM ThreadsServeSerially == DBSpec => Queue!ServedSerially
BY ImplementsProved, QueueAssumptions, Proved!ServedSeriallyHolds, SameSerial, PTL
DEF Queue!ServedSerially, Proved!ServedSerially, Queue!Serial!Spec, Proved!Serial!Spec

=============================================================================
