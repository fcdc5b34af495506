---------------------------- MODULE StartupProofs ----------------------------
(***************************************************************************)
(* Proofs about Startup: how the servers register with each other, for any *)
(* number of servers of any identities, started, stopped and crashing in   *)
(* any order.  The entity ids are in StartupIdsProofs.                     *)
(***************************************************************************)
EXTENDS Startup, SequenceTheorems, FiniteSetTheorems, TLAPS

-----------------------------------------------------------------------------
(***************************************************************************)
(* The inductive invariant                                                 *)
(***************************************************************************)

Contents(s) == {s[i] : i \in DOMAIN s}

Accepted == CBRegisterServer(TRUE)

\* No server talks to itself.
NoSelf == \A p \in Processes : p \notin channels[p]

\* A server that is not running knows no one, and one that has not been started is
\* known to no one.
OnlyStartedAreKnown ==
    /\ \A p \in Processes : ~Running(p) => registry[p] = {}
    /\ \A p, q \in Processes :
          phase[p] = "off" =>
              p \notin registry[q] /\ msgs[<<p, q>>] = <<>> /\ msgs[<<q, p>>] = <<>>

\* Who sends what to whom: dbmgr registers with no one, and alone introduces servers
\* and gives away ranges.
Fits(p, q, m) ==
    /\ m.type = "OnRegisterServer" => ~Dbmgr(p)
    /\ m.type = "CBRegisterServer" => ~Dbmgr(q)
    /\ m.type = "onGetEntityAppFromDbmgr" => Dbmgr(p) /\ EntityApp(q) /\ m.app # q
    /\ m.type = "onDbmgrInitCompleted" => Dbmgr(p) /\ EntityApp(q)

SendersFit == \A p, q \in Processes : \A m \in Contents(msgs[<<p, q>>]) : Fits(p, q, m)

\* No other server of this identity and type has been started.
Sole(q) ==
    \A r \in Processes :
        componentID[r] = componentID[q] /\ componentType[r] = componentType[q] /\ r # q
            => phase[r] = "off"

\* Of two running servers: who has been accepted is in the list; who is in the list
\* has the other one in its own, or will have when it receives the answer; and dbmgr
\* has in its list who has it in its own.
ListsAgree ==
    \A p, q \in Processes :
        Running(p) /\ Running(q) =>
            /\ Accepted \in Contents(msgs[<<q, p>>]) => p \in registry[q]
            /\ p \in registry[q] /\ Sole(q) =>
                  q \in registry[p] \/ Accepted \in Contents(msgs[<<q, p>>])
            /\ Dbmgr(q) /\ q \in registry[p] => p \in registry[q]

\* A server is introduced to another one only behind the answer that makes dbmgr
\* known to that one.
AcceptedFirst(s) ==
    \A i \in DOMAIN s :
        s[i].type = "onGetEntityAppFromDbmgr" =>
            \E j \in DOMAIN s : j < i /\ s[j] = Accepted

IntroducedAfterAccepted ==
    \A p, q \in Processes : Running(q) => p \in registry[q] \/ AcceptedFirst(msgs[<<p, q>>])

\* No baseapp or cellapp counts on a dbmgr that has ended, or is about to.
EndedIsForgotten ==
    \A p, q \in Processes :
        Dbmgr(q) /\ phase[q] = "ended" /\ EntityApp(p) /\ Running(p) =>
            q \notin registry[p] /\ Accepted \notin Contents(msgs[<<q, p>>])

\* p is on its way into the list of q: it will be told of q, has registered, or is in.
Approaches(p, q, d) ==
    \/ GetEntityApp(q) \in Contents(msgs[<<d, p>>])
    \/ RegisterServer \in Contents(msgs[<<p, q>>])
    \/ p \in registry[q]

Introduced ==
    \A d \in Processes : \A p, q \in registry[d] :
        /\ Dbmgr(d) /\ EntityApp(p) /\ EntityApp(q) /\ p # q
        /\ Running(p) /\ Running(q) /\ Once(p) /\ Once(q)
        => Approaches(p, q, d) \/ Approaches(q, p, d)

IInv ==
    /\ StartupTypeOK
    /\ NoSelf
    /\ OnlyStartedAreKnown
    /\ SendersFit
    /\ ListsAgree
    /\ IntroducedAfterAccepted
    /\ EndedIsForgotten
    /\ Introduced

-----------------------------------------------------------------------------
(***************************************************************************)
(* Queues of messages                                                      *)
(***************************************************************************)

LEMMA ContentsAppend ==
    ASSUME NEW S, NEW s \in Seq(S), NEW e \in S
    PROVE  Contents(Append(s, e)) = Contents(s) \cup {e}
<1>1. /\ Len(s) \in Nat
      /\ DOMAIN s = 1 .. Len(s)
  BY LenProperties
<1>2. /\ Append(s, e) \in Seq(S)
      /\ Len(Append(s, e)) = Len(s) + 1
      /\ \A i \in 1 .. Len(s) : Append(s, e)[i] = s[i]
      /\ Append(s, e)[Len(s) + 1] = e
  BY AppendProperties
<1>3. DOMAIN Append(s, e) = 1 .. Len(s) + 1
  BY <1>2, LenProperties
<1>4. \A i \in 1 .. Len(s) + 1 : i \in 1 .. Len(s) \/ i = Len(s) + 1
  BY <1>1
<1>5. 1 .. Len(s) \subseteq 1 .. Len(s) + 1 /\ Len(s) + 1 \in 1 .. Len(s) + 1
  BY <1>1
<1> QED
  BY <1>1, <1>2, <1>3, <1>4, <1>5 DEF Contents

LEMMA ContentsTail ==
    ASSUME NEW S, NEW s \in Seq(S), s # <<>>
    PROVE  /\ Head(s) \in S /\ Tail(s) \in Seq(S)
           /\ Contents(s) = {Head(s)} \cup Contents(Tail(s))
<1>1. /\ Len(s) \in Nat \ {0}
      /\ DOMAIN s = 1 .. Len(s)
  BY LenProperties, EmptySeq
<1>2. /\ Head(s) \in S
      /\ Tail(s) \in Seq(S)
      /\ Len(Tail(s)) = Len(s) - 1
      /\ \A i \in 1 .. Len(Tail(s)) : Tail(s)[i] = s[i + 1]
  BY HeadTailProperties
<1>3. Head(s) = s[1]
  OBVIOUS
<1>4. DOMAIN Tail(s) = 1 .. Len(s) - 1
  BY <1>2, LenProperties
<1>5. \A i \in 1 .. Len(s) : i = 1 \/ (i - 1 \in 1 .. Len(s) - 1 /\ s[i] = Tail(s)[i - 1])
  BY <1>1, <1>2
<1>6. \A i \in 1 .. Len(s) - 1 : i + 1 \in 1 .. Len(s) /\ Tail(s)[i] = s[i + 1]
  BY <1>1, <1>2
<1>7. 1 \in 1 .. Len(s)
  BY <1>1
<1> QED
  BY <1>1, <1>2, <1>3, <1>4, <1>5, <1>6, <1>7 DEF Contents

LEMMA ContentsType ==
    ASSUME NEW S, NEW s \in Seq(S)
    PROVE  /\ Contents(s) \subseteq S
           /\ Contents(<<>>) = {}
           /\ \A i \in DOMAIN s : s[i] \in S
BY LenProperties, ElementOfSeq DEF Contents

LEMMA AcceptedFirstTail ==
    ASSUME NEW s \in Seq(Messages), s # <<>>, Head(s) # Accepted, AcceptedFirst(s)
    PROVE  AcceptedFirst(Tail(s))
<1>1. /\ Len(s) \in Nat \ {0}
      /\ DOMAIN s = 1 .. Len(s)
  BY LenProperties, EmptySeq
<1>2. /\ Tail(s) \in Seq(Messages)
      /\ Len(Tail(s)) = Len(s) - 1
      /\ \A i \in 1 .. Len(Tail(s)) : Tail(s)[i] = s[i + 1]
  BY HeadTailProperties
<1>3. DOMAIN Tail(s) = 1 .. Len(s) - 1
  BY <1>2, LenProperties
<1> SUFFICES ASSUME NEW i \in 1 .. Len(s) - 1,
                    Tail(s)[i].type = "onGetEntityAppFromDbmgr"
             PROVE  \E j \in 1 .. Len(s) - 1 : j < i /\ Tail(s)[j] = Accepted
  BY <1>3 DEF AcceptedFirst
<1>4. i + 1 \in DOMAIN s /\ s[i + 1] = Tail(s)[i]
  BY <1>1, <1>2
<1>5. PICK j \in DOMAIN s : j < i + 1 /\ s[j] = Accepted
  BY <1>4 DEF AcceptedFirst
<1>6. j # 1
  BY <1>5
<1>7. j - 1 \in 1 .. Len(s) - 1 /\ j - 1 < i /\ Tail(s)[j - 1] = s[j]
  BY <1>1, <1>2, <1>5, <1>6
<1> QED
  BY <1>5, <1>7

LEMMA AcceptedFirstAppend ==
    ASSUME NEW s \in Seq(Messages), NEW m \in Messages, AcceptedFirst(s),
           m.type = "onGetEntityAppFromDbmgr" => Accepted \in Contents(s)
    PROVE  AcceptedFirst(Append(s, m))
<1>1. /\ Len(s) \in Nat
      /\ DOMAIN s = 1 .. Len(s)
  BY LenProperties
<1>2. /\ Append(s, m) \in Seq(Messages)
      /\ Len(Append(s, m)) = Len(s) + 1
      /\ \A i \in 1 .. Len(s) : Append(s, m)[i] = s[i]
      /\ Append(s, m)[Len(s) + 1] = m
  BY AppendProperties
<1>3. DOMAIN Append(s, m) = 1 .. Len(s) + 1
  BY <1>2, LenProperties
<1> SUFFICES ASSUME NEW i \in 1 .. Len(s) + 1,
                    Append(s, m)[i].type = "onGetEntityAppFromDbmgr"
             PROVE  \E j \in 1 .. Len(s) + 1 : j < i /\ Append(s, m)[j] = Accepted
  BY <1>3 DEF AcceptedFirst
<1>4. CASE i = Len(s) + 1
  <2>1. PICK j \in DOMAIN s : s[j] = Accepted
    BY <1>2, <1>4 DEF Contents
  <2> QED
    BY <1>1, <1>2, <1>4, <2>1
<1>5. CASE i # Len(s) + 1
  <2>1. i \in DOMAIN s /\ s[i].type = "onGetEntityAppFromDbmgr"
    BY <1>1, <1>2, <1>5
  <2>2. PICK j \in DOMAIN s : j < i /\ s[j] = Accepted
    BY <2>1 DEF AcceptedFirst
  <2> QED
    BY <1>1, <1>2, <2>2
<1> QED
  BY <1>4, <1>5

LEMMA AcceptedFirstEmpty == AcceptedFirst(<<>>)
BY DEF AcceptedFirst

\* The messages the handlers build, and what they carry.
LEMMA MessageTypes ==
    /\ RegisterServer \in Messages
    /\ \A ok \in BOOLEAN : CBRegisterServer(ok) \in Messages
    /\ \A p \in Processes : GetEntityApp(p) \in Messages
    /\ \A r \in IdRange : DbmgrInitCompleted(r) \in Messages
    /\ BaseappInitProgress \in Messages
BY DEF Messages, RegisterServer, CBRegisterServer, GetEntityApp, DbmgrInitCompleted,
       BaseappInitProgress

LEMMA MessageFields ==
    ASSUME NEW m \in Messages
    PROVE  /\ m.type = "OnRegisterServer" => m = RegisterServer
           /\ m.type = "CBRegisterServer" =>
                 m.accepted \in BOOLEAN /\ m = CBRegisterServer(m.accepted)
           /\ m.type = "onGetEntityAppFromDbmgr" =>
                 m.app \in Processes /\ m = GetEntityApp(m.app)
           /\ m.type = "onDbmgrInitCompleted" => m.range \in IdRange
BY DEF Messages, RegisterServer, CBRegisterServer, GetEntityApp

-----------------------------------------------------------------------------
(***************************************************************************)
(* What sending and receiving make of the queues                           *)
(***************************************************************************)

Queues == [Processes \X Processes -> Seq(Messages)]

LEMMA TakenQueues ==
    ASSUME msgs \in Queues, NEW p \in Processes, NEW q \in Processes, msgs[<<p, q>>] # <<>>
    PROVE  /\ Taken(p, q) \in Queues
           /\ \A r, s \in Processes : r # p \/ s # q => Taken(p, q)[<<r, s>>] = msgs[<<r, s>>]
           /\ Taken(p, q)[<<p, q>>] = Tail(msgs[<<p, q>>])
           /\ Head(msgs[<<p, q>>]) \in Messages
           /\ Head(msgs[<<p, q>>]) \in Contents(msgs[<<p, q>>])
<1>1. msgs[<<p, q>>] \in Seq(Messages)
  BY DEF Queues
<1>2. /\ Tail(msgs[<<p, q>>]) \in Seq(Messages)
      /\ Head(msgs[<<p, q>>]) \in Messages
      /\ Head(msgs[<<p, q>>]) \in Contents(msgs[<<p, q>>])
  BY <1>1, ContentsTail
<1> QED
  BY <1>2 DEF Taken, Queues

-----------------------------------------------------------------------------
(***************************************************************************)
(* Types                                                                   *)
(***************************************************************************)

LEMMA TypeFacts ==
    ASSUME StartupTypeOK
    PROVE  /\ msgs \in Queues
           /\ phase \in [Processes -> Phases]
           /\ findIdx \in [Processes -> Nat]
           /\ registry \in [Processes -> SUBSET Processes]
           /\ channels \in [Processes -> SUBSET Processes]
           /\ last_id_range_begin \in Nat
           /\ idRange \in [Processes -> IdRange]
           /\ id_list \in [Processes -> Seq(IdRange)]
           /\ handedOut \in [Processes -> SUBSET Nat]
           /\ apps \in SUBSET Nat
           /\ baseapps \in SUBSET Nat
           /\ pInitProgressHandler \in [Processes -> Nat]
           /\ reported \in SUBSET Processes
BY DEF StartupTypeOK, IdsTypeOK, Queues

LEMMA InitType == Init => StartupTypeOK
<1> SUFFICES ASSUME Init PROVE StartupTypeOK
  OBVIOUS
<1>1. <<>> \in Seq(Messages) /\ <<>> \in Seq(IdRange)
  BY EmptySeq
<1>2. msgs \in Queues
  BY <1>1 DEF Init, CompInit, Queues
<1>3. IdsTypeOK
  BY <1>1, IdsAssumption DEF Init, IdsInit, IdsTypeOK, IdRange
<1>4. /\ phase \in [Processes -> Phases]
      /\ findIdx \in [Processes -> Nat]
      /\ registry \in [Processes -> SUBSET Processes]
      /\ channels \in [Processes -> SUBSET Processes]
      /\ apps \in SUBSET Nat
      /\ baseapps \in SUBSET Nat
      /\ pInitProgressHandler \in [Processes -> Nat]
      /\ reported \in SUBSET Processes
  BY DEF Init, CompInit, Phases
<1> QED
  BY <1>2, <1>3, <1>4 DEF StartupTypeOK, Queues


\* The ids of a process.
LEMMA IdFacts ==
    ASSUME StartupTypeOK, NEW p \in Processes
    PROVE  /\ RangeInUse(p) \in IdRange
           /\ RangesKept(p) \in Seq(IdRange)
<1>1. /\ id_list[p] \in Seq(IdRange)
      /\ idRange[p] \in IdRange
  BY TypeFacts
<1>2. id_list[p] # <<>> => Head(id_list[p]) \in IdRange /\ Tail(id_list[p]) \in Seq(IdRange)
  BY <1>1, HeadTailProperties
<1> QED
  BY <1>1, <1>2 DEF RangeInUse, RangesKept, TakesNext

LEMMA IdsSteps ==
    ASSUME StartupTypeOK, NEW p \in Processes
    PROVE  /\ CheckSize(p) => IdsTypeOK'
           /\ \A r \in IdRange : OnAddRange(p, r) => IdsTypeOK'
           /\ Alloc(p) => IdsTypeOK'
           /\ UNCHANGED idVars => IdsTypeOK'
<1>1. IdsTypeOK /\ idRange \in [Processes -> IdRange] /\ id_list \in [Processes -> Seq(IdRange)]
        /\ handedOut \in [Processes -> SUBSET Nat]
  BY TypeFacts DEF StartupTypeOK
<1>2. RangeInUse(p) \in IdRange /\ RangesKept(p) \in Seq(IdRange)
  BY IdFacts
<1>3. CheckSize(p) => IdsTypeOK'
  BY <1>1, <1>2 DEF CheckSize, IdsTypeOK
<1>4. ASSUME NEW r \in IdRange, OnAddRange(p, r)
      PROVE  IdsTypeOK'
  <2>1. Append(RangesKept(p), r) \in Seq(IdRange)
    BY <1>2, AppendProperties
  <2> QED
    BY <1>1, <1>2, <1>4, <2>1 DEF OnAddRange, IdsTypeOK
<1>5. ASSUME Alloc(p)
      PROVE  IdsTypeOK'
  <2>1. /\ RangeInUse(p)[1] \in Nat /\ RangeInUse(p)[2] \in Nat
    BY <1>2 DEF IdRange
  <2>2. <<RangeInUse(p)[1] + 1, RangeInUse(p)[2]>> \in IdRange
    BY <2>1 DEF IdRange
  <2>3. handedOut[p] \cup {RangeInUse(p)[1]} \in SUBSET Nat
    BY <1>1, <2>1
  <2> QED
    BY <1>1, <1>2, <1>5, <2>2, <2>3 DEF Alloc, IdsTypeOK
<1>6. UNCHANGED idVars => IdsTypeOK'
  BY <1>1 DEF idVars, IdsTypeOK
<1> QED
  BY <1>3, <1>4, <1>5, <1>6

-----------------------------------------------------------------------------
(***************************************************************************)
(* Steps that neither register, introduce nor end a server                 *)
(***************************************************************************)

LEMMA Kinds ==
    ASSUME NEW p \in Processes
    PROVE  /\ componentType[p] \in ComponentTypes
           /\ componentID[p] \in Nat \ {0}
           /\ Dbmgr(p) => ~EntityApp(p) /\ ~Baseappmgr(p)
           /\ Baseapp(p) => EntityApp(p)
           /\ Dbmgr(p) \/ Baseappmgr(p) \/ EntityApp(p)
BY ProcessesAssumption
   DEF ComponentTypes, EntityAppTypes, EntityApp, Dbmgr, Baseappmgr, Baseapp, DBMGR_TYPE,
       BASEAPPMGR_TYPE, BASEAPP_TYPE, CELLAPP_TYPE

\* The queue stays as it is, grows by a message that is neither an answer nor an
\* introduction, or loses one that changes no list.
Quiet(r, s) ==
    \/ msgs'[<<r, s>>] = msgs[<<r, s>>]
    \/ /\ phase[r] # "off" /\ phase[s] # "off"
       /\ \E m \in Messages :
             /\ Fits(r, s, m)
             /\ m.type \in {"OnRegisterServer", "onDbmgrInitCompleted", "onBaseappInitProgress"}
             /\ msgs'[<<r, s>>] = Append(msgs[<<r, s>>], m)
    \/ /\ msgs[<<r, s>>] # <<>>
       /\ Head(msgs[<<r, s>>]).type \in {"onDbmgrInitCompleted", "onBaseappInitProgress"}
       /\ msgs'[<<r, s>>] = Tail(msgs[<<r, s>>])

LEMMA QuietQueue ==
    ASSUME NEW r \in Processes, NEW s \in Processes, msgs \in Queues, Quiet(r, s)
    PROVE  /\ Accepted \in Contents(msgs'[<<r, s>>]) <=> Accepted \in Contents(msgs[<<r, s>>])
           /\ \A x \in Processes :
                 GetEntityApp(x) \in Contents(msgs[<<r, s>>])
                    => GetEntityApp(x) \in Contents(msgs'[<<r, s>>])
           /\ RegisterServer \in Contents(msgs[<<r, s>>])
                => RegisterServer \in Contents(msgs'[<<r, s>>])
           /\ \A m \in Contents(msgs'[<<r, s>>]) :
                 m \in Contents(msgs[<<r, s>>]) \/ Fits(r, s, m)
           /\ AcceptedFirst(msgs[<<r, s>>]) => AcceptedFirst(msgs'[<<r, s>>])
           /\ (phase[r] = "off" \/ phase[s] = "off") /\ msgs[<<r, s>>] = <<>> =>
                 msgs'[<<r, s>>] = <<>>
<1>1. msgs[<<r, s>>] \in Seq(Messages)
  BY DEF Queues
<1>2. CASE msgs'[<<r, s>>] = msgs[<<r, s>>]
  BY <1>2
<1>3. CASE /\ phase[r] # "off" /\ phase[s] # "off"
           /\ \E m \in Messages :
                 /\ Fits(r, s, m)
                 /\ m.type \in {"OnRegisterServer", "onDbmgrInitCompleted",
                                "onBaseappInitProgress"}
                 /\ msgs'[<<r, s>>] = Append(msgs[<<r, s>>], m)
  <2>1. PICK m \in Messages :
          /\ Fits(r, s, m)
          /\ m.type \in {"OnRegisterServer", "onDbmgrInitCompleted", "onBaseappInitProgress"}
          /\ msgs'[<<r, s>>] = Append(msgs[<<r, s>>], m)
    BY <1>3
  <2>2. Contents(msgs'[<<r, s>>]) = Contents(msgs[<<r, s>>]) \cup {m}
    BY <1>1, <2>1, ContentsAppend
  <2>3. Accepted # m
    BY <2>1 DEF Accepted, CBRegisterServer
  <2>4. AcceptedFirst(msgs[<<r, s>>]) => AcceptedFirst(msgs'[<<r, s>>])
    BY <1>1, <2>1, AcceptedFirstAppend
  <2> QED
    BY <1>3, <2>1, <2>2, <2>3, <2>4
<1>4. CASE /\ msgs[<<r, s>>] # <<>>
           /\ Head(msgs[<<r, s>>]).type \in {"onDbmgrInitCompleted", "onBaseappInitProgress"}
           /\ msgs'[<<r, s>>] = Tail(msgs[<<r, s>>])
  <2>1. Contents(msgs[<<r, s>>]) = {Head(msgs[<<r, s>>])} \cup Contents(msgs'[<<r, s>>])
    BY <1>1, <1>4, ContentsTail
  <2>2. /\ Accepted # Head(msgs[<<r, s>>])
        /\ RegisterServer # Head(msgs[<<r, s>>])
        /\ \A x \in Processes : GetEntityApp(x) # Head(msgs[<<r, s>>])
    BY <1>4 DEF Accepted, CBRegisterServer, RegisterServer, GetEntityApp
  <2>3. AcceptedFirst(msgs[<<r, s>>]) => AcceptedFirst(msgs'[<<r, s>>])
    BY <1>1, <1>4, <2>2, AcceptedFirstTail
  <2> QED
    BY <1>4, <2>1, <2>2, <2>3
<1> QED
  BY <1>2, <1>3, <1>4 DEF Quiet

LEMMA QuietInv ==
    ASSUME IInv, StartupTypeOK', NoSelf', phase' = phase, registry' = registry,
           \A r, s \in Processes : Quiet(r, s)
    PROVE  IInv'
<1> USE DEF IInv
<1>1. msgs \in Queues
  BY TypeFacts
<1>2. /\ \A p \in Processes :
            /\ Running(p)' <=> Running(p)
            /\ Once(p)' <=> Once(p)
            /\ Sole(p)' <=> Sole(p)
  BY DEF Running, Once, Sole
<1>3. OnlyStartedAreKnown'
  BY <1>1, <1>2, QuietQueue DEF OnlyStartedAreKnown
<1>4. SendersFit'
  BY <1>1, QuietQueue DEF SendersFit
<1>5. ListsAgree'
  BY <1>1, <1>2, QuietQueue DEF ListsAgree
<1>6. IntroducedAfterAccepted'
  BY <1>1, <1>2, QuietQueue DEF IntroducedAfterAccepted
<1>7. EndedIsForgotten'
  BY <1>1, <1>2, QuietQueue DEF EndedIsForgotten
<1>8. Introduced'
  <2> SUFFICES ASSUME NEW d \in Processes, NEW p \in registry[d], NEW q \in registry[d],
                      Dbmgr(d), EntityApp(p), EntityApp(q), p # q,
                      Running(p), Running(q), Once(p), Once(q)
               PROVE  Approaches(p, q, d)' \/ Approaches(q, p, d)'
    BY <1>2, TypeFacts DEF Introduced
  <2>1. p \in Processes /\ q \in Processes
    BY TypeFacts
  <2>2. Approaches(p, q, d) \/ Approaches(q, p, d)
    BY DEF Introduced
  <2>3. \A x, y \in Processes : Approaches(x, y, d) => Approaches(x, y, d)'
    BY <1>1, QuietQueue DEF Approaches
  <2> QED
    BY <2>1, <2>2, <2>3
<1> QED
  BY <1>3, <1>4, <1>5, <1>6, <1>7, <1>8

-----------------------------------------------------------------------------
(***************************************************************************)
(* Steps that start or end a server                                        *)
(***************************************************************************)

LEMMA StartInv ==
    ASSUME IInv, StartupTypeOK', NEW p \in Processes, Start(p)
    PROVE  IInv'
<1> USE DEF IInv
<1>1. /\ phase[p] = "off"
      /\ phase'[p] = "up"
      /\ \A r \in Processes \ {p} : phase'[r] = phase[r]
      /\ UNCHANGED <<registry, channels, msgs>>
  BY TypeFacts DEF Start
<1>2. /\ registry[p] = {}
      /\ \A q \in Processes :
            p \notin registry[q] /\ msgs[<<p, q>>] = <<>> /\ msgs[<<q, p>>] = <<>>
  BY <1>1 DEF OnlyStartedAreKnown, Running
<1>3. \A q \in Processes :
        /\ Running(q)' => Running(q) \/ q = p
        /\ Running(q) => Running(q)'
        /\ Once(q)' => Once(q)
        /\ Sole(q)' => Sole(q)
        /\ phase'[q] = "off" => phase[q] = "off"
        /\ phase'[q] = "ended" => phase[q] = "ended"
  BY <1>1 DEF Running, Once, Sole
<1>4. Contents(<<>>) = {} /\ AcceptedFirst(<<>>)
  BY AcceptedFirstEmpty DEF Contents
<1>5. NoSelf' /\ SendersFit'
  BY <1>1 DEF NoSelf, SendersFit
<1>6. OnlyStartedAreKnown'
  BY <1>1, <1>3 DEF OnlyStartedAreKnown
<1>7. ListsAgree'
  <2> SUFFICES ASSUME NEW r \in Processes, NEW q \in Processes, Running(r)', Running(q)'
               PROVE  /\ Accepted \in Contents(msgs[<<q, r>>]) => r \in registry[q]
                      /\ r \in registry[q] /\ Sole(q)' =>
                            q \in registry[r] \/ Accepted \in Contents(msgs[<<q, r>>])
                      /\ Dbmgr(q) /\ q \in registry[r] => r \in registry[q]
    BY <1>1 DEF ListsAgree
  <2>1. CASE r = p \/ q = p
    BY <1>2, <1>4, <2>1
  <2>2. CASE r # p /\ q # p
    BY <1>3, <2>2 DEF ListsAgree
  <2> QED
    BY <2>1, <2>2
<1>8. IntroducedAfterAccepted'
  BY <1>1, <1>2, <1>3, <1>4 DEF IntroducedAfterAccepted
<1>9. EndedIsForgotten'
  BY <1>1, <1>2, <1>3, <1>4 DEF EndedIsForgotten
<1>10. Introduced'
  <2> SUFFICES ASSUME NEW d \in Processes, NEW r \in registry[d], NEW q \in registry[d],
                      Dbmgr(d), EntityApp(r), EntityApp(q), r # q,
                      Running(r)', Running(q)', Once(r)', Once(q)'
               PROVE  Approaches(r, q, d) \/ Approaches(q, r, d)
    BY <1>1 DEF Introduced, Approaches
  <2>1. r \in Processes /\ q \in Processes
    BY TypeFacts
  <2>2. r # p /\ q # p
    BY <1>2
  <2> QED
    BY <1>3, <2>1, <2>2 DEF Introduced
<1> QED
  BY <1>5, <1>6, <1>7, <1>8, <1>9, <1>10

LEMMA SignalInv ==
    ASSUME IInv, StartupTypeOK', NEW p \in Processes, Signal(p)
    PROVE  IInv'
<1> USE DEF IInv
<1>1. /\ phase[p] = "up"
      /\ phase'[p] = "ending"
      /\ \A r \in Processes \ {p} : phase'[r] = phase[r]
      /\ UNCHANGED <<registry, channels, msgs>>
  BY TypeFacts DEF Signal
<1>2. \A q \in Processes :
        /\ Running(q)' <=> Running(q)
        /\ Once(q)' <=> Once(q)
        /\ Sole(q)' <=> Sole(q)
        /\ phase'[q] = "off" <=> phase[q] = "off"
        /\ phase'[q] = "ended" <=> phase[q] = "ended"
  BY <1>1 DEF Running, Once, Sole
<1>3. NoSelf' /\ SendersFit'
  BY <1>1 DEF NoSelf, SendersFit
<1>4. OnlyStartedAreKnown' /\ ListsAgree'
  BY <1>1, <1>2 DEF OnlyStartedAreKnown, ListsAgree
<1>5. IntroducedAfterAccepted' /\ EndedIsForgotten'
  BY <1>1, <1>2 DEF IntroducedAfterAccepted, EndedIsForgotten
<1>6. Introduced'
  <2>1. \A d \in Processes : registry[d] \subseteq Processes
    BY TypeFacts
  <2> QED
    BY <1>1, <1>2, <2>1 DEF Introduced, Approaches
<1> QED
  BY <1>3, <1>4, <1>5, <1>6

LEMMA VanishTypes ==
    ASSUME StartupTypeOK, NEW p \in Processes, NEW how \in {"ended", "crashed"}, Vanish(p, how)
    PROVE  /\ msgs' \in Queues
           /\ phase' \in [Processes -> Phases]
           /\ findIdx' \in [Processes -> Nat]
           /\ registry' \in [Processes -> SUBSET Processes]
           /\ channels' \in [Processes -> SUBSET Processes]
           /\ \A r, s \in Processes :
                 msgs'[<<r, s>>] = IF s = p THEN <<>> ELSE msgs[<<r, s>>]
<1>1. <<>> \in Seq(Messages)
  BY EmptySeq
<1>2. msgs' \in Queues
  BY <1>1, TypeFacts DEF Vanish, Queues
<1> QED
  BY <1>2, TypeFacts DEF Vanish, Phases

LEMMA VanishInv ==
    ASSUME IInv, StartupTypeOK', NEW p \in Processes, NEW how \in {"ended", "crashed"},
           Vanish(p, how), Running(p),
           Dbmgr(p) /\ how = "ended" => \A r \in registry[p] : ~EntityApp(r)
    PROVE  IInv'
<1> USE DEF IInv
<1>1. /\ phase'[p] = how
      /\ registry'[p] = {}
      /\ channels'[p] = {}
      /\ \A r \in Processes \ {p} :
            phase'[r] = phase[r] /\ registry'[r] = registry[r] /\ channels'[r] = channels[r]
      /\ \A r, s \in Processes : msgs'[<<r, s>>] = IF s = p THEN <<>> ELSE msgs[<<r, s>>]
  BY TypeFacts, VanishTypes DEF Vanish
<1>2. \A q \in Processes :
        /\ Running(q)' <=> Running(q) /\ q # p
        /\ Once(q)' <=> Once(q)
        /\ Sole(q)' <=> Sole(q)
        /\ phase'[q] = "off" <=> phase[q] = "off"
        /\ phase'[q] = "ended" => phase[q] = "ended" \/ (q = p /\ how = "ended")
  BY <1>1 DEF Running, Once, Sole
<1>3. Contents(<<>>) = {} /\ AcceptedFirst(<<>>)
  BY AcceptedFirstEmpty DEF Contents
<1>4. NoSelf' /\ SendersFit'
  BY <1>1, <1>3 DEF NoSelf, SendersFit
<1>5. OnlyStartedAreKnown'
  BY <1>1, <1>2 DEF OnlyStartedAreKnown
<1>6. ListsAgree'
  BY <1>1, <1>2 DEF ListsAgree
<1>7. IntroducedAfterAccepted'
  BY <1>1, <1>2 DEF IntroducedAfterAccepted
<1>8. EndedIsForgotten'
  <2> SUFFICES ASSUME NEW r \in Processes, NEW q \in Processes,
                      Dbmgr(q), phase'[q] = "ended", EntityApp(r), Running(r)'
               PROVE  q \notin registry[r] /\ Accepted \notin Contents(msgs[<<q, r>>])
    BY <1>1, <1>2 DEF EndedIsForgotten
  <2>1. CASE phase[q] = "ended"
    BY <1>2, <2>1 DEF EndedIsForgotten
  <2>2. CASE q = p /\ how = "ended"
    <3>1. r \notin registry[p]
      BY <2>2
    <3> QED
      BY <1>2, <2>2, <3>1 DEF ListsAgree
  <2> QED
    BY <1>2, <2>1, <2>2
<1>9. Introduced'
  <2> SUFFICES ASSUME NEW d \in Processes, NEW r \in registry'[d], NEW q \in registry'[d],
                      Dbmgr(d), EntityApp(r), EntityApp(q), r # q,
                      Running(r)', Running(q)', Once(r)', Once(q)'
               PROVE  Approaches(r, q, d)' \/ Approaches(q, r, d)'
    BY DEF Introduced
  <2>1. d # p /\ registry'[d] = registry[d]
    BY <1>1
  <2>2. r \in Processes \ {p} /\ q \in Processes \ {p}
    BY <1>2, <2>1, TypeFacts
  <2>3. Approaches(r, q, d) \/ Approaches(q, r, d)
    BY <1>2, <2>1, <2>2 DEF Introduced
  <2> QED
    BY <1>1, <2>2, <2>3 DEF Approaches
<1> QED
  BY <1>4, <1>5, <1>6, <1>7, <1>8, <1>9

\* The other case of OnChannelDeregister: the server that is gone is forgotten.
LEMMA ForgetInv ==
    ASSUME IInv, StartupTypeOK', NEW p \in Processes, NEW q \in Processes,
           Running(p), Gone(q), phase' = phase,
           channels' = [channels EXCEPT ![p] = @ \ {q}],
           registry' = [registry EXCEPT ![p] = @ \ {q}],
           msgs' = [msgs EXCEPT ![<<q, p>>] = <<>>]
    PROVE  IInv'
<1> USE DEF IInv
<1>1. /\ registry'[p] = registry[p] \ {q}
      /\ \A r \in Processes \ {p} : registry'[r] = registry[r]
      /\ \A r \in Processes : channels'[r] \subseteq channels[r]
      /\ msgs'[<<q, p>>] = <<>>
      /\ \A r, s \in Processes : r # q \/ s # p => msgs'[<<r, s>>] = msgs[<<r, s>>]
  BY TypeFacts DEF Queues
<1>2. /\ ~Running(q)
      /\ \A r \in Processes :
            /\ Running(r)' <=> Running(r)
            /\ Once(r)' <=> Once(r)
            /\ Sole(r)' <=> Sole(r)
  BY DEF Gone, Running, Once, Sole
<1>3. Contents(<<>>) = {} /\ AcceptedFirst(<<>>)
  BY AcceptedFirstEmpty DEF Contents
<1>4. NoSelf'
  BY <1>1 DEF NoSelf
<1>5. SendersFit'
  <2> SUFFICES ASSUME NEW r \in Processes, NEW s \in Processes,
                      NEW m \in Contents(msgs'[<<r, s>>])
               PROVE  Fits(r, s, m)
    BY DEF SendersFit
  <2>1. m \in Contents(msgs[<<r, s>>])
    BY <1>1, <1>3
  <2> QED
    BY <2>1 DEF SendersFit
<1>6. OnlyStartedAreKnown'
  <2>1. \A r, s \in Processes : msgs[<<r, s>>] = <<>> => msgs'[<<r, s>>] = <<>>
    BY <1>1
  <2> QED
    BY <1>1, <1>2, <2>1 DEF OnlyStartedAreKnown
<1>7. ListsAgree'
  BY <1>1, <1>2 DEF ListsAgree
<1>8. IntroducedAfterAccepted'
  BY <1>1, <1>2, <1>3 DEF IntroducedAfterAccepted
<1>9. EndedIsForgotten'
  BY <1>1, <1>2, <1>3 DEF EndedIsForgotten
<1>10. Introduced'
  <2> SUFFICES ASSUME NEW d \in Processes, NEW r \in registry'[d], NEW s \in registry'[d],
                      Dbmgr(d), EntityApp(r), EntityApp(s), r # s,
                      Running(r)', Running(s)', Once(r)', Once(s)'
               PROVE  Approaches(r, s, d)' \/ Approaches(s, r, d)'
    BY DEF Introduced
  <2>1. r \in registry[d] /\ s \in registry[d] /\ d # q
    BY <1>1, <1>2 DEF OnlyStartedAreKnown
  <2>2. r \in Processes \ {q} /\ s \in Processes \ {q}
    BY <1>2, <2>1, TypeFacts
  <2>3. Approaches(r, s, d) \/ Approaches(s, r, d)
    BY <1>2, <2>1, <2>2 DEF Introduced
  <2> QED
    BY <1>1, <2>1, <2>2, <2>3 DEF Approaches
<1> QED
  BY <1>4, <1>5, <1>6, <1>7, <1>8, <1>9, <1>10

-----------------------------------------------------------------------------
(***************************************************************************)
(* Receiving an introduction                                               *)
(***************************************************************************)

LEMMA ArrivedFacts ==
    ASSUME IInv, NEW p \in Processes, NEW q \in Processes, NEW type, Arrived(p, q, type)
    PROVE  /\ msgs \in Queues
           /\ p # q /\ Running(q) /\ phase[p] # "off" /\ phase[q] # "off"
           /\ msgs[<<p, q>>] \in Seq(Messages) /\ msgs[<<p, q>>] # <<>>
           /\ Head(msgs[<<p, q>>]) \in Messages
           /\ Head(msgs[<<p, q>>]).type = type
           /\ Head(msgs[<<p, q>>]) \in Contents(msgs[<<p, q>>])
           /\ Fits(p, q, Head(msgs[<<p, q>>]))
           /\ Contents(msgs[<<p, q>>]) =
                 {Head(msgs[<<p, q>>])} \cup Contents(Tail(msgs[<<p, q>>]))
<1> USE DEF IInv
<1>1. msgs \in Queues /\ msgs[<<p, q>>] \in Seq(Messages)
  BY TypeFacts DEF Queues
<1>2. msgs[<<p, q>>] # <<>> /\ p # q /\ Running(q)
  BY DEF Arrived, NoSelf
<1>3. phase[p] # "off" /\ phase[q] # "off"
  BY <1>2 DEF OnlyStartedAreKnown
<1>4. /\ Head(msgs[<<p, q>>]) \in Messages
      /\ Contents(msgs[<<p, q>>]) =
            {Head(msgs[<<p, q>>])} \cup Contents(Tail(msgs[<<p, q>>]))
  BY <1>1, <1>2, ContentsTail
<1>5. Fits(p, q, Head(msgs[<<p, q>>]))
  BY <1>4 DEF SendersFit
<1> QED
  BY <1>1, <1>2, <1>3, <1>4, <1>5 DEF Arrived

\* The channel that connectComponent makes.
LEMMA ConnectChannels ==
    ASSUME StartupTypeOK, NoSelf, NEW p \in Processes, NEW q \in Processes, p # q,
           channels' = [channels EXCEPT ![p] = @ \cup {q}, ![q] = @ \cup {p}]
    PROVE  channels' \in [Processes -> SUBSET Processes] /\ NoSelf'
BY TypeFacts DEF NoSelf

\* The server that the first message from p to q introduces.
Introducee(p, q) == Head(msgs[<<p, q>>]).app

\* What onGetEntityAppFromDbmgr makes of the queues.
ConnectsTo(p, q, new) ==
    /\ Head(msgs[<<p, q>>]) = GetEntityApp(new)
    /\ msgs'[<<q, new>>] = IF Running(new) THEN Append(msgs[<<q, new>>], RegisterServer)
                           ELSE msgs[<<q, new>>]
    /\ \A r, s \in Processes :
          (r # p \/ s # q) /\ (r # q \/ s # new) => msgs'[<<r, s>>] = msgs[<<r, s>>]

LEMMA GetEntityAppFacts ==
    ASSUME IInv, NEW p \in Processes, NEW q \in Processes, OnGetEntityApp(p, q)
    PROVE  /\ p # q /\ Dbmgr(p) /\ EntityApp(q)
           /\ Running(q) /\ phase[p] # "off" /\ phase[q] # "off"
           /\ phase' = phase /\ registry' = registry
           /\ msgs' \in Queues
           /\ channels' \in [Processes -> SUBSET Processes]
           /\ NoSelf'
           /\ msgs'[<<p, q>>] = Tail(msgs[<<p, q>>])
           /\ \E new \in Processes \ {q} : ConnectsTo(p, q, new)
<1>0. PICK new : new = Introducee(p, q)
  OBVIOUS
<1>1. Arrived(p, q, "onGetEntityAppFromDbmgr")
  BY DEF OnGetEntityApp
<1>2. /\ msgs \in Queues /\ p # q /\ Running(q) /\ msgs[<<p, q>>] # <<>>
      /\ phase[p] # "off" /\ phase[q] # "off"
      /\ Head(msgs[<<p, q>>]) \in Messages
      /\ Head(msgs[<<p, q>>]).type = "onGetEntityAppFromDbmgr"
      /\ Fits(p, q, Head(msgs[<<p, q>>]))
  BY <1>1, ArrivedFacts
<1>3. /\ new \in Processes /\ Head(msgs[<<p, q>>]) = GetEntityApp(new)
      /\ Dbmgr(p) /\ EntityApp(q) /\ new # q
  BY <1>0, <1>2, MessageFields DEF Fits, Introducee
<1>4. /\ Taken(p, q) \in Queues
      /\ Taken(p, q)[<<p, q>>] = Tail(msgs[<<p, q>>])
      /\ \A r, s \in Processes : r # p \/ s # q => Taken(p, q)[<<r, s>>] = msgs[<<r, s>>]
  BY <1>2, TakenQueues
<1>5. phase' = phase /\ registry' = registry
  BY DEF OnGetEntityApp
<1>6. CASE Running(new)
  <2>1. /\ channels' = [channels EXCEPT ![q] = @ \cup {new}, ![new] = @ \cup {q}]
        /\ msgs' = [Taken(p, q) EXCEPT ![<<q, new>>] = Append(@, RegisterServer)]
    BY <1>0, <1>6 DEF OnGetEntityApp, Introducee, ConnectTo, SentTo, Running, Gone
  <2>6. StartupTypeOK /\ NoSelf
    BY DEF IInv
  <2>2. channels' \in [Processes -> SUBSET Processes] /\ NoSelf'
    BY <1>3, <2>1, <2>6, ConnectChannels
  <2>4. Append(Taken(p, q)[<<q, new>>], RegisterServer) \in Seq(Messages)
    BY <1>3, <1>4, MessageTypes, AppendProperties DEF Queues
  <2>5. /\ msgs' \in Queues
        /\ msgs'[<<q, new>>] = Append(Taken(p, q)[<<q, new>>], RegisterServer)
        /\ \A r, s \in Processes : r # q \/ s # new => msgs'[<<r, s>>] = Taken(p, q)[<<r, s>>]
    BY <1>3, <1>4, <2>1, <2>4 DEF Queues
  <2>3. /\ msgs'[<<p, q>>] = Tail(msgs[<<p, q>>])
        /\ msgs'[<<q, new>>] = Append(msgs[<<q, new>>], RegisterServer)
        /\ \A r, s \in Processes :
              (r # p \/ s # q) /\ (r # q \/ s # new) => msgs'[<<r, s>>] = msgs[<<r, s>>]
    BY <1>2, <1>3, <1>4, <2>5
  <2> QED
    BY <1>2, <1>3, <1>5, <1>6, <2>2, <2>3, <2>5 DEF ConnectsTo
<1>7. CASE ~Running(new)
  <2>1. msgs' = Taken(p, q) /\ channels' = channels
    BY <1>0, <1>7 DEF OnGetEntityApp, Introducee
  <2>2. NoSelf' /\ channels' \in [Processes -> SUBSET Processes]
    BY <2>1, TypeFacts DEF NoSelf, IInv
  <2> QED
    BY <1>2, <1>3, <1>4, <1>5, <1>7, <2>1, <2>2 DEF ConnectsTo
<1> QED
  BY <1>6, <1>7

LEMMA GetEntityAppInv ==
    ASSUME IInv, StartupTypeOK', NEW p \in Processes, NEW q \in Processes, OnGetEntityApp(p, q)
    PROVE  IInv'
<1>0. /\ p # q /\ Dbmgr(p) /\ EntityApp(q)
      /\ Running(q) /\ phase[p] # "off" /\ phase[q] # "off"
      /\ phase' = phase /\ registry' = registry
      /\ NoSelf'
      /\ msgs'[<<p, q>>] = Tail(msgs[<<p, q>>])
  BY GetEntityAppFacts
<1>1. PICK new \in Processes \ {q} : ConnectsTo(p, q, new)
  BY GetEntityAppFacts
<1> USE DEF IInv, ConnectsTo
<1>2. /\ Arrived(p, q, "onGetEntityAppFromDbmgr")
      /\ msgs[<<p, q>>] \in Seq(Messages) /\ msgs[<<p, q>>] # <<>>
      /\ msgs[<<q, new>>] \in Seq(Messages)
  BY <1>0, <1>1, ArrivedFacts DEF OnGetEntityApp, Queues
<1>3. /\ Contents(msgs[<<p, q>>]) = {GetEntityApp(new)} \cup Contents(msgs'[<<p, q>>])
      /\ Running(new) =>
            Contents(msgs'[<<q, new>>]) = Contents(msgs[<<q, new>>]) \cup {RegisterServer}
  <2>1. Contents(msgs[<<p, q>>]) = {GetEntityApp(new)} \cup Contents(msgs'[<<p, q>>])
    BY <1>0, <1>1, <1>2, ContentsTail
  <2>2. RegisterServer \in Messages
    BY MessageTypes
  <2>3. Running(new) =>
          Contents(msgs'[<<q, new>>]) = Contents(msgs[<<q, new>>]) \cup {RegisterServer}
    BY <1>0, <1>1, <1>2, <2>2, ContentsAppend
  <2> QED
    BY <2>1, <2>3
<1>4. /\ Accepted # GetEntityApp(new) /\ Accepted # RegisterServer
      /\ RegisterServer # GetEntityApp(new)
      /\ \A x \in Processes : GetEntityApp(x) = GetEntityApp(new) => x = new
  BY DEF Accepted, CBRegisterServer, GetEntityApp, RegisterServer
<1>5. \A r, s \in Processes :
        /\ Accepted \in Contents(msgs'[<<r, s>>]) <=> Accepted \in Contents(msgs[<<r, s>>])
        /\ RegisterServer \in Contents(msgs[<<r, s>>])
             => RegisterServer \in Contents(msgs'[<<r, s>>])
        /\ AcceptedFirst(msgs[<<r, s>>]) => AcceptedFirst(msgs'[<<r, s>>])
        /\ \A m \in Contents(msgs'[<<r, s>>]) :
              m \in Contents(msgs[<<r, s>>]) \/ (r = q /\ m = RegisterServer)
        /\ (phase[r] = "off" \/ phase[s] = "off") /\ msgs[<<r, s>>] = <<>> =>
              msgs'[<<r, s>>] = <<>>
  <2> SUFFICES ASSUME NEW r \in Processes, NEW s \in Processes
               PROVE
        /\ Accepted \in Contents(msgs'[<<r, s>>]) <=> Accepted \in Contents(msgs[<<r, s>>])
        /\ RegisterServer \in Contents(msgs[<<r, s>>])
             => RegisterServer \in Contents(msgs'[<<r, s>>])
        /\ AcceptedFirst(msgs[<<r, s>>]) => AcceptedFirst(msgs'[<<r, s>>])
        /\ \A m \in Contents(msgs'[<<r, s>>]) :
              m \in Contents(msgs[<<r, s>>]) \/ (r = q /\ m = RegisterServer)
        /\ (phase[r] = "off" \/ phase[s] = "off") /\ msgs[<<r, s>>] = <<>> =>
              msgs'[<<r, s>>] = <<>>
    OBVIOUS
  <2>1. CASE r = p /\ s = q
    <3>1. AcceptedFirst(msgs[<<p, q>>]) => AcceptedFirst(msgs'[<<p, q>>])
      BY <1>0, <1>1, <1>2, <1>4, AcceptedFirstTail
    <3> QED
      BY <1>0, <1>1, <1>3, <1>4, <2>1, <3>1
  <2>2. CASE r = q /\ s = new /\ Running(new)
    <3>1. RegisterServer \in Messages /\ RegisterServer.type # "onGetEntityAppFromDbmgr"
      BY MessageTypes DEF RegisterServer
    <3>2. AcceptedFirst(msgs[<<q, new>>]) => AcceptedFirst(msgs'[<<q, new>>])
      BY <1>0, <1>1, <1>2, <2>2, <3>1, AcceptedFirstAppend
    <3>3. phase[new] # "off"
      BY <2>2 DEF Running
    <3> QED
      BY <1>0, <1>1, <1>3, <1>4, <2>2, <3>2, <3>3
  <2>3. CASE msgs'[<<r, s>>] = msgs[<<r, s>>]
    BY <2>3
  <2> QED
    BY <1>0, <1>1, <2>1, <2>2, <2>3
<1>6. \A r \in Processes :
        (Running(r)' <=> Running(r)) /\ (Once(r)' <=> Once(r)) /\ (Sole(r)' <=> Sole(r))
  BY <1>0, <1>1 DEF Running, Once, Sole
<1>7. SendersFit'
  <2>1. Fits(q, new, RegisterServer) /\ \A s \in Processes : Fits(q, s, RegisterServer)
    BY <1>0, <1>1, Kinds DEF Fits, RegisterServer
  <2> QED
    BY <1>5, <2>1 DEF SendersFit
<1>8. OnlyStartedAreKnown' /\ ListsAgree' /\ IntroducedAfterAccepted' /\ EndedIsForgotten'
  <2>1. OnlyStartedAreKnown'
    BY <1>0, <1>1, <1>5, <1>6 DEF OnlyStartedAreKnown
  <2>2. ListsAgree'
    BY <1>0, <1>1, <1>5, <1>6 DEF ListsAgree
  <2>3. IntroducedAfterAccepted' /\ EndedIsForgotten'
    BY <1>0, <1>1, <1>5, <1>6 DEF IntroducedAfterAccepted, EndedIsForgotten
  <2> QED
    BY <2>1, <2>2, <2>3
<1>9. Introduced'
  <2> SUFFICES ASSUME NEW d \in Processes, NEW r \in registry[d], NEW s \in registry[d],
                      Dbmgr(d), EntityApp(r), EntityApp(s), r # s,
                      Running(r), Running(s), Once(r), Once(s)
               PROVE  Approaches(r, s, d)' \/ Approaches(s, r, d)'
    BY <1>0, <1>1, <1>6, TypeFacts DEF Introduced
  <2>1. r \in Processes /\ s \in Processes
    BY TypeFacts
  <2>2. Approaches(r, s, d) \/ Approaches(s, r, d)
    BY DEF Introduced
  <2>3. ASSUME NEW x \in Processes, NEW y \in Processes, Running(y), Approaches(x, y, d)
        PROVE  Approaches(x, y, d)'
    <3>1. CASE GetEntityApp(y) \in Contents(msgs[<<d, x>>])
      <4>1. CASE d = p /\ x = q /\ y = new
        BY <1>0, <1>1, <1>3, <2>3, <4>1 DEF Approaches
      <4>2. CASE ~(d = p /\ x = q /\ y = new)
        <5>1. GetEntityApp(y) \in Contents(msgs'[<<d, x>>])
          <6>1. CASE d = p /\ x = q
            BY <1>3, <1>4, <3>1, <4>2, <6>1
          <6>2. CASE d = q /\ x = new /\ Running(new)
            BY <1>3, <3>1, <6>2
          <6>3. CASE msgs'[<<d, x>>] = msgs[<<d, x>>]
            BY <3>1, <6>3
          <6> QED
            BY <1>0, <1>1, <6>1, <6>2, <6>3
        <5> QED
          BY <5>1 DEF Approaches
      <4> QED
        BY <4>1, <4>2
    <3>2. CASE RegisterServer \in Contents(msgs[<<x, y>>]) \/ x \in registry[y]
      BY <1>0, <1>1, <1>5, <3>2 DEF Approaches
    <3> QED
      BY <2>3, <3>1, <3>2 DEF Approaches
  <2> QED
    BY <2>1, <2>2, <2>3
<1> QED
  BY <1>0, <1>1, <1>7, <1>8, <1>9

-----------------------------------------------------------------------------
(***************************************************************************)
(* Receiving a registration                                                *)
(***************************************************************************)

\* To whom q introduces p, if it is dbmgr.
Told(p, q) ==
    {r \in Processes :
        Dbmgr(q) /\ EntityApp(p) /\ r \in Others(p, q) /\ ~Gone(r)}

Registers(p, q) ==
    \/ DbmgrOnRegisterServer(p, q)
    \/ ~Dbmgr(q) /\ OnRegisterServer(p, q)

\* What OnRegisterServer makes of the queues.
Answers(p, q) ==
    /\ Head(msgs[<<p, q>>]) = RegisterServer
    /\ msgs'[<<p, q>>] = Tail(msgs[<<p, q>>])
    /\ msgs'[<<q, p>>] = IF Gone(p) THEN msgs[<<q, p>>]
                         ELSE Append(msgs[<<q, p>>], CBRegisterServer(checkComponents(q, p)))
    /\ \A r \in Told(p, q) : msgs'[<<q, r>>] = Append(msgs[<<q, r>>], GetEntityApp(p))
    /\ \A r, s \in Processes :
          (r # p \/ s # q) /\ (r # q \/ (s # p /\ s \notin Told(p, q)))
             => msgs'[<<r, s>>] = msgs[<<r, s>>]

LEMMA TypesDiffer ==
    \A p, q \in Processes : Dbmgr(q) /\ EntityApp(p) => p # q
BY Kinds

LEMMA RegisterFacts ==
    ASSUME IInv, NEW p \in Processes, NEW q \in Processes, Registers(p, q)
    PROVE  /\ Arrived(p, q, "OnRegisterServer")
           /\ ~Dbmgr(p)
           /\ Register(p, q)
           /\ phase' = phase /\ channels' = channels
           /\ msgs' \in Queues
           /\ Answers(p, q)
           /\ p \notin Told(p, q) /\ q \notin Told(p, q)
<1>1. /\ Arrived(p, q, "OnRegisterServer")
      /\ Register(p, q)
      /\ phase' = phase /\ channels' = channels
  BY DEF Registers, DbmgrOnRegisterServer, OnRegisterServer
<1>2. /\ msgs \in Queues /\ p # q /\ msgs[<<p, q>>] # <<>>
      /\ Head(msgs[<<p, q>>]) \in Messages
      /\ Head(msgs[<<p, q>>]).type = "OnRegisterServer"
      /\ Fits(p, q, Head(msgs[<<p, q>>]))
  BY <1>1, ArrivedFacts
<1>3. Head(msgs[<<p, q>>]) = RegisterServer /\ ~Dbmgr(p)
  BY <1>2, MessageFields DEF Fits
<1>4. /\ Taken(p, q) \in Queues
      /\ Taken(p, q)[<<p, q>>] = Tail(msgs[<<p, q>>])
      /\ \A r, s \in Processes : r # p \/ s # q => Taken(p, q)[<<r, s>>] = msgs[<<r, s>>]
  BY <1>2, TakenQueues
<1>5. p \notin Told(p, q) /\ q \notin Told(p, q)
  BY TypesDiffer DEF Told, Others
<1>6. PICK ok \in BOOLEAN : ok = checkComponents(q, p)
  BY DEF checkComponents
<1>7. PICK answered : answered = SentTo(Taken(p, q), q, p, CBRegisterServer(ok))
  OBVIOUS
<1>8. CBRegisterServer(ok) \in Messages /\ GetEntityApp(p) \in Messages
  BY MessageTypes
<1>9. /\ answered \in Queues
      /\ answered[<<q, p>>] = IF Gone(p) THEN msgs[<<q, p>>]
                              ELSE Append(msgs[<<q, p>>], CBRegisterServer(ok))
      /\ \A r, s \in Processes : r # q \/ s # p => answered[<<r, s>>] = Taken(p, q)[<<r, s>>]
  <2>1. CASE Gone(p)
    BY <1>2, <1>4, <1>7, <2>1 DEF SentTo
  <2>2. CASE ~Gone(p)
    <3>1. answered = [Taken(p, q) EXCEPT ![<<q, p>>] = Append(@, CBRegisterServer(ok))]
      BY <1>7, <2>2 DEF SentTo
    <3>2. Append(Taken(p, q)[<<q, p>>], CBRegisterServer(ok)) \in Seq(Messages)
      BY <1>4, <1>8, AppendProperties DEF Queues
    <3> QED
      BY <1>2, <1>4, <2>2, <3>1, <3>2 DEF Queues
  <2> QED
    BY <2>1, <2>2
<1>10. /\ msgs' \in Queues
       /\ \A r, s \in Processes :
             msgs'[<<r, s>>] = IF r = q /\ s \in Told(p, q)
                               THEN Append(answered[<<r, s>>], GetEntityApp(p))
                               ELSE answered[<<r, s>>]
  <2>1. CASE DbmgrOnRegisterServer(p, q) /\ EntityApp(p)
    <3>1. /\ Dbmgr(q)
          /\ msgs' = Sent(answered, q, Others(p, q),
                          [r \in Others(p, q) |-> GetEntityApp(p)])
      BY <1>6, <1>7, <2>1 DEF DbmgrOnRegisterServer
    <3>2. msgs' = [pq \in Processes \X Processes |->
                     IF pq[1] = q /\ pq[2] \in Others(p, q) /\ ~Gone(pq[2])
                     THEN Append(answered[pq], GetEntityApp(p)) ELSE answered[pq]]
      BY <3>1 DEF Sent
    <3>3. \A pq \in Processes \X Processes :
             /\ answered[pq] \in Seq(Messages)
             /\ Append(answered[pq], GetEntityApp(p)) \in Seq(Messages)
      BY <1>8, <1>9, AppendProperties DEF Queues
    <3>4. \A s \in Processes : s \in Told(p, q) <=> s \in Others(p, q) /\ ~Gone(s)
      BY <2>1, <3>1 DEF Told
    <3>5. msgs' \in Queues
      BY <3>2, <3>3 DEF Queues
    <3> QED
      BY <3>2, <3>4, <3>5
  <2>2. CASE ~(Dbmgr(q) /\ EntityApp(p))
    <3>1. msgs' = answered
      BY <1>6, <1>7, <2>2 DEF Registers, DbmgrOnRegisterServer, OnRegisterServer
    <3> QED
      BY <1>9, <2>2, <3>1 DEF Told
  <2> QED
    BY <2>1, <2>2 DEF Registers
<1>11. Answers(p, q)
  <2>1. Told(p, q) \subseteq Processes
    BY DEF Told
  <2>2. msgs'[<<p, q>>] = Tail(msgs[<<p, q>>])
    BY <1>2, <1>4, <1>9, <1>10
  <2>3. msgs'[<<q, p>>] = IF Gone(p) THEN msgs[<<q, p>>]
                          ELSE Append(msgs[<<q, p>>], CBRegisterServer(checkComponents(q, p)))
    BY <1>5, <1>6, <1>9, <1>10
  <2>4. \A r \in Told(p, q) : msgs'[<<q, r>>] = Append(msgs[<<q, r>>], GetEntityApp(p))
    BY <1>2, <1>4, <1>5, <1>9, <1>10, <2>1
  <2>5. \A r, s \in Processes :
          (r # p \/ s # q) /\ (r # q \/ (s # p /\ s \notin Told(p, q)))
             => msgs'[<<r, s>>] = msgs[<<r, s>>]
    BY <1>4, <1>9, <1>10
  <2> QED
    BY <1>3, <2>2, <2>3, <2>4, <2>5 DEF Answers
<1> QED
  BY <1>1, <1>3, <1>5, <1>10, <1>11

\* What each queue holds after a registration.
LEMMA AnswerContents ==
    ASSUME IInv, NEW p \in Processes, NEW q \in Processes, Registers(p, q)
    PROVE  /\ Contents(msgs[<<p, q>>]) = {RegisterServer} \cup Contents(msgs'[<<p, q>>])
           /\ \A m \in Contents(msgs'[<<q, p>>]) :
                 m \in Contents(msgs[<<q, p>>]) \/ m = CBRegisterServer(checkComponents(q, p))
           /\ ~Gone(p) => CBRegisterServer(checkComponents(q, p)) \in Contents(msgs'[<<q, p>>])
           /\ \A r \in Told(p, q) :
                 Contents(msgs'[<<q, r>>]) = Contents(msgs[<<q, r>>]) \cup {GetEntityApp(p)}
           /\ \A r, s \in Processes :
                 r # p \/ s # q => Contents(msgs[<<r, s>>]) \subseteq Contents(msgs'[<<r, s>>])
           /\ \A r, s \in Processes :
                 (r # p \/ s # q) /\ (r # q \/ s # p) /\ AcceptedFirst(msgs[<<r, s>>])
                    /\ (r = q /\ s \in Told(p, q) => Accepted \in Contents(msgs[<<r, s>>]))
                 => AcceptedFirst(msgs'[<<r, s>>])
           /\ AcceptedFirst(msgs[<<p, q>>]) => AcceptedFirst(msgs'[<<p, q>>])
           /\ AcceptedFirst(msgs[<<q, p>>]) => AcceptedFirst(msgs'[<<q, p>>])
<1>1. /\ Arrived(p, q, "OnRegisterServer")
      /\ Answers(p, q)
      /\ p \notin Told(p, q) /\ q \notin Told(p, q)
  BY RegisterFacts
<1>2. /\ msgs \in Queues /\ p # q /\ msgs[<<p, q>>] # <<>>
      /\ msgs[<<p, q>>] \in Seq(Messages)
  BY <1>1, ArrivedFacts
<1>3. PICK ok \in BOOLEAN : ok = checkComponents(q, p)
  BY DEF checkComponents
<1>4. CBRegisterServer(ok) \in Messages /\ GetEntityApp(p) \in Messages
  BY MessageTypes
<1>5. /\ Contents(msgs[<<p, q>>]) = {RegisterServer} \cup Contents(msgs'[<<p, q>>])
      /\ AcceptedFirst(msgs[<<p, q>>]) => AcceptedFirst(msgs'[<<p, q>>])
  <2>1. RegisterServer # Accepted
    BY DEF Accepted, CBRegisterServer, RegisterServer
  <2> QED
    BY <1>1, <1>2, <2>1, ContentsTail, AcceptedFirstTail DEF Answers
<1>6. /\ Gone(p) => msgs'[<<q, p>>] = msgs[<<q, p>>]
      /\ ~Gone(p) => /\ Contents(msgs'[<<q, p>>]) =
                          Contents(msgs[<<q, p>>]) \cup {CBRegisterServer(ok)}
                     /\ AcceptedFirst(msgs[<<q, p>>]) => AcceptedFirst(msgs'[<<q, p>>])
  <2>1. msgs[<<q, p>>] \in Seq(Messages)
    BY <1>2 DEF Queues
  <2>2. CBRegisterServer(ok).type # "onGetEntityAppFromDbmgr"
    BY DEF CBRegisterServer
  <2> QED
    BY <1>1, <1>3, <1>4, <2>1, <2>2, ContentsAppend, AcceptedFirstAppend DEF Answers
<1>7. ASSUME NEW r \in Told(p, q)
      PROVE  /\ Contents(msgs'[<<q, r>>]) = Contents(msgs[<<q, r>>]) \cup {GetEntityApp(p)}
             /\ AcceptedFirst(msgs[<<q, r>>]) /\ Accepted \in Contents(msgs[<<q, r>>])
                  => AcceptedFirst(msgs'[<<q, r>>])
  <2>1. r \in Processes
    BY DEF Told
  <2>2. msgs[<<q, r>>] \in Seq(Messages)
    BY <1>2, <2>1 DEF Queues
  <2>3. msgs'[<<q, r>>] = Append(msgs[<<q, r>>], GetEntityApp(p))
    BY <1>1 DEF Answers
  <2> QED
    BY <1>4, <2>2, <2>3, ContentsAppend, AcceptedFirstAppend
<1>8. \A r, s \in Processes :
        (r # p \/ s # q) /\ (r # q \/ (s # p /\ s \notin Told(p, q)))
           => msgs'[<<r, s>>] = msgs[<<r, s>>]
  BY <1>1 DEF Answers
<1>9. \A r, s \in Processes :
        r # p \/ s # q => Contents(msgs[<<r, s>>]) \subseteq Contents(msgs'[<<r, s>>])
  BY <1>6, <1>7, <1>8
<1>10. \A r, s \in Processes :
         (r # p \/ s # q) /\ (r # q \/ s # p) /\ AcceptedFirst(msgs[<<r, s>>])
            /\ (r = q /\ s \in Told(p, q) => Accepted \in Contents(msgs[<<r, s>>]))
         => AcceptedFirst(msgs'[<<r, s>>])
  BY <1>7, <1>8
<1> QED
  BY <1>3, <1>5, <1>6, <1>7, <1>9, <1>10

LEMMA RegisterInv ==
    ASSUME IInv, StartupTypeOK', NEW p \in Processes, NEW q \in Processes, Registers(p, q)
    PROVE  IInv'
<1>1. /\ Arrived(p, q, "OnRegisterServer")
      /\ ~Dbmgr(p)
      /\ Register(p, q)
      /\ phase' = phase /\ channels' = channels
      /\ p \notin Told(p, q) /\ q \notin Told(p, q)
  BY RegisterFacts
<1>2. p # q /\ Running(q) /\ phase[p] # "off"
  BY <1>1, ArrivedFacts
<1>3. /\ Contents(msgs[<<p, q>>]) = {RegisterServer} \cup Contents(msgs'[<<p, q>>])
      /\ \A m \in Contents(msgs'[<<q, p>>]) :
            m \in Contents(msgs[<<q, p>>]) \/ m = CBRegisterServer(checkComponents(q, p))
      /\ ~Gone(p) => CBRegisterServer(checkComponents(q, p)) \in Contents(msgs'[<<q, p>>])
      /\ \A r \in Told(p, q) :
            Contents(msgs'[<<q, r>>]) = Contents(msgs[<<q, r>>]) \cup {GetEntityApp(p)}
      /\ \A r, s \in Processes :
            r # p \/ s # q => Contents(msgs[<<r, s>>]) \subseteq Contents(msgs'[<<r, s>>])
  BY AnswerContents
<1>4. \A r, s \in Processes :
        (r # p \/ s # q) /\ (r # q \/ (s # p /\ s \notin Told(p, q)))
           => msgs'[<<r, s>>] = msgs[<<r, s>>]
  BY RegisterFacts DEF Answers
<1>5. \A r \in Processes :
        (Running(r)' <=> Running(r)) /\ (Once(r)' <=> Once(r)) /\ (Sole(r)' <=> Sole(r))
  BY <1>1 DEF Running, Once, Sole
<1>6. PICK ok \in BOOLEAN : ok = checkComponents(q, p)
  BY DEF checkComponents
<1> USE DEF IInv
<1>7. /\ registry'[q] = IF ok THEN registry[q] \cup {p} ELSE registry[q]
      /\ \A r \in Processes \ {q} : registry'[r] = registry[r]
  BY <1>1, <1>6, TypeFacts DEF Register
<1>8. /\ Accepted # RegisterServer
      /\ Accepted # GetEntityApp(p)
      /\ Accepted = CBRegisterServer(ok) => ok
      /\ ok => Accepted = CBRegisterServer(ok)
      /\ \A x \in Processes : GetEntityApp(x) # RegisterServer
  BY DEF Accepted, CBRegisterServer, GetEntityApp, RegisterServer
<1>9. \A r, s \in Processes :
        /\ Accepted \in Contents(msgs'[<<r, s>>]) =>
              Accepted \in Contents(msgs[<<r, s>>]) \/ (r = q /\ s = p /\ ok)
        /\ Accepted \in Contents(msgs[<<r, s>>]) => Accepted \in Contents(msgs'[<<r, s>>])
  <2> SUFFICES ASSUME NEW r \in Processes, NEW s \in Processes
               PROVE
        /\ Accepted \in Contents(msgs'[<<r, s>>]) =>
              Accepted \in Contents(msgs[<<r, s>>]) \/ (r = q /\ s = p /\ ok)
        /\ Accepted \in Contents(msgs[<<r, s>>]) => Accepted \in Contents(msgs'[<<r, s>>])
    OBVIOUS
  <2>1. CASE r = p /\ s = q
    BY <1>3, <1>8, <2>1
  <2>2. CASE r = q /\ s = p
    <3>1. \A m \in Contents(msgs'[<<q, p>>]) :
             m \in Contents(msgs[<<q, p>>]) \/ m = CBRegisterServer(ok)
      BY <1>3, <1>6
    <3>2. Contents(msgs[<<q, p>>]) \subseteq Contents(msgs'[<<q, p>>])
      BY <1>2, <1>3
    <3> QED
      BY <1>8, <2>2, <3>1, <3>2
  <2>3. CASE r = q /\ s \in Told(p, q)
    BY <1>3, <1>8, <2>3
  <2>4. CASE msgs'[<<r, s>>] = msgs[<<r, s>>]
    BY <2>4
  <2> QED
    BY <1>4, <2>1, <2>2, <2>3, <2>4
<1>10. NoSelf'
  BY <1>1 DEF NoSelf
<1>11. SendersFit'
  <2> SUFFICES ASSUME NEW r \in Processes, NEW s \in Processes,
                      NEW m \in Contents(msgs'[<<r, s>>])
               PROVE  Fits(r, s, m)
    BY DEF SendersFit
  <2>1. CASE m \in Contents(msgs[<<r, s>>])
    BY <2>1 DEF SendersFit
  <2>2. CASE r = q /\ s = p /\ m = CBRegisterServer(ok)
    BY <1>1, <2>2 DEF Fits, CBRegisterServer
  <2>3. CASE r = q /\ s \in Told(p, q) /\ m = GetEntityApp(p)
    <3>1. Dbmgr(q) /\ EntityApp(s) /\ p # s
      BY <1>1, <2>3 DEF Told, Others
    <3> QED
      BY <2>3, <3>1 DEF Fits, GetEntityApp
  <2> QED
    BY <1>3, <1>4, <1>6, <2>1, <2>2, <2>3
<1>12. OnlyStartedAreKnown'
  <2>1. \A r \in Processes : ~Running(r) => registry'[r] = {}
    BY <1>2, <1>7 DEF OnlyStartedAreKnown
  <2>2. \A r, s \in Processes : phase[r] = "off" => r \notin registry'[s]
    BY <1>2, <1>7 DEF OnlyStartedAreKnown
  <2>3. \A s \in Told(p, q) : phase[s] # "off"
    BY DEF Told, Others, OnlyStartedAreKnown
  <2>4. ASSUME NEW r \in Processes, NEW s \in Processes, phase[r] = "off"
        PROVE  msgs'[<<r, s>>] = <<>> /\ msgs'[<<s, r>>] = <<>>
    <3>1. r # p /\ r # q /\ r \notin Told(p, q)
      BY <1>2, <2>3, <2>4 DEF Running
    <3>2. msgs'[<<r, s>>] = msgs[<<r, s>>] /\ msgs'[<<s, r>>] = msgs[<<s, r>>]
      BY <1>4, <3>1
    <3> QED
      BY <2>4, <3>2 DEF OnlyStartedAreKnown
  <2> QED
    BY <1>1, <1>5, <2>1, <2>2, <2>4 DEF OnlyStartedAreKnown
<1>13. ListsAgree'
  <2> SUFFICES ASSUME NEW r \in Processes, NEW s \in Processes, Running(r), Running(s)
               PROVE  /\ Accepted \in Contents(msgs'[<<s, r>>]) => r \in registry'[s]
                      /\ r \in registry'[s] /\ Sole(s) =>
                            s \in registry'[r] \/ Accepted \in Contents(msgs'[<<s, r>>])
                      /\ Dbmgr(s) /\ s \in registry'[r] => r \in registry'[s]
    BY <1>5 DEF ListsAgree
  <2>1. \A x \in Processes : registry[x] \subseteq registry'[x]
    BY <1>7
  <2>2. \A x, y \in Processes :
          x \in registry'[y] => x \in registry[y] \/ (ok /\ x = p /\ y = q)
    BY <1>7
  <2>3. Accepted \in Contents(msgs'[<<s, r>>]) => r \in registry'[s]
    BY <1>7, <1>9, <2>1 DEF ListsAgree
  <2>4. ASSUME r \in registry'[s], Sole(s)
        PROVE  s \in registry'[r] \/ Accepted \in Contents(msgs'[<<s, r>>])
    <3>1. CASE r \in registry[s]
      BY <1>9, <2>1, <2>4, <3>1 DEF ListsAgree
    <3>2. CASE ok /\ r = p /\ s = q
      BY <1>3, <1>6, <1>8, <3>2 DEF Running, Gone
    <3> QED
      BY <2>2, <2>4, <3>1, <3>2
  <2>5. Dbmgr(s) /\ s \in registry'[r] => r \in registry'[s]
    BY <1>1, <2>1, <2>2 DEF ListsAgree
  <2> QED
    BY <2>3, <2>4, <2>5
<1>14. IntroducedAfterAccepted'
  <2> SUFFICES ASSUME NEW r \in Processes, NEW s \in Processes, Running(s), r \notin registry'[s]
               PROVE  AcceptedFirst(msgs'[<<r, s>>])
    BY <1>5 DEF IntroducedAfterAccepted
  <2>1. r \notin registry[s]
    BY <1>7
  <2>2. AcceptedFirst(msgs[<<r, s>>])
    BY <2>1 DEF IntroducedAfterAccepted
  <2>3. CASE r = q /\ s \in Told(p, q)
    <3>1. Dbmgr(q) /\ s \in registry[q]
      BY <2>3 DEF Told, Others
    <3>2. Sole(q)
      BY <3>1, OneDbmgr DEF Sole, Dbmgr
    <3>3. Accepted \in Contents(msgs[<<q, s>>])
      BY <1>2, <2>1, <2>3, <3>1, <3>2 DEF ListsAgree
    <3> QED
      BY <1>1, <1>2, <2>2, <2>3, <3>3, AnswerContents
  <2>4. CASE ~(r = q /\ s \in Told(p, q))
    BY <1>4, <2>2, <2>4, AnswerContents
  <2> QED
    BY <2>3, <2>4
<1>15. EndedIsForgotten'
  <2>1. \A r, s \in Processes : r \in registry'[s] => r \in registry[s] \/ ~Dbmgr(r)
    BY <1>1, <1>7
  <2>2. phase[q] # "ended"
    BY <1>2 DEF Running
  <2> QED
    BY <1>1, <1>5, <1>9, <2>1, <2>2 DEF EndedIsForgotten
<1>16. Introduced'
  <2>1. ASSUME NEW d \in Processes, NEW x \in registry[d], NEW y \in registry[d],
               Dbmgr(d), EntityApp(x), EntityApp(y), x # y,
               Running(x), Running(y), Once(x), Once(y)
        PROVE  Approaches(x, y, d)' \/ Approaches(y, x, d)'
    <3>1. x \in Processes /\ y \in Processes
      BY TypeFacts
    <3>2. Approaches(x, y, d) \/ Approaches(y, x, d)
      BY <2>1 DEF Introduced
    <3>3. ASSUME NEW u \in Processes, NEW v \in Processes, EntityApp(u), Once(u),
                 Approaches(u, v, d)
          PROVE  Approaches(u, v, d)'
      <4>1. CASE GetEntityApp(v) \in Contents(msgs[<<d, u>>])
        <5>1. d # p
          BY <1>1, <2>1
        <5> QED
          BY <1>3, <4>1, <5>1 DEF Approaches
      <4>2. CASE RegisterServer \in Contents(msgs[<<u, v>>]) /\ ~(u = p /\ v = q)
        BY <1>3, <4>2 DEF Approaches
      <4>3. CASE u = p /\ v = q
        <5>1. CASE ok
          BY <1>7, <4>3, <5>1 DEF Approaches
        <5>2. CASE ~ok
          <6>1. PICK r \in registry[q] : componentID[r] = componentID[p]
            BY <1>6, <3>3, <4>3, <5>2
               DEF checkComponents, COMPONENT_DUPS, OfIdentity, EntityApp
          <6>2. r \in Processes /\ phase[r] # "off"
            BY <6>1, TypeFacts DEF OnlyStartedAreKnown
          <6>3. r = p
            BY <3>3, <4>3, <6>1, <6>2 DEF Once
          <6> QED
            BY <1>7, <4>3, <5>2, <6>1, <6>3 DEF Approaches
        <5> QED
          BY <5>1, <5>2
      <4>4. CASE u \in registry[v]
        BY <1>7, <4>4 DEF Approaches
      <4> QED
        BY <3>3, <4>1, <4>2, <4>3, <4>4 DEF Approaches
    <3> QED
      BY <2>1, <3>1, <3>2, <3>3
  <2>2. ASSUME NEW x \in registry[q], Dbmgr(q), EntityApp(x), EntityApp(p), x # p,
               Running(x), Once(p)
        PROVE  Approaches(x, p, q)'
    <3>1. x \in Processes /\ componentID[x] # componentID[p]
      BY <2>2, TypeFacts DEF Once, Running
    <3>2. x \in Told(p, q)
      BY <2>2, <3>1 DEF Told, Others, Running, Gone
    <3> QED
      BY <1>3, <3>2 DEF Approaches
  <2> SUFFICES ASSUME NEW d \in Processes, NEW x \in registry'[d], NEW y \in registry'[d],
                      Dbmgr(d), EntityApp(x), EntityApp(y), x # y,
                      Running(x), Running(y), Once(x), Once(y)
               PROVE  Approaches(x, y, d)' \/ Approaches(y, x, d)'
    BY <1>5, TypeFacts DEF Introduced, StartupTypeOK
  <2>3. CASE x \in registry[d] /\ y \in registry[d]
    BY <2>1, <2>3
  <2>4. CASE d = q /\ x = p
    BY <1>7, <2>2, <2>4
  <2>5. CASE d = q /\ y = p
    BY <1>7, <2>2, <2>5
  <2> QED
    BY <1>7, <2>3, <2>4, <2>5
<1> QED
  BY <1>10, <1>11, <1>12, <1>13, <1>14, <1>15, <1>16

-----------------------------------------------------------------------------
(***************************************************************************)
(* Receiving the answer                                                    *)
(***************************************************************************)

\* q takes the first message from p, and nothing is sent.
Takes(p, q) ==
    /\ msgs'[<<p, q>>] = Tail(msgs[<<p, q>>])
    /\ \A r, s \in Processes : r # p \/ s # q => msgs'[<<r, s>>] = msgs[<<r, s>>]

AnswerIs(p, q, ok) ==
    Head(msgs[<<p, q>>]).accepted = ok /\ Head(msgs[<<p, q>>]) = CBRegisterServer(ok)

LEMMA CBRegisterFacts ==
    ASSUME IInv, NEW p \in Processes, NEW q \in Processes, OnCBRegisterServer(p, q)
    PROVE  /\ Arrived(p, q, "CBRegisterServer")
           /\ ~Dbmgr(q)
           /\ msgs' \in Queues
           /\ Takes(p, q)
           /\ channels' = channels
           /\ \E ok \in BOOLEAN : AnswerIs(p, q, ok)
<1>1. Arrived(p, q, "CBRegisterServer") /\ msgs' = Taken(p, q) /\ channels' = channels
  BY DEF OnCBRegisterServer
<1>2. /\ msgs \in Queues /\ msgs[<<p, q>>] # <<>>
      /\ Head(msgs[<<p, q>>]) \in Messages
      /\ Head(msgs[<<p, q>>]).type = "CBRegisterServer"
      /\ Fits(p, q, Head(msgs[<<p, q>>]))
  BY <1>1, ArrivedFacts
<1>3. /\ Head(msgs[<<p, q>>]) = CBRegisterServer(Head(msgs[<<p, q>>]).accepted)
      /\ Head(msgs[<<p, q>>]).accepted \in BOOLEAN
      /\ ~Dbmgr(q)
  BY <1>2, MessageFields DEF Fits
<1>4. \E ok \in BOOLEAN : AnswerIs(p, q, ok)
  BY <1>3 DEF AnswerIs
<1>5. msgs' \in Queues /\ Takes(p, q)
  <2>1. /\ Taken(p, q) \in Queues
        /\ Taken(p, q)[<<p, q>>] = Tail(msgs[<<p, q>>])
        /\ \A r, s \in Processes : r # p \/ s # q => Taken(p, q)[<<r, s>>] = msgs[<<r, s>>]
    BY <1>2, TakenQueues
  <2> QED
    BY <1>1, <2>1 DEF Takes
<1> QED
  BY <1>1, <1>3, <1>4, <1>5

LEMMA CBRegisterInv ==
    ASSUME IInv, StartupTypeOK', NEW p \in Processes, NEW q \in Processes, OnCBRegisterServer(p, q)
    PROVE  IInv'
<1>1. /\ Arrived(p, q, "CBRegisterServer")
      /\ ~Dbmgr(q)
      /\ Takes(p, q)
      /\ channels' = channels
  BY CBRegisterFacts
<1>2. PICK ok \in BOOLEAN : AnswerIs(p, q, ok)
  BY CBRegisterFacts
<1> USE DEF Takes, AnswerIs
<1>3. /\ p # q /\ Running(q) /\ phase[p] # "off" /\ phase[q] # "off"
      /\ msgs[<<p, q>>] \in Seq(Messages) /\ msgs[<<p, q>>] # <<>>
      /\ Contents(msgs[<<p, q>>]) = {CBRegisterServer(ok)} \cup Contents(msgs'[<<p, q>>])
  BY <1>1, <1>2, ArrivedFacts
<1>4. /\ CBRegisterServer(ok) # RegisterServer
      /\ \A x \in Processes : CBRegisterServer(ok) # GetEntityApp(x)
      /\ ~ok => Accepted # CBRegisterServer(ok)
      /\ ok => Accepted = CBRegisterServer(ok)
  BY DEF Accepted, CBRegisterServer, GetEntityApp, RegisterServer
<1> USE DEF IInv
<1>5. /\ \A r \in Processes : registry[r] \subseteq registry'[r]
      /\ \A r \in Processes \ {q} : registry'[r] = registry[r]
      /\ \A r, s \in Processes :
            r \in registry'[s] => r \in registry[s] \/ (ok /\ r = p /\ s = q)
      /\ ok /\ OfIdentity(q, componentID[p]) \cap OfType(q, componentType[p]) = {}
            => p \in registry'[q]
      /\ ~ok => phase'[q] = "ending"
      /\ \A r \in Processes : r # q \/ ok => phase'[r] = phase[r]
  <2>1. registry \in [Processes -> SUBSET Processes] /\ phase \in [Processes -> Phases]
    BY TypeFacts
  <2>2. CASE ok
    <3>1. /\ registry' = [registry EXCEPT ![q] =
                IF OfIdentity(q, componentID[p]) \cap OfType(q, componentType[p]) = {}
                THEN @ \cup {p} ELSE @]
          /\ phase' = phase
      BY <1>2, <2>2 DEF OnCBRegisterServer
    <3> QED
      BY <2>1, <2>2, <3>1
  <2>3. CASE ~ok
    <3>1. phase' = [phase EXCEPT ![q] = "ending"] /\ registry' = registry
      BY <1>2, <2>3 DEF OnCBRegisterServer
    <3> QED
      BY <2>1, <2>3, <3>1
  <2> QED
    BY <2>2, <2>3
<1>6. \A r \in Processes :
        /\ Running(r)' <=> Running(r)
        /\ Once(r)' <=> Once(r)
        /\ Sole(r)' <=> Sole(r)
        /\ phase'[r] = "off" <=> phase[r] = "off"
        /\ phase'[r] = "ended" <=> phase[r] = "ended"
  BY <1>3, <1>5 DEF Running, Once, Sole
<1>7. /\ \A r, s \in Processes : Contents(msgs'[<<r, s>>]) \subseteq Contents(msgs[<<r, s>>])
      /\ \A r, s \in Processes : \A m \in Contents(msgs[<<r, s>>]) :
            m \in Contents(msgs'[<<r, s>>]) \/ (m = CBRegisterServer(ok) /\ r = p /\ s = q)
  BY <1>1, <1>3
\* Only the same server can be in the way of an entry, if there is no other one of its
\* identity and type.
<1>8. Sole(p) /\ ok => p \in registry'[q]
  <2> SUFFICES ASSUME Sole(p), ok, p \notin registry'[q]
               PROVE  FALSE
    OBVIOUS
  <2>1. PICK r \in registry[q] :
          componentID[r] = componentID[p] /\ componentType[r] = componentType[p]
    BY <1>5 DEF OfIdentity, OfType
  <2>2. r \in Processes /\ phase[r] # "off"
    BY <2>1, TypeFacts DEF OnlyStartedAreKnown
  <2>3. r = p
    BY <2>1, <2>2 DEF Sole
  <2> QED
    BY <1>5, <2>1, <2>3
<1>9. Accepted \in Contents(msgs[<<p, q>>]) \/ ~ok
  BY <1>3, <1>4
<1>10. NoSelf' /\ SendersFit'
  BY <1>1, <1>7 DEF NoSelf, SendersFit
<1>11. OnlyStartedAreKnown'
  <2>1. \A r \in Processes : ~Running(r) => registry'[r] = {}
    BY <1>3, <1>5, TypeFacts DEF OnlyStartedAreKnown
  <2>2. \A r, s \in Processes : phase[r] = "off" => r \notin registry'[s]
    BY <1>3, <1>5 DEF OnlyStartedAreKnown
  <2>3. \A r, s \in Processes : phase[r] = "off" =>
          msgs'[<<r, s>>] = <<>> /\ msgs'[<<s, r>>] = <<>>
    BY <1>1, <1>3 DEF OnlyStartedAreKnown
  <2> QED
    BY <1>6, <2>1, <2>2, <2>3 DEF OnlyStartedAreKnown
<1>12. ListsAgree'
  <2> SUFFICES ASSUME NEW r \in Processes, NEW s \in Processes, Running(r), Running(s)
               PROVE  /\ Accepted \in Contents(msgs'[<<s, r>>]) => r \in registry'[s]
                      /\ r \in registry'[s] /\ Sole(s) =>
                            s \in registry'[r] \/ Accepted \in Contents(msgs'[<<s, r>>])
                      /\ Dbmgr(s) /\ s \in registry'[r] => r \in registry'[s]
    BY <1>6 DEF ListsAgree
  <2>1. Accepted \in Contents(msgs'[<<s, r>>]) => r \in registry'[s]
    BY <1>5, <1>7 DEF ListsAgree
  <2>2. ASSUME r \in registry'[s], Sole(s)
        PROVE  s \in registry'[r] \/ Accepted \in Contents(msgs'[<<s, r>>])
    <3>1. CASE r \in registry[s]
      <4>1. s \in registry[r] \/ Accepted \in Contents(msgs[<<s, r>>])
        BY <2>2, <3>1 DEF ListsAgree
      <4>2. CASE Accepted \in Contents(msgs[<<s, r>>])
        BY <1>4, <1>7, <1>8, <2>2, <4>2
      <4> QED
        BY <1>5, <4>1, <4>2
    <3>2. CASE ok /\ r = p /\ s = q
      BY <1>5, <1>9, <3>2 DEF ListsAgree
    <3> QED
      BY <1>5, <2>2, <3>1, <3>2
  <2>3. ASSUME Dbmgr(s), s \in registry'[r]
        PROVE  r \in registry'[s]
    <3>1. CASE s \in registry[r]
      BY <1>5, <2>3, <3>1 DEF ListsAgree
    <3>2. CASE ok /\ s = p /\ r = q
      BY <1>5, <1>9, <3>2 DEF ListsAgree
    <3> QED
      BY <1>5, <2>3, <3>1, <3>2
  <2> QED
    BY <2>1, <2>2, <2>3
<1>13. IntroducedAfterAccepted'
  <2> SUFFICES ASSUME NEW r \in Processes, NEW s \in Processes, Running(s), r \notin registry'[s]
               PROVE  AcceptedFirst(msgs'[<<r, s>>])
    BY <1>6 DEF IntroducedAfterAccepted
  <2>1. AcceptedFirst(msgs[<<r, s>>])
    BY <1>5 DEF IntroducedAfterAccepted
  <2>2. CASE r # p \/ s # q
    BY <1>1, <2>1, <2>2
  <2>3. CASE r = p /\ s = q /\ ~ok
    BY <1>1, <1>2, <1>3, <1>4, <2>1, <2>3, AcceptedFirstTail
  <2>4. CASE r = p /\ s = q /\ ok /\ ~Dbmgr(p)
    <3>1. \A m \in Contents(msgs'[<<p, q>>]) : m.type # "onGetEntityAppFromDbmgr"
      BY <1>7, <2>4 DEF SendersFit, Fits
    <3> QED
      BY <2>4, <3>1 DEF AcceptedFirst, Contents
  <2>5. CASE r = p /\ s = q /\ ok /\ Dbmgr(p)
    <3>1. Sole(p)
      BY <2>5, OneDbmgr DEF Sole, Dbmgr
    <3> QED
      BY <1>8, <2>5, <3>1
  <2> QED
    BY <2>2, <2>3, <2>4, <2>5
<1>14. EndedIsForgotten'
  <2> SUFFICES ASSUME NEW r \in Processes, NEW s \in Processes,
                      Dbmgr(s), phase[s] = "ended", EntityApp(r), Running(r)
               PROVE  s \notin registry'[r] /\ Accepted \notin Contents(msgs'[<<s, r>>])
    BY <1>6 DEF EndedIsForgotten
  <2>1. s \notin registry[r] /\ Accepted \notin Contents(msgs[<<s, r>>])
    BY DEF EndedIsForgotten
  <2> QED
    BY <1>5, <1>7, <1>9, <2>1
<1>15. Introduced'
  <2> SUFFICES ASSUME NEW d \in Processes, NEW r \in registry'[d], NEW s \in registry'[d],
                      Dbmgr(d), EntityApp(r), EntityApp(s), r # s,
                      Running(r), Running(s), Once(r), Once(s)
               PROVE  Approaches(r, s, d)' \/ Approaches(s, r, d)'
    BY <1>6, TypeFacts DEF Introduced, StartupTypeOK
  <2>1. registry'[d] = registry[d] /\ r \in Processes /\ s \in Processes
    BY <1>1, <1>5, TypeFacts
  <2>2. Approaches(r, s, d) \/ Approaches(s, r, d)
    BY <2>1 DEF Introduced
  <2>3. ASSUME NEW x \in Processes, NEW y \in Processes, Approaches(x, y, d)
        PROVE  Approaches(x, y, d)'
    <3>1. CASE GetEntityApp(y) \in Contents(msgs[<<d, x>>])
      BY <1>4, <1>7, <3>1 DEF Approaches
    <3>2. CASE RegisterServer \in Contents(msgs[<<x, y>>])
      BY <1>4, <1>7, <3>2 DEF Approaches
    <3>3. CASE x \in registry[y]
      BY <1>5, <3>3 DEF Approaches
    <3> QED
      BY <2>3, <3>1, <3>2, <3>3 DEF Approaches
  <2> QED
    BY <2>1, <2>2, <2>3
<1> QED
  BY <1>10, <1>11, <1>12, <1>13, <1>14, <1>15

-----------------------------------------------------------------------------
(***************************************************************************)
(* The actions                                                             *)
(***************************************************************************)

LEMMA NextTypes ==
    ASSUME msgs' \in Queues,
           phase' \in [Processes -> Phases],
           findIdx' \in [Processes -> Nat],
           registry' \in [Processes -> SUBSET Processes],
           channels' \in [Processes -> SUBSET Processes],
           IdsTypeOK',
           apps' \in SUBSET Nat,
           baseapps' \in SUBSET Nat,
           pInitProgressHandler' \in [Processes -> Nat],
           reported' \in SUBSET Processes
    PROVE  StartupTypeOK'
BY DEF StartupTypeOK, Queues

LEMMA FrameTypes ==
    ASSUME StartupTypeOK, UNCHANGED appVars
    PROVE  /\ IdsTypeOK'
           /\ apps' \in SUBSET Nat
           /\ baseapps' \in SUBSET Nat
           /\ pInitProgressHandler' \in [Processes -> Nat]
           /\ reported' \in SUBSET Processes
BY DEF appVars, idVars, StartupTypeOK, IdsTypeOK

LEMMA FindPreserves ==
    ASSUME IInv, NEW p \in Processes, Find(p)
    PROVE  IInv'
<1>1. PICK q \in Processes :
        /\ Running(q)
        /\ componentType[q] = findComponentTypes(p)[findIdx[p] + 1]
        /\ ConnectTo(p, q, msgs)
  BY DEF Find, FindComponents, Wanted
<1>2. /\ Running(p)
      /\ findIdx[p] < Len(findComponentTypes(p))
      /\ findIdx' = [findIdx EXCEPT ![p] = @ + 1]
      /\ phase' = phase /\ registry' = registry
      /\ UNCHANGED appVars
  BY DEF Find, FindComponents
<1>3. StartupTypeOK /\ NoSelf /\ msgs \in Queues /\ findIdx[p] \in Nat
  BY TypeFacts DEF IInv
<1>4. ~Dbmgr(p) /\ p # q
  <2>1. CASE Dbmgr(p)
    <3>1. findComponentTypes(p) = <<>>
      BY <2>1 DEF findComponentTypes, Dbmgr, EntityAppTypes, DBMGR_TYPE, BASEAPPMGR_TYPE,
                  BASEAPP_TYPE, CELLAPP_TYPE
    <3> QED
      BY <1>2, <1>3, <3>1
  <2>2. CASE EntityApp(p)
    <3>1. findComponentTypes(p) = <<DBMGR_TYPE, BASEAPPMGR_TYPE>>
      BY <2>2 DEF findComponentTypes, EntityApp, EntityAppTypes, DBMGR_TYPE,
                  BASEAPPMGR_TYPE, BASEAPP_TYPE, CELLAPP_TYPE
    <3>2. findIdx[p] + 1 \in {1, 2}
      BY <1>2, <1>3, <3>1
    <3>3. componentType[q] \in {DBMGR_TYPE, BASEAPPMGR_TYPE}
      BY <1>1, <3>1, <3>2
    <3> QED
      BY <2>2, <3>3, Kinds DEF Dbmgr, Baseappmgr, EntityApp, EntityAppTypes, DBMGR_TYPE,
                               BASEAPPMGR_TYPE, BASEAPP_TYPE, CELLAPP_TYPE
  <2>3. CASE Baseappmgr(p)
    <3>1. findComponentTypes(p) = <<DBMGR_TYPE>>
      BY <2>3 DEF findComponentTypes, Baseappmgr, EntityAppTypes, DBMGR_TYPE,
                  BASEAPPMGR_TYPE, BASEAPP_TYPE, CELLAPP_TYPE
    <3>2. findIdx[p] + 1 = 1
      BY <1>2, <1>3, <3>1
    <3>3. componentType[q] = DBMGR_TYPE
      BY <1>1, <3>1, <3>2
    <3> QED
      BY <2>3, <3>3 DEF Dbmgr, Baseappmgr, DBMGR_TYPE, BASEAPPMGR_TYPE
  <2> QED
    BY <2>1, <2>2, <2>3, Kinds
<1>5. channels' \in [Processes -> SUBSET Processes] /\ NoSelf'
  BY <1>1, <1>3, <1>4, ConnectChannels DEF ConnectTo
<1>6. /\ msgs' \in Queues
      /\ msgs'[<<p, q>>] = Append(msgs[<<p, q>>], RegisterServer)
      /\ \A r, s \in Processes : r # p \/ s # q => msgs'[<<r, s>>] = msgs[<<r, s>>]
  <2>1. msgs' = [msgs EXCEPT ![<<p, q>>] = Append(@, RegisterServer)]
    BY <1>1 DEF ConnectTo, SentTo, Running, Gone
  <2>2. Append(msgs[<<p, q>>], RegisterServer) \in Seq(Messages)
    BY <1>3, MessageTypes, AppendProperties DEF Queues
  <2> QED
    BY <1>3, <2>1, <2>2 DEF Queues
<1>7. StartupTypeOK'
  BY <1>2, <1>3, <1>5, <1>6, TypeFacts, FrameTypes, NextTypes
<1>8. \A r, s \in Processes : Quiet(r, s)
  <2>1. Fits(p, q, RegisterServer) /\ RegisterServer \in Messages
    BY <1>4, MessageTypes DEF Fits, RegisterServer
  <2>2. RegisterServer.type = "OnRegisterServer"
    BY DEF RegisterServer
  <2>3. phase[p] # "off" /\ phase[q] # "off"
    BY <1>1, <1>2 DEF Running
  <2>4. Quiet(p, q)
    BY <1>6, <2>1, <2>2, <2>3 DEF Quiet
  <2> QED
    BY <1>6, <2>4 DEF Quiet
<1> QED
  BY <1>2, <1>5, <1>7, <1>8, QuietInv

LEMMA PhasesPreserve ==
    ASSUME IInv, NEW p \in Processes, Start(p) \/ Signal(p), UNCHANGED appVars
    PROVE  IInv'
<1>1. StartupTypeOK
  BY DEF IInv
<1>2. /\ phase' \in [Processes -> Phases]
      /\ findIdx' = findIdx /\ registry' = registry /\ channels' = channels /\ msgs' = msgs
  BY <1>1, TypeFacts DEF Start, Signal, Phases
<1>3. StartupTypeOK'
  BY <1>1, <1>2, TypeFacts, FrameTypes, NextTypes
<1> QED
  BY <1>3, StartInv, SignalInv

LEMMA EndsPreserve ==
    ASSUME IInv, NEW p \in Processes, End(p) \/ (Crash(p) /\ UNCHANGED appVars)
    PROVE  IInv'
<1>1. StartupTypeOK /\ UNCHANGED appVars
  BY DEF IInv, End
<1>2. CASE Finish(p)
  <2>1. StartupTypeOK'
    BY <1>1, <1>2, VanishTypes, TypeFacts, FrameTypes, NextTypes DEF Finish
  <2>2. Running(p) /\ Vanish(p, "ended")
    BY <1>2 DEF Finish, Running
  <2>3. Dbmgr(p) => \A r \in registry[p] : ~EntityApp(r)
    BY <1>2 DEF Finish, canShutdown, Dbmgr, EntityApp, DBMGR_TYPE
  <2> QED
    BY <2>1, <2>2, <2>3, VanishInv
<1>3. CASE Crash(p)
  <2>1. Running(p) /\ Vanish(p, "crashed")
    BY <1>3 DEF Crash
  <2>2. StartupTypeOK'
    BY <1>1, <2>1, VanishTypes, TypeFacts, FrameTypes, NextTypes
  <2> QED
    BY <2>1, <2>2, VanishInv
<1> QED
  BY <1>2, <1>3 DEF End

LEMMA DeregisterPreserves ==
    ASSUME IInv, NEW p \in Processes, NEW q \in Processes, Deregister(p, q)
    PROVE  IInv'
<1>1. StartupTypeOK
  BY DEF IInv
<1>2. /\ IdsTypeOK'
      /\ apps' \in SUBSET Nat
      /\ baseapps' \in SUBSET Nat
      /\ pInitProgressHandler' \in [Processes -> Nat]
      /\ reported' \in SUBSET Processes
  <2>1. UNCHANGED <<idVars, apps, pInitProgressHandler, reported>> /\ baseapps' \subseteq baseapps
    BY DEF Deregister
  <2>2. IdsTypeOK'
    BY <1>1, <2>1, IdsSteps DEF Deregister
  <2> QED
    BY <1>1, <2>1, <2>2, TypeFacts
<1>3. Running(p) /\ Gone(q)
  BY DEF Deregister, OnChannelDeregister
\* dbmgr never loses another dbmgr.
<1>4. CASE q \in OfType(p, DBMGR_TYPE)
  <2>1. Vanish(p, "ended")
    BY <1>4 DEF Deregister, OnChannelDeregister
  <2>2. StartupTypeOK'
    BY <1>1, <1>2, <2>1, VanishTypes, NextTypes
  <2>3. Dbmgr(q)
    BY <1>4 DEF OfType, Dbmgr
  <2>4. ~Dbmgr(p)
    BY <1>3, <2>3, OneDbmgr DEF Dbmgr, Running, Gone
  <2> QED
    BY <1>3, <2>1, <2>2, <2>4, VanishInv
<1>5. CASE q \notin OfType(p, DBMGR_TYPE)
  <2>1. /\ channels' = [channels EXCEPT ![p] = @ \ {q}]
        /\ registry' = [registry EXCEPT ![p] = @ \ {q}]
        /\ msgs' = [msgs EXCEPT ![<<q, p>>] = <<>>]
        /\ phase' = phase /\ findIdx' = findIdx
    BY <1>5 DEF Deregister, OnChannelDeregister
  <2>2. <<>> \in Seq(Messages)
    BY EmptySeq
  <2>3. msgs' \in Queues
    BY <1>1, <2>1, <2>2, TypeFacts DEF Queues
  <2>4. /\ channels' \in [Processes -> SUBSET Processes]
        /\ registry' \in [Processes -> SUBSET Processes]
        /\ phase' \in [Processes -> Phases]
        /\ findIdx' \in [Processes -> Nat]
    BY <1>1, <2>1, TypeFacts
  <2>5. StartupTypeOK'
    BY <1>2, <2>3, <2>4, NextTypes
  <2> QED
    BY <1>3, <2>1, <2>5, ForgetInv
<1> QED
  BY <1>4, <1>5

LEMMA CBRegisterPreserves ==
    ASSUME IInv, NEW p \in Processes, NEW q \in Processes, OnCBRegisterServer(p, q),
           UNCHANGED appVars
    PROVE  IInv'
<1>1. StartupTypeOK
  BY DEF IInv
<1>2. /\ Arrived(p, q, "CBRegisterServer")
      /\ msgs' \in Queues /\ channels' = channels
  BY CBRegisterFacts
<1>3. findIdx' = findIdx
  BY DEF OnCBRegisterServer
<1>4. /\ phase' \in [Processes -> Phases]
      /\ registry' \in [Processes -> SUBSET Processes]
  <2>1. CASE Head(msgs[<<p, q>>]).accepted
    <3>1. /\ phase' = phase
          /\ registry' =
                [registry EXCEPT ![q] =
                   IF OfIdentity(q, componentID[p]) \cap OfType(q, componentType[p]) = {}
                   THEN @ \cup {p} ELSE @]
      BY <2>1 DEF OnCBRegisterServer
    <3> QED
      BY <1>1, <3>1, TypeFacts
  <2>2. CASE ~Head(msgs[<<p, q>>]).accepted
    <3>1. phase' = [phase EXCEPT ![q] = "ending"] /\ registry' = registry
      BY <2>2 DEF OnCBRegisterServer
    <3>2. "ending" \in Phases
      BY DEF Phases
    <3> QED
      BY <1>1, <3>1, <3>2, TypeFacts
  <2> QED
    BY <2>1, <2>2
<1>5. StartupTypeOK'
  BY <1>1, <1>2, <1>3, <1>4, TypeFacts, FrameTypes, NextTypes
<1> QED
  BY <1>5, CBRegisterInv

LEMMA RegisterPreserves ==
    ASSUME IInv, NEW p \in Processes, NEW q \in Processes,
           \/ DbmgrOnRegisterServer(p, q)
           \/ ~Dbmgr(q) /\ OnRegisterServer(p, q) /\ UNCHANGED appVars
    PROVE  IInv'
<1>1. StartupTypeOK /\ Registers(p, q)
  BY DEF IInv, Registers
<1>2. Register(p, q) /\ phase' = phase /\ channels' = channels /\ msgs' \in Queues
  BY <1>1, RegisterFacts
<1>3. registry' \in [Processes -> SUBSET Processes]
  BY <1>1, <1>2, TypeFacts DEF Register
<1>4. /\ findIdx' = findIdx
      /\ IdsTypeOK'
      /\ apps' \in SUBSET Nat
      /\ baseapps' \in SUBSET Nat
      /\ pInitProgressHandler' \in [Processes -> Nat]
      /\ reported' \in SUBSET Processes
  <2>1. CASE DbmgrOnRegisterServer(p, q)
    <3>1. /\ UNCHANGED <<findIdx, baseapps, pInitProgressHandler, reported>>
          /\ UNCHANGED idVars
          /\ apps' = apps \cup {componentID[p]}
      BY <2>1 DEF DbmgrOnRegisterServer, pushApp
    <3>2. componentID[p] \in Nat
      BY Kinds
    <3> QED
      BY <1>1, <3>1, <3>2, IdsSteps, TypeFacts
  <2>2. CASE OnRegisterServer(p, q) /\ UNCHANGED appVars
    BY <1>1, <2>2, FrameTypes DEF OnRegisterServer
  <2> QED
    BY <2>1, <2>2
<1>5. StartupTypeOK'
  BY <1>1, <1>2, <1>3, <1>4, TypeFacts, NextTypes
<1> QED
  BY <1>1, <1>5, RegisterInv

LEMMA GetEntityAppPreserves ==
    ASSUME IInv, NEW p \in Processes, NEW q \in Processes, OnGetEntityApp(p, q)
    PROVE  IInv'
<1>1. StartupTypeOK
  BY DEF IInv
<1>2. /\ phase' = phase /\ registry' = registry /\ msgs' \in Queues
      /\ channels' \in [Processes -> SUBSET Processes]
  BY GetEntityAppFacts
<1>3. findIdx' = findIdx /\ UNCHANGED appVars
  BY DEF OnGetEntityApp, appVars
<1>4. StartupTypeOK'
  BY <1>1, <1>2, <1>3, TypeFacts, FrameTypes, NextTypes
<1> QED
  BY <1>4, GetEntityAppInv

\* Receiving a message that changes no list.
LEMMA QuietTaken ==
    ASSUME IInv, NEW p \in Processes, NEW q \in Processes,
           NEW type \in {"onDbmgrInitCompleted", "onBaseappInitProgress"},
           Arrived(p, q, type), msgs' = Taken(p, q), channels' = channels
    PROVE  /\ msgs' \in Queues /\ NoSelf'
           /\ \A r, s \in Processes : Quiet(r, s)
           /\ Head(msgs[<<p, q>>]) \in Messages
           /\ Head(msgs[<<p, q>>]).type = type
<1>1. /\ msgs \in Queues /\ msgs[<<p, q>>] # <<>>
      /\ Head(msgs[<<p, q>>]) \in Messages
      /\ Head(msgs[<<p, q>>]).type = type
  BY ArrivedFacts
<1>2. /\ Taken(p, q) \in Queues
      /\ Taken(p, q)[<<p, q>>] = Tail(msgs[<<p, q>>])
      /\ \A r, s \in Processes : r # p \/ s # q => Taken(p, q)[<<r, s>>] = msgs[<<r, s>>]
  BY <1>1, TakenQueues
<1>3. \A r, s \in Processes : Quiet(r, s)
  BY <1>1, <1>2 DEF Quiet
<1>4. NoSelf'
  BY DEF IInv, NoSelf
<1> QED
  BY <1>1, <1>2, <1>3, <1>4

LEMMA InitCompletedPreserves ==
    ASSUME IInv, NEW p \in Processes, NEW q \in Processes, OnDbmgrInitCompleted(p, q)
    PROVE  IInv'
<1>1. StartupTypeOK
  BY DEF IInv
<1>2. /\ Arrived(p, q, "onDbmgrInitCompleted")
      /\ msgs' = Taken(p, q)
      /\ phase' = phase /\ findIdx' = findIdx /\ registry' = registry /\ channels' = channels
      /\ apps' = apps /\ baseapps' = baseapps /\ reported' = reported
  BY DEF OnDbmgrInitCompleted
<1>3. /\ msgs' \in Queues /\ NoSelf'
      /\ \A r, s \in Processes : Quiet(r, s)
      /\ Head(msgs[<<p, q>>]) \in Messages
      /\ Head(msgs[<<p, q>>]).type = "onDbmgrInitCompleted"
  BY <1>2, QuietTaken
<1>4. Head(msgs[<<p, q>>]).range \in IdRange
  BY <1>3, MessageFields
<1>5. IdsTypeOK' /\ pInitProgressHandler' \in [Processes -> Nat]
  <2>1. CASE Baseapp(q)
    <3>1. /\ OnAddRange(q, Head(msgs[<<p, q>>]).range)
          /\ pInitProgressHandler' = [pInitProgressHandler EXCEPT ![q] = @ + 1]
      BY <2>1 DEF OnDbmgrInitCompleted
    <3> QED
      BY <1>1, <1>4, <3>1, IdsSteps, TypeFacts
  <2>2. CASE ~Baseapp(q)
    BY <1>1, <2>2, IdsSteps, TypeFacts DEF OnDbmgrInitCompleted
  <2> QED
    BY <2>1, <2>2
<1>6. StartupTypeOK'
  BY <1>1, <1>2, <1>3, <1>5, TypeFacts, NextTypes
<1> QED
  BY <1>2, <1>3, <1>6, QuietInv

LEMMA BaseappInitPreserves ==
    ASSUME IInv, NEW p \in Processes, NEW q \in Processes, OnBaseappInitProgress(p, q)
    PROVE  IInv'
<1>1. StartupTypeOK
  BY DEF IInv
<1>2. /\ Arrived(p, q, "onBaseappInitProgress")
      /\ msgs' = Taken(p, q)
      /\ phase' = phase /\ findIdx' = findIdx /\ registry' = registry /\ channels' = channels
      /\ apps' = apps /\ baseapps' = baseapps \cup {componentID[p]} /\ reported' = reported
      /\ pInitProgressHandler' = pInitProgressHandler /\ UNCHANGED idVars
  BY DEF OnBaseappInitProgress
<1>3. /\ msgs' \in Queues /\ NoSelf'
      /\ \A r, s \in Processes : Quiet(r, s)
  BY <1>2, QuietTaken
<1>4. componentID[p] \in Nat /\ IdsTypeOK'
  BY <1>1, <1>2, Kinds, IdsSteps
<1>6. StartupTypeOK'
  BY <1>1, <1>2, <1>3, <1>4, TypeFacts, NextTypes
<1> QED
  BY <1>2, <1>3, <1>6, QuietInv

LEMMA LoginPreserves ==
    ASSUME IInv, NEW p \in Processes, LoginBaseapp(p)
    PROVE  IInv'
<1>1. StartupTypeOK /\ NoSelf
  BY DEF IInv
<1>2. /\ Alloc(p)
      /\ phase' = phase /\ findIdx' = findIdx /\ registry' = registry
      /\ channels' = channels /\ msgs' = msgs
      /\ apps' = apps /\ baseapps' = baseapps /\ reported' = reported
      /\ pInitProgressHandler' = pInitProgressHandler
  BY DEF LoginBaseapp, compVars
<1>3. StartupTypeOK'
  BY <1>1, <1>2, TypeFacts, IdsSteps, NextTypes
<1>4. NoSelf' /\ \A r, s \in Processes : Quiet(r, s)
  BY <1>1, <1>2 DEF NoSelf, Quiet
<1> QED
  BY <1>2, <1>3, <1>4, QuietInv

\* What is sent, from one server to several, that changes no list.
LEMMA QuietSent ==
    ASSUME IInv, NEW p \in Processes, NEW dom \in SUBSET Processes, NEW m,
           msgs' = Sent(msgs, p, dom, m),
           Running(p),
           dom \subseteq registry[p],
           \A q \in dom :
              /\ m[q] \in Messages
              /\ m[q].type \in {"onDbmgrInitCompleted", "onBaseappInitProgress"}
              /\ Fits(p, q, m[q])
    PROVE  /\ msgs' \in Queues
           /\ \A r, s \in Processes : Quiet(r, s)
<1>1. msgs \in Queues
  BY TypeFacts DEF IInv
<1>2. /\ msgs' \in Queues
      /\ \A r, s \in Processes :
            msgs'[<<r, s>>] = IF r = p /\ s \in dom /\ ~Gone(s)
                              THEN Append(msgs[<<r, s>>], m[s]) ELSE msgs[<<r, s>>]
  <2>1. \A pq \in Processes \X Processes :
           pq[2] \in dom => Append(msgs[pq], m[pq[2]]) \in Seq(Messages)
    BY <1>1, AppendProperties DEF Queues
  <2>2. msgs' = [pq \in Processes \X Processes |->
                   IF pq[1] = p /\ pq[2] \in dom /\ ~Gone(pq[2])
                   THEN Append(msgs[pq], m[pq[2]]) ELSE msgs[pq]]
    BY DEF Sent
  <2>3. msgs' \in Queues
    BY <1>1, <2>1, <2>2 DEF Queues
  <2> QED
    BY <2>2, <2>3
<1>3. phase[p] # "off" /\ \A s \in dom : phase[s] # "off"
  BY DEF Running, IInv, OnlyStartedAreKnown
<1>4. \A r, s \in Processes : Quiet(r, s)
  <2> SUFFICES ASSUME NEW r \in Processes, NEW s \in Processes
               PROVE  Quiet(r, s)
    OBVIOUS
  <2>1. CASE r = p /\ s \in dom /\ ~Gone(s)
    <3>1. msgs'[<<r, s>>] = Append(msgs[<<r, s>>], m[s])
      BY <1>2, <2>1
    <3> QED
      BY <1>3, <2>1, <3>1 DEF Quiet
  <2>2. CASE ~(r = p /\ s \in dom /\ ~Gone(s))
    BY <1>2, <2>2 DEF Quiet
  <2> QED
    BY <2>1, <2>2
<1> QED
  BY <1>2, <1>4

LEMMA InitProgressPreserves ==
    ASSUME IInv, NEW p \in Processes, InitProgress(p)
    PROVE  IInv'
<1>1. StartupTypeOK /\ NoSelf
  BY DEF IInv
<1>2. /\ CheckSize(p) /\ Running(p)
      /\ pInitProgressHandler[p] > 0
      /\ pInitProgressHandler' = [pInitProgressHandler EXCEPT ![p] = @ - 1]
      /\ reported' = reported \cup {p}
      /\ phase' = phase /\ findIdx' = findIdx /\ registry' = registry /\ channels' = channels
      /\ apps' = apps /\ baseapps' = baseapps
  BY DEF InitProgress
<1>3. PICK mgrs : mgrs = OfType(p, BASEAPPMGR_TYPE)
  OBVIOUS
<1>4. PICK m : m = [q \in mgrs |-> BaseappInitProgress]
  OBVIOUS
<1>5. msgs' = Sent(msgs, p, mgrs, m)
  BY <1>3, <1>4 DEF InitProgress
<1>6. mgrs \subseteq registry[p] /\ mgrs \in SUBSET Processes
  BY <1>1, <1>3, TypeFacts DEF OfType
<1>7. \A q \in mgrs :
        /\ m[q] \in Messages
        /\ m[q].type \in {"onDbmgrInitCompleted", "onBaseappInitProgress"}
        /\ Fits(p, q, m[q])
  <2>1. BaseappInitProgress \in Messages
    BY MessageTypes
  <2> QED
    BY <1>4, <2>1 DEF BaseappInitProgress, Fits
<1>8. msgs' \in Queues /\ \A r, s \in Processes : Quiet(r, s)
  BY <1>2, <1>5, <1>6, <1>7, QuietSent
<1>9. /\ pInitProgressHandler' \in [Processes -> Nat]
      /\ reported' \in SUBSET Processes
      /\ IdsTypeOK'
      /\ NoSelf'
  BY <1>1, <1>2, TypeFacts, IdsSteps DEF NoSelf
<1>10. StartupTypeOK'
  BY <1>1, <1>2, <1>8, <1>9, TypeFacts, NextTypes
<1> QED
  BY <1>2, <1>8, <1>9, <1>10, QuietInv

LEMMA NthRangeType ==
    ASSUME last_id_range_begin \in Nat, NEW i \in Nat \ {0}
    PROVE  NthRange(i) \in IdRange
<1>1. range_step \in Nat
  BY IdsAssumption
<1>2. (i - 1) * range_step \in Nat /\ i * range_step \in Nat
  <2>1. \A a, b \in Nat : a * b \in Nat
    OBVIOUS
  <2> QED
    BY <1>1, <2>1
<1> QED
  BY <1>2 DEF NthRange, IdRange

LEMMA SyncAppDatasPreserves ==
    ASSUME IInv, NEW q \in Processes, SyncAppDatas(q)
    PROVE  IInv'
<1>1. StartupTypeOK /\ NoSelf
  BY DEF IInv
<1>2. /\ Dbmgr(q) /\ Running(q)
      /\ phase' = phase /\ findIdx' = findIdx /\ registry' = registry /\ channels' = channels
      /\ idRange' = idRange /\ id_list' = id_list /\ handedOut' = handedOut
      /\ baseapps' = baseapps /\ reported' = reported
      /\ pInitProgressHandler' = pInitProgressHandler
      /\ apps' = {}
  BY DEF SyncAppDatas
<1>3. PICK new : new = NewApps(q)
  OBVIOUS
<1>4. new \in SUBSET Processes /\ new \subseteq registry[q] /\ \A p \in new : EntityApp(p)
  BY <1>1, <1>3, TypeFacts DEF NewApps
<1>5. Cardinality(new) \in Nat
  BY <1>4, ProcessesAssumption, FS_Subset, FS_CardinalityType
<1>6. PICK n \in Nat : n = Cardinality(new)
  BY <1>5
<1>7. /\ AllocRanges(n)
      /\ \E turn \in [new -> 1 .. n] :
            msgs' = Sent(msgs, q, new, [p \in new |-> DbmgrInitCompleted(NthRange(turn[p]))])
  BY <1>3, <1>6 DEF SyncAppDatas
<1>8. PICK turn \in [new -> 1 .. n] :
        msgs' = Sent(msgs, q, new, [p \in new |-> DbmgrInitCompleted(NthRange(turn[p]))])
  BY <1>7
<1>9. PICK m : m = [p \in new |-> DbmgrInitCompleted(NthRange(turn[p]))]
  OBVIOUS
<1>10. \A p \in new :
         /\ m[p] \in Messages
         /\ m[p].type \in {"onDbmgrInitCompleted", "onBaseappInitProgress"}
         /\ Fits(q, p, m[p])
  <2> SUFFICES ASSUME NEW p \in new
               PROVE  /\ m[p] \in Messages
                      /\ m[p].type \in {"onDbmgrInitCompleted", "onBaseappInitProgress"}
                      /\ Fits(q, p, m[p])
    OBVIOUS
  <2>1. PICK i \in Nat \ {0} : i = turn[p]
    BY <1>8
  <2>2. last_id_range_begin \in Nat
    BY <1>1, TypeFacts
  <2>3. PICK r \in IdRange : r = NthRange(turn[p])
    BY <2>1, <2>2, NthRangeType
  <2>4. m[p] = DbmgrInitCompleted(r) /\ DbmgrInitCompleted(r) \in Messages
    BY <1>9, <2>3, MessageTypes
  <2>5. m[p].type = "onDbmgrInitCompleted"
    BY <2>4 DEF DbmgrInitCompleted
  <2> QED
    BY <1>2, <1>4, <2>4, <2>5 DEF Fits
<1>11. msgs' \in Queues /\ \A r, s \in Processes : Quiet(r, s)
  <2>1. msgs' = Sent(msgs, q, new, m)
    BY <1>8, <1>9
  <2> QED
    BY <1>2, <1>4, <1>10, <2>1, QuietSent
<1>12. IdsTypeOK'
  <2>1. \A a, b \in Nat : a * b \in Nat
    OBVIOUS
  <2>2. n * range_step \in Nat
    BY <2>1, IdsAssumption
  <2>3. last_id_range_begin' = last_id_range_begin + n * range_step
    BY <1>7 DEF AllocRanges
  <2>4. last_id_range_begin' \in Nat
    BY <1>1, <2>2, <2>3, TypeFacts
  <2> QED
    BY <1>1, <1>2, <2>4, TypeFacts DEF IdsTypeOK
<1>13. NoSelf'
  BY <1>1, <1>2 DEF NoSelf
<1>14. StartupTypeOK'
  BY <1>1, <1>2, <1>11, <1>12, TypeFacts, NextTypes
<1> QED
  BY <1>2, <1>11, <1>13, <1>14, QuietInv

-----------------------------------------------------------------------------
(***************************************************************************)
(* The theorems                                                            *)
(***************************************************************************)

LEMMA InitInv == Init => IInv
<1> SUFFICES ASSUME Init PROVE IInv
  OBVIOUS
<1>1. StartupTypeOK
  BY InitType
<1>2. \A p, q \in Processes :
        /\ phase[p] = "off" /\ registry[p] = {} /\ channels[p] = {}
        /\ msgs[<<p, q>>] = <<>>
  BY DEF Init, CompInit
<1>3. Contents(<<>>) = {} /\ AcceptedFirst(<<>>)
  BY AcceptedFirstEmpty DEF Contents
<1>4. \A p \in Processes : ~Running(p)
  BY <1>2 DEF Running
<1> QED
  BY <1>1, <1>2, <1>3, <1>4
     DEF IInv, NoSelf, OnlyStartedAreKnown, SendersFit, ListsAgree, IntroducedAfterAccepted,
         EndedIsForgotten, Introduced

LEMMA StutterInv == IInv /\ UNCHANGED vars => IInv'
<1> SUFFICES ASSUME IInv, UNCHANGED vars PROVE IInv'
  OBVIOUS
<1>1. StartupTypeOK /\ NoSelf
  BY DEF IInv
<1>2. /\ phase' = phase /\ findIdx' = findIdx /\ registry' = registry
      /\ channels' = channels /\ msgs' = msgs /\ UNCHANGED appVars
  BY DEF vars, compVars, appVars
<1>3. StartupTypeOK'
  BY <1>1, <1>2, TypeFacts, FrameTypes, NextTypes
<1>4. NoSelf' /\ \A r, s \in Processes : Quiet(r, s)
  BY <1>1, <1>2 DEF NoSelf, Quiet
<1> QED
  BY <1>2, <1>3, <1>4, QuietInv

LEMMA NextInv == IInv /\ [Next]_vars => IInv'
<1> SUFFICES ASSUME IInv, [Next]_vars PROVE IInv'
  OBVIOUS
<1>1. CASE UNCHANGED vars
  BY <1>1, StutterInv
<1>2. ASSUME NEW p \in Processes, Loop(p)
      PROVE  IInv'
  <2>1. CASE Find(p)
    BY <2>1, FindPreserves
  <2>2. CASE End(p)
    BY <2>2, EndsPreserve
  <2>3. CASE InitProgress(p)
    BY <2>3, InitProgressPreserves
  <2>4. CASE SyncAppDatas(p)
    BY <2>4, SyncAppDatasPreserves
  <2>5. ASSUME NEW q \in Processes, Receive(q, p)
        PROVE  IInv'
    BY <2>5, RegisterPreserves, CBRegisterPreserves, GetEntityAppPreserves,
       InitCompletedPreserves, BaseappInitPreserves DEF Receive
  <2>6. ASSUME NEW q \in Processes, Deregister(p, q)
        PROVE  IInv'
    BY <2>6, DeregisterPreserves
  <2>7. channels[p] \subseteq Processes
    BY TypeFacts DEF IInv
  <2> QED
    BY <1>2, <2>1, <2>2, <2>3, <2>4, <2>5, <2>6, <2>7 DEF Loop
<1>3. ASSUME NEW p \in Processes, LoginBaseapp(p)
      PROVE  IInv'
  BY <1>3, LoginPreserves
<1>4. ASSUME NEW p \in Processes, (Start(p) \/ Signal(p) \/ Crash(p)) /\ UNCHANGED appVars
      PROVE  IInv'
  BY <1>4, PhasesPreserve, EndsPreserve
<1> QED
  BY <1>1, <1>2, <1>3, <1>4 DEF Next

\* Lists, phases and the messages on their way agree, whatever servers start, register,
\* are refused, are shut down or crash, and whenever that happens.
THEOREM Invariant == Spec => []IInv
BY InitInv, NextInv, PTL DEF Spec

\* Lists, queues and counters stay what they are meant to be: a message is always one
\* of those that the handlers know, and what is sent as a range is one.
THEOREM TypeCorrect == Spec => []StartupTypeOK
<1>1. IInv => StartupTypeOK
  BY DEF IInv, StartupTypeOK
<1> QED
  BY <1>1, Invariant, PTL

\* The assertion at the end of onGetEntityAppFromDbmgr cannot fail, whatever servers
\* register, are refused, shut down or crash: when dbmgr introduces a server to
\* another one, its acceptance of that one has gone ahead on the same channel.
THEOREM DbmgrKnown == Spec => []DbmgrIsKnown
<1>1. IInv => DbmgrIsKnown
  <2> SUFFICES ASSUME IInv, NEW p \in Processes, NEW q \in Processes,
                      Arrived(p, q, "onGetEntityAppFromDbmgr")
               PROVE  OfType(q, DBMGR_TYPE) # {}
    BY DEF DbmgrIsKnown
  <2>1. /\ Running(q)
        /\ msgs[<<p, q>>] \in Seq(Messages) /\ msgs[<<p, q>>] # <<>>
        /\ Head(msgs[<<p, q>>]).type = "onGetEntityAppFromDbmgr"
        /\ Fits(p, q, Head(msgs[<<p, q>>]))
    BY ArrivedFacts
  <2>2. Len(msgs[<<p, q>>]) \in Nat \ {0} /\ DOMAIN msgs[<<p, q>>] = 1 .. Len(msgs[<<p, q>>])
    BY <2>1, EmptySeq, LenProperties
  <2>3. 1 \in DOMAIN msgs[<<p, q>>] /\ msgs[<<p, q>>][1] = Head(msgs[<<p, q>>])
    BY <2>1, <2>2
  <2>4. ~AcceptedFirst(msgs[<<p, q>>])
    BY <2>1, <2>2, <2>3 DEF AcceptedFirst
  <2>5. p \in registry[q]
    BY <2>1, <2>4 DEF IInv, IntroducedAfterAccepted
  <2>6. componentType[p] = DBMGR_TYPE
    BY <2>1 DEF Fits, Dbmgr
  <2> QED
    BY <2>5, <2>6 DEF OfType
<1> QED
  BY <1>1, Invariant, PTL

\* dbmgr ends last: no baseapp or cellapp that has dbmgr in its list is alive when
\* dbmgr has shut down, also one whose registration arrives when dbmgr is shutting
\* down already, because canShutdown looks at the list in the step that ends it.
THEOREM DbmgrLast == Spec => []DbmgrOutlivesApps
<1>1. IInv => DbmgrOutlivesApps
  BY DEF IInv, DbmgrOutlivesApps, EndedIsForgotten
<1> QED
  BY <1>1, Invariant, PTL

\* Any two baseapps or cellapps of a dbmgr come to know each other: whichever of the
\* two registers second is introduced to the first, connects and registers, and the
\* answer puts the first into its list.
THEOREM AppsIntroduced == Spec => []AppsKnowEachOther
<1>1. IInv => AppsKnowEachOther
  <2> SUFFICES ASSUME IInv, NEW d \in Processes, NEW p \in registry[d], NEW q \in registry[d],
                      Dbmgr(d), EntityApp(p), EntityApp(q), p # q,
                      Running(p), Running(q), Once(p), Once(q),
                      \A r, s \in {d, p, q} : msgs[<<r, s>>] = <<>>
               PROVE  p \in registry[q] /\ q \in registry[p]
    BY DEF AppsKnowEachOther
  <2>1. p \in Processes /\ q \in Processes
    BY TypeFacts DEF IInv
  <2>2. Contents(<<>>) = {}
    BY DEF Contents
  <2>3. Sole(p) /\ Sole(q)
    BY <2>1 DEF Once, Sole
  <2>4. p \in registry[q] <=> q \in registry[p]
    <3>1. Accepted \notin Contents(msgs[<<p, q>>]) /\ Accepted \notin Contents(msgs[<<q, p>>])
      BY <2>2
    <3> QED
      BY <2>1, <2>3, <3>1 DEF IInv, ListsAgree
  <2>5. Approaches(p, q, d) \/ Approaches(q, p, d)
    BY <2>1 DEF IInv, Introduced
  <2> QED
    BY <2>2, <2>4, <2>5 DEF Approaches
<1> QED
  BY <1>1, Invariant, PTL

=============================================================================
