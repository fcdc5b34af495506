-------------------------- MODULE StartupIdsProofs --------------------------
(***************************************************************************)
(* Proofs about Startup: the entity ids, and who is in service.  Ranges    *)
(* are followed from dbmgr, which cuts them off one behind the other,      *)
(* through the channel to a baseapp, into the list of its IDClient and     *)
(* into use; an id is always in one place only.  A server that has a range *)
(* is in the list of dbmgr, which takes no identity twice.                 *)
(***************************************************************************)
EXTENDS StartupProofs

-----------------------------------------------------------------------------
(***************************************************************************)
(* The inductive invariant                                                 *)
(***************************************************************************)

IsRange(m) == m.type = "onDbmgrInitCompleted"

\* Ranges one behind the other.
ListAscends(s) == \A i, j \in DOMAIN s : i < j => s[i][2] <= s[j][1]
QueueAscends(s) ==
    \A i, j \in DOMAIN s :
        IsRange(s[i]) /\ IsRange(s[j]) /\ i < j => s[i].range[2] <= s[j].range[1]

\* The ranges on their way to p, and those it keeps for later.
RangesIn(s) == {s[i].range : i \in {k \in DOMAIN s : IsRange(s[k])}}
Coming(p) == UNION {RangesIn(msgs[<<q, p>>]) : q \in Processes}
Kept(p) == Contents(id_list[p])

\* In the order in which p comes to them: the ids it has handed out, the range in use,
\* those it keeps, those on their way; and all of them before what dbmgr has left.
Ascends(p) ==
    /\ \A x \in handedOut[p] : x < idRange[p][1]
    /\ idRange[p][1] <= idRange[p][2] /\ idRange[p][2] <= last_id_range_begin
    /\ \A r \in Kept(p) \cup Coming(p) :
          idRange[p][2] <= r[1] /\ r[1] < r[2] /\ r[2] <= last_id_range_begin
    /\ \A r \in Kept(p), t \in Coming(p) : r[2] <= t[1]
    /\ ListAscends(id_list[p])
    /\ \A q \in Processes : QueueAscends(msgs[<<q, p>>])

RangesAscend == \A p \in Processes : Ascends(p)

\* The ids that p has handed out or may come to hand out.
Owned(p) ==
    handedOut[p] \cup UNION {Ids(r) : r \in {idRange[p]} \cup Kept(p) \cup Coming(p)}

OwnedApart == \A p, q \in Processes : p # q => Owned(p) \cap Owned(q) = {}

HasRange(p) == p \in reported \/ idRange[p] # <<0, 0>> \/ Kept(p) # {} \/ Coming(p) # {}

\* Who has a range got it from dbmgr and is in its list, as long as both are running.
RangesRegistered ==
    \A p \in Processes : HasRange(p) =>
        /\ phase[p] # "off"
        /\ \A d \in Processes : Dbmgr(d) =>
              phase[d] # "off" /\ (Running(p) /\ Running(d) => p \in registry[d])

OneEntryPerIdentity ==
    \A d \in Processes : Dbmgr(d) =>
        \A p, q \in registry[d] : componentID[p] = componentID[q] => p = q

OneRangePerIdentity ==
    \A p, q \in Processes :
        HasRange(p) /\ HasRange(q) /\ Running(p) /\ Running(q)
          /\ componentID[p] = componentID[q] => p = q

IdsInv ==
    /\ RangesAscend
    /\ OwnedApart
    /\ RangesRegistered
    /\ OneEntryPerIdentity
    /\ OneRangePerIdentity

-----------------------------------------------------------------------------
(***************************************************************************)
(* Lists and queues of ranges                                              *)
(***************************************************************************)

LEMMA ListAscendsTail ==
    ASSUME NEW s \in Seq(IdRange), s # <<>>, ListAscends(s)
    PROVE  /\ ListAscends(Tail(s))
           /\ \A r \in Contents(Tail(s)) : Head(s)[2] <= r[1]
<1>1. /\ Len(s) \in Nat \ {0}
      /\ DOMAIN s = 1 .. Len(s)
      /\ Head(s) = s[1]
  BY LenProperties, EmptySeq
<1>2. /\ Tail(s) \in Seq(IdRange)
      /\ Len(Tail(s)) = Len(s) - 1
      /\ \A i \in 1 .. Len(Tail(s)) : Tail(s)[i] = s[i + 1]
  BY <1>1, HeadTailProperties
<1>3. DOMAIN Tail(s) = 1 .. Len(s) - 1
  BY <1>2, LenProperties
<1>4. \A i \in 1 .. Len(s) - 1 : i + 1 \in 1 .. Len(s) /\ Tail(s)[i] = s[i + 1] /\ 1 < i + 1
  BY <1>1, <1>2
<1>5. ListAscends(Tail(s))
  <2> SUFFICES ASSUME NEW i \in 1 .. Len(s) - 1, NEW j \in 1 .. Len(s) - 1, i < j
               PROVE  Tail(s)[i][2] <= Tail(s)[j][1]
    BY <1>3 DEF ListAscends
  <2>1. i + 1 < j + 1
    OBVIOUS
  <2> QED
    BY <1>1, <1>4, <2>1 DEF ListAscends
<1>6. \A i \in 1 .. Len(s) - 1 : Head(s)[2] <= Tail(s)[i][1]
  <2>1. 1 \in DOMAIN s
    BY <1>1
  <2> QED
    BY <1>1, <1>4, <2>1 DEF ListAscends
<1> QED
  BY <1>3, <1>5, <1>6 DEF Contents

LEMMA ListAscendsAppend ==
    ASSUME NEW s \in Seq(IdRange), NEW r \in IdRange, ListAscends(s),
           \A t \in Contents(s) : t[2] <= r[1]
    PROVE  ListAscends(Append(s, r))
<1>1. /\ Len(s) \in Nat
      /\ DOMAIN s = 1 .. Len(s)
  BY LenProperties
<1>2. /\ Append(s, r) \in Seq(IdRange)
      /\ Len(Append(s, r)) = Len(s) + 1
      /\ \A i \in 1 .. Len(s) : Append(s, r)[i] = s[i]
      /\ Append(s, r)[Len(s) + 1] = r
  BY AppendProperties
<1>3. DOMAIN Append(s, r) = 1 .. Len(s) + 1
  BY <1>2, LenProperties
<1> SUFFICES ASSUME NEW i \in 1 .. Len(s) + 1, NEW j \in 1 .. Len(s) + 1, i < j
             PROVE  Append(s, r)[i][2] <= Append(s, r)[j][1]
  BY <1>3 DEF ListAscends
<1>4. i \in 1 .. Len(s) /\ Append(s, r)[i] = s[i]
  BY <1>1, <1>2
<1>5. CASE j = Len(s) + 1
  <2>1. s[i] \in Contents(s)
    BY <1>1, <1>4 DEF Contents
  <2> QED
    BY <1>2, <1>4, <1>5, <2>1
<1>6. CASE j # Len(s) + 1
  <2>1. j \in 1 .. Len(s) /\ Append(s, r)[j] = s[j]
    BY <1>1, <1>2, <1>6
  <2> QED
    BY <1>1, <1>4, <2>1 DEF ListAscends
<1> QED
  BY <1>5, <1>6

LEMMA RangesInTail ==
    ASSUME NEW s \in Seq(Messages), s # <<>>, QueueAscends(s)
    PROVE  /\ RangesIn(Tail(s)) \subseteq RangesIn(s)
           /\ QueueAscends(Tail(s))
           /\ IsRange(Head(s)) =>
                 /\ Head(s).range \in RangesIn(s)
                 /\ \A r \in RangesIn(Tail(s)) : Head(s).range[2] <= r[1]
<1>1. /\ Len(s) \in Nat \ {0}
      /\ DOMAIN s = 1 .. Len(s)
      /\ Head(s) = s[1]
  BY LenProperties, EmptySeq
<1>2. /\ Tail(s) \in Seq(Messages)
      /\ Len(Tail(s)) = Len(s) - 1
      /\ \A i \in 1 .. Len(Tail(s)) : Tail(s)[i] = s[i + 1]
  BY <1>1, HeadTailProperties
<1>3. DOMAIN Tail(s) = 1 .. Len(s) - 1
  BY <1>2, LenProperties
<1>4. \A i \in 1 .. Len(s) - 1 : i + 1 \in 1 .. Len(s) /\ Tail(s)[i] = s[i + 1] /\ 1 < i + 1
  BY <1>1, <1>2
<1>5. RangesIn(Tail(s)) \subseteq RangesIn(s)
  BY <1>1, <1>3, <1>4 DEF RangesIn
<1>6. QueueAscends(Tail(s))
  <2> SUFFICES ASSUME NEW i \in 1 .. Len(s) - 1, NEW j \in 1 .. Len(s) - 1, i < j,
                      IsRange(Tail(s)[i]), IsRange(Tail(s)[j])
               PROVE  Tail(s)[i].range[2] <= Tail(s)[j].range[1]
    BY <1>3 DEF QueueAscends
  <2>1. i + 1 < j + 1
    OBVIOUS
  <2> QED
    BY <1>1, <1>4, <2>1 DEF QueueAscends
<1>7. 1 \in DOMAIN s
  BY <1>1
<1>8. ASSUME IsRange(Head(s)), NEW i \in 1 .. Len(s) - 1, IsRange(Tail(s)[i])
      PROVE  Head(s).range[2] <= Tail(s)[i].range[1]
  BY <1>1, <1>4, <1>7, <1>8 DEF QueueAscends
<1> QED
  BY <1>1, <1>3, <1>5, <1>6, <1>7, <1>8 DEF RangesIn

LEMMA RangesInAppend ==
    ASSUME NEW s \in Seq(Messages), NEW m \in Messages, QueueAscends(s)
    PROVE  /\ ~IsRange(m) => RangesIn(Append(s, m)) = RangesIn(s) /\ QueueAscends(Append(s, m))
           /\ IsRange(m) => RangesIn(Append(s, m)) = RangesIn(s) \cup {m.range}
           /\ IsRange(m) /\ (\A t \in RangesIn(s) : t[2] <= m.range[1])
                 => QueueAscends(Append(s, m))
<1>1. /\ Len(s) \in Nat
      /\ DOMAIN s = 1 .. Len(s)
  BY LenProperties
<1>2. /\ Append(s, m) \in Seq(Messages)
      /\ Len(Append(s, m)) = Len(s) + 1
      /\ \A i \in 1 .. Len(s) : Append(s, m)[i] = s[i]
      /\ Append(s, m)[Len(s) + 1] = m
  BY AppendProperties
<1>3. DOMAIN Append(s, m) = 1 .. Len(s) + 1
  BY <1>2, LenProperties
<1>4. \A i \in 1 .. Len(s) + 1 : i \in 1 .. Len(s) \/ i = Len(s) + 1
  BY <1>1
<1>5. 1 .. Len(s) \subseteq 1 .. Len(s) + 1 /\ Len(s) + 1 \in 1 .. Len(s) + 1
  BY <1>1
<1>6. /\ ~IsRange(m) => RangesIn(Append(s, m)) = RangesIn(s)
      /\ IsRange(m) => RangesIn(Append(s, m)) = RangesIn(s) \cup {m.range}
  BY <1>1, <1>2, <1>3, <1>4, <1>5 DEF RangesIn
<1>7. ASSUME IsRange(m) => \A t \in RangesIn(s) : t[2] <= m.range[1]
      PROVE  QueueAscends(Append(s, m))
  <2> SUFFICES ASSUME NEW i \in 1 .. Len(s) + 1, NEW j \in 1 .. Len(s) + 1, i < j,
                      IsRange(Append(s, m)[i]), IsRange(Append(s, m)[j])
               PROVE  Append(s, m)[i].range[2] <= Append(s, m)[j].range[1]
    BY <1>3 DEF QueueAscends
  <2>1. i \in 1 .. Len(s) /\ Append(s, m)[i] = s[i]
    BY <1>1, <1>2
  <2>2. CASE j = Len(s) + 1
    <3>1. s[i].range \in RangesIn(s)
      BY <1>1, <2>1 DEF RangesIn
    <3> QED
      BY <1>2, <1>7, <2>1, <2>2, <3>1
  <2>3. CASE j # Len(s) + 1
    <3>1. j \in 1 .. Len(s) /\ Append(s, m)[j] = s[j]
      BY <1>1, <1>2, <2>3
    <3> QED
      BY <1>1, <2>1, <3>1 DEF QueueAscends
  <2> QED
    BY <2>2, <2>3
<1> QED
  BY <1>6, <1>7

LEMMA RangesInEmpty == RangesIn(<<>>) = {} /\ QueueAscends(<<>>) /\ ListAscends(<<>>)
BY DEF RangesIn, QueueAscends, ListAscends

LEMMA RangesInType ==
    ASSUME NEW s \in Seq(Messages)
    PROVE  RangesIn(s) \subseteq IdRange
<1>1. \A i \in DOMAIN s : s[i] \in Messages
  BY ContentsType
<1> QED
  BY <1>1, MessageFields DEF RangesIn, IsRange

-----------------------------------------------------------------------------
(***************************************************************************)
(* Steps that send no range                                                *)
(***************************************************************************)

NoRangeSent(r, s) ==
    \/ msgs'[<<r, s>>] = msgs[<<r, s>>]
    \/ msgs'[<<r, s>>] = <<>>
    \/ msgs[<<r, s>>] # <<>> /\ msgs'[<<r, s>>] = Tail(msgs[<<r, s>>])
    \/ \E m \in Messages : ~IsRange(m) /\ msgs'[<<r, s>>] = Append(msgs[<<r, s>>], m)

NoneSent == \A r, s \in Processes : NoRangeSent(r, s)

\* dbmgr removes no server that is running from its list, and lets no identity in twice.
ListsKept ==
    /\ \A p \in Processes : phase[p] # "off" => phase'[p] # "off" /\ (Running(p)' => Running(p))
    /\ \A d \in Processes : Dbmgr(d) /\ Running(d)' =>
          \A p \in registry[d] : Running(p)' => p \in registry'[d]
    /\ OneEntryPerIdentity'

LEMMA NoneSentRanges ==
    ASSUME IInv, NoneSent, NEW r \in Processes, NEW s \in Processes, QueueAscends(msgs[<<r, s>>])
    PROVE  /\ RangesIn(msgs'[<<r, s>>]) \subseteq RangesIn(msgs[<<r, s>>])
           /\ QueueAscends(msgs'[<<r, s>>])
<1>1. msgs[<<r, s>>] \in Seq(Messages)
  BY TypeFacts DEF IInv, Queues
<1>2. CASE msgs'[<<r, s>>] = msgs[<<r, s>>]
  BY <1>2
<1>3. CASE msgs'[<<r, s>>] = <<>>
  BY <1>3, RangesInEmpty
<1>4. CASE msgs[<<r, s>>] # <<>> /\ msgs'[<<r, s>>] = Tail(msgs[<<r, s>>])
  BY <1>1, <1>4, RangesInTail
<1>5. CASE \E m \in Messages : ~IsRange(m) /\ msgs'[<<r, s>>] = Append(msgs[<<r, s>>], m)
  BY <1>1, <1>5, RangesInAppend
<1> QED
  BY <1>2, <1>3, <1>4, <1>5 DEF NoneSent, NoRangeSent

LEMMA NotRanges ==
    /\ RegisterServer \in Messages /\ ~IsRange(RegisterServer)
    /\ \A ok \in BOOLEAN : CBRegisterServer(ok) \in Messages /\ ~IsRange(CBRegisterServer(ok))
    /\ \A p \in Processes : GetEntityApp(p) \in Messages /\ ~IsRange(GetEntityApp(p))
    /\ BaseappInitProgress \in Messages /\ ~IsRange(BaseappInitProgress)
BY MessageTypes
   DEF IsRange, RegisterServer, CBRegisterServer, GetEntityApp, BaseappInitProgress

LEMMA SameLists ==
    ASSUME OneEntryPerIdentity, phase' = phase, registry' = registry
    PROVE  ListsKept
BY DEF ListsKept, OneEntryPerIdentity, Running

LEMMA PhasesKeep ==
    ASSUME IInv, OneEntryPerIdentity, NEW p \in Processes, Start(p) \/ Signal(p)
    PROVE  NoneSent /\ ListsKept
<1>1. msgs' = msgs /\ registry' = registry
  BY DEF Start, Signal
<1>2. \A r \in Processes : phase[r] # "off" => phase'[r] # "off" /\ (Running(r)' => Running(r))
  BY TypeFacts DEF IInv, Start, Signal, Running
<1> QED
  BY <1>1, <1>2 DEF NoneSent, NoRangeSent, ListsKept, OneEntryPerIdentity

LEMMA VanishKeeps ==
    ASSUME IInv, OneEntryPerIdentity, NEW p \in Processes, NEW how \in {"ended", "crashed"},
           Vanish(p, how)
    PROVE  NoneSent /\ ListsKept
<1>1. StartupTypeOK
  BY DEF IInv
<1>2. /\ phase' = [phase EXCEPT ![p] = how]
      /\ registry' = [registry EXCEPT ![p] = {}]
      /\ \A r, s \in Processes : msgs'[<<r, s>>] = IF s = p THEN <<>> ELSE msgs[<<r, s>>]
  BY DEF Vanish
<1>3. /\ ~Running(p)'
      /\ \A r \in Processes : phase[r] # "off" => phase'[r] # "off" /\ (Running(r)' => Running(r))
      /\ \A r \in Processes : registry'[r] = IF r = p THEN {} ELSE registry[r]
  BY <1>1, <1>2, TypeFacts DEF Running
<1>4. NoneSent
  BY <1>2 DEF NoneSent, NoRangeSent
<1>5. OneEntryPerIdentity'
  BY <1>3 DEF OneEntryPerIdentity
<1> QED
  BY <1>3, <1>4, <1>5 DEF ListsKept

LEMMA DeregisterKeeps ==
    ASSUME IInv, OneEntryPerIdentity, NEW p \in Processes, NEW q \in Processes, Deregister(p, q)
    PROVE  NoneSent /\ ListsKept
<1>1. StartupTypeOK
  BY DEF IInv
<1>2. CASE Vanish(p, "ended")
  BY <1>2, VanishKeeps
<1>3. CASE ~Vanish(p, "ended")
  <2>1. /\ registry' = [registry EXCEPT ![p] = @ \ {q}]
        /\ msgs' = [msgs EXCEPT ![<<q, p>>] = <<>>]
        /\ phase' = phase
        /\ Gone(q)
    BY <1>3 DEF Deregister, OnChannelDeregister
  <2>2. \A r \in Processes : registry'[r] = IF r = p THEN registry[p] \ {q} ELSE registry[r]
    BY <1>1, <2>1, TypeFacts
  <2>3. ~Running(q)' /\ \A r \in Processes : Running(r)' <=> Running(r)
    BY <2>1 DEF Running, Gone
  <2>4. NoneSent
    BY <1>1, <2>1, TypeFacts DEF NoneSent, NoRangeSent, Queues
  <2>5. OneEntryPerIdentity'
    BY <2>2 DEF OneEntryPerIdentity
  <2> QED
    BY <2>1, <2>2, <2>3, <2>4, <2>5 DEF ListsKept
<1> QED
  BY <1>2, <1>3

LEMMA FindKeeps ==
    ASSUME IInv, OneEntryPerIdentity, NEW p \in Processes, Find(p)
    PROVE  NoneSent /\ ListsKept
<1>1. PICK q \in Processes : Running(q) /\ ConnectTo(p, q, msgs)
  BY DEF Find, FindComponents, Wanted
<1>2. phase' = phase /\ registry' = registry
  BY DEF Find, FindComponents
<1>3. msgs' = [msgs EXCEPT ![<<p, q>>] = Append(@, RegisterServer)]
  BY <1>1 DEF ConnectTo, SentTo, Running, Gone
<1>4. NoneSent
  BY <1>3, NotRanges, TypeFacts DEF NoneSent, NoRangeSent, Queues, IInv
<1> QED
  BY <1>2, <1>4, SameLists

LEMMA RegisterKeeps ==
    ASSUME IInv, OneEntryPerIdentity, NEW p \in Processes, NEW q \in Processes, Registers(p, q)
    PROVE  NoneSent /\ ListsKept
<1>1. /\ Arrived(p, q, "OnRegisterServer")
      /\ Register(p, q) /\ phase' = phase
      /\ Answers(p, q)
  BY RegisterFacts
<1>2. PICK ok \in BOOLEAN : ok = checkComponents(q, p)
  BY DEF checkComponents
<1>3. /\ msgs[<<p, q>>] # <<>>
      /\ msgs'[<<p, q>>] = Tail(msgs[<<p, q>>])
      /\ msgs'[<<q, p>>] = IF Gone(p) THEN msgs[<<q, p>>]
                           ELSE Append(msgs[<<q, p>>], CBRegisterServer(ok))
      /\ \A r \in Told(p, q) : msgs'[<<q, r>>] = Append(msgs[<<q, r>>], GetEntityApp(p))
      /\ \A r, s \in Processes :
            (r # p \/ s # q) /\ (r # q \/ (s # p /\ s \notin Told(p, q)))
               => msgs'[<<r, s>>] = msgs[<<r, s>>]
  BY <1>1, <1>2 DEF Answers, Arrived
<1>4. NoneSent
  <2> SUFFICES ASSUME NEW r \in Processes, NEW s \in Processes
               PROVE  NoRangeSent(r, s)
    BY DEF NoneSent
  <2>1. CASE r = p /\ s = q
    BY <1>3, <2>1 DEF NoRangeSent
  <2>2. CASE r = q /\ s = p
    BY <1>3, <2>2, NotRanges DEF NoRangeSent
  <2>3. CASE r = q /\ s \in Told(p, q)
    BY <1>3, <2>3, NotRanges DEF NoRangeSent
  <2>4. CASE msgs'[<<r, s>>] = msgs[<<r, s>>]
    BY <2>4 DEF NoRangeSent
  <2> QED
    BY <1>3, <2>1, <2>2, <2>3, <2>4
<1>5. /\ registry'[q] = IF ok THEN registry[q] \cup {p} ELSE registry[q]
      /\ \A r \in Processes \ {q} : registry'[r] = registry[r]
  BY <1>1, <1>2, TypeFacts DEF Register, IInv
<1>6. ok => \A r \in registry[q] : componentID[r] # componentID[p]
  BY <1>2 DEF checkComponents, OfIdentity
<1>7. OneEntryPerIdentity'
  <2> SUFFICES ASSUME NEW d \in Processes, Dbmgr(d), NEW x \in registry'[d],
                      NEW y \in registry'[d], componentID[x] = componentID[y]
               PROVE  x = y
    BY DEF OneEntryPerIdentity
  <2>1. CASE x \in registry[d] /\ y \in registry[d]
    BY <2>1 DEF OneEntryPerIdentity
  <2>2. CASE ~(x \in registry[d] /\ y \in registry[d])
    <3>1. d = q /\ ok
      BY <1>5, <2>2
    <3>2. (x \in registry[q] \/ x = p) /\ (y \in registry[q] \/ y = p)
      BY <1>5, <3>1
    <3>3. \A r \in registry[q] : componentID[r] # componentID[p]
      BY <1>6, <3>1
    <3> QED
      BY <2>2, <3>1, <3>2, <3>3
  <2> QED
    BY <2>1, <2>2
<1> QED
  BY <1>1, <1>4, <1>5, <1>7 DEF ListsKept, Running

LEMMA CBRegisterKeeps ==
    ASSUME IInv, OneEntryPerIdentity, NEW p \in Processes, NEW q \in Processes,
           OnCBRegisterServer(p, q)
    PROVE  NoneSent /\ ListsKept
<1>1. Arrived(p, q, "CBRegisterServer") /\ ~Dbmgr(q) /\ Takes(p, q)
  BY CBRegisterFacts
<1>2. msgs[<<p, q>>] # <<>> /\ Running(q)
  BY <1>1 DEF Arrived
<1>3. NoneSent
  BY <1>1, <1>2 DEF NoneSent, NoRangeSent, Takes
<1>4. \A r \in Processes : r # q => registry'[r] = registry[r] /\ phase'[r] = phase[r]
  BY TypeFacts DEF IInv, OnCBRegisterServer
<1>5. phase[q] # "off" /\ phase'[q] # "off"
  BY <1>2, TypeFacts DEF IInv, OnCBRegisterServer, Running
<1>6. OneEntryPerIdentity'
  BY <1>1, <1>4 DEF OneEntryPerIdentity
<1> QED
  BY <1>1, <1>2, <1>3, <1>4, <1>5, <1>6 DEF ListsKept, Running

LEMMA GetEntityAppKeeps ==
    ASSUME IInv, OneEntryPerIdentity, NEW p \in Processes, NEW q \in Processes,
           OnGetEntityApp(p, q)
    PROVE  NoneSent /\ ListsKept
<1>1. /\ phase' = phase /\ registry' = registry
      /\ msgs'[<<p, q>>] = Tail(msgs[<<p, q>>])
  BY GetEntityAppFacts
<1>2. PICK new \in Processes \ {q} : ConnectsTo(p, q, new)
  BY GetEntityAppFacts
<1>3. msgs[<<p, q>>] # <<>>
  BY DEF OnGetEntityApp, Arrived
<1>4. NoneSent
  <2> SUFFICES ASSUME NEW r \in Processes, NEW s \in Processes
               PROVE  NoRangeSent(r, s)
    BY DEF NoneSent
  <2>1. CASE r = p /\ s = q
    BY <1>1, <1>3, <2>1 DEF NoRangeSent
  <2>2. CASE r = q /\ s = new
    BY <1>2, <2>2, NotRanges DEF NoRangeSent, ConnectsTo
  <2>3. CASE (r # p \/ s # q) /\ (r # q \/ s # new)
    BY <1>2, <2>3 DEF NoRangeSent, ConnectsTo
  <2> QED
    BY <2>1, <2>2, <2>3
<1> QED
  BY <1>1, <1>4, SameLists

-----------------------------------------------------------------------------
(***************************************************************************)
(* Steps that give no new range to anyone                                  *)
(***************************************************************************)

LEMMA RangeTypes ==
    ASSUME IInv, NEW p \in Processes
    PROVE  /\ idRange[p] \in IdRange
           /\ id_list[p] \in Seq(IdRange)
           /\ Kept(p) \subseteq IdRange
           /\ Coming(p) \subseteq IdRange
           /\ handedOut[p] \subseteq Nat
           /\ last_id_range_begin \in Nat
<1>1. StartupTypeOK
  BY DEF IInv
<1>2. id_list[p] \in Seq(IdRange)
  BY <1>1, TypeFacts
<1>3. \A q \in Processes : msgs[<<q, p>>] \in Seq(Messages)
  BY <1>1, TypeFacts DEF Queues
<1>4. Kept(p) \subseteq IdRange
  BY <1>2, ContentsType DEF Kept
<1>5. Coming(p) \subseteq IdRange
  BY <1>3, RangesInType DEF Coming
<1> QED
  BY <1>1, <1>2, <1>4, <1>5, TypeFacts

LEMMA ComingShrinks ==
    ASSUME IInv, NoneSent, NEW p \in Processes, Ascends(p)
    PROVE  /\ Coming(p)' \subseteq Coming(p)
           /\ \A q \in Processes : QueueAscends(msgs'[<<q, p>>])
<1>1. \A q \in Processes :
        /\ RangesIn(msgs'[<<q, p>>]) \subseteq RangesIn(msgs[<<q, p>>])
        /\ QueueAscends(msgs'[<<q, p>>])
  BY NoneSentRanges DEF Ascends
<1> QED
  BY <1>1 DEF Coming

\* A process whose IDClient does nothing.
LEMMA IdleAscends ==
    ASSUME IInv, NoneSent, NEW p \in Processes, Ascends(p),
           last_id_range_begin' = last_id_range_begin,
           idRange'[p] = idRange[p], id_list'[p] = id_list[p], handedOut'[p] = handedOut[p]
    PROVE  /\ Ascends(p)'
           /\ Owned(p)' \subseteq Owned(p)
           /\ HasRange(p)' => HasRange(p) \/ p \in reported'
<1>1. /\ Coming(p)' \subseteq Coming(p)
      /\ \A q \in Processes : QueueAscends(msgs'[<<q, p>>])
  BY ComingShrinks
<1>2. Kept(p)' = Kept(p)
  BY DEF Kept
<1>3. Ascends(p)'
  BY <1>1, <1>2 DEF Ascends
<1>4. Owned(p)' \subseteq Owned(p)
  BY <1>1, <1>2 DEF Owned
<1>5. HasRange(p)' => HasRange(p) \/ p \in reported'
  BY <1>1, <1>2 DEF HasRange
<1> QED
  BY <1>3, <1>4, <1>5

LEMMA ApartKept ==
    ASSUME OwnedApart, \A p \in Processes : Owned(p)' \subseteq Owned(p)
    PROVE  OwnedApart'
BY DEF OwnedApart

LEMMA HoldersKept ==
    ASSUME RangesRegistered, OneRangePerIdentity, ListsKept,
           \A p \in Processes : HasRange(p)' => HasRange(p)
    PROVE  RangesRegistered' /\ OneRangePerIdentity'
<1>1. \A p \in Processes : HasRange(p)' =>
         /\ HasRange(p) /\ phase[p] # "off" /\ phase'[p] # "off"
         /\ Running(p)' => Running(p)
  BY DEF RangesRegistered, ListsKept
<1>2. \A d, p \in Processes :
         Dbmgr(d) /\ HasRange(p)' =>
            phase'[d] # "off" /\ (Running(p)' /\ Running(d)' => p \in registry'[d])
  BY <1>1 DEF RangesRegistered, ListsKept
<1>3. OneRangePerIdentity'
  BY <1>1 DEF OneRangePerIdentity
<1>4. RangesRegistered'
  BY <1>1, <1>2 DEF RangesRegistered
<1> QED
  BY <1>3, <1>4

\* What size() finds: the range in use, and those kept behind it.
LEMMA InUse ==
    ASSUME IInv, NEW p \in Processes, Ascends(p)
    PROVE  /\ RangeInUse(p) \in IdRange /\ RangesKept(p) \in Seq(IdRange)
           /\ RangeInUse(p) \in {idRange[p]} \cup Kept(p)
           /\ Contents(RangesKept(p)) \subseteq Kept(p)
           /\ ListAscends(RangesKept(p))
           /\ \A x \in handedOut[p] : x < RangeInUse(p)[1]
           /\ RangeInUse(p)[1] <= RangeInUse(p)[2]
           /\ RangeInUse(p)[2] <= last_id_range_begin
           /\ \A r \in Contents(RangesKept(p)) \cup Coming(p) : RangeInUse(p)[2] <= r[1]
           /\ size(p) = 0 => RangesKept(p) = <<>>
           /\ size(p) # 0 => HasRange(p) /\ RangeInUse(p)[1] < RangeInUse(p)[2]
<1>1. /\ idRange[p] \in IdRange /\ id_list[p] \in Seq(IdRange)
      /\ Kept(p) \subseteq IdRange /\ Coming(p) \subseteq IdRange
      /\ handedOut[p] \subseteq Nat
      /\ last_id_range_begin \in Nat
  BY RangeTypes
<1>2. CASE TakesNext(p)
  <2>1. RangeInUse(p) = Head(id_list[p]) /\ RangesKept(p) = Tail(id_list[p])
    BY <1>2 DEF RangeInUse, RangesKept
  <2>2. id_list[p] # <<>> /\ ListAscends(id_list[p])
    BY <1>2 DEF TakesNext, Ascends
  <2>3. /\ Head(id_list[p]) \in IdRange /\ Tail(id_list[p]) \in Seq(IdRange)
        /\ Kept(p) = {Head(id_list[p])} \cup Contents(Tail(id_list[p]))
    BY <1>1, <2>2, ContentsTail DEF Kept
  <2>4. /\ ListAscends(Tail(id_list[p]))
        /\ \A r \in Contents(Tail(id_list[p])) : Head(id_list[p])[2] <= r[1]
    BY <1>1, <2>2, ListAscendsTail
  <2>5. /\ idRange[p][1] \in Nat /\ idRange[p][2] \in Nat
        /\ Head(id_list[p])[1] \in Nat /\ Head(id_list[p])[2] \in Nat
    BY <1>1, <2>3 DEF IdRange
  <2>6. /\ idRange[p][1] <= idRange[p][2]
        /\ idRange[p][2] <= Head(id_list[p])[1]
        /\ Head(id_list[p])[1] < Head(id_list[p])[2]
        /\ Head(id_list[p])[2] <= last_id_range_begin
        /\ \A t \in Coming(p) : Head(id_list[p])[2] <= t[1]
    BY <2>3 DEF Ascends
  <2>7. \A x \in handedOut[p] : x < Head(id_list[p])[1]
    <3>1. \A x \in handedOut[p] : x \in Nat /\ x < idRange[p][1]
      BY <1>1 DEF Ascends
    <3> QED
      BY <2>5, <2>6, <3>1
  <2>8. size(p) # 0 /\ HasRange(p)
    <3>1. size(p) = Head(id_list[p])[2] - Head(id_list[p])[1]
      BY <2>1 DEF size
    <3>2. HasRange(p)
      BY <2>3 DEF HasRange
    <3> QED
      BY <2>5, <2>6, <3>1, <3>2
  <2> QED
    BY <1>1, <2>1, <2>3, <2>4, <2>5, <2>6, <2>7, <2>8
<1>3. CASE ~TakesNext(p)
  <2>1. RangeInUse(p) = idRange[p] /\ RangesKept(p) = id_list[p]
    BY <1>3 DEF RangeInUse, RangesKept
  <2>2. idRange[p][1] \in Nat /\ idRange[p][2] \in Nat /\ size(p) = idRange[p][2] - idRange[p][1]
    BY <1>1, <2>1 DEF IdRange, size
  <2>3. size(p) = 0 => id_list[p] = <<>>
    BY <1>3, <2>2 DEF TakesNext, Exhausted
  <2>4. size(p) # 0 => HasRange(p) /\ idRange[p][1] < idRange[p][2]
    BY <2>2 DEF HasRange, Ascends
  <2> QED
    BY <1>1, <2>1, <2>3, <2>4 DEF Ascends, Kept
<1> QED
  BY <1>2, <1>3

\* size(), alloc and onAddRange keep the ranges of a process in order, and bring no id
\* that was not its own already.
LEMMA CheckSizeAscends ==
    ASSUME IInv, NoneSent, NEW p \in Processes, Ascends(p), CheckSize(p)
    PROVE  Ascends(p)' /\ Owned(p)' \subseteq Owned(p) /\ HasRange(p)
<1>1. /\ Coming(p)' \subseteq Coming(p)
      /\ \A q \in Processes : QueueAscends(msgs'[<<q, p>>])
  BY ComingShrinks
<1>2. /\ size(p) # 0
      /\ idRange'[p] = RangeInUse(p) /\ id_list'[p] = RangesKept(p)
      /\ handedOut' = handedOut /\ last_id_range_begin' = last_id_range_begin
  BY TypeFacts DEF IInv, CheckSize
<1>3. Kept(p)' = Contents(RangesKept(p))
  BY <1>2 DEF Kept
<1>4. /\ RangeInUse(p) \in {idRange[p]} \cup Kept(p)
      /\ Contents(RangesKept(p)) \subseteq Kept(p)
      /\ ListAscends(RangesKept(p))
      /\ \A x \in handedOut[p] : x < RangeInUse(p)[1]
      /\ RangeInUse(p)[1] <= RangeInUse(p)[2]
      /\ RangeInUse(p)[2] <= last_id_range_begin
      /\ \A r \in Contents(RangesKept(p)) \cup Coming(p) : RangeInUse(p)[2] <= r[1]
      /\ HasRange(p)
  BY <1>2, InUse
<1>5. Ascends(p)'
  BY <1>1, <1>2, <1>3, <1>4 DEF Ascends
<1>6. Owned(p)' \subseteq Owned(p)
  BY <1>1, <1>2, <1>3, <1>4 DEF Owned
<1> QED
  BY <1>4, <1>5, <1>6

LEMMA AllocAscends ==
    ASSUME IInv, NoneSent, NEW p \in Processes, Ascends(p), Alloc(p)
    PROVE  Ascends(p)' /\ Owned(p)' \subseteq Owned(p) /\ HasRange(p)
<1>1. /\ Coming(p)' \subseteq Coming(p)
      /\ \A q \in Processes : QueueAscends(msgs'[<<q, p>>])
  BY ComingShrinks
<1>2. PICK u \in IdRange : u = RangeInUse(p)
  BY InUse
<1>3. /\ size(p) # 0
      /\ idRange'[p] = <<u[1] + 1, u[2]>> /\ id_list'[p] = RangesKept(p)
      /\ handedOut'[p] = handedOut[p] \cup {u[1]}
      /\ last_id_range_begin' = last_id_range_begin
  BY <1>2, TypeFacts DEF IInv, Alloc
<1>4. Kept(p)' = Contents(RangesKept(p))
  BY <1>3 DEF Kept
<1>5. /\ u \in {idRange[p]} \cup Kept(p)
      /\ Contents(RangesKept(p)) \subseteq Kept(p)
      /\ ListAscends(RangesKept(p))
      /\ \A x \in handedOut[p] : x < u[1]
      /\ u[1] < u[2]
      /\ u[2] <= last_id_range_begin
      /\ \A r \in Contents(RangesKept(p)) \cup Coming(p) : u[2] <= r[1]
      /\ HasRange(p)
  BY <1>2, <1>3, InUse
<1>6. u[1] \in Nat /\ u[2] \in Nat /\ handedOut[p] \subseteq Nat
  BY RangeTypes DEF IdRange
<1>7. Ascends(p)'
  <2>1. \A x \in handedOut'[p] : x < u[1] + 1
    BY <1>3, <1>5, <1>6
  <2>2. idRange'[p][1] = u[1] + 1 /\ idRange'[p][2] = u[2] /\ u[1] + 1 <= u[2]
    BY <1>3, <1>5, <1>6
  <2> QED
    BY <1>1, <1>3, <1>4, <1>5, <2>1, <2>2 DEF Ascends
<1>8. Owned(p)' \subseteq Owned(p)
  <2>1. Ids(idRange'[p]) \subseteq Ids(u) /\ u[1] \in Ids(u)
    BY <1>3, <1>5, <1>6 DEF Ids
  <2> QED
    BY <1>1, <1>3, <1>4, <1>5, <2>1 DEF Owned
<1> QED
  BY <1>5, <1>7, <1>8

LEMMA AddRangeAscends ==
    ASSUME IInv, NoneSent, NEW p \in Processes, Ascends(p), NEW r \in Coming(p),
           OnAddRange(p, r), \A t \in Coming(p)' : r[2] <= t[1]
    PROVE  Ascends(p)' /\ Owned(p)' \subseteq Owned(p) /\ HasRange(p)
<1>1. /\ Coming(p)' \subseteq Coming(p)
      /\ \A q \in Processes : QueueAscends(msgs'[<<q, p>>])
  BY ComingShrinks
<1>2. r \in IdRange /\ r[1] \in Nat /\ r[2] \in Nat
  BY RangeTypes DEF IdRange
<1>3. handedOut' = handedOut /\ last_id_range_begin' = last_id_range_begin
  BY DEF OnAddRange
<1>4. /\ RangeInUse(p) \in {idRange[p]} \cup Kept(p)
      /\ RangesKept(p) \in Seq(IdRange)
      /\ Contents(RangesKept(p)) \subseteq Kept(p)
      /\ ListAscends(RangesKept(p))
      /\ \A x \in handedOut[p] : x < RangeInUse(p)[1]
      /\ RangeInUse(p)[1] <= RangeInUse(p)[2]
      /\ RangeInUse(p)[2] <= last_id_range_begin
      /\ \A t \in Contents(RangesKept(p)) \cup Coming(p) : RangeInUse(p)[2] <= t[1]
      /\ size(p) = 0 => RangesKept(p) = <<>>
  BY InUse
<1>5. r[1] < r[2] /\ r[2] <= last_id_range_begin /\ \A t \in Kept(p) : t[2] <= r[1]
  BY DEF Ascends
<1>6. HasRange(p)
  BY DEF HasRange
<1>7. CASE size(p) = 0
  <2>1. idRange'[p] = r /\ id_list'[p] = <<>>
    BY <1>4, <1>7, TypeFacts DEF IInv, OnAddRange
  <2>2. Kept(p)' = {}
    BY <2>1 DEF Kept, Contents
  <2>3. \A x \in handedOut[p] : x < r[1]
    <3>1. RangeInUse(p)[1] \in Nat /\ RangeInUse(p)[2] \in Nat /\ handedOut[p] \subseteq Nat
      BY InUse, RangeTypes DEF IdRange
    <3> QED
      BY <1>2, <1>4, <3>1
  <2>4. Ascends(p)'
    BY <1>1, <1>2, <1>3, <1>5, <2>1, <2>2, <2>3, RangesInEmpty DEF Ascends
  <2>5. Owned(p)' \subseteq Owned(p)
    BY <1>1, <1>3, <2>1, <2>2 DEF Owned
  <2> QED
    BY <1>6, <2>4, <2>5
<1>8. CASE size(p) # 0
  <2>1. idRange'[p] = RangeInUse(p) /\ id_list'[p] = Append(RangesKept(p), r)
    BY <1>8, TypeFacts DEF IInv, OnAddRange
  <2>2. Kept(p)' = Contents(RangesKept(p)) \cup {r}
    BY <1>2, <1>4, <2>1, ContentsAppend DEF Kept
  <2>3. ListAscends(id_list'[p])
    BY <1>2, <1>4, <1>5, <2>1, ListAscendsAppend
  <2>4. Ascends(p)'
    BY <1>1, <1>3, <1>4, <1>5, <2>1, <2>2, <2>3 DEF Ascends
  <2>5. Owned(p)' \subseteq Owned(p)
    BY <1>1, <1>3, <1>4, <2>1, <2>2 DEF Owned
  <2> QED
    BY <1>6, <2>4, <2>5
<1> QED
  BY <1>7, <1>8

\* Steps in which no IDClient does anything, and in which the one of p does.
LEMMA IdleStep ==
    ASSUME IInv, IdsInv, NoneSent, ListsKept, UNCHANGED idVars, reported' = reported
    PROVE  IdsInv'
<1> USE DEF IdsInv
<1>1. \A p \in Processes :
        /\ Ascends(p)'
        /\ Owned(p)' \subseteq Owned(p)
        /\ HasRange(p)' => HasRange(p)
  <2> SUFFICES ASSUME NEW p \in Processes
               PROVE  /\ Ascends(p)'
                      /\ Owned(p)' \subseteq Owned(p)
                      /\ HasRange(p)' => HasRange(p)
    OBVIOUS
  <2>1. /\ last_id_range_begin' = last_id_range_begin
        /\ idRange'[p] = idRange[p] /\ id_list'[p] = id_list[p] /\ handedOut'[p] = handedOut[p]
    BY DEF idVars
  <2>2. Ascends(p)
    BY DEF RangesAscend
  <2>3. p \in reported' => HasRange(p)
    BY DEF HasRange
  <2> QED
    BY <2>1, <2>2, <2>3, IdleAscends
<1>2. RangesAscend'
  BY <1>1 DEF RangesAscend
<1>3. OwnedApart'
  BY <1>1, ApartKept
<1>4. RangesRegistered' /\ OneRangePerIdentity'
  BY <1>1, HoldersKept
<1> QED
  BY <1>2, <1>3, <1>4 DEF ListsKept

LEMMA IdStep ==
    ASSUME IInv, IdsInv, NoneSent, ListsKept, NEW p \in Processes,
           Ascends(p)' /\ Owned(p)' \subseteq Owned(p) /\ HasRange(p),
           last_id_range_begin' = last_id_range_begin,
           \A r \in Processes \ {p} :
              idRange'[r] = idRange[r] /\ id_list'[r] = id_list[r]
                /\ handedOut'[r] = handedOut[r],
           reported' \subseteq reported \cup {p}
    PROVE  IdsInv'
<1> USE DEF IdsInv
<1>1. \A r \in Processes \ {p} :
        /\ Ascends(r)'
        /\ Owned(r)' \subseteq Owned(r)
        /\ HasRange(r)' => HasRange(r)
  <2> SUFFICES ASSUME NEW r \in Processes, r # p
               PROVE  /\ Ascends(r)'
                      /\ Owned(r)' \subseteq Owned(r)
                      /\ HasRange(r)' => HasRange(r)
    OBVIOUS
  <2>1. idRange'[r] = idRange[r] /\ id_list'[r] = id_list[r] /\ handedOut'[r] = handedOut[r]
    OBVIOUS
  <2>2. Ascends(r)
    BY DEF RangesAscend
  <2>3. r \in reported' => HasRange(r)
    BY DEF HasRange
  <2> QED
    BY <2>1, <2>2, <2>3, IdleAscends
<1>2. RangesAscend'
  BY <1>1 DEF RangesAscend
<1>3. OwnedApart'
  BY <1>1, ApartKept
<1>4. RangesRegistered' /\ OneRangePerIdentity'
  BY <1>1, HoldersKept
<1> QED
  BY <1>2, <1>3, <1>4 DEF ListsKept

LEMMA QuietKeeps ==
    ASSUME IInv, NEW p \in Processes, NEW q \in Processes,
           NEW type \in {"onDbmgrInitCompleted", "onBaseappInitProgress"},
           Arrived(p, q, type), msgs' = Taken(p, q)
    PROVE  /\ NoneSent
           /\ msgs[<<p, q>>] # <<>>
           /\ msgs'[<<p, q>>] = Tail(msgs[<<p, q>>])
           /\ \A r, s \in Processes : r # p \/ s # q => msgs'[<<r, s>>] = msgs[<<r, s>>]
<1>1. msgs \in Queues /\ msgs[<<p, q>>] # <<>>
  BY ArrivedFacts
<1>2. /\ Taken(p, q)[<<p, q>>] = Tail(msgs[<<p, q>>])
      /\ \A r, s \in Processes : r # p \/ s # q => Taken(p, q)[<<r, s>>] = msgs[<<r, s>>]
  BY <1>1, TakenQueues
<1> QED
  BY <1>1, <1>2 DEF NoneSent, NoRangeSent

LEMMA InitCompletedKeeps ==
    ASSUME IInv, IdsInv, NEW p \in Processes, NEW q \in Processes, OnDbmgrInitCompleted(p, q)
    PROVE  IdsInv'
<1>1. /\ Arrived(p, q, "onDbmgrInitCompleted")
      /\ msgs' = Taken(p, q)
      /\ phase' = phase /\ registry' = registry /\ reported' = reported
  BY DEF OnDbmgrInitCompleted
<1>2. /\ NoneSent
      /\ msgs[<<p, q>>] # <<>>
      /\ msgs'[<<p, q>>] = Tail(msgs[<<p, q>>])
      /\ \A r, s \in Processes : r # p \/ s # q => msgs'[<<r, s>>] = msgs[<<r, s>>]
  BY <1>1, QuietKeeps
<1>3. ListsKept
  BY <1>1, SameLists DEF IdsInv
<1>4. CASE Baseapp(q)
  <2>1. PICK r : r = Head(msgs[<<p, q>>]).range
    OBVIOUS
  <2>2. OnAddRange(q, r)
    BY <1>4, <2>1 DEF OnDbmgrInitCompleted
  <2>3. /\ msgs[<<p, q>>] \in Seq(Messages)
        /\ IsRange(Head(msgs[<<p, q>>]))
        /\ Dbmgr(p)
    BY <1>1, ArrivedFacts DEF IsRange, Fits
  <2>4. Ascends(q) /\ QueueAscends(msgs[<<p, q>>])
    BY DEF IdsInv, RangesAscend, Ascends
  <2>5. /\ r \in RangesIn(msgs[<<p, q>>])
        /\ \A t \in RangesIn(msgs'[<<p, q>>]) : r[2] <= t[1]
    BY <1>2, <2>1, <2>3, <2>4, RangesInTail
  <2>6. r \in Coming(q)
    BY <2>5 DEF Coming
  \* Only dbmgr gives ranges, and there is one.
  <2>7. \A s \in Processes : s # p => RangesIn(msgs'[<<s, q>>]) = {}
    <3> SUFFICES ASSUME NEW s \in Processes, s # p, NEW i \in DOMAIN msgs[<<s, q>>],
                        IsRange(msgs[<<s, q>>][i])
                 PROVE  FALSE
      BY <1>2 DEF RangesIn
    <3>1. msgs[<<s, q>>][i] \in Contents(msgs[<<s, q>>])
      BY DEF Contents
    <3>2. Dbmgr(s)
      BY <3>1 DEF IInv, SendersFit, Fits, IsRange
    <3> QED
      BY <2>3, <3>2, OneDbmgr DEF Dbmgr
  <2>8. \A t \in Coming(q)' : r[2] <= t[1]
    BY <2>5, <2>7 DEF Coming
  <2>9. Ascends(q)' /\ Owned(q)' \subseteq Owned(q) /\ HasRange(q)
    BY <1>2, <2>2, <2>4, <2>6, <2>8, AddRangeAscends
  <2>10. /\ last_id_range_begin' = last_id_range_begin
         /\ \A s \in Processes \ {q} :
               idRange'[s] = idRange[s] /\ id_list'[s] = id_list[s] /\ handedOut'[s] = handedOut[s]
    BY <2>2, TypeFacts DEF OnAddRange, IInv
  <2> QED
    BY <1>1, <1>2, <1>3, <2>9, <2>10, IdStep
<1>5. CASE ~Baseapp(q)
  <2>1. UNCHANGED idVars
    BY <1>5 DEF OnDbmgrInitCompleted
  <2> QED
    BY <1>1, <1>2, <1>3, <2>1, IdleStep
<1> QED
  BY <1>4, <1>5

LEMMA BaseappInitKeeps ==
    ASSUME IInv, IdsInv, NEW p \in Processes, NEW q \in Processes, OnBaseappInitProgress(p, q)
    PROVE  IdsInv'
<1>1. /\ Arrived(p, q, "onBaseappInitProgress")
      /\ msgs' = Taken(p, q)
      /\ phase' = phase /\ registry' = registry /\ reported' = reported
      /\ UNCHANGED idVars
  BY DEF OnBaseappInitProgress
<1>2. NoneSent
  BY <1>1, QuietKeeps
<1>3. ListsKept
  BY <1>1, SameLists DEF IdsInv
<1> QED
  BY <1>1, <1>2, <1>3, IdleStep

LEMMA InitProgressKeeps ==
    ASSUME IInv, IdsInv, NEW p \in Processes, InitProgress(p)
    PROVE  IdsInv'
<1>1. /\ CheckSize(p)
      /\ reported' = reported \cup {p}
      /\ phase' = phase /\ registry' = registry
  BY DEF InitProgress
<1>2. NoneSent
  <2>1. PICK mgrs : mgrs = OfType(p, BASEAPPMGR_TYPE)
    OBVIOUS
  <2>2. msgs' = Sent(msgs, p, mgrs, [q \in mgrs |-> BaseappInitProgress])
    BY <2>1 DEF InitProgress
  <2>3. \A r, s \in Processes :
          msgs'[<<r, s>>] \in {msgs[<<r, s>>], Append(msgs[<<r, s>>], BaseappInitProgress)}
    BY <2>2 DEF Sent
  <2> QED
    BY <2>3, NotRanges DEF NoneSent, NoRangeSent
<1>3. ListsKept
  BY <1>1, SameLists DEF IdsInv
<1>4. Ascends(p)
  BY DEF IdsInv, RangesAscend
<1>5. Ascends(p)' /\ Owned(p)' \subseteq Owned(p) /\ HasRange(p)
  BY <1>1, <1>2, <1>4, CheckSizeAscends
<1>6. /\ last_id_range_begin' = last_id_range_begin
      /\ \A s \in Processes \ {p} :
            idRange'[s] = idRange[s] /\ id_list'[s] = id_list[s] /\ handedOut'[s] = handedOut[s]
  BY <1>1, TypeFacts DEF CheckSize, IInv
<1> QED
  BY <1>1, <1>2, <1>3, <1>5, <1>6, IdStep

LEMMA LoginKeeps ==
    ASSUME IInv, IdsInv, NEW p \in Processes, LoginBaseapp(p)
    PROVE  IdsInv'
<1>1. /\ Alloc(p)
      /\ reported' = reported /\ phase' = phase /\ registry' = registry /\ msgs' = msgs
  BY DEF LoginBaseapp, compVars
<1>2. NoneSent
  BY <1>1 DEF NoneSent, NoRangeSent
<1>3. ListsKept
  BY <1>1, SameLists DEF IdsInv
<1>4. Ascends(p)
  BY DEF IdsInv, RangesAscend
<1>5. Ascends(p)' /\ Owned(p)' \subseteq Owned(p) /\ HasRange(p)
  BY <1>1, <1>2, <1>4, AllocAscends
<1>6. /\ last_id_range_begin' = last_id_range_begin
      /\ \A s \in Processes \ {p} :
            idRange'[s] = idRange[s] /\ id_list'[s] = id_list[s] /\ handedOut'[s] = handedOut[s]
  BY <1>1, TypeFacts DEF Alloc, IInv
<1> QED
  BY <1>1, <1>2, <1>3, <1>5, <1>6, IdStep

-----------------------------------------------------------------------------
(***************************************************************************)
(* New ranges                                                              *)
(***************************************************************************)

\* The ranges that n calls of allocRange cut off, from b on.
LEMMA RangesInTurn ==
    ASSUME NEW b \in Nat, NEW n \in Nat
    PROVE  /\ b + n * range_step \in Nat /\ b <= b + n * range_step
           /\ \A i \in 1 .. n :
                 /\ b + (i - 1) * range_step \in Nat
                 /\ b + i * range_step \in Nat
                 /\ b <= b + (i - 1) * range_step
                 /\ b + (i - 1) * range_step < b + i * range_step
                 /\ b + i * range_step <= b + n * range_step
           /\ \A i, j \in 1 .. n : i < j => b + i * range_step <= b + (j - 1) * range_step
<1>1. PICK s \in Nat \ {0} : s = range_step
  BY IdsAssumption
<1>2. \A i \in Nat : i * s \in Nat
  BY <1>1
<1>3. \A i, j \in Nat : i <= j => i * s <= j * s
  BY <1>1
<1>4. \A i \in 1 .. n : i * s = (i - 1) * s + s
  BY <1>1
<1>5. n * s \in Nat
  BY <1>2
<1>6. \A i \in 1 .. n : (i - 1) * s \in Nat /\ i * s \in Nat /\ i * s <= n * s
  BY <1>2, <1>3
<1>7. \A i, j \in 1 .. n : i < j => i * s <= (j - 1) * s
  BY <1>3
<1>8. \A i \in 1 .. n :
        /\ b + (i - 1) * s \in Nat
        /\ b + i * s \in Nat
        /\ b <= b + (i - 1) * s
        /\ b + (i - 1) * s < b + i * s
        /\ b + i * s <= b + n * s
  BY <1>1, <1>4, <1>5, <1>6
<1>9. \A i, j \in 1 .. n : i < j => b + i * s <= b + (j - 1) * s
  BY <1>6, <1>7
<1> QED
  BY <1>1, <1>5, <1>8, <1>9

\* What SyncAppDatas sends: to each p in new the range given[p], all of them behind
\* what has been given away, and no two of them sharing an id.
Gives(q, new, given) ==
    /\ new \subseteq registry[q]
    /\ given \in [new -> IdRange]
    /\ last_id_range_begin <= last_id_range_begin'
    /\ \A p \in new :
          /\ last_id_range_begin <= given[p][1]
          /\ given[p][1] < given[p][2]
          /\ given[p][2] <= last_id_range_begin'
    /\ \A p, r \in new : p # r => Ids(given[p]) \cap Ids(given[r]) = {}
    /\ \A r, s \in Processes :
          msgs'[<<r, s>>] = IF r = q /\ s \in new /\ ~Gone(s)
                            THEN Append(msgs[<<r, s>>], DbmgrInitCompleted(given[s]))
                            ELSE msgs[<<r, s>>]

LEMMA SyncAppDatasFacts ==
    ASSUME IInv, NEW q \in Processes, SyncAppDatas(q)
    PROVE  \E new \in SUBSET Processes : \E given : Gives(q, new, given)
<1>1. StartupTypeOK
  BY DEF IInv
<1>2. PICK new : new = NewApps(q)
  OBVIOUS
<1>3. new \in SUBSET Processes /\ new \subseteq registry[q]
  BY <1>1, <1>2, TypeFacts DEF NewApps
<1>4. Cardinality(new) \in Nat
  BY <1>3, ProcessesAssumption, FS_Subset, FS_CardinalityType
<1>5. PICK n \in Nat : n = Cardinality(new)
  BY <1>4
<1>6. PICK b \in Nat : b = last_id_range_begin
  BY <1>1, TypeFacts
<1>7. /\ last_id_range_begin' = b + n * range_step
      /\ \E turn \in [new -> 1 .. n] :
            /\ \A p, r \in new : turn[p] = turn[r] => p = r
            /\ msgs' = Sent(msgs, q, new, [p \in new |-> DbmgrInitCompleted(NthRange(turn[p]))])
  BY <1>2, <1>5, <1>6 DEF SyncAppDatas, AllocRanges
<1>8. PICK turn \in [new -> 1 .. n] :
        /\ \A p, r \in new : turn[p] = turn[r] => p = r
        /\ msgs' = Sent(msgs, q, new, [p \in new |-> DbmgrInitCompleted(NthRange(turn[p]))])
  BY <1>7
<1>9. PICK given : given = [p \in new |-> <<b + (turn[p] - 1) * range_step,
                                            b + turn[p] * range_step>>]
  OBVIOUS
<1>10. \A p \in new : turn[p] \in 1 .. n /\ given[p] = NthRange(turn[p])
  BY <1>6, <1>8, <1>9 DEF NthRange
<1>11. /\ b + n * range_step \in Nat /\ b <= b + n * range_step
       /\ \A i \in 1 .. n :
             /\ b + (i - 1) * range_step \in Nat
             /\ b + i * range_step \in Nat
             /\ b <= b + (i - 1) * range_step
             /\ b + (i - 1) * range_step < b + i * range_step
             /\ b + i * range_step <= b + n * range_step
       /\ \A i, j \in 1 .. n : i < j => b + i * range_step <= b + (j - 1) * range_step
  BY RangesInTurn
<1>12. \A p \in new : given[p] \in IdRange
  BY <1>8, <1>9, <1>11 DEF IdRange
<1>13. given \in [new -> IdRange]
  BY <1>9, <1>12
<1>14. \A p \in new : b <= given[p][1] /\ given[p][1] < given[p][2] /\ given[p][2] <= b + n * range_step
  BY <1>8, <1>9, <1>11
<1>15. ASSUME NEW p \in new, NEW r \in new, p # r
       PROVE  Ids(given[p]) \cap Ids(given[r]) = {}
  <2>1. /\ given[p][1] \in Nat /\ given[p][2] \in Nat
        /\ given[r][1] \in Nat /\ given[r][2] \in Nat
    BY <1>12 DEF IdRange
  <2>2. PICK i \in 1 .. n, j \in 1 .. n : i = turn[p] /\ j = turn[r]
    BY <1>8
  <2>3. i < j \/ j < i
    BY <1>8, <1>15, <2>2
  <2>4. /\ given[p][1] = b + (i - 1) * range_step /\ given[p][2] = b + i * range_step
        /\ given[r][1] = b + (j - 1) * range_step /\ given[r][2] = b + j * range_step
    BY <1>9, <2>2
  <2>5. given[p][2] <= given[r][1] \/ given[r][2] <= given[p][1]
    BY <1>11, <2>3, <2>4
  <2> QED
    BY <2>1, <2>5 DEF Ids
<1>16. \A r, s \in Processes :
          msgs'[<<r, s>>] = IF r = q /\ s \in new /\ ~Gone(s)
                            THEN Append(msgs[<<r, s>>], DbmgrInitCompleted(given[s]))
                            ELSE msgs[<<r, s>>]
  BY <1>8, <1>10 DEF Sent
<1>17. Gives(q, new, given)
  <2>1. last_id_range_begin <= last_id_range_begin'
    BY <1>6, <1>7, <1>11
  <2>2. \A p \in new :
          /\ last_id_range_begin <= given[p][1]
          /\ given[p][1] < given[p][2]
          /\ given[p][2] <= last_id_range_begin'
    BY <1>6, <1>7, <1>14
  <2> QED
    BY <1>3, <1>13, <1>15, <1>16, <2>1, <2>2 DEF Gives
<1> QED
  BY <1>3, <1>17

LEMMA GivesRanges ==
    ASSUME IInv, RangesAscend, NEW q \in Processes, NEW new \in SUBSET Processes, NEW given,
           Gives(q, new, given), idRange' = idRange, id_list' = id_list, handedOut' = handedOut,
           last_id_range_begin' \in Nat, NEW p \in Processes
    PROVE  /\ Ascends(p)'
           /\ p \notin new => Owned(p)' = Owned(p) /\ Coming(p)' = Coming(p)
           /\ p \in new => Owned(p)' \subseteq Owned(p) \cup Ids(given[p])
<1>1. Ascends(p)
  BY DEF RangesAscend
<1>2. Kept(p)' = Kept(p)
  BY DEF Kept
<1>3. /\ idRange[p] \in IdRange /\ id_list[p] \in Seq(IdRange)
      /\ Kept(p) \subseteq IdRange /\ Coming(p) \subseteq IdRange
      /\ last_id_range_begin \in Nat
  BY RangeTypes
<1>4. last_id_range_begin <= last_id_range_begin'
  BY DEF Gives
<1>5. CASE p \in new /\ ~Gone(p)
  <2>1. /\ given[p] \in IdRange
        /\ last_id_range_begin <= given[p][1]
        /\ given[p][1] < given[p][2]
        /\ given[p][2] <= last_id_range_begin'
        /\ msgs'[<<q, p>>] = Append(msgs[<<q, p>>], DbmgrInitCompleted(given[p]))
        /\ \A r \in Processes : r # q => msgs'[<<r, p>>] = msgs[<<r, p>>]
    BY <1>5 DEF Gives
  <2>2. PICK m \in Messages : m = DbmgrInitCompleted(given[p])
    BY <2>1, MessageTypes
  <2>3. IsRange(m) /\ m.range = given[p]
    BY <2>2 DEF IsRange, DbmgrInitCompleted
  <2>4. msgs[<<q, p>>] \in Seq(Messages) /\ QueueAscends(msgs[<<q, p>>])
    BY <1>1, TypeFacts DEF IInv, Queues, Ascends
  <2>5. RangesIn(msgs'[<<q, p>>]) = RangesIn(msgs[<<q, p>>]) \cup {given[p]}
    BY <2>1, <2>2, <2>3, <2>4, RangesInAppend
  <2>6. Coming(p)' = Coming(p) \cup {given[p]}
    BY <2>1, <2>5 DEF Coming
  <2>7. RangesIn(msgs[<<q, p>>]) \subseteq Coming(p)
    BY DEF Coming
  <2>8. given[p][1] \in Nat /\ given[p][2] \in Nat
    BY <2>1 DEF IdRange
  <2>9. \A r \in {idRange[p]} \cup Kept(p) \cup Coming(p) : r[2] \in Nat /\ r[2] <= last_id_range_begin
    BY <1>1, <1>3 DEF Ascends, IdRange
  <2>10. \A r \in {idRange[p]} \cup Kept(p) \cup Coming(p) :
           r[2] <= given[p][1] /\ r[2] <= last_id_range_begin'
    BY <1>3, <1>4, <2>1, <2>8, <2>9
  <2>11. QueueAscends(msgs'[<<q, p>>])
    BY <2>1, <2>2, <2>3, <2>4, <2>7, <2>10, RangesInAppend
  <2>12. \A r \in Processes : QueueAscends(msgs'[<<r, p>>])
    BY <1>1, <2>1, <2>11 DEF Ascends
  <2>13. Ascends(p)'
    BY <1>1, <1>2, <2>1, <2>6, <2>10, <2>12 DEF Ascends
  <2>14. Owned(p)' \subseteq Owned(p) \cup Ids(given[p])
    BY <1>2, <2>6 DEF Owned
  <2> QED
    BY <1>5, <2>13, <2>14
<1>6. CASE ~(p \in new /\ ~Gone(p))
  <2>1. \A r \in Processes : msgs'[<<r, p>>] = msgs[<<r, p>>]
    BY <1>6 DEF Gives
  <2>2. Coming(p)' = Coming(p)
    BY <2>1 DEF Coming
  <2>3. \A r \in {idRange[p]} \cup Kept(p) \cup Coming(p) : r[2] <= last_id_range_begin'
    BY <1>1, <1>3, <1>4 DEF Ascends, IdRange
  <2>4. Ascends(p)'
    BY <1>1, <1>2, <2>1, <2>2, <2>3 DEF Ascends
  <2>5. Owned(p)' = Owned(p)
    BY <1>2, <2>2 DEF Owned
  <2> QED
    BY <2>2, <2>4, <2>5
<1> QED
  BY <1>5, <1>6

\* What is owned has been given away.
LEMMA OwnedBelow ==
    ASSUME IInv, RangesAscend, NEW p \in Processes, NEW x \in Owned(p)
    PROVE  x \in Int /\ x < last_id_range_begin
<1>1. Ascends(p)
  BY DEF RangesAscend
<1>2. /\ idRange[p] \in IdRange
      /\ Kept(p) \subseteq IdRange /\ Coming(p) \subseteq IdRange
      /\ handedOut[p] \subseteq Nat
      /\ last_id_range_begin \in Nat
  BY RangeTypes
<1>3. CASE x \in handedOut[p]
  BY <1>1, <1>2, <1>3 DEF Ascends, IdRange
<1>4. ASSUME NEW r \in {idRange[p]} \cup Kept(p) \cup Coming(p), x \in Ids(r)
      PROVE  x \in Int /\ x < last_id_range_begin
  <2>1. r[1] \in Nat /\ r[2] \in Nat /\ r[2] <= last_id_range_begin
    BY <1>1, <1>2 DEF Ascends, IdRange
  <2> QED
    BY <1>2, <1>4, <2>1 DEF Ids
<1> QED
  BY <1>3, <1>4 DEF Owned

LEMMA SyncAppDatasKeeps ==
    ASSUME IInv, IdsInv, NEW q \in Processes, SyncAppDatas(q), last_id_range_begin' \in Nat
    PROVE  IdsInv'
<1> USE DEF IdsInv
<1>1. /\ Dbmgr(q) /\ Running(q)
      /\ phase' = phase /\ registry' = registry /\ reported' = reported
      /\ idRange' = idRange /\ id_list' = id_list /\ handedOut' = handedOut
  BY DEF SyncAppDatas
<1>2. PICK new \in SUBSET Processes : \E given : Gives(q, new, given)
  BY SyncAppDatasFacts
<1>3. PICK given : Gives(q, new, given)
  BY <1>2
<1>4. \A p \in Processes :
        /\ Ascends(p)'
        /\ p \notin new => Owned(p)' = Owned(p) /\ Coming(p)' = Coming(p)
        /\ p \in new => Owned(p)' \subseteq Owned(p) \cup Ids(given[p])
  BY <1>1, <1>3, GivesRanges
<1>5. OwnedApart'
  <2> SUFFICES ASSUME NEW p \in Processes, NEW r \in Processes, p # r,
                      NEW x \in Owned(p)', x \in Owned(r)'
               PROVE  FALSE
    BY DEF OwnedApart
  <2>1. \A s \in Processes : x \in Owned(s) => x \in Int /\ x < last_id_range_begin
    BY OwnedBelow
  <2>2. \A s \in new : x \in Ids(given[s]) => ~(x < last_id_range_begin)
    <3>1. last_id_range_begin \in Nat
      BY TypeFacts DEF IInv
    <3>2. \A s \in new : given[s] \in IdRange /\ last_id_range_begin <= given[s][1]
      BY <1>3 DEF Gives
    <3> QED
      BY <3>1, <3>2 DEF Ids, IdRange
  <2>3. \A s \in {p, r} : x \in Owned(s) \/ (s \in new /\ x \in Ids(given[s]))
    BY <1>4
  <2>4. ~(x \in Owned(p) /\ x \in Owned(r))
    BY DEF OwnedApart
  <2>5. \A s, t \in new : s # t => ~(x \in Ids(given[s]) /\ x \in Ids(given[t]))
    BY <1>3 DEF Gives
  <2> QED
    BY <2>1, <2>2, <2>3, <2>4, <2>5
<1>6. \A p \in Processes : HasRange(p)' => HasRange(p) \/ p \in registry[q]
  <2>1. \A p \in Processes : Kept(p)' = Kept(p)
    BY <1>1 DEF Kept
  <2> QED
    BY <1>1, <1>3, <1>4, <2>1 DEF HasRange, Gives
<1>7. \A p \in Processes : HasRange(p)' => phase[p] # "off" /\ (Running(p) => p \in registry[q])
  BY <1>1, <1>6 DEF RangesRegistered, IInv, OnlyStartedAreKnown
<1>8. \A d \in Processes : Dbmgr(d) => d = q
  BY <1>1, OneDbmgr DEF Dbmgr
<1>9. \A p \in Processes : Running(p)' <=> Running(p)
  BY <1>1 DEF Running
<1>10. RangesRegistered'
  BY <1>1, <1>7, <1>8, <1>9 DEF RangesRegistered, Running
<1>11. OneEntryPerIdentity'
  BY <1>1 DEF OneEntryPerIdentity
<1>12. OneRangePerIdentity'
  BY <1>1, <1>7, <1>9 DEF OneRangePerIdentity, OneEntryPerIdentity
<1>13. RangesAscend'
  BY <1>4 DEF RangesAscend
<1> QED
  BY <1>5, <1>10, <1>11, <1>12, <1>13

-----------------------------------------------------------------------------
(***************************************************************************)
(* The theorems                                                            *)
(***************************************************************************)

LEMMA InitIds == Init => IdsInv
<1> SUFFICES ASSUME Init PROVE IdsInv
  OBVIOUS
<1>1. \A p \in Processes :
        /\ phase[p] = "off" /\ registry[p] = {}
        /\ idRange[p] = <<0, 0>> /\ id_list[p] = <<>> /\ handedOut[p] = {}
        /\ \A q \in Processes : msgs[<<q, p>>] = <<>>
  BY DEF Init, CompInit, IdsInit
<1>2. last_id_range_begin = idBegin /\ reported = {}
  BY DEF Init, IdsInit
<1>3. \A p \in Processes : Kept(p) = {} /\ Coming(p) = {}
  <2>1. Contents(<<>>) = {}
    BY DEF Contents
  <2>2. \A p \in Processes : Kept(p) = {}
    BY <1>1, <2>1 DEF Kept
  <2>3. \A p \in Processes : Coming(p) = {}
    BY <1>1, RangesInEmpty DEF Coming
  <2> QED
    BY <2>2, <2>3
<1>4. \A p \in Processes : ~HasRange(p)
  BY <1>1, <1>2, <1>3 DEF HasRange
<1>5. RangesAscend
  BY <1>1, <1>2, <1>3, RangesInEmpty, IdsAssumption DEF RangesAscend, Ascends
<1>6. \A p \in Processes : Owned(p) = {}
  <2>1. Ids(<<0, 0>>) = {}
    BY DEF Ids
  <2> QED
    BY <1>1, <1>3, <2>1 DEF Owned
<1>7. OwnedApart
  BY <1>6 DEF OwnedApart
<1>8. RangesRegistered /\ OneEntryPerIdentity /\ OneRangePerIdentity
  BY <1>1, <1>4 DEF RangesRegistered, OneEntryPerIdentity, OneRangePerIdentity
<1> QED
  BY <1>5, <1>7, <1>8 DEF IdsInv

LEMMA NextIds == IInv /\ IInv' /\ IdsInv /\ [Next]_vars => IdsInv'
<1> SUFFICES ASSUME IInv, IInv', IdsInv, [Next]_vars PROVE IdsInv'
  OBVIOUS
<1>1. OneEntryPerIdentity
  BY DEF IdsInv
<1>2. last_id_range_begin' \in Nat
  BY DEF IInv, StartupTypeOK, IdsTypeOK
\* The steps of Components, in which ids play no part.
<1>3. ASSUME NoneSent /\ ListsKept, UNCHANGED idVars, reported' = reported
      PROVE  IdsInv'
  BY <1>3, IdleStep
<1>4. CASE UNCHANGED vars
  <2>1. /\ msgs' = msgs /\ phase' = phase /\ registry' = registry
        /\ UNCHANGED idVars /\ reported' = reported
    BY <1>4 DEF vars, compVars
  <2>2. NoneSent /\ ListsKept
    BY <1>1, <2>1, SameLists DEF NoneSent, NoRangeSent
  <2> QED
    BY <1>3, <2>1, <2>2
<1>5. ASSUME NEW p \in Processes, Loop(p)
      PROVE  IdsInv'
  <2>1. CASE Find(p)
    <3>1. UNCHANGED idVars /\ reported' = reported
      BY <2>1 DEF Find, appVars
    <3> QED
      BY <1>1, <1>3, <2>1, <3>1, FindKeeps
  <2>2. CASE End(p)
    <3>1. UNCHANGED idVars /\ reported' = reported
      BY <2>2 DEF End, appVars
    <3>2. Vanish(p, "ended")
      BY <2>2 DEF End, Finish
    <3> QED
      BY <1>1, <1>3, <3>1, <3>2, VanishKeeps
  <2>3. CASE InitProgress(p)
    BY <2>3, InitProgressKeeps
  <2>4. CASE SyncAppDatas(p)
    BY <1>2, <2>4, SyncAppDatasKeeps
  <2>5. ASSUME NEW q \in Processes, Receive(q, p)
        PROVE  IdsInv'
    <3>1. CASE DbmgrOnRegisterServer(q, p)
      <4>1. UNCHANGED idVars /\ reported' = reported
        BY <3>1 DEF DbmgrOnRegisterServer
      <4> QED
        BY <1>1, <1>3, <3>1, <4>1, RegisterKeeps DEF Registers
    <3>2. CASE ~Dbmgr(p) /\ OnRegisterServer(q, p) /\ UNCHANGED appVars
      <4>1. UNCHANGED idVars /\ reported' = reported
        BY <3>2 DEF appVars
      <4> QED
        BY <1>1, <1>3, <3>2, <4>1, RegisterKeeps DEF Registers
    <3>3. CASE OnCBRegisterServer(q, p) /\ UNCHANGED appVars
      <4>1. UNCHANGED idVars /\ reported' = reported
        BY <3>3 DEF appVars
      <4> QED
        BY <1>1, <1>3, <3>3, <4>1, CBRegisterKeeps
    <3>4. CASE OnGetEntityApp(q, p)
      <4>1. UNCHANGED idVars /\ reported' = reported
        BY <3>4 DEF OnGetEntityApp
      <4> QED
        BY <1>1, <1>3, <3>4, <4>1, GetEntityAppKeeps
    <3>5. CASE OnDbmgrInitCompleted(q, p)
      BY <3>5, InitCompletedKeeps
    <3>6. CASE OnBaseappInitProgress(q, p)
      BY <3>6, BaseappInitKeeps
    <3> QED
      BY <2>5, <3>1, <3>2, <3>3, <3>4, <3>5, <3>6 DEF Receive
  <2>6. ASSUME NEW q \in Processes, Deregister(p, q)
        PROVE  IdsInv'
    <3>1. UNCHANGED idVars /\ reported' = reported
      BY <2>6 DEF Deregister
    <3> QED
      BY <1>1, <1>3, <2>6, <3>1, DeregisterKeeps
  <2>7. channels[p] \subseteq Processes
    BY TypeFacts DEF IInv
  <2> QED
    BY <1>5, <2>1, <2>2, <2>3, <2>4, <2>5, <2>6, <2>7 DEF Loop
<1>6. ASSUME NEW p \in Processes, LoginBaseapp(p)
      PROVE  IdsInv'
  BY <1>6, LoginKeeps
<1>7. ASSUME NEW p \in Processes, (Start(p) \/ Signal(p) \/ Crash(p)) /\ UNCHANGED appVars
      PROVE  IdsInv'
  <2>1. UNCHANGED idVars /\ reported' = reported
    BY <1>7 DEF appVars
  <2>2. NoneSent /\ ListsKept
    BY <1>1, <1>7, PhasesKeep, VanishKeeps DEF Crash
  <2> QED
    BY <1>3, <2>1, <2>2
<1> QED
  BY <1>4, <1>5, <1>6, <1>7 DEF Next

\* However many servers start, are refused, crash and are started again: every range
\* is cut off behind the ones before, stays in order on its way to the baseapp, and
\* has no id in common with what any other process has or has handed out.
THEOREM IdsInvariant == Spec => []IdsInv
BY Invariant, InitIds, NextIds, PTL DEF Spec

\* An id is handed out once: alloc never returns one that it, or the IDClient of
\* another baseapp, has returned before, for ranges of any length.
THEOREM IdsAreFresh == Spec => []NextIdIsFresh
<1>1. IInv /\ IdsInv => NextIdIsFresh
  <2> SUFFICES ASSUME IInv, IdsInv, NEW p \in Processes, size(p) # 0, NEW q \in Processes,
                      RangeInUse(p)[1] \in handedOut[q]
               PROVE  FALSE
    BY DEF NextIdIsFresh
  <2>1. PICK u \in IdRange : u = RangeInUse(p)
    BY IdFacts DEF IInv
  <2>2. /\ u \in {idRange[p]} \cup Kept(p)
        /\ \A x \in handedOut[p] : x < u[1]
        /\ u[1] < u[2]
    BY <2>1, InUse DEF IdsInv, RangesAscend
  <2>3. u[1] \in Ids(u)
    BY <2>2 DEF Ids, IdRange
  <2>4. u[1] \in Owned(p) /\ u[1] \in Owned(q)
    BY <2>1, <2>2, <2>3 DEF Owned
  <2>5. p # q
    BY <2>1, <2>2 DEF IdRange
  <2> QED
    BY <2>4, <2>5 DEF IdsInv, OwnedApart
<1> QED
  BY <1>1, Invariant, IdsInvariant, PTL

\* Two live baseapps of one identity are never both in service: only a baseapp that
\* has ids reports itself, ids are sent to servers in the list of dbmgr only, and a
\* server leaves that list only when it is gone.
THEOREM OneServer == Spec => []OneServerPerIdentity
<1>1. IInv /\ IdsInv => OneServerPerIdentity
  <2>1. ASSUME IInv PROVE reported \subseteq Processes
    BY <2>1, TypeFacts DEF IInv
  <2> QED
    BY <2>1 DEF IdsInv, OneRangePerIdentity, OneServerPerIdentity, HasRange
<1> QED
  BY <1>1, Invariant, IdsInvariant, PTL

=============================================================================
