----------------------------- MODULE Components -----------------------------
(***************************************************************************)
(* How the servers find each other (lib/server/components.cpp) and end     *)
(* (shutdowner.cpp, serverapp.cpp).  A server connects to the servers it   *)
(* needs one after the other, registers itself with each, and does not     *)
(* wait for the answers; the registration is refused when the identity is  *)
(* taken.                                                                  *)
(*                                                                         *)
(* A process is one run of a server: a server that is started again is     *)
(* another process, perhaps of the same identity (componentID).  Between   *)
(* two processes there is at most one connection, and what is sent over it *)
(* arrives in order, until one of the two is gone.  A connection between   *)
(* two live processes does not break: each keeps it alive with its         *)
(* ComponentActiveReportHandler.                                           *)
(*                                                                         *)
(* Left out: logger, cellappmgr and loginapp, whose registrations change   *)
(* nothing but the list of components.  A part of Startup.                 *)
(***************************************************************************)
EXTENDS Naturals, Sequences, FiniteSets

CONSTANTS
    Processes,     \* runs of a server, each started at most once
    componentType, \* of a process
    componentID,   \* of a process: two may be started with the same one
    MayStop,       \* the processes that may be told to shut down
    MayCrash,      \* the processes that may end without shutting down
    MaxApps        \* bound: how many baseapps and cellapps are started

DBMGR_TYPE == "dbmgr"
BASEAPPMGR_TYPE == "baseappmgr"
BASEAPP_TYPE == "baseapp"
CELLAPP_TYPE == "cellapp"
EntityAppTypes == {BASEAPP_TYPE, CELLAPP_TYPE}
ComponentTypes == {DBMGR_TYPE, BASEAPPMGR_TYPE} \cup EntityAppTypes

ASSUME ProcessesAssumption ==
    /\ IsFiniteSet(Processes)
    /\ componentType \in [Processes -> ComponentTypes]
    /\ componentID \in [Processes -> Nat \ {0}]
    /\ MayStop \subseteq Processes
    /\ MayCrash \subseteq Processes
    /\ MaxApps \in Nat

VARIABLES
    phase,    \* "off", "up", "ending" (shutting down), "ended" or "crashed"
    findIdx,  \* findIdx_: how many of the servers it needs it has connected to
    registry, \* the processes in its list of components
    channels, \* the processes it has a channel to
    msgs      \* msgs[<<p, q>>]: sent by p and not yet received by q

compVars == <<phase, findIdx, registry, channels, msgs>>

EntityApp(p) == componentType[p] \in EntityAppTypes

Phases == {"off", "up", "ending", "ended", "crashed"}
Running(p) == phase[p] \in {"up", "ending"}
Gone(p) == phase[p] \in {"ended", "crashed"}

CompInit ==
    /\ phase = [p \in Processes |-> "off"]
    /\ findIdx = [p \in Processes |-> 0]
    /\ registry = [p \in Processes |-> {}]
    /\ channels = [p \in Processes |-> {}]
    /\ msgs = [pq \in Processes \X Processes |-> <<>>]

-----------------------------------------------------------------------------
(***************************************************************************)
(* Messages.                                                               *)
(***************************************************************************)

RegisterServer == [type |-> "OnRegisterServer"]
CBRegisterServer(accepted) == [type |-> "CBRegisterServer", accepted |-> accepted]

\* What is under way once p has sent m to q.  Nothing reaches a process that is gone.
SentTo(ms, p, q, m) == IF Gone(q) THEN ms ELSE [ms EXCEPT ![<<p, q>>] = Append(@, m)]

\* The same for each q in dom, with the message m[q].
Sent(ms, p, dom, m) ==
    [pq \in Processes \X Processes |->
        IF pq[1] = p /\ pq[2] \in dom /\ ~Gone(pq[2])
        THEN Append(ms[pq], m[pq[2]]) ELSE ms[pq]]

\* The first message that p has sent to q.
Arrived(p, q, type) ==
    /\ Running(q)
    /\ p \in channels[q]
    /\ msgs[<<p, q>>] # <<>>
    /\ Head(msgs[<<p, q>>]).type = type

Taken(p, q) == [msgs EXCEPT ![<<p, q>>] = Tail(@)]

-----------------------------------------------------------------------------
(***************************************************************************)
(* Connecting and registering.                                             *)
(***************************************************************************)

\* findComponentTypes_, which initialize() fills in, without the servers left out.
findComponentTypes(p) ==
    CASE componentType[p] \in EntityAppTypes -> <<DBMGR_TYPE, BASEAPPMGR_TYPE>>
      [] componentType[p] = BASEAPPMGR_TYPE -> <<DBMGR_TYPE>>
      [] componentType[p] = DBMGR_TYPE -> <<>>

COMPONENT_DUPS(t) == t \in EntityAppTypes

OfType(p, t) == {q \in registry[p] : componentType[q] = t}
OfIdentity(p, cid) == {q \in registry[p] : componentID[q] = cid}

Start(p) ==
    /\ phase[p] = "off"
    /\ EntityApp(p) => Cardinality({q \in Processes : EntityApp(q) /\ phase[q] # "off"}) < MaxApps
    /\ phase' = [phase EXCEPT ![p] = "up"]
    /\ UNCHANGED <<findIdx, registry, channels, msgs>>

\* connectComponent: the connection is made and p registers itself over it.
ConnectTo(p, q, ms) ==
    /\ channels' = [channels EXCEPT ![p] = @ \cup {q}, ![q] = @ \cup {p}]
    /\ msgs' = SentTo(ms, p, q, RegisterServer)

\* The servers p connects to next.
Wanted(p) ==
    {q \in Processes :
        /\ Running(q)
        /\ componentType[q] = findComponentTypes(p)[findIdx[p] + 1]}

\* Mutant: a server that cannot be reached is left out.
FindComponentsOnce(p) ==
    /\ Running(p)
    /\ findIdx[p] < Len(findComponentTypes(p))
    /\ \/ \E q \in Wanted(p) : ConnectTo(p, q, msgs)
       \/ Wanted(p) = {} /\ UNCHANGED <<channels, msgs>>
    /\ findIdx' = [findIdx EXCEPT ![p] = @ + 1]
    /\ UNCHANGED <<phase, registry>>

\* process and findComponents, once a second: a server that cannot be reached yet
\* is tried again.  That the process is shutting down does not stop it: processOnce
\* has reset what setWaitBreakProcessing set before the tasks are processed.
FindComponents(p) ==
    /\ Running(p)
    /\ findIdx[p] < Len(findComponentTypes(p))
    /\ \E q \in Wanted(p) : ConnectTo(p, q, msgs)
    /\ findIdx' = [findIdx EXCEPT ![p] = @ + 1]
    /\ UNCHANGED <<phase, registry>>

\* Mutant: only the type is looked at, not the identity.
checkTypeOnly(q, p) ==
    COMPONENT_DUPS(componentType[p]) \/ OfType(q, componentType[p]) = {}

checkComponents(q, p) ==
    /\ COMPONENT_DUPS(componentType[p]) \/ OfType(q, componentType[p]) = {}
    /\ OfIdentity(q, componentID[p]) = {}

\* OnRegisterServer: q adds p, or tells it that its identity is taken.
Register(p, q) ==
    registry' = [registry EXCEPT ![q] = IF checkComponents(q, p) THEN @ \cup {p} ELSE @]

OnRegisterServer(p, q) ==
    /\ Arrived(p, q, "OnRegisterServer")
    /\ Register(p, q)
    /\ msgs' = SentTo(Taken(p, q), q, p, CBRegisterServer(checkComponents(q, p)))
    /\ UNCHANGED <<phase, findIdx, channels>>

\* CBRegisterServer: q adds the server p that has accepted it; an entry of the same
\* identity, left by a process that is gone, keeps it out.  Refused, q shuts down.
OnCBRegisterServer(p, q) ==
    /\ Arrived(p, q, "CBRegisterServer")
    /\ IF Head(msgs[<<p, q>>]).accepted
       THEN /\ registry' =
                 [registry EXCEPT ![q] =
                    IF OfIdentity(q, componentID[p]) \cap OfType(q, componentType[p]) = {}
                    THEN @ \cup {p} ELSE @]
            /\ UNCHANGED phase
       ELSE phase' = [phase EXCEPT ![q] = "ending"] /\ UNCHANGED registry
    /\ msgs' = Taken(p, q)
    /\ UNCHANGED <<findIdx, channels>>

-----------------------------------------------------------------------------
(***************************************************************************)
(* Shutting down, crashes, and how the others learn of it.                 *)
(***************************************************************************)

\* SIGINT: shutDown(1).
Signal(p) ==
    /\ p \in MayStop
    /\ phase[p] = "up"
    /\ phase' = [phase EXCEPT ![p] = "ending"]
    /\ UNCHANGED <<findIdx, registry, channels, msgs>>

\* Mutant: dbmgr does not wait for the others.
canShutdownAlways(p) == p \in Processes

\* canShutdown: dbmgr waits for the cellapps and baseapps in its list.  The others
\* wait for none: getGameSrvComponentsSize always returns 0.
canShutdown(p) == componentType[p] = DBMGR_TYPE => \A q \in registry[p] : componentType[q] \notin EntityAppTypes

\* The process is gone, and with it its lists and what was on its way to it.
Vanish(p, how) ==
    /\ phase' = [phase EXCEPT ![p] = how]
    /\ findIdx' = [findIdx EXCEPT ![p] = 0]
    /\ registry' = [registry EXCEPT ![p] = {}]
    /\ channels' = [channels EXCEPT ![p] = {}]
    /\ msgs' = [pq \in Processes \X Processes |-> IF pq[2] = p THEN <<>> ELSE msgs[pq]]

\* The shutdown tick finds that it can end.
Finish(p) ==
    /\ phase[p] = "ending"
    /\ canShutdown(p)
    /\ Vanish(p, "ended")

Crash(p) ==
    /\ p \in MayCrash
    /\ Running(p)
    /\ Vanish(p, "crashed")

\* Mutant: the entry stays in the list.
OnChannelDeregisterKeepsEntry(p, q) ==
    /\ Running(p)
    /\ Gone(q)
    /\ q \in channels[p]
    /\ channels' = [channels EXCEPT ![p] = @ \ {q}]
    /\ msgs' = [msgs EXCEPT ![<<q, p>>] = <<>>]
    /\ UNCHANGED <<phase, findIdx, registry>>

\* p learns that q is gone: its channel is deregistered and what it has not received
\* is lost.  A server that loses dbmgr ends at once (shutDown(0)).
OnChannelDeregister(p, q) ==
    /\ Running(p)
    /\ Gone(q)
    /\ q \in channels[p]
    /\ IF q \in OfType(p, DBMGR_TYPE)
       THEN Vanish(p, "ended")
       ELSE /\ channels' = [channels EXCEPT ![p] = @ \ {q}]
            /\ registry' = [registry EXCEPT ![p] = @ \ {q}]
            /\ msgs' = [msgs EXCEPT ![<<q, p>>] = <<>>]
            /\ UNCHANGED <<phase, findIdx>>

=============================================================================
