------------------------------- MODULE Startup -------------------------------
(***************************************************************************)
(* A cluster that starts, serves and shuts down: dbmgr, a base manager,    *)
(* baseapps and cellapps.  dbmgr introduces every new baseapp and cellapp  *)
(* to those there are, and, when no registration has come for a while,     *)
(* sends each new one its range of entity ids; a baseapp that has ids and  *)
(* knows the base manager reports that it is ready; the base manager keeps *)
(* the ready ones in baseapps_.                                            *)
(*                                                                         *)
(* Composes Components and EntityIDs.  Clocks are not modelled: what       *)
(* happens after some time may happen at any time (the batch of            *)
(* SyncAppDatasHandler after 3 s, findComponents once a second, the ticks  *)
(* for which InitProgressHandler waits).                                   *)
(***************************************************************************)
EXTENDS EntityIDs

VARIABLES
    apps,     \* dbmgr: the identities in apps_ of SyncAppDatasHandler, which exists
              \* while there are any
    baseapps, \* base manager: the identities in baseapps_
    pInitProgressHandler, \* baseapp: how many InitProgressHandlers are at work
    reported  \* history: the baseapps that have reported that they are ready

vars == <<compVars, idVars, apps, baseapps, pInitProgressHandler, reported>>

\* What the servers send to each other.
Messages ==
    [type : {"OnRegisterServer"}]
      \cup [type : {"CBRegisterServer"}, accepted : BOOLEAN]
      \cup [type : {"onGetEntityAppFromDbmgr"}, app : Processes]
      \cup [type : {"onDbmgrInitCompleted"}, range : IdRange]
      \cup [type : {"onBaseappInitProgress"}]

StartupTypeOK ==
    /\ IdsTypeOK
    /\ phase \in [Processes -> Phases]
    /\ findIdx \in [Processes -> Nat]
    /\ registry \in [Processes -> SUBSET Processes]
    /\ channels \in [Processes -> SUBSET Processes]
    /\ msgs \in [Processes \X Processes -> Seq(Messages)]
    /\ apps \in SUBSET Nat
    /\ baseapps \in SUBSET Nat
    /\ pInitProgressHandler \in [Processes -> Nat]
    /\ reported \in SUBSET Processes

Init ==
    /\ CompInit
    /\ IdsInit
    /\ apps = {}
    /\ baseapps = {}
    /\ pInitProgressHandler = [p \in Processes |-> 0]
    /\ reported = {}

Dbmgr(p) == componentType[p] = DBMGR_TYPE
Baseappmgr(p) == componentType[p] = BASEAPPMGR_TYPE
Baseapp(p) == componentType[p] = BASEAPP_TYPE

GetEntityApp(p) == [type |-> "onGetEntityAppFromDbmgr", app |-> p]
DbmgrInitCompleted(r) == [type |-> "onDbmgrInitCompleted", range |-> r]
BaseappInitProgress == [type |-> "onBaseappInitProgress"]

-----------------------------------------------------------------------------
(***************************************************************************)
(* dbmgr                                                                   *)
(***************************************************************************)

pushApp(cid) == apps' = apps \cup {cid}

\* Mutants: all baseapps and cellapps with a channel, registered or not; only those
\* of the same type.
OthersConnected(p, q) == {r \in channels[q] : EntityApp(r) /\ componentID[r] # componentID[p]}
OthersOfType(p, q) ==
    {r \in registry[q] : componentType[r] = componentType[p] /\ componentID[r] # componentID[p]}

\* To whom p is introduced: the baseapps and cellapps in the list.
Others(p, q) == {r \in registry[q] : EntityApp(r) /\ componentID[r] # componentID[p]}

\* DBMgrApp::OnRegisterServer: the answer, and the new application made known to the
\* other baseapps and cellapps - also one that was refused.
DbmgrOnRegisterServer(p, q) ==
    /\ Dbmgr(q)
    /\ Arrived(p, q, "OnRegisterServer")
    /\ Register(p, q)
    /\ pushApp(componentID[p])
    /\ LET answered == SentTo(Taken(p, q), q, p, CBRegisterServer(checkComponents(q, p)))
       IN msgs' = IF EntityApp(p)
                  THEN Sent(answered, q, Others(p, q), [r \in Others(p, q) |-> GetEntityApp(p)])
                  ELSE answered
    /\ UNCHANGED <<phase, findIdx, channels, idVars, baseapps, pInitProgressHandler, reported>>

\* Those of apps_ that are in the list.
NewApps(q) == {p \in registry[q] : EntityApp(p) /\ componentID[p] \in apps}

\* SyncAppDatasHandler::process: every application that is new and still there gets a
\* range, one after the other, in the order of apps_ (here, in any order).
SyncAppDatas(q) ==
    /\ Dbmgr(q)
    /\ Running(q)
    /\ NewApps(q) # {}
    /\ LET n == Cardinality(NewApps(q)) IN
          /\ \E turn \in [NewApps(q) -> 1 .. n] :
                /\ \A p, r \in NewApps(q) : turn[p] = turn[r] => p = r
                /\ msgs' = Sent(msgs, q, NewApps(q),
                                [p \in NewApps(q) |-> DbmgrInitCompleted(NthRange(turn[p]))])
          /\ AllocRanges(n)
    /\ apps' = {}
    /\ UNCHANGED <<phase, findIdx, registry, channels, idRange, id_list, handedOut,
                   baseapps, pInitProgressHandler, reported>>

-----------------------------------------------------------------------------
(***************************************************************************)
(* baseapp and cellapp                                                     *)
(***************************************************************************)

\* onGetEntityAppFromDbmgr: the new application is connected to, once.
OnGetEntityApp(p, q) ==
    /\ Arrived(p, q, "onGetEntityAppFromDbmgr")
    /\ LET new == Head(msgs[<<p, q>>]).app IN
          IF Running(new) THEN ConnectTo(q, new, Taken(p, q))
          ELSE msgs' = Taken(p, q) /\ UNCHANGED channels
    /\ UNCHANGED <<phase, findIdx, registry, idVars, apps, baseapps, pInitProgressHandler,
                   reported>>

\* onDbmgrInitCompleted.  A cellapp makes no use of its ids.
OnDbmgrInitCompleted(p, q) ==
    /\ Arrived(p, q, "onDbmgrInitCompleted")
    /\ IF Baseapp(q)
       THEN /\ OnAddRange(q, Head(msgs[<<p, q>>]).range)
            /\ pInitProgressHandler' = [pInitProgressHandler EXCEPT ![q] = @ + 1]
       ELSE UNCHANGED <<idVars, pInitProgressHandler>>
    /\ msgs' = Taken(p, q)
    /\ UNCHANGED <<phase, findIdx, registry, channels, apps, baseapps, reported>>

\* Mutant: the handler goes on after it has reported.
InitProgressGoesOn(p) ==
    /\ Running(p)
    /\ OfType(p, BASEAPPMGR_TYPE) # {}
    /\ CheckSize(p)
    /\ pInitProgressHandler' = [pInitProgressHandler EXCEPT ![p] = @ - 1]
    /\ UNCHANGED <<compVars, apps, baseapps, reported>>

\* InitProgressHandler::process: the base manager is known and there are ids.
InitProgress(p) ==
    /\ pInitProgressHandler[p] > 0
    /\ Running(p)
    /\ OfType(p, BASEAPPMGR_TYPE) # {}
    /\ CheckSize(p)
    /\ LET mgrs == OfType(p, BASEAPPMGR_TYPE) IN
          msgs' = Sent(msgs, p, mgrs, [q \in mgrs |-> BaseappInitProgress])
    /\ pInitProgressHandler' = [pInitProgressHandler EXCEPT ![p] = @ - 1]
    /\ reported' = reported \cup {p}
    /\ UNCHANGED <<phase, findIdx, registry, channels, apps, baseapps>>

\* loginBaseapp takes an id for a client the base manager has sent.
LoginBaseapp(p) ==
    /\ Running(p)
    /\ p \in reported
    /\ Alloc(p)
    /\ UNCHANGED <<compVars, apps, baseapps, pInitProgressHandler, reported>>

-----------------------------------------------------------------------------
(***************************************************************************)
(* The base manager                                                        *)
(***************************************************************************)

OnBaseappInitProgress(p, q) ==
    /\ Arrived(p, q, "onBaseappInitProgress")
    /\ baseapps' = baseapps \cup {componentID[p]}
    /\ msgs' = Taken(p, q)
    /\ UNCHANGED <<phase, findIdx, registry, channels, idVars, apps, pInitProgressHandler,
                   reported>>

\* Any server, and what the base manager does first: it erases the baseapp it finds
\* by the channel.
Deregister(p, q) ==
    /\ OnChannelDeregister(p, q)
    /\ baseapps' = IF Baseappmgr(p) /\ q \in registry[p]
                   THEN baseapps \ {componentID[q]} ELSE baseapps
    /\ UNCHANGED <<idVars, apps, pInitProgressHandler, reported>>

-----------------------------------------------------------------------------

appVars == <<idVars, apps, baseapps, pInitProgressHandler, reported>>

Receive(p, q) ==
    \/ DbmgrOnRegisterServer(p, q)
    \/ ~Dbmgr(q) /\ OnRegisterServer(p, q) /\ UNCHANGED appVars
    \/ OnCBRegisterServer(p, q) /\ UNCHANGED appVars
    \/ OnGetEntityApp(p, q) \/ OnDbmgrInitCompleted(p, q) \/ OnBaseappInitProgress(p, q)

Find(p) == FindComponents(p) /\ UNCHANGED appVars
End(p) == Finish(p) /\ UNCHANGED appVars

\* What the loop of p does: tasks, timers, what has arrived.
Loop(p) ==
    \/ Find(p) \/ End(p) \/ InitProgress(p) \/ SyncAppDatas(p)
    \/ \E q \in channels[p] : msgs[<<q, p>>] # <<>> /\ Receive(q, p)
    \/ \E q \in channels[p] : Deregister(p, q)

Next ==
    \/ \E p \in Processes : Loop(p) \/ LoginBaseapp(p)
    \/ \E p \in Processes : (Start(p) \/ Signal(p) \/ Crash(p)) /\ UNCHANGED appVars

Spec == Init /\ [][Next]_vars

\* The loops go round.  It is enough that one of them does while one has something to
\* do, because none can do anything for ever.  Starting a server, telling it to shut
\* down, crashes and logins are up to others.
Fairness == WF_vars(\E p \in Processes : Loop(p))

FairSpec == Spec /\ Fairness

-----------------------------------------------------------------------------

\* However identities are started twice, refused and reused, two live baseapps of
\* one identity are never both in service: both would write the same rows.
OneServerPerIdentity ==
    \A p, q \in reported :
        Running(p) /\ Running(q) /\ componentID[p] = componentID[q] => p = q

\* The assertion at the end of onGetEntityAppFromDbmgr: a server that is introduced
\* to another one knows dbmgr, although it has not waited for dbmgr's answer.
DbmgrIsKnown ==
    \A p, q \in Processes :
        Arrived(p, q, "onGetEntityAppFromDbmgr") => OfType(q, DBMGR_TYPE) # {}

\* dbmgr does not end, other than by a crash, while a baseapp or cellapp that counts
\* on it is alive, also one that registers while dbmgr is shutting down.
DbmgrOutlivesApps ==
    \A p, q \in Processes :
        Dbmgr(q) /\ phase[q] = "ended" /\ EntityApp(p) /\ Running(p) => q \notin registry[p]

Once(p) == \A q \in Processes : componentID[q] = componentID[p] /\ q # p => phase[q] = "off"

\* Once all is said between them, any two baseapps or cellapps that dbmgr has
\* accepted know each other, in whatever order they came.  Left out are identities
\* that are used twice: an entry of the former process, where it has not been
\* removed yet, keeps the new one out, and no one tries again.
AppsKnowEachOther ==
    \A d \in Processes : \A p, q \in registry[d] :
        /\ Dbmgr(d) /\ EntityApp(p) /\ EntityApp(q) /\ p # q
        /\ Running(p) /\ Running(q) /\ Once(p) /\ Once(q)
        /\ \A r, s \in {d, p, q} : msgs[<<r, s>>] = <<>>
        => p \in registry[q] /\ q \in registry[p]

MastersUp == \A q \in Processes : Dbmgr(q) \/ Baseappmgr(q) => phase[q] = "up"

Ready(p) ==
    \E m \in Processes : Baseappmgr(m) /\ p \in registry[m] /\ componentID[p] \in baseapps

\* While dbmgr and the base manager stay up, a baseapp that is not refused gets ids
\* and into the list of the ready ones, whatever other servers come, conflict and go
\* between its registration and its ids.
BaseappBecomesReady ==
    \A p \in {q \in Processes : Baseapp(q)} :
        <>[](phase[p] = "up" /\ MastersUp) => <>[]Ready(p)

\* A server that shuts down does not wait for ever, unless for a server that has not
\* been told to: servers that shut down at the same time do not wait for each other.
ServersEnd ==
    \A p \in Processes :
        ~<>[](phase[p] = "ending" /\ \A q \in registry[p] : phase[q] # "up")

=============================================================================
