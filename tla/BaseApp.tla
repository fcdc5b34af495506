------------------------------ MODULE BaseApp ------------------------------
(***************************************************************************)
(* The baseapps (server/baseapp/baseapp.cpp) and their Proxies             *)
(* (proxy.cpp, base.cpp).  A baseapp keeps an entry for every account that *)
(* basemgr registers; the client's loginBaseapp makes it ask dbmgr for the *)
(* entity, and dbmgr's answer creates the Proxy.                           *)
(***************************************************************************)
EXTENDS LoginNetwork

CONSTANT Mortal    \* bound: the baseapps that may crash

ASSUME MortalAssumption == Mortal \subseteq Baseapps

VARIABLES
    pendingEntry,  \* pendingLoginMgr_ of each baseapp: entity id and client address
    nextId,        \* the next id idClient_ of each baseapp hands out
    proxies,       \* the Proxies of each baseapp
    proxyID        \* proxyID_ of the channel of each client, NULL for 0 or no channel

baseVars == <<pendingEntry, nextId, proxies, proxyID>>

Entries == [eid : Eids \cup {NULL}, client : Clients \cup {NULL}]

\* client stands for addr_, the address of the client, by which a Proxy finds its channel.
Proxies == [eid : Eids, account : Accounts, client : Clients \cup {NULL}]

BaseTypeOK ==
    /\ pendingEntry \in [Baseapps -> [Accounts -> Entries \cup {NULL}]]
    /\ nextId \in [Baseapps -> 1 .. IdsPerBaseapp + 1]
    /\ proxies \in [Baseapps -> SUBSET Proxies]
    /\ proxyID \in [Clients -> Eids \cup {NULL}]

BaseInit ==
    /\ pendingEntry = [b \in Baseapps |-> [a \in Accounts |-> NULL]]
    /\ nextId = [b \in Baseapps |-> 1]
    /\ proxies = [b \in Baseapps |-> {}]
    /\ proxyID = [c \in Clients |-> NULL]

Alive(b) == phase[b] \in {"registered", "ready"}

\* InitProgressHandler: the baseapp has ids, and reports to basemgr.
ReportReady(b) ==
    /\ phase[b] = "registered"
    /\ nextId[b] <= IdsPerBaseapp
    /\ phase' = [phase EXCEPT ![b] = "ready"]
    /\ msgs' = msgs \cup {[type |-> "InitProgress", base |-> b]}
    /\ UNCHANGED <<status, server, baseVars>>

\* registerPendingLogin: the address is sent back, and an entry made unless the
\* account has one (PendingLoginMgr::add keeps the one there is).
RegisterPendingLogin(m) ==
    /\ m.type = "RegisterPendingLogin"
    /\ Alive(m.base)
    /\ Receive(m, {[type |-> "GetBaseappAddr", client |-> m.client, base |-> m.base]})
    /\ pendingEntry' =
          [pendingEntry EXCEPT ![m.base][account[m.client]] =
             IF @ = NULL THEN [eid |-> m.eid, client |-> NULL] ELSE @]
    /\ UNCHANGED <<status, server, phase, nextId, proxies, proxyID>>

\* c has connected to the baseapp it was told of, and sends loginBaseapp for the account
\* it has logged in to.  It may do so again at any time: nothing asks whether its
\* channel has a Proxy.
MayEnter(c) ==
    /\ server[c] # NULL
    /\ status[c] \in {"told", "entering", "online", "refused"}
    /\ Alive(server[c])

EntryFor(c) == pendingEntry[server[c]][account[c]]

\* Mutant: an id is taken without a look at what is left.
IdsUnchecked(b) == Alive(b)

IdsLeft(b) == nextId[b] <= IdsPerBaseapp

\* loginBaseapp finds no entry, or has no id to give.
EnterRefused(c) ==
    /\ MayEnter(c)
    /\ EntryFor(c) = NULL \/ ~IdsLeft(server[c])
    /\ status' = [status EXCEPT ![c] = "refused"]
    /\ UNCHANGED <<msgs, server, phase, baseVars>>

\* loginBaseapp finds an entry with an entity: SERVER_ERR_ACCOUNT_IS_ONLINE.
EnterOnline(c) ==
    /\ MayEnter(c)
    /\ EntryFor(c) # NULL
    /\ IdsLeft(server[c])
    /\ EntryFor(c).eid # NULL
    /\ status' = [status EXCEPT ![c] = "refused"]
    /\ UNCHANGED <<msgs, server, phase, baseVars>>

\* loginBaseapp: dbmgr is asked for the entity, under a new id, and the address of
\* the client kept in the entry.
Enter(c) ==
    LET b == server[c] IN
    /\ MayEnter(c)
    /\ EntryFor(c) # NULL
    /\ IdsLeft(b)
    /\ EntryFor(c).eid = NULL
    /\ nextId' = [nextId EXCEPT ![b] = @ + 1]
    /\ msgs' = msgs \cup {[type |-> "QueryAccount", account |-> account[c],
                           eid |-> <<b, nextId[b]>>]}
    /\ pendingEntry' = [pendingEntry EXCEPT ![b][account[c]].client = c]
    /\ status' = [status EXCEPT ![c] = "entering"]
    /\ UNCHANGED <<server, phase, proxies, proxyID>>

\* c is told of the outcome, if it is there to be told.
TellClient(c, b, s) ==
    status' = IF AtBaseapp(c, b) THEN [status EXCEPT ![c] = s] ELSE status

\* Mutant: the channel is not told of its Proxy.
CreateProxyUnbound(m, c) ==
    LET b == BaseOf(m.eid) IN
    /\ proxies' = [proxies EXCEPT ![b] =
          @ \cup {[eid |-> m.eid, account |-> m.account,
                   client |-> IF AtBaseapp(c, b) THEN c ELSE NULL]}]
    /\ UNCHANGED proxyID
    /\ TellClient(c, b, "online")

\* createEntity and createClientProxies: the Proxy is bound to the client that
\* sent loginBaseapp last, and its channel to the Proxy; if that client has left, the
\* Proxy has no client.
CreateProxy(m, c) ==
    LET b == BaseOf(m.eid) IN
    /\ proxies' = [proxies EXCEPT ![b] =
          @ \cup {[eid |-> m.eid, account |-> m.account,
                   client |-> IF AtBaseapp(c, b) THEN c ELSE NULL]}]
    /\ proxyID' = IF AtBaseapp(c, b) THEN [proxyID EXCEPT ![c] = m.eid] ELSE proxyID
    /\ TellClient(c, b, "online")

\* onQueryPlayerCBFromDbmgr: the entry is removed.  Without one the answer, even a
\* positive one, is dropped.
OnQueryPlayerCB(m) ==
    /\ m.type = "QueryPlayerCB"
    /\ LET b == BaseOf(m.eid)
           entry == pendingEntry[b][m.account]
       IN /\ Alive(b)
          /\ pendingEntry' = [pendingEntry EXCEPT ![b][m.account] = NULL]
          /\ \/ entry = NULL /\ UNCHANGED <<status, proxies, proxyID>>
             \/ entry # NULL /\ m.ok /\ CreateProxy(m, entry.client)
             \/ entry # NULL /\ ~m.ok /\ TellClient(entry.client, b, "refused")
                             /\ UNCHANGED <<proxies, proxyID>>
    /\ Receive(m, {})
    /\ UNCHANGED <<server, phase, nextId>>

\* Base::onDestroyEntity: what dbmgr is told when the Proxy p is destroyed.
RemovalOf(p) == [type |-> "RemoveEntity", account |-> p.account, eid |-> p.eid]

\* findEntity of the id the channel of c has.
ProxyOf(c) ==
    IF server[c] = NULL THEN {} ELSE {p \in proxies[server[c]] : p.eid = proxyID[c]}

\* Mutant: the entity is removed but the Proxy stays.
DisconnectKeepsProxy(c) ==
    /\ status[c] \notin {"new", "gone"}
    /\ status' = [status EXCEPT ![c] = "gone"]
    /\ server' = [server EXCEPT ![c] = NULL]
    /\ proxyID' = [proxyID EXCEPT ![c] = NULL]
    /\ msgs' = msgs \cup {RemovalOf(p) : p \in ProxyOf(c)}
    /\ UNCHANGED <<proxies, phase, pendingEntry, nextId>>

\* onChannelDeregister and Proxy::onClientDeath: dbmgr is told to remove the entity
\* the channel is bound to and its Proxy is destroyed.  A loginapp does nothing.
Disconnect(c) ==
    /\ status[c] \notin {"new", "gone"}
    /\ status' = [status EXCEPT ![c] = "gone"]
    /\ server' = [server EXCEPT ![c] = NULL]
    /\ proxyID' = [proxyID EXCEPT ![c] = NULL]
    /\ msgs' = msgs \cup {RemovalOf(p) : p \in ProxyOf(c)}
    /\ proxies' = [b \in Baseapps |-> proxies[b] \ ProxyOf(c)]
    /\ UNCHANGED <<phase, pendingEntry, nextId>>

\* The process dies: what it had in memory is gone, what it had sent is not.
Crash(b) ==
    /\ b \in Mortal
    /\ Alive(b)
    /\ phase' = [phase EXCEPT ![b] = "dead"]
    /\ pendingEntry' = [pendingEntry EXCEPT ![b] = [a \in Accounts |-> NULL]]
    /\ proxies' = [proxies EXCEPT ![b] = {}]
    /\ status' = [c \in Clients |-> IF AtBaseapp(c, b) THEN "gone" ELSE status[c]]
    /\ server' = [c \in Clients |-> IF AtBaseapp(c, b) THEN NULL ELSE server[c]]
    /\ proxyID' = [c \in Clients |-> IF AtBaseapp(c, b) THEN NULL ELSE proxyID[c]]
    /\ UNCHANGED <<msgs, nextId>>

BaseReceive(m) == RegisterPendingLogin(m) \/ OnQueryPlayerCB(m)

=============================================================================
