------------------------ MODULE LoginProtocolProofs ------------------------
(***************************************************************************)
(* Proofs about LoginProtocol, for every set of clients, accounts,         *)
(* loginapps and baseapps, and any number of entity ids.                   *)
(***************************************************************************)
EXTENDS LoginProtocol, SequenceTheorems, TLAPS

-----------------------------------------------------------------------------

\* What a message of each type carries.
LEMMA MessageFields ==
    ASSUME NEW m \in Messages
    PROVE  /\ m.type \in {"AccountLogin", "LoginResult", "RegisterPending",
                          "RegisterPendingLogin", "GetBaseappAddr", "BaseappAddr"}
                => m.client \in Clients
           /\ m.type \in {"RegisterPending", "RegisterPendingLogin"}
                => m.eid \in Eids \cup {NULL}
           /\ m.type = "LoginResult" => m.ok \in BOOLEAN /\ m.eid \in Eids \cup {NULL}
           /\ m.type \in {"RegisterPendingLogin", "GetBaseappAddr", "InitProgress"}
                => m.base \in Baseapps
           /\ m.type = "BaseappAddr"
                => m.base \in Baseapps \cup {NULL} /\ m.loginapp \in LoginApps
           /\ m.type = "BaseappInitProgress" => m.loginapp \in LoginApps
           /\ m.type \in {"QueryAccount", "RemoveEntity", "QueryPlayerCB"}
                => m.account \in Accounts /\ m.eid \in Eids
           /\ m.type = "QueryPlayerCB" => m.ok \in BOOLEAN
<1>1. CASE m \in ClientMessages
  BY <1>1 DEF ClientMessages
<1>2. CASE m \in EntityMessages
  BY <1>2 DEF EntityMessages
<1>3. CASE m \in ProgressMessages
  BY <1>3 DEF ProgressMessages
<1> QED
  BY <1>1, <1>2, <1>3 DEF Messages

\* The messages the handlers build.
LEMMA MessageTypes ==
    /\ \A c \in Clients : [type |-> "AccountLogin", client |-> c] \in Messages
    /\ \A c \in Clients, ok \in BOOLEAN, e \in Eids \cup {NULL} :
          [type |-> "LoginResult", client |-> c, ok |-> ok, eid |-> e] \in Messages
    /\ \A c \in Clients, e \in Eids \cup {NULL} :
          [type |-> "RegisterPending", client |-> c, eid |-> e] \in Messages
    /\ \A c \in Clients, e \in Eids \cup {NULL}, b \in Baseapps :
          RegistrationOf(c, e, b) \in Messages
    /\ \A c \in Clients, b \in Baseapps :
          [type |-> "GetBaseappAddr", client |-> c, base |-> b] \in Messages
    /\ \A c \in Clients, b \in Baseapps \cup {NULL}, la \in LoginApps :
          AddressOf(c, la, b) \in Messages
    /\ \A a \in Accounts, e \in Eids :
          /\ [type |-> "QueryAccount", account |-> a, eid |-> e] \in Messages
          /\ [type |-> "RemoveEntity", account |-> a, eid |-> e] \in Messages
          /\ \A ok \in BOOLEAN :
                [type |-> "QueryPlayerCB", account |-> a, eid |-> e, ok |-> ok] \in Messages
    /\ \A b \in Baseapps : [type |-> "InitProgress", base |-> b] \in Messages
    /\ [type : {"BaseappInitProgress"}, loginapp : LoginApps] \subseteq Messages
<1> USE DEF Messages
<1>1. \A c \in Clients : [type |-> "AccountLogin", client |-> c] \in ClientMessages
  BY DEF ClientMessages
<1>2. \A c \in Clients, ok \in BOOLEAN, e \in Eids \cup {NULL} :
        [type |-> "LoginResult", client |-> c, ok |-> ok, eid |-> e] \in ClientMessages
  BY DEF ClientMessages
<1>3. \A c \in Clients, e \in Eids \cup {NULL} :
        [type |-> "RegisterPending", client |-> c, eid |-> e] \in ClientMessages
  BY DEF ClientMessages
<1>4. \A c \in Clients, e \in Eids \cup {NULL}, b \in Baseapps :
        RegistrationOf(c, e, b) \in ClientMessages
  BY DEF ClientMessages, RegistrationOf
<1>5. \A c \in Clients, b \in Baseapps :
        [type |-> "GetBaseappAddr", client |-> c, base |-> b] \in ClientMessages
  BY DEF ClientMessages
<1>6. \A c \in Clients, b \in Baseapps \cup {NULL}, la \in LoginApps :
        AddressOf(c, la, b) \in ClientMessages
  BY DEF ClientMessages, AddressOf
<1>7. \A a \in Accounts, e \in Eids :
        /\ [type |-> "QueryAccount", account |-> a, eid |-> e] \in EntityMessages
        /\ [type |-> "RemoveEntity", account |-> a, eid |-> e] \in EntityMessages
        /\ \A ok \in BOOLEAN :
              [type |-> "QueryPlayerCB", account |-> a, eid |-> e, ok |-> ok]
                \in EntityMessages
  BY DEF EntityMessages
<1>8. /\ \A b \in Baseapps : [type |-> "InitProgress", base |-> b] \in ProgressMessages
      /\ [type : {"BaseappInitProgress"}, loginapp : LoginApps] \subseteq ProgressMessages
  BY DEF ProgressMessages
<1> QED
  BY <1>1, <1>2, <1>3, <1>4, <1>5, <1>6, <1>7, <1>8

\* What Receive leaves of the messages.
LEMMA ReceiveType ==
    ASSUME NetTypeOK, NEW m, NEW sent \in SUBSET Messages, Receive(m, sent)
    PROVE  msgs' \subseteq Messages
  BY DEF NetTypeOK, Receive

-----------------------------------------------------------------------------

\* A step of a loginapp preserves the types.
LEMMA LoginTypes == TypeOK /\ LoginStep => TypeOK'
<1> SUFFICES ASSUME TypeOK, LoginStep PROVE TypeOK'
  OBVIOUS
<1> DEFINE Own == NetTypeOK' /\ LoginTypeOK'
<1>0. MgrTypeOK' /\ BaseTypeOK' /\ dbTypeOK'
  BY DEF LoginStep, TypeOK, MgrTypeOK, BaseTypeOK, dbTypeOK, mgrVars, baseVars
<1>a. NetTypeOK /\ LoginTypeOK
  BY DEF TypeOK
<1> USE <1>a, MessageTypes DEF NetTypeOK, LoginTypeOK, Statuses
<1>1. ASSUME NEW c \in Clients, LoginRefused(c) PROVE Own
  BY <1>1 DEF LoginRefused, loginVars
<1>2. ASSUME NEW c \in Clients, Login(c) PROVE Own
  <2>1. home[c] \in LoginApps /\ account[c] \in Accounts
    BY ClientsAssumption
  <2>2. pendingAttempts' \in [LoginApps -> [Accounts -> Clients \cup {NULL}]]
    BY <1>2, <2>1 DEF Login
  <2> QED
    BY <1>2, <2>2 DEF Login
<1>3. ASSUME NEW m \in msgs, OnLoginResult(m) PROVE Own
  <2>1. m.client \in Clients /\ m.eid \in Eids \cup {NULL}
    BY <1>3, MessageFields DEF OnLoginResult
  <2>2. home[m.client] \in LoginApps /\ account[m.client] \in Accounts
    BY <2>1, ClientsAssumption
  <2>3. msgs' \subseteq Messages
    BY <1>3, <2>1, ReceiveType DEF OnLoginResult
  <2>4. CASE UNCHANGED <<status, server, pendingAttempts>>
    BY <1>3, <2>3, <2>4 DEF OnLoginResult
  <2>5. CASE AnswerClient(home[m.client], account[m.client], "refused", NULL)
    BY <1>3, <2>2, <2>3, <2>5 DEF OnLoginResult, AnswerClient, AtLoginapp
  <2> QED
    BY <1>3, <2>4, <2>5 DEF OnLoginResult
<1>4. ASSUME NEW m \in msgs, OnBaseappAddr(m) PROVE Own
  <2>1. m.client \in Clients /\ m.base \in Baseapps \cup {NULL} /\ m.loginapp \in LoginApps
    BY <1>4, MessageFields DEF OnBaseappAddr
  <2>2. account[m.client] \in Accounts
    BY <2>1, ClientsAssumption
  <2>3. msgs' \subseteq Messages
    BY <1>4, ReceiveType DEF OnBaseappAddr
  <2> QED
    BY <1>4, <2>1, <2>2, <2>3 DEF OnBaseappAddr, AnswerClient, AtLoginapp
<1>5. ASSUME NEW m \in msgs, OnBaseappInitProgress(m) PROVE Own
  <2>1. m.loginapp \in LoginApps
    BY <1>5, MessageFields DEF OnBaseappInitProgress
  <2>2. msgs' \subseteq Messages
    BY <1>5, ReceiveType DEF OnBaseappInitProgress
  <2> QED
    BY <1>5, <2>1, <2>2 DEF OnBaseappInitProgress
<1>6. ASSUME NEW la \in LoginApps, NEW a \in Accounts, PendingTimeout(la, a) PROVE Own
  BY <1>6 DEF PendingTimeout, netVars
<1> QED
  BY <1>0, <1>1, <1>2, <1>3, <1>4, <1>5, <1>6 DEF LoginStep, LoginReceive, TypeOK

\* A step of dbmgr preserves the types.
LEMMA DBTypes == TypeOK /\ DBStep => TypeOK'
<1> SUFFICES ASSUME TypeOK, NEW m \in msgs, DBReceive(m),
                    UNCHANGED <<loginVars, mgrVars, baseVars>>
             PROVE  TypeOK'
  BY DEF DBStep
<1> DEFINE Own == NetTypeOK' /\ dbTypeOK'
<1>0. LoginTypeOK' /\ MgrTypeOK' /\ BaseTypeOK'
  BY DEF TypeOK, LoginTypeOK, MgrTypeOK, BaseTypeOK, loginVars, mgrVars, baseVars
<1>a. NetTypeOK /\ dbTypeOK
  BY DEF TypeOK
<1> USE <1>a, MessageTypes DEF NetTypeOK, dbTypeOK
<1>1. CASE AccountLogin(m)
  <2>1. m.client \in Clients
    BY <1>1, MessageFields DEF AccountLogin
  <2>2. row[account[m.client]] \in Eids \cup {NULL}
    BY <2>1, ClientsAssumption
  <2>3. msgs' \subseteq Messages
    BY <1>1, <2>1, <2>2, ReceiveType DEF AccountLogin, OnlineEntity
  <2> QED
    BY <1>0, <1>1, <2>3 DEF AccountLogin, TypeOK
<1>2. CASE QueryAccount(m)
  <2>1. m.account \in Accounts /\ m.eid \in Eids
    BY <1>2, MessageFields DEF QueryAccount
  <2>2. ASSUME NEW ok \in BOOLEAN, Reply(m, ok) PROVE msgs' \subseteq Messages
    BY <2>1, <2>2, ReceiveType DEF Reply
  <2>3. msgs' \subseteq Messages
    BY <1>2, <2>2 DEF QueryAccount, LogEntity, QueryFails, LogEntityReconnects
  <2> QED
    BY <1>0, <1>2, <2>1, <2>3
    DEF QueryAccount, LogEntity, QueryFails, LogEntityReconnects, TypeOK
<1>3. CASE RemoveEntity(m)
  <2>1. msgs' \subseteq Messages
    BY <1>3, ReceiveType DEF RemoveEntity
  <2> QED
    BY <1>0, <1>3, <2>1 DEF RemoveEntity, EraseEntityLog, TypeOK
<1> QED
  BY <1>1, <1>2, <1>3 DEF DBReceive

\* A step of a baseapp preserves the types.
LEMMA BaseTypes == TypeOK /\ BaseStep => TypeOK'
<1> SUFFICES ASSUME TypeOK, BaseStep PROVE TypeOK'
  OBVIOUS
<1> DEFINE Own == NetTypeOK' /\ BaseTypeOK'
<1>0. LoginTypeOK' /\ MgrTypeOK' /\ dbTypeOK'
  BY DEF BaseStep, TypeOK, LoginTypeOK, MgrTypeOK, dbTypeOK, loginVars, mgrVars
<1>a. NetTypeOK /\ BaseTypeOK
  BY DEF TypeOK
<1>b. \A c \in Clients : account[c] \in Accounts
  BY ClientsAssumption
<1>c. NULL \notin Baseapps /\ NULL \notin Clients /\ IdsPerBaseapp \in Nat
  BY NullAssumption, IdsRangeAssumption
<1>d. \A e \in Eids : BaseOf(e) \in Baseapps
  BY DEF Eids, BaseOf
<1> USE <1>a, <1>b, MessageTypes DEF NetTypeOK, BaseTypeOK, Statuses, Phases
<1>1. ASSUME NEW b \in Baseapps, ReportReady(b) PROVE Own
  BY <1>1 DEF ReportReady, baseVars
<1>2. ASSUME NEW b \in Baseapps, Crash(b) PROVE Own
  BY <1>2 DEF Crash
<1>3. ASSUME NEW m \in msgs, RegisterPendingLogin(m) PROVE Own
  <2>1. m.client \in Clients /\ m.base \in Baseapps /\ m.eid \in Eids \cup {NULL}
    BY <1>3, MessageFields DEF RegisterPendingLogin
  <2>2. msgs' \subseteq Messages
    BY <1>3, <2>1, ReceiveType DEF RegisterPendingLogin
  <2>3. [eid |-> m.eid, client |-> NULL] \in Entries
    BY <2>1 DEF Entries
  <2>4. pendingEntry' \in [Baseapps -> [Accounts -> Entries \cup {NULL}]]
    BY <1>3, <2>1, <2>3 DEF RegisterPendingLogin
  <2> QED
    BY <1>3, <2>2, <2>4 DEF RegisterPendingLogin
<1>4. ASSUME NEW m \in msgs, OnQueryPlayerCB(m) PROVE Own
  <2> DEFINE b == BaseOf(m.eid)
             entry == pendingEntry[b][m.account]
  <2>1. m.account \in Accounts /\ m.eid \in Eids /\ b \in Baseapps
    BY <1>4, <1>d, MessageFields DEF OnQueryPlayerCB
  <2>2. entry \in Entries \cup {NULL}
    BY <2>1
  <2>3. msgs' \subseteq Messages
    BY <1>4, ReceiveType DEF OnQueryPlayerCB
  <2>4. pendingEntry' \in [Baseapps -> [Accounts -> Entries \cup {NULL}]]
    BY <1>4, <2>1 DEF OnQueryPlayerCB
  <2>5. CASE entry = NULL /\ UNCHANGED <<status, proxies, proxyID>>
    BY <1>4, <2>3, <2>4, <2>5 DEF OnQueryPlayerCB
  <2>6. CASE entry # NULL /\ CreateProxy(m, entry.client)
    <3>1. entry.client \in Clients \cup {NULL}
      BY <2>2, <2>6 DEF Entries
    <3>2. [eid |-> m.eid, account |-> m.account,
           client |-> IF AtBaseapp(entry.client, b) THEN entry.client ELSE NULL] \in Proxies
      BY <2>1, <3>1 DEF Proxies
    <3>3. proxies' \in [Baseapps -> SUBSET Proxies]
      BY <2>1, <2>6, <3>2 DEF CreateProxy
    <3>4. status' \in [Clients -> {"new", "login", "told", "entering", "online",
                                   "refused", "gone"}]
      BY <2>6 DEF CreateProxy, TellClient
    <3>5. proxyID' \in [Clients -> Eids \cup {NULL}]
      BY <2>1, <2>6 DEF CreateProxy
    <3> QED
      BY <1>4, <2>3, <2>4, <3>3, <3>4, <3>5 DEF OnQueryPlayerCB
  <2>7. CASE /\ entry # NULL /\ TellClient(entry.client, b, "refused")
             /\ UNCHANGED <<proxies, proxyID>>
    BY <1>4, <2>3, <2>4, <2>7 DEF OnQueryPlayerCB, TellClient
  <2> QED
    BY <1>4, <2>5, <2>6, <2>7 DEF OnQueryPlayerCB
<1>5. ASSUME NEW c \in Clients, EnterRefused(c) PROVE Own
  BY <1>5 DEF EnterRefused, baseVars
<1>6. ASSUME NEW c \in Clients, EnterOnline(c) PROVE Own
  BY <1>6 DEF EnterOnline, baseVars
<1>7. ASSUME NEW c \in Clients, Enter(c) PROVE Own
  <2> DEFINE b == server[c]
  <2>1. b \in Baseapps
    BY <1>7 DEF Enter, MayEnter
  <2>2. nextId[b] \in 1 .. IdsPerBaseapp
    BY <1>7, <1>c, <2>1 DEF Enter, IdsLeft
  <2>3. <<b, nextId[b]>> \in Eids
    BY <2>1, <2>2 DEF Eids
  <2>4. msgs' \subseteq Messages
    BY <1>7, <2>3 DEF Enter
  <2>5. nextId' \in [Baseapps -> 1 .. IdsPerBaseapp + 1]
    BY <1>7, <1>c, <2>1, <2>2 DEF Enter
  <2>6. pendingEntry[b][account[c]] \in Entries
    BY <1>7, <2>1 DEF Enter, EntryFor
  <2>7. [pendingEntry[b][account[c]] EXCEPT !.client = c] \in Entries
    BY <2>6 DEF Entries
  <2>8. pendingEntry' \in [Baseapps -> [Accounts -> Entries \cup {NULL}]]
    BY <1>7, <2>1, <2>7 DEF Enter
  <2> QED
    BY <1>7, <2>4, <2>5, <2>8 DEF Enter
<1>8. ASSUME NEW c \in Clients, Disconnect(c) PROVE Own
  <2> DEFINE own == ProxyOf(c)
  <2>1. own \subseteq Proxies
    BY DEF ProxyOf
  <2>2. \A p \in Proxies : p.account \in Accounts /\ p.eid \in Eids
    BY DEF Proxies
  <2> DEFINE sent == {RemovalOf(p) : p \in own}
  <2>5. sent \subseteq Messages
    BY <2>1, <2>2 DEF RemovalOf
  <2>6. msgs' = msgs \cup sent
    BY <1>8 DEF Disconnect
  <2>3. msgs' \subseteq Messages
    BY <2>5, <2>6
  <2>4. proxies' \in [Baseapps -> SUBSET Proxies]
    BY <1>8 DEF Disconnect
  <2> QED
    BY <1>8, <2>3, <2>4 DEF Disconnect
<1> QED
  BY <1>0, <1>1, <1>2, <1>3, <1>4, <1>5, <1>6, <1>7, <1>8 DEF BaseStep, BaseReceive, TypeOK

\* A step of basemgr preserves the types.
LEMMA MgrTypes == TypeOK /\ MgrStep => TypeOK'
<1> SUFFICES ASSUME TypeOK, MgrStep PROVE TypeOK'
  OBVIOUS
<1> DEFINE Own == NetTypeOK' /\ MgrTypeOK'
<1>0. LoginTypeOK' /\ BaseTypeOK' /\ dbTypeOK'
  BY DEF MgrStep, TypeOK, LoginTypeOK, BaseTypeOK, dbTypeOK, loginVars, baseVars
<1>a. NetTypeOK /\ MgrTypeOK
  BY DEF TypeOK
<1>b. \A c \in Clients : account[c] \in Accounts /\ home[c] \in LoginApps
  BY ClientsAssumption
<1>d. \A e \in Eids : BaseOf(e) \in Baseapps
  BY DEF Eids, BaseOf
<1> USE <1>a, <1>b, MessageTypes DEF NetTypeOK, MgrTypeOK, Phases
<1>1. ASSUME NEW b \in Baseapps, RegisterBaseapp(b) PROVE Own
  BY <1>1 DEF RegisterBaseapp
<1>2. ASSUME NEW b \in Baseapps, LoseBaseapp(b) PROVE Own
  <2>1. PICK i \in DOMAIN components :
           components' = SubSeq(components, 1, i - 1)
                           \o SubSeq(components, i + 1, Len(components))
    BY <1>2 DEF LoseBaseapp
  <2>2. i \in 1 .. Len(components) /\ Len(components) \in Nat
    OBVIOUS
  <2>3. SubSeq(components, 1, i - 1) \in Seq(Baseapps)
    BY <2>2, SubSeqProperties
  <2>4. SubSeq(components, i + 1, Len(components)) \in Seq(Baseapps)
    BY <2>2, SubSeqProperties
  <2>5. components' \in Seq(Baseapps)
    BY <2>1, <2>3, <2>4, ConcatProperties
  <2>6. ready' \subseteq Baseapps /\ bestBaseapp' \in Baseapps \cup {NULL}
    BY <1>2 DEF LoseBaseapp
  <2> QED
    BY <1>2, <2>5, <2>6 DEF LoseBaseapp, netVars
<1>3. ASSUME NEW m \in msgs, OnInitProgress(m) PROVE Own
  <2>1. m.base \in Baseapps
    BY <1>3, MessageFields DEF OnInitProgress
  <2>2. msgs' \subseteq Messages
    BY <1>3, ReceiveType DEF OnInitProgress
  <2> QED
    BY <1>3, <2>1, <2>2 DEF OnInitProgress
<1>4. ASSUME NEW m \in msgs, OnRegisterPendingAccount(m) PROVE Own
  <2>1. m.client \in Clients
    BY <1>4, MessageFields DEF OnRegisterPendingAccount
  <2>2. pendingLogins' \in [Accounts -> LoginApps \cup {NULL}]
    BY <1>4, <2>1 DEF OnRegisterPendingAccount
  <2>3. CASE SendRegistration(m)
    <3>2. ChosenBaseapp \in Baseapps
      BY <2>3 DEF SendRegistration
    <3>3. RegistrationOf(m.client, NULL, ChosenBaseapp) \in Messages
      BY <2>1, <3>2
    <3>1. msgs' \subseteq Messages
      BY <2>3, <3>3, ReceiveType DEF SendRegistration
    <3> QED
      BY <1>4, <2>2, <2>3, <3>1 DEF OnRegisterPendingAccount, SendRegistration
  <2>4. CASE BufferRegistration(m)
    <3>1. msgs' \subseteq Messages
      BY <2>4, ReceiveType DEF BufferRegistration
    <3> QED
      BY <1>4, <2>1, <2>2, <2>4, <3>1 DEF OnRegisterPendingAccount, BufferRegistration
  <2> QED
    BY <1>4, <2>3, <2>4 DEF OnRegisterPendingAccount
<1>5. ASSUME NEW m \in msgs, OnRegisterPendingAccountEx(m) PROVE Own
  <2>1. m.client \in Clients /\ m.eid \in Eids
    BY <1>5, MessageFields DEF OnRegisterPendingAccountEx
  <2>2. BaseOf(m.eid) \in Baseapps
    BY <1>d, <2>1
  <2>3. pendingLogins' \in [Accounts -> LoginApps \cup {NULL}]
    BY <1>5, <2>1 DEF OnRegisterPendingAccountEx
  <2>5. /\ RegistrationOf(m.client, m.eid, BaseOf(m.eid)) \in Messages
        /\ AddressOf(m.client, home[m.client], NULL) \in Messages
    BY <2>1, <2>2
  <2>4. msgs' \subseteq Messages
    BY <1>5, <2>5, ReceiveType DEF OnRegisterPendingAccountEx
  <2> QED
    BY <1>5, <2>3, <2>4 DEF OnRegisterPendingAccountEx
<1>6. ASSUME NEW m \in msgs, OnGetBaseappAddr(m) PROVE Own
  <2>1. m.client \in Clients /\ m.base \in Baseapps
    BY <1>6, MessageFields DEF OnGetBaseappAddr
  <2>2. pendingLogins' \in [Accounts -> LoginApps \cup {NULL}]
    BY <1>6, <2>1 DEF OnGetBaseappAddr
  <2>3. msgs' \subseteq Messages
    BY <1>6, <2>1, ReceiveType DEF OnGetBaseappAddr
  <2> QED
    BY <1>6, <2>2, <2>3 DEF OnGetBaseappAddr
<1>7. ASSUME ForwardBuffered PROVE Own
  <2> DEFINE n == IF Len(forwardBuffer) < Burst THEN Len(forwardBuffer) ELSE Burst
  <2>1. Len(forwardBuffer) \in Nat /\ n \in 0 .. Len(forwardBuffer)
    BY DEF Burst
  <2>2. \A t \in (1 .. n) \X Running :
           forwardBuffer[t[1]] \in Clients /\ components[t[2]] \in Baseapps
    BY <2>1 DEF Running
  <2> DEFINE sent == {RegistrationOf(forwardBuffer[t[1]], NULL, components[t[2]]) :
                        t \in {u \in (1 .. n) \X Running : Turn(u[1], u[2])}}
  <2>5. \A t \in (1 .. n) \X Running :
           RegistrationOf(forwardBuffer[t[1]], NULL, components[t[2]]) \in Messages
    BY <2>2
  <2>6. sent \subseteq Messages
    BY <2>5
  <2>7. msgs' = msgs \cup sent
    BY <1>7 DEF ForwardBuffered
  <2>3. msgs' \subseteq Messages
    BY <2>6, <2>7
  <2>4. SubSeq(forwardBuffer, n + 1, Len(forwardBuffer)) \in Seq(Clients)
    BY <2>1, SubSeqProperties
  <2> QED
    BY <1>7, <2>3, <2>4 DEF ForwardBuffered
<1> QED
  BY <1>0, <1>1, <1>2, <1>3, <1>4, <1>5, <1>6, <1>7 DEF MgrStep, MgrReceive, TypeOK

\* No step leaves the declared types.
LEMMA TypeStep == TypeOK /\ [Next]_vars => TypeOK'
<1>1. TypeOK /\ Next => TypeOK'
  BY LoginTypes, MgrTypes, BaseTypes, DBTypes DEF Next
<1>2. TypeOK /\ UNCHANGED vars => TypeOK'
  BY DEF vars, netVars, loginVars, mgrVars, baseVars,
         TypeOK, NetTypeOK, LoginTypeOK, MgrTypeOK, BaseTypeOK, dbTypeOK
<1> QED
  BY <1>1, <1>2

\* The first state has the declared types.
LEMMA TypeInit == Init => TypeOK
<1> SUFFICES ASSUME Init PROVE TypeOK
  OBVIOUS
<1>1. NetTypeOK
  BY DEF Init, NetInit, NetTypeOK, Statuses, Phases
<1>2. LoginTypeOK
  BY DEF Init, LoginInit, LoginTypeOK
<1>3. MgrTypeOK
  BY DEF Init, MgrInit, MgrTypeOK
<1>4. BaseTypeOK
  BY IdsRangeAssumption DEF Init, BaseInit, BaseTypeOK
<1>5. dbTypeOK
  BY DEF Init, DBInit, dbTypeOK
<1> QED
  BY <1>1, <1>2, <1>3, <1>4, <1>5 DEF TypeOK

\* Every reachable state of the login, of any number of clients and servers, has
\* the declared types.
THEOREM TypeCorrect == Spec => []TypeOK
<1>1. TypeOK /\ [Next]_vars => TypeOK'
  BY TypeStep
<1> QED
  BY TypeInit, <1>1, PTL DEF Spec

-----------------------------------------------------------------------------
(***************************************************************************)
(* An account has at most one Proxy.  Every entity id dbmgr is asked about *)
(* is at any time in one place only: in the question, in its answer, in a  *)
(* Proxy, or in a removal.  From the positive answer on, it is the one the *)
(* row of the account names.  Only the holder of that id erases the row.   *)
(***************************************************************************)

\* The messages that carry the id of an entity.
OfEntity(m) == m.type \in {"QueryAccount", "QueryPlayerCB", "RemoveEntity"}

\* Ids under way and in use have been handed out.
IdsHandedOut ==
    /\ \A m \in msgs : OfEntity(m) => m.eid[2] < nextId[m.eid[1]]
    /\ \A b \in Baseapps : \A p \in proxies[b] : p.eid[1] = b /\ p.eid[2] < nextId[b]

\* No two messages carry the same id.
MessagesApart ==
    \A m1, m2 \in msgs : OfEntity(m1) /\ OfEntity(m2) /\ m1.eid = m2.eid => m1 = m2

\* No message carries the id of a Proxy.
MessagesAndProxiesApart ==
    \A m \in msgs, b \in Baseapps : \A p \in proxies[b] : OfEntity(m) => m.eid # p.eid

\* No two Proxies of a baseapp have the same id.
ProxiesApart ==
    \A b \in Baseapps : \A p1, p2 \in proxies[b] : p1.eid = p2.eid => p1 = p2

\* A positive answer is that of the row.
AnswerIsLogged ==
    \A m \in msgs : m.type = "QueryPlayerCB" /\ m.ok => row[m.account] = m.eid

EntityInv ==
    /\ IdsHandedOut
    /\ MessagesApart
    /\ MessagesAndProxiesApart
    /\ ProxiesApart
    /\ AnswerIsLogged
    /\ ProxyIsLogged
    /\ RemoveErasesOwnRow

IInv == TypeOK /\ EntityInv

\* A step that makes no message about an entity and no Proxy, and leaves ids and
\* rows alone, preserves the invariant.
LEMMA EntityFrame ==
    ASSUME EntityInv, UNCHANGED <<nextId, row>>,
           \A m \in msgs' : OfEntity(m) => m \in msgs,
           \A b \in Baseapps : proxies'[b] \subseteq proxies[b]
    PROVE  EntityInv'
<1>1. IdsHandedOut'
  BY DEF EntityInv, IdsHandedOut
<1>2. MessagesApart'
  BY DEF EntityInv, MessagesApart
<1>3. MessagesAndProxiesApart'
  BY DEF EntityInv, MessagesAndProxiesApart
<1>4. ProxiesApart'
  BY DEF EntityInv, ProxiesApart
<1>5. AnswerIsLogged'
  BY DEF EntityInv, AnswerIsLogged, OfEntity
<1>6. ProxyIsLogged'
  BY DEF EntityInv, ProxyIsLogged
<1>7. RemoveErasesOwnRow'
  BY DEF EntityInv, RemoveErasesOwnRow, OfEntity
<1> QED
  BY <1>1, <1>2, <1>3, <1>4, <1>5, <1>6, <1>7 DEF EntityInv

\* A message handled with nothing sent but messages of clients.
LEMMA ReceiveFrame ==
    ASSUME NEW m, NEW sent, Receive(m, sent), \A x \in sent : ~OfEntity(x)
    PROVE  \A x \in msgs' : OfEntity(x) => x \in msgs
  BY DEF Receive

\* No step of a loginapp is about an entity.
LEMMA LoginEntity == EntityInv /\ LoginStep => EntityInv'
<1> SUFFICES ASSUME EntityInv, LoginStep PROVE EntityInv'
  OBVIOUS
<1>0. UNCHANGED <<nextId, row, proxies>>
  BY DEF LoginStep, baseVars
<1>1. \A m \in msgs' : OfEntity(m) => m \in msgs
  <2>1. ASSUME NEW c \in Clients, LoginRefused(c) \/ Login(c)
        PROVE  \A m \in msgs' : OfEntity(m) => m \in msgs
    BY <2>1 DEF LoginRefused, Login, OfEntity
  <2>2. ASSUME NEW m \in msgs, LoginReceive(m)
        PROVE  \A x \in msgs' : OfEntity(x) => x \in msgs
    <3>1. CASE OnLoginResult(m)
      BY <3>1 DEF OnLoginResult, Receive, OfEntity
    <3>2. CASE OnBaseappAddr(m) \/ OnBaseappInitProgress(m)
      BY <3>2 DEF OnBaseappAddr, OnBaseappInitProgress, Receive
    <3> QED
      BY <2>2, <3>1, <3>2 DEF LoginReceive
  <2>3. ASSUME NEW la \in LoginApps, NEW a \in Accounts, PendingTimeout(la, a)
        PROVE  \A m \in msgs' : OfEntity(m) => m \in msgs
    BY <2>3 DEF PendingTimeout, netVars
  <2> QED
    BY <2>1, <2>2, <2>3 DEF LoginStep
<1> QED
  BY <1>0, <1>1, EntityFrame

\* No step of basemgr is about an entity.
LEMMA MgrEntity == EntityInv /\ MgrStep => EntityInv'
<1> SUFFICES ASSUME EntityInv, MgrStep PROVE EntityInv'
  OBVIOUS
<1>0. UNCHANGED <<nextId, row, proxies>>
  BY DEF MgrStep, baseVars
<1>1. \A m \in msgs' : OfEntity(m) => m \in msgs
  <2>1. ASSUME NEW b \in Baseapps, RegisterBaseapp(b) \/ LoseBaseapp(b)
        PROVE  \A m \in msgs' : OfEntity(m) => m \in msgs
    BY <2>1 DEF RegisterBaseapp, LoseBaseapp, netVars
  <2>2. ASSUME NEW m \in msgs, MgrReceive(m)
        PROVE  \A x \in msgs' : OfEntity(x) => x \in msgs
    <3>1. CASE OnInitProgress(m)
      <4>1. \A x \in [type : {"BaseappInitProgress"}, loginapp : LoginApps] : ~OfEntity(x)
        BY DEF OfEntity
      <4> QED
        BY <3>1, <4>1, ReceiveFrame DEF OnInitProgress
    <3>2. CASE OnRegisterPendingAccount(m)
      BY <3>2 DEF OnRegisterPendingAccount, SendRegistration, BufferRegistration,
                  RegistrationOf, Receive, OfEntity
    <3>3. CASE OnRegisterPendingAccountEx(m)
      BY <3>3 DEF OnRegisterPendingAccountEx, RegistrationOf, AddressOf, Receive, OfEntity
    <3>4. CASE OnGetBaseappAddr(m)
      BY <3>4 DEF OnGetBaseappAddr, AddressOf, Receive, OfEntity
    <3> QED
      BY <2>2, <3>1, <3>2, <3>3, <3>4 DEF MgrReceive
  <2>3. ASSUME ForwardBuffered PROVE \A m \in msgs' : OfEntity(m) => m \in msgs
    BY <2>3 DEF ForwardBuffered, RegistrationOf, OfEntity
  <2> QED
    BY <2>1, <2>2, <2>3 DEF MgrStep
<1> QED
  BY <1>0, <1>1, EntityFrame

\* An answer takes the place of the question: ids stay apart and handed out.
LEMMA AnswerKeepsApart ==
    ASSUME EntityInv, UNCHANGED <<nextId, proxies>>, NEW m \in msgs, NEW ok \in BOOLEAN,
           m.type = "QueryAccount", Reply(m, ok)
    PROVE  IdsHandedOut' /\ MessagesApart' /\ MessagesAndProxiesApart' /\ ProxiesApart'
<1> DEFINE r == [type |-> "QueryPlayerCB", account |-> m.account, eid |-> m.eid, ok |-> ok]
<1>1. msgs' = (msgs \ {m}) \cup {r} /\ r.eid = m.eid /\ OfEntity(m)
  BY DEF Reply, Receive, OfEntity
<1>2. \A x \in msgs \ {m} : OfEntity(x) => x.eid # m.eid
  BY <1>1 DEF EntityInv, MessagesApart
<1>3. IdsHandedOut'
  BY <1>1 DEF EntityInv, IdsHandedOut
<1>4. MessagesApart'
  BY <1>1, <1>2 DEF EntityInv, MessagesApart
<1>5. MessagesAndProxiesApart'
  BY <1>1 DEF EntityInv, MessagesAndProxiesApart
<1>6. ProxiesApart'
  BY DEF EntityInv, ProxiesApart
<1> QED
  BY <1>3, <1>4, <1>5, <1>6

\* Without a broken connection the tasks of dbmgr keep the rows in step with the ids.
LEMMA DBEntity == TypeOK /\ EntityInv /\ ~ConnectionLoss /\ DBStep => EntityInv'
<1> SUFFICES ASSUME TypeOK, EntityInv, ~ConnectionLoss, NEW m \in msgs, DBReceive(m),
                    UNCHANGED <<nextId, proxies>>
             PROVE  EntityInv'
  BY DEF DBStep, baseVars
<1>0. m \in Messages /\ row \in [Accounts -> Eids \cup {NULL}]
  BY DEF TypeOK, NetTypeOK, dbTypeOK
<1>a. NULL \notin Eids
  BY NullAssumption, IdsRangeAssumption DEF Eids
<1>b. \A b \in Baseapps : \A p \in proxies[b] : p.account \in Accounts /\ p.eid \in Eids
  BY DEF TypeOK, BaseTypeOK, Proxies
<1>c. \A x \in msgs : OfEntity(x) => x.account \in Accounts /\ x.eid \in Eids
  BY MessageFields DEF TypeOK, NetTypeOK, OfEntity
<1>1. CASE AccountLogin(m)
  <2>1. \A x \in msgs' : OfEntity(x) => x \in msgs
    BY <1>1 DEF AccountLogin, Receive, OfEntity
  <2> QED
    BY <1>1, <2>1, EntityFrame DEF AccountLogin
<1>2. CASE QueryAccount(m)
  <2>0. m.type = "QueryAccount" /\ OfEntity(m)
    BY <1>2 DEF QueryAccount, OfEntity
  <2>1. CASE LogEntity(m)
    <3>1. Reply(m, TRUE) /\ row[m.account] = NULL /\ row' = [row EXCEPT ![m.account] = m.eid]
      BY <2>1 DEF LogEntity
    <3>2. \A a \in Accounts : row[a] # NULL => row'[a] = row[a]
      BY <1>0, <3>1
    <3>3. row'[m.account] = m.eid
      BY <1>0, <1>c, <2>0, <3>1
    <3>4. IdsHandedOut' /\ MessagesApart' /\ MessagesAndProxiesApart' /\ ProxiesApart'
      BY <2>0, <3>1, AnswerKeepsApart
    <3>5. AnswerIsLogged'
      <4> SUFFICES ASSUME NEW x \in msgs', x.type = "QueryPlayerCB", x.ok
                   PROVE  row'[x.account] = x.eid
        BY DEF AnswerIsLogged
      <4>1. CASE x \in msgs
        <5>1. row[x.account] = x.eid /\ x.account \in Accounts /\ x.eid \in Eids
          BY <1>c, <4>1 DEF EntityInv, AnswerIsLogged, OfEntity
        <5> QED
          BY <1>a, <3>2, <5>1
      <4>2. CASE x \notin msgs
        BY <3>1, <3>3, <4>2 DEF Reply, Receive
      <4> QED
        BY <4>1, <4>2
    <3>6. ProxyIsLogged'
      BY <1>a, <1>b, <3>2 DEF EntityInv, ProxyIsLogged
    <3>7. RemoveErasesOwnRow'
      <4> SUFFICES ASSUME NEW x \in msgs', x.type = "RemoveEntity"
                   PROVE  row'[x.account] = x.eid
        BY DEF RemoveErasesOwnRow
      <4>1. x \in msgs
        BY <3>1 DEF Reply, Receive
      <4>2. row[x.account] = x.eid /\ x.account \in Accounts /\ x.eid \in Eids
        BY <1>c, <4>1 DEF EntityInv, RemoveErasesOwnRow, OfEntity
      <4> QED
        BY <1>a, <3>2, <4>2
    <3> QED
      BY <3>4, <3>5, <3>6, <3>7 DEF EntityInv
  <2>2. CASE QueryFails(m)
    <3>1. Reply(m, FALSE) /\ UNCHANGED row
      BY <2>2 DEF QueryFails
    <3>2. IdsHandedOut' /\ MessagesApart' /\ MessagesAndProxiesApart' /\ ProxiesApart'
      BY <2>0, <3>1, AnswerKeepsApart
    <3>3. \A x \in msgs' : x.type = "RemoveEntity" \/ (x.type = "QueryPlayerCB" /\ x.ok)
                             => x \in msgs
      BY <3>1 DEF Reply, Receive
    <3> QED
      BY <3>1, <3>2, <3>3
      DEF EntityInv, AnswerIsLogged, ProxyIsLogged, RemoveErasesOwnRow
  <2> QED
    BY <1>2, <2>1, <2>2 DEF QueryAccount, LogEntityReconnects
<1>3. CASE RemoveEntity(m)
  <2>1. /\ m.type = "RemoveEntity" /\ OfEntity(m) /\ msgs' = msgs \ {m}
        /\ row' = [row EXCEPT ![m.account] = NULL]
    BY <1>3 DEF RemoveEntity, EraseEntityLog, Receive, OfEntity
  <2>2. row[m.account] = m.eid
    BY <2>1 DEF EntityInv, RemoveErasesOwnRow
  <2>3. \A a \in Accounts : a # m.account => row'[a] = row[a]
    BY <1>0, <2>1
  <2>4. \A x \in msgs' : OfEntity(x) => x.eid # m.eid
    BY <2>1 DEF EntityInv, MessagesApart
  <2>5. AnswerIsLogged'
    BY <1>c, <2>1, <2>2, <2>3, <2>4 DEF EntityInv, AnswerIsLogged, OfEntity
  <2>6. RemoveErasesOwnRow'
    BY <1>c, <2>1, <2>2, <2>3, <2>4 DEF EntityInv, RemoveErasesOwnRow, OfEntity
  <2>7. ProxyIsLogged'
    BY <1>b, <2>1, <2>2, <2>3 DEF EntityInv, ProxyIsLogged, MessagesAndProxiesApart
  <2>8. IdsHandedOut' /\ MessagesApart' /\ MessagesAndProxiesApart' /\ ProxiesApart'
    BY <2>1 DEF EntityInv, IdsHandedOut, MessagesApart, MessagesAndProxiesApart, ProxiesApart
  <2> QED
    BY <2>5, <2>6, <2>7, <2>8 DEF EntityInv
<1> QED
  BY <1>1, <1>2, <1>3 DEF DBReceive

\* loginBaseapp asks under an id that nothing carries yet.
LEMMA EnterEntity ==
    ASSUME TypeOK, EntityInv, NEW c \in Clients, Enter(c), UNCHANGED row
    PROVE  EntityInv'
<1> DEFINE b == server[c]
           q == [type |-> "QueryAccount", account |-> account[c], eid |-> <<b, nextId[b]>>]
<1>1. b \in Baseapps
  BY DEF Enter, MayEnter, TypeOK, NetTypeOK
<1>2. nextId \in [Baseapps -> Nat]
  BY IdsRangeAssumption DEF TypeOK, BaseTypeOK
<1>3. /\ msgs' = msgs \cup {q} /\ OfEntity(q) /\ q.eid = <<b, nextId[b]>>
      /\ nextId' = [nextId EXCEPT ![b] = @ + 1]
      /\ UNCHANGED proxies
  BY DEF Enter, OfEntity
<1>4. \A e \in Eids : e[1] \in Baseapps /\ e[2] \in Nat /\ BaseOf(e) = e[1]
  BY IdsRangeAssumption DEF Eids, BaseOf
<1>5. \A x \in msgs : OfEntity(x) => x.eid \in Eids /\ x.eid # q.eid
  <2> SUFFICES ASSUME NEW x \in msgs, OfEntity(x) PROVE x.eid \in Eids /\ x.eid # q.eid
    OBVIOUS
  <2>1. x.eid \in Eids
    BY MessageFields DEF TypeOK, NetTypeOK, OfEntity
  <2>2. x.eid[2] < nextId[x.eid[1]]
    BY DEF EntityInv, IdsHandedOut
  <2> QED
    BY <1>1, <1>2, <1>3, <1>4, <2>1, <2>2
<1>6. \A d \in Baseapps : \A p \in proxies[d] : p.eid \in Eids /\ p.eid # q.eid
  <2> SUFFICES ASSUME NEW d \in Baseapps, NEW p \in proxies[d]
               PROVE  p.eid \in Eids /\ p.eid # q.eid
    OBVIOUS
  <2>1. p.eid \in Eids
    BY DEF TypeOK, BaseTypeOK, Proxies
  <2>2. p.eid[1] = d /\ p.eid[2] < nextId[d]
    BY DEF EntityInv, IdsHandedOut
  <2> QED
    BY <1>1, <1>2, <1>3, <1>4, <2>1, <2>2
<1>7. \A d \in Baseapps : nextId[d] <= nextId'[d]
  BY <1>1, <1>2, <1>3
<1>8. nextId[b] < nextId'[b] /\ nextId' \in [Baseapps -> Nat]
  BY <1>1, <1>2, <1>3
<1>9. IdsHandedOut'
  <2>1. ASSUME NEW x \in msgs', OfEntity(x) PROVE x.eid[2] < nextId'[x.eid[1]]
    <3>1. CASE x = q
      BY <1>3, <1>8, <3>1
    <3>2. CASE x \in msgs
      <4>1. x.eid[2] < nextId[x.eid[1]]
        BY <2>1, <3>2 DEF EntityInv, IdsHandedOut
      <4>2. x.eid[1] \in Baseapps /\ x.eid[2] \in Nat
        BY <1>4, <1>5, <2>1, <3>2
      <4> QED
        BY <1>2, <1>7, <1>8, <4>1, <4>2
    <3> QED
      BY <1>3, <3>1, <3>2
  <2>2. ASSUME NEW d \in Baseapps, NEW p \in proxies'[d]
        PROVE  p.eid[1] = d /\ p.eid[2] < nextId'[d]
    <3>1. p \in proxies[d] /\ p.eid[1] = d /\ p.eid[2] < nextId[d]
      BY <1>3, <2>2 DEF EntityInv, IdsHandedOut
    <3>2. p.eid[2] \in Nat
      BY <1>4, <1>6, <3>1
    <3> QED
      BY <1>2, <1>7, <1>8, <3>1, <3>2
  <2> QED
    BY <2>1, <2>2 DEF IdsHandedOut
<1>10. MessagesApart'
  BY <1>3, <1>5 DEF EntityInv, MessagesApart
<1>11. MessagesAndProxiesApart'
  BY <1>3, <1>6 DEF EntityInv, MessagesAndProxiesApart
<1>12. ProxiesApart'
  BY <1>3 DEF EntityInv, ProxiesApart
<1>13. AnswerIsLogged' /\ RemoveErasesOwnRow'
  BY <1>3 DEF EntityInv, AnswerIsLogged, RemoveErasesOwnRow
<1>14. ProxyIsLogged'
  BY <1>3 DEF EntityInv, ProxyIsLogged
<1> QED
  BY <1>9, <1>10, <1>11, <1>12, <1>13, <1>14 DEF EntityInv

\* A Proxy takes the place of the positive answer.
LEMMA CreateProxyEntity ==
    ASSUME TypeOK, EntityInv, UNCHANGED <<nextId, row>>, NEW m \in msgs,
           m.type = "QueryPlayerCB", m.ok, Receive(m, {}), NEW c, CreateProxy(m, c)
    PROVE  EntityInv'
<1> DEFINE b == BaseOf(m.eid)
           new == [eid |-> m.eid, account |-> m.account,
                   client |-> IF AtBaseapp(c, b) THEN c ELSE NULL]
<1>1. m.eid \in Eids /\ OfEntity(m)
  BY MessageFields DEF TypeOK, NetTypeOK, OfEntity
<1>2. b = m.eid[1] /\ b \in Baseapps
  BY <1>1 DEF Eids, BaseOf
<1>3. /\ msgs' = msgs \ {m}
      /\ proxies' = [proxies EXCEPT ![b] = @ \cup {new}]
  BY DEF Receive, CreateProxy
<1>4. /\ proxies'[b] = proxies[b] \cup {new}
      /\ \A d \in Baseapps : d # b => proxies'[d] = proxies[d]
  BY <1>2, <1>3 DEF TypeOK, BaseTypeOK
<1>5. new.eid = m.eid /\ new.account = m.account
  OBVIOUS
<1> HIDE DEF new
<1>6. \A d \in Baseapps : \A p \in proxies'[d] : p \in proxies[d] \/ (d = b /\ p = new)
  BY <1>4
<1>7. IdsHandedOut'
  BY <1>1, <1>2, <1>3, <1>5, <1>6 DEF EntityInv, IdsHandedOut
<1>8. MessagesApart'
  BY <1>3 DEF EntityInv, MessagesApart
<1>9. MessagesAndProxiesApart'
  BY <1>1, <1>3, <1>5, <1>6 DEF EntityInv, MessagesAndProxiesApart, MessagesApart
<1>10. ProxiesApart'
  BY <1>1, <1>5, <1>6 DEF EntityInv, ProxiesApart, MessagesAndProxiesApart
<1>11. AnswerIsLogged' /\ RemoveErasesOwnRow'
  BY <1>3 DEF EntityInv, AnswerIsLogged, RemoveErasesOwnRow
<1>12. ProxyIsLogged'
  BY <1>5, <1>6 DEF EntityInv, ProxyIsLogged, AnswerIsLogged
<1> QED
  BY <1>7, <1>8, <1>9, <1>10, <1>11, <1>12 DEF EntityInv

\* A removal takes the place of the Proxy.
LEMMA DisconnectEntity ==
    ASSUME TypeOK, EntityInv, NEW c \in Clients, Disconnect(c), UNCHANGED row
    PROVE  EntityInv'
<1> DEFINE b == server[c]
           own == ProxyOf(c)
<1>1. b \in Baseapps \cup {NULL} /\ NULL \notin Baseapps
  BY NullAssumption DEF TypeOK, NetTypeOK
<1>2. /\ msgs' = msgs \cup {RemovalOf(p) : p \in own}
      /\ proxies' = [d \in Baseapps |-> proxies[d] \ own]
      /\ UNCHANGED nextId
  BY DEF Disconnect
<1>3. \A d \in Baseapps : proxies'[d] = proxies[d] \ own
  BY <1>2
<1>4. \A p \in own : b \in Baseapps /\ p \in proxies[b]
  BY <1>1 DEF ProxyOf
<1>5. \A x \in msgs' : x \in msgs \/ \E p \in own : x = RemovalOf(p)
  BY <1>2
<1>6. \A p \in own : /\ RemovalOf(p).type = "RemoveEntity" /\ OfEntity(RemovalOf(p))
                     /\ RemovalOf(p).eid = p.eid /\ RemovalOf(p).account = p.account
  BY DEF OfEntity, RemovalOf
<1> HIDE DEF own
<1>7. IdsHandedOut'
  <2>1. \A x \in msgs' : OfEntity(x) => x.eid[2] < nextId[x.eid[1]]
    <3>1. \A p \in own : p.eid[2] < nextId[p.eid[1]]
      BY <1>4 DEF EntityInv, IdsHandedOut
    <3> QED
      BY <1>5, <1>6, <3>1 DEF EntityInv, IdsHandedOut
  <2>2. \A d \in Baseapps : \A p \in proxies'[d] : p \in proxies[d]
    BY <1>3
  <2> QED
    BY <1>2, <2>1, <2>2 DEF EntityInv, IdsHandedOut
<1>8. MessagesApart'
  <2> SUFFICES ASSUME NEW x \in msgs', NEW y \in msgs', OfEntity(x), OfEntity(y), x.eid = y.eid
               PROVE  x = y
    BY DEF MessagesApart
  <2>1. CASE x \in msgs /\ y \in msgs
    BY <2>1 DEF EntityInv, MessagesApart
  <2>2. ASSUME NEW p \in own, x = RemovalOf(p), y \in msgs PROVE FALSE
    BY <1>4, <1>6, <2>2 DEF EntityInv, MessagesAndProxiesApart
  <2>3. ASSUME NEW p \in own, y = RemovalOf(p), x \in msgs PROVE FALSE
    BY <1>4, <1>6, <2>3 DEF EntityInv, MessagesAndProxiesApart
  <2>4. ASSUME NEW p \in own, NEW q \in own, x = RemovalOf(p), y = RemovalOf(q) PROVE x = y
    <3>1. p = q
      BY <1>4, <1>6, <2>4 DEF EntityInv, ProxiesApart
    <3> QED
      BY <2>4, <3>1
  <2> QED
    BY <1>5, <2>1, <2>2, <2>3, <2>4
<1>9. MessagesAndProxiesApart'
  <2> SUFFICES ASSUME NEW x \in msgs', OfEntity(x), NEW d \in Baseapps, NEW p \in proxies'[d]
               PROVE  x.eid # p.eid
    BY DEF MessagesAndProxiesApart
  <2>1. p \in proxies[d] /\ p \notin own
    BY <1>3
  <2>2. CASE x \in msgs
    BY <2>1, <2>2 DEF EntityInv, MessagesAndProxiesApart
  <2>3. ASSUME NEW q \in own, x = RemovalOf(q) PROVE x.eid # p.eid
    <3>1. q.eid[1] = b /\ p.eid[1] = d /\ q \in proxies[b] /\ b \in Baseapps
      BY <1>4, <2>1 DEF EntityInv, IdsHandedOut
    <3>2. CASE d = b
      BY <1>6, <2>1, <2>3, <3>1, <3>2 DEF EntityInv, ProxiesApart
    <3>3. CASE d # b
      BY <1>6, <2>3, <3>1, <3>3
    <3> QED
      BY <3>2, <3>3
  <2> QED
    BY <1>5, <2>2, <2>3
<1>10. ProxiesApart'
  BY <1>3 DEF EntityInv, ProxiesApart
<1>11. AnswerIsLogged'
  BY <1>5, <1>6 DEF EntityInv, AnswerIsLogged
<1>12. RemoveErasesOwnRow'
  <2>1. \A p \in own : row[p.account] = p.eid
    BY <1>4 DEF EntityInv, ProxyIsLogged
  <2> QED
    BY <1>5, <1>6, <2>1 DEF EntityInv, RemoveErasesOwnRow
<1>13. ProxyIsLogged'
  BY <1>3 DEF EntityInv, ProxyIsLogged
<1> QED
  BY <1>7, <1>8, <1>9, <1>10, <1>11, <1>12, <1>13 DEF EntityInv

\* The steps of the baseapps pass every id from hand to hand.
LEMMA BaseEntity == TypeOK /\ EntityInv /\ BaseStep => EntityInv'
<1> SUFFICES ASSUME TypeOK, EntityInv, BaseStep PROVE EntityInv'
  OBVIOUS
<1>0. UNCHANGED row
  BY DEF BaseStep
<1> DEFINE Quiet == /\ UNCHANGED nextId
                    /\ \A m \in msgs' : OfEntity(m) => m \in msgs
                    /\ \A b \in Baseapps : proxies'[b] \subseteq proxies[b]
<1>1. ASSUME NEW b \in Baseapps, ReportReady(b) PROVE EntityInv'
  <2>1. Quiet
    BY <1>1 DEF ReportReady, baseVars, OfEntity
  <2> QED
    BY <1>0, <2>1, EntityFrame
<1>2. ASSUME NEW b \in Baseapps, Crash(b) PROVE EntityInv'
  <2>1. Quiet
    BY <1>2 DEF Crash, TypeOK, BaseTypeOK
  <2> QED
    BY <1>0, <2>1, EntityFrame
<1>3. ASSUME NEW m \in msgs, RegisterPendingLogin(m) PROVE EntityInv'
  <2>1. Quiet
    BY <1>3 DEF RegisterPendingLogin, Receive, OfEntity
  <2> QED
    BY <1>0, <2>1, EntityFrame
<1>4. ASSUME NEW m \in msgs, OnQueryPlayerCB(m) PROVE EntityInv'
  <2>1. CASE UNCHANGED proxies
    <3>1. Quiet
      BY <1>4, <2>1 DEF OnQueryPlayerCB, Receive
    <3> QED
      BY <1>0, <3>1, EntityFrame
  <2>2. CASE m.ok /\ \E c : c = pendingEntry[BaseOf(m.eid)][m.account].client /\ CreateProxy(m, c)
    BY <1>0, <1>4, <2>2, CreateProxyEntity DEF OnQueryPlayerCB
  <2> QED
    BY <1>4, <2>1, <2>2 DEF OnQueryPlayerCB
<1>5. ASSUME NEW c \in Clients, EnterRefused(c) \/ EnterOnline(c) PROVE EntityInv'
  <2>1. Quiet
    BY <1>5 DEF EnterRefused, EnterOnline, baseVars
  <2> QED
    BY <1>0, <2>1, EntityFrame
<1>6. ASSUME NEW c \in Clients, Enter(c) PROVE EntityInv'
  BY <1>0, <1>6, EnterEntity
<1>7. ASSUME NEW c \in Clients, Disconnect(c) PROVE EntityInv'
  BY <1>0, <1>7, DisconnectEntity
<1> QED
  BY <1>1, <1>2, <1>3, <1>4, <1>5, <1>6, <1>7 DEF BaseStep, BaseReceive

\* Nothing is under way at first.
LEMMA EntityInit == Init => EntityInv
  BY DEF Init, NetInit, BaseInit, DBInit, EntityInv, IdsHandedOut, MessagesApart,
         MessagesAndProxiesApart, ProxiesApart, AnswerIsLogged, ProxyIsLogged,
         RemoveErasesOwnRow

\* No step breaks the invariant as long as the connection to MySQL holds.
LEMMA InvStep == IInv /\ ~ConnectionLoss /\ [Next]_vars => IInv'
<1> SUFFICES ASSUME TypeOK, EntityInv, ~ConnectionLoss, [Next]_vars PROVE EntityInv'
  BY TypeStep DEF IInv
<1>1. CASE Next
  BY <1>1, LoginEntity, MgrEntity, BaseEntity, DBEntity DEF Next
<1>2. CASE UNCHANGED vars
  BY <1>2, EntityFrame DEF vars, netVars, baseVars
<1> QED
  BY <1>1, <1>2

\* With the connection to MySQL intact, every reachable state satisfies the inductive
\* invariant: an entity id has one holder, and the row of the account is that of the
\* id whose creation dbmgr has allowed.
THEOREM Invariant == ASSUME ~ConnectionLoss PROVE Spec => []IInv
<1>1. Init => IInv
  BY TypeInit, EntityInit DEF IInv
<1>2. IInv /\ [Next]_vars => IInv'
  BY InvStep
<1> QED
  BY <1>1, <1>2, PTL DEF Spec

\* With the connection to MySQL intact, the row of an account names its Proxy as long
\* as that lives.
THEOREM ProxyIsLoggedHolds == ASSUME ~ConnectionLoss PROVE Spec => []ProxyIsLogged
<1>1. IInv => ProxyIsLogged
  BY DEF IInv, EntityInv
<1> QED
  BY Invariant, <1>1, PTL

\* With the connection to MySQL intact, eraseEntityLog, which erases by account alone,
\* never meets the row of a later session.
THEOREM RemoveErasesOwnRowHolds == ASSUME ~ConnectionLoss PROVE Spec => []RemoveErasesOwnRow
<1>1. IInv => RemoveErasesOwnRow
  BY DEF IInv, EntityInv
<1> QED
  BY Invariant, <1>1, PTL

\* With the connection to MySQL intact, no account ever has two Proxies, for any number
\* of clients, loginapps and baseapps, with baseapps that crash and messages that
\* overtake each other.
THEOREM OneProxyPerAccountHolds == ASSUME ~ConnectionLoss PROVE Spec => []OneProxyPerAccount
<1>1. IInv => OneProxyPerAccount
  <2> SUFFICES ASSUME IInv, NEW b1 \in Baseapps, NEW b2 \in Baseapps,
                      NEW p1 \in proxies[b1], NEW p2 \in proxies[b2],
                      p1.account = p2.account
               PROVE  p1 = p2
    BY DEF OneProxyPerAccount
  <2>1. p1.eid = p2.eid
    BY DEF IInv, EntityInv, ProxyIsLogged
  <2>2. b1 = b2
    BY <2>1 DEF IInv, EntityInv, IdsHandedOut
  <2> QED
    BY <2>1, <2>2 DEF IInv, EntityInv, ProxiesApart
<1> QED
  BY Invariant, <1>1, PTL

-----------------------------------------------------------------------------
(***************************************************************************)
(* Clients and Proxies.  A channel is bound once: while its Proxy lives    *)
(* the row of the account is taken, and no positive answer about the       *)
(* account is under way.                                                   *)
(***************************************************************************)

\* The client named in the entry of an account has that account.
EntryClientsOwn ==
    \A b \in Baseapps, a \in Accounts :
        pendingEntry[b][a] # NULL /\ pendingEntry[b][a].client # NULL =>
            account[pendingEntry[b][a].client] = a

ClientInv == IInv /\ EntryClientsOwn /\ ClientsMatchProxies

LEMMA NullIsNoEid == NULL \notin Eids
<1>1. \A b \in Baseapps : b \in Nat
  BY IdsRangeAssumption
<1>2. \A i \in 1 .. IdsPerBaseapp : i \in Nat
  BY IdsRangeAssumption
<1>3. Eids \subseteq Nat \X Nat
  BY <1>1, <1>2, Zenon DEF Eids
<1> QED
  BY <1>3, NullAssumption, Zenon

\* The ids of Proxies and channels, and the clients of Proxies.
LEMMA BindingTypes ==
    ASSUME TypeOK
    PROVE  /\ NULL \notin Eids /\ NULL \notin Clients /\ NULL \notin Baseapps
           /\ \A e \in Eids : BaseOf(e) \in Baseapps
           /\ \A c \in Clients : proxyID[c] \in Eids \cup {NULL}
           /\ \A b \in Baseapps : \A p \in proxies[b] :
                 /\ p.eid \in Eids
                 /\ p.client \in Clients \cup {NULL}
<1>1. NULL \notin Eids
  BY NullIsNoEid
<1>2. \A e \in Eids : BaseOf(e) \in Baseapps
  BY DEF Eids, BaseOf
<1> QED
  BY <1>1, <1>2, NullAssumption DEF TypeOK, BaseTypeOK, Proxies

\* A step that keeps the clients of a baseapp there, and leaves Proxies and channels
\* as they are.
LEMMA ChannelFrame ==
    ASSUME TypeOK, ClientsMatchProxies, UNCHANGED <<proxies, proxyID>>,
           \A c \in Clients, b \in Baseapps :
              server[c] = b /\ status[c] \in {"entering", "online", "refused"} =>
                  server'[c] = b /\ status'[c] \in {"entering", "online", "refused"}
    PROVE  ClientsMatchProxies'
<1>1. ASSUME NEW b \in Baseapps, NEW p \in proxies[b], p.client # NULL
      PROVE  AtBaseapp(p.client, b)' /\ proxyID[p.client] = p.eid
  <2>1. p.client \in Clients
    BY <1>1, BindingTypes
  <2>2. AtBaseapp(p.client, b) /\ proxyID[p.client] = p.eid
    BY <1>1 DEF ClientsMatchProxies
  <2> QED
    BY <2>1, <2>2 DEF AtBaseapp
<1> QED
  BY <1>1 DEF ClientsMatchProxies

\* loginapps, basemgr and dbmgr deal with clients that have not got further.
LEMMA OtherServersClients ==
    ASSUME TypeOK, ClientInv, LoginStep \/ MgrStep \/ DBStep
    PROVE  EntryClientsOwn' /\ ClientsMatchProxies'
<1> DEFINE Stay == \A c \in Clients :
                      \/ status'[c] = status[c] /\ server'[c] = server[c]
                      \/ status[c] \in {"new", "login"}
<1>1. UNCHANGED <<pendingEntry, proxies, proxyID>>
  BY DEF LoginStep, MgrStep, DBStep, baseVars
<1>2. ASSUME MgrStep \/ DBStep  PROVE Stay
  <2>1. ASSUME NEW b \in Baseapps, RegisterBaseapp(b) \/ LoseBaseapp(b)  PROVE Stay
    BY <2>1 DEF RegisterBaseapp, LoseBaseapp, netVars
  <2>2. ASSUME NEW m \in msgs, MgrReceive(m)  PROVE Stay
    BY <2>2 DEF MgrReceive, OnInitProgress, OnRegisterPendingAccount,
                OnRegisterPendingAccountEx, OnGetBaseappAddr
  <2>3. ASSUME ForwardBuffered  PROVE Stay
    BY <2>3 DEF ForwardBuffered
  <2>4. ASSUME NEW m \in msgs, DBReceive(m)  PROVE Stay
    BY <2>4 DEF DBReceive, AccountLogin, QueryAccount, RemoveEntity
  <2> QED
    BY <1>2, <2>1, <2>2, <2>3, <2>4 DEF MgrStep, DBStep
<1>3. ASSUME LoginStep  PROVE Stay
  <2> USE DEF TypeOK, NetTypeOK
  <2>1. ASSUME NEW c \in Clients, LoginRefused(c) \/ Login(c)  PROVE Stay
    BY <2>1 DEF LoginRefused, Login
  <2>2. ASSUME NEW m \in msgs, OnLoginResult(m)  PROVE Stay
    BY <2>2 DEF OnLoginResult, AnswerClient, AtLoginapp
  <2>3. ASSUME NEW m \in msgs, OnBaseappAddr(m)  PROVE Stay
    BY <2>3 DEF OnBaseappAddr, AnswerClient, AtLoginapp
  <2>4. ASSUME NEW m \in msgs, OnBaseappInitProgress(m)  PROVE Stay
    BY <2>4 DEF OnBaseappInitProgress
  <2>5. ASSUME NEW la \in LoginApps, NEW a \in Accounts, PendingTimeout(la, a)  PROVE Stay
    BY <2>5 DEF PendingTimeout, netVars
  <2> QED
    BY <1>3, <2>1, <2>2, <2>3, <2>4, <2>5 DEF LoginStep, LoginReceive
<1>4. Stay
  BY <1>2, <1>3
<1>5. ClientsMatchProxies'
  BY <1>1, <1>4, ChannelFrame DEF ClientInv
<1>6. EntryClientsOwn'
  BY <1>1 DEF ClientInv, EntryClientsOwn
<1> QED
  BY <1>5, <1>6

\* The entries are as they were, or new ones without a client.
LEMMA RegisterClients ==
    ASSUME TypeOK, ClientInv, NEW m \in msgs, RegisterPendingLogin(m)
    PROVE  EntryClientsOwn' /\ ClientsMatchProxies'
<1>1. UNCHANGED <<status, server, proxies, proxyID>>
  BY DEF RegisterPendingLogin
<1>2. \A b \in Baseapps, a \in Accounts :
        \/ pendingEntry'[b][a] = pendingEntry[b][a]
        \/ pendingEntry'[b][a].client = NULL
  <2>1. m.client \in Clients /\ m.base \in Baseapps /\ account[m.client] \in Accounts
    BY MessageFields, ClientsAssumption DEF RegisterPendingLogin, TypeOK, NetTypeOK
  <2> QED
    BY <2>1 DEF RegisterPendingLogin, TypeOK, BaseTypeOK
<1>3. EntryClientsOwn'
  BY <1>2 DEF ClientInv, EntryClientsOwn
<1>4. ClientsMatchProxies'
  BY <1>1, ChannelFrame DEF ClientInv
<1> QED
  BY <1>3, <1>4

\* loginBaseapp of c, which stays at its baseapp, on-line or not.
LEMMA EnterClients ==
    ASSUME TypeOK, ClientInv, NEW c \in Clients,
           EnterRefused(c) \/ EnterOnline(c) \/ Enter(c)
    PROVE  EntryClientsOwn' /\ ClientsMatchProxies'
<1>1. /\ UNCHANGED <<server, proxies, proxyID>>
      /\ server[c] \in Baseapps
      /\ account[c] \in Accounts
  BY ClientsAssumption
  DEF EnterRefused, EnterOnline, Enter, MayEnter, baseVars, TypeOK, NetTypeOK
<1>2. PICK s \in {"entering", "refused"} : status' = [status EXCEPT ![c] = s]
  BY DEF EnterRefused, EnterOnline, Enter
<1>3. \A b \in Baseapps, a \in Accounts :
        \/ pendingEntry'[b][a] = pendingEntry[b][a]
        \/ pendingEntry'[b][a].client = c /\ b = server[c] /\ a = account[c]
  <2>1. CASE Enter(c)
    <3>1. pendingEntry[server[c]][account[c]] \in Entries
      BY <1>1, <2>1 DEF Enter, EntryFor, TypeOK, BaseTypeOK
    <3>2. [pendingEntry[server[c]][account[c]] EXCEPT !.client = c].client = c
      BY <3>1 DEF Entries
    <3> QED
      BY <1>1, <2>1, <3>2 DEF Enter, TypeOK, BaseTypeOK
  <2>2. CASE EnterRefused(c) \/ EnterOnline(c)
    BY <2>2 DEF EnterRefused, EnterOnline, baseVars
  <2> QED
    BY <2>1, <2>2
<1>4. EntryClientsOwn'
  BY <1>3 DEF ClientInv, EntryClientsOwn
<1>5. ClientsMatchProxies'
  BY <1>1, <1>2, ChannelFrame DEF ClientInv, TypeOK, NetTypeOK
<1> QED
  BY <1>4, <1>5

\* A positive answer finds the channel of the client unbound: the row of the account is
\* that of the answer, and would be that of the Proxy the channel were bound to.
LEMMA ChannelUnbound ==
    ASSUME TypeOK, ClientInv, NEW m \in msgs, m.type = "QueryPlayerCB", m.ok,
           NEW c \in Clients, account[c] = m.account
    PROVE  proxyID[c] = NULL
<1> SUFFICES ASSUME proxyID[c] # NULL  PROVE FALSE
  OBVIOUS
<1>1. BaseOf(proxyID[c]) \in Baseapps
  BY BindingTypes
<1>2. PICK p \in proxies[BaseOf(proxyID[c])] : p.account = account[c]
  BY DEF ClientInv, ClientsMatchProxies
<1>3. row[m.account] = p.eid
  BY <1>1, <1>2 DEF ClientInv, IInv, EntityInv, ProxyIsLogged
<1>4. row[m.account] = m.eid
  BY DEF ClientInv, IInv, EntityInv, AnswerIsLogged
<1>5. m.eid # p.eid
  BY <1>1, <1>2 DEF ClientInv, IInv, EntityInv, MessagesAndProxiesApart, OfEntity
<1> QED
  BY <1>3, <1>4, <1>5

\* createClientProxies: Proxy and channel are bound to each other.
LEMMA CreateProxyClients ==
    ASSUME TypeOK, ClientInv, NEW m \in msgs, m.type = "QueryPlayerCB", m.ok,
           UNCHANGED server, NEW c, CreateProxy(m, c),
           c # NULL => c \in Clients /\ account[c] = m.account
    PROVE  ClientsMatchProxies'
<1> DEFINE b == BaseOf(m.eid)
           new == [eid |-> m.eid, account |-> m.account,
                   client |-> IF AtBaseapp(c, b) THEN c ELSE NULL]
<1>1. m.eid \in Eids /\ b \in Baseapps
  BY MessageFields, BindingTypes DEF TypeOK, NetTypeOK
<1>2. /\ proxies' = [proxies EXCEPT ![b] = @ \cup {new}]
      /\ proxyID' = IF AtBaseapp(c, b) THEN [proxyID EXCEPT ![c] = m.eid] ELSE proxyID
      /\ status' = IF AtBaseapp(c, b) THEN [status EXCEPT ![c] = "online"] ELSE status
  BY DEF CreateProxy, TellClient
<1>3. /\ new.eid = m.eid /\ new.account = m.account
      /\ new.client = IF AtBaseapp(c, b) THEN c ELSE NULL
  OBVIOUS
<1> HIDE DEF new
<1>4. /\ proxies'[b] = proxies[b] \cup {new}
      /\ \A d \in Baseapps : d # b => proxies'[d] = proxies[d]
  BY <1>1, <1>2 DEF TypeOK, BaseTypeOK
<1>5. AtBaseapp(c, b) => c \in Clients /\ account[c] = m.account /\ proxyID[c] = NULL
  BY ChannelUnbound DEF AtBaseapp
<1>6. \A d \in Clients :
        \/ AtBaseapp(c, b) /\ d = c /\ proxyID'[d] = m.eid /\ status'[d] = "online"
        \/ proxyID'[d] = proxyID[d] /\ status'[d] = status[d] /\ ~(AtBaseapp(c, b) /\ d = c)
  BY <1>2 DEF TypeOK, NetTypeOK, BaseTypeOK
<1>7. ASSUME NEW d \in Baseapps, NEW p \in proxies'[d], p.client # NULL
      PROVE  AtBaseapp(p.client, d)' /\ proxyID'[p.client] = p.eid
  <2>1. CASE p \in proxies[d]
    <3>1. p.client \in Clients /\ p.eid # NULL
      BY <1>7, <2>1, BindingTypes
    <3>2. AtBaseapp(p.client, d) /\ proxyID[p.client] = p.eid
      BY <1>7, <2>1 DEF ClientInv, ClientsMatchProxies
    <3>3. proxyID'[p.client] = proxyID[p.client] /\ status'[p.client] = status[p.client]
      BY <1>5, <1>6, <3>1, <3>2
    <3> QED
      BY <3>2, <3>3 DEF AtBaseapp
  <2>2. CASE d = b /\ p = new
    <3>1. AtBaseapp(c, b) /\ p.client = c /\ p.eid = m.eid
      BY <1>3, <1>7, <2>2
    <3>2. proxyID'[c] = m.eid /\ status'[c] = "online" /\ c \in Clients
      BY <1>5, <1>6, <3>1
    <3> QED
      BY <2>2, <3>1, <3>2 DEF AtBaseapp
  <2> QED
    BY <1>4, <2>1, <2>2
<1>8. ASSUME NEW d \in Clients, proxyID'[d] # NULL
      PROVE  \E p \in proxies'[BaseOf(proxyID'[d])] :
                p.eid = proxyID'[d] /\ p.client = d /\ p.account = account[d]
  <2>1. CASE AtBaseapp(c, b) /\ d = c /\ proxyID'[d] = m.eid
    BY <1>3, <1>4, <1>5, <2>1
  <2>2. CASE proxyID'[d] = proxyID[d]
    <3>1. PICK p \in proxies[BaseOf(proxyID[d])] :
             p.eid = proxyID[d] /\ p.client = d /\ p.account = account[d]
      BY <1>8, <2>2 DEF ClientInv, ClientsMatchProxies
    <3>2. BaseOf(proxyID[d]) \in Baseapps
      BY <1>8, <2>2, BindingTypes
    <3> QED
      BY <1>4, <2>2, <3>1, <3>2
  <2> QED
    BY <1>6, <2>1, <2>2
<1> QED
  BY <1>7, <1>8 DEF ClientsMatchProxies

\* The answer of dbmgr.
LEMMA AnswerClients ==
    ASSUME TypeOK, ClientInv, NEW m \in msgs, OnQueryPlayerCB(m)
    PROVE  EntryClientsOwn' /\ ClientsMatchProxies'
<1>1. PICK a \in Accounts, b \in Baseapps : a = m.account /\ b = BaseOf(m.eid)
  <2>1. m.account \in Accounts /\ m.eid \in Eids
    BY MessageFields DEF OnQueryPlayerCB, TypeOK, NetTypeOK
  <2> QED
    BY <2>1, BindingTypes
<1>2. PICK entry : entry = pendingEntry[b][a]
  OBVIOUS
<1>3. /\ pendingEntry' = [pendingEntry EXCEPT ![b][a] = NULL]
      /\ UNCHANGED server
      /\ m.type = "QueryPlayerCB"
      /\ \/ entry = NULL /\ UNCHANGED <<status, proxies, proxyID>>
         \/ entry # NULL /\ m.ok /\ CreateProxy(m, entry.client)
         \/ /\ entry # NULL /\ TellClient(entry.client, b, "refused")
            /\ UNCHANGED <<proxies, proxyID>>
  BY <1>1, <1>2 DEF OnQueryPlayerCB
<1>4. EntryClientsOwn'
  <2>1. \A b1 \in Baseapps, a1 \in Accounts :
          pendingEntry'[b1][a1] # NULL => pendingEntry'[b1][a1] = pendingEntry[b1][a1]
    BY <1>1, <1>3 DEF TypeOK, BaseTypeOK
  <2> QED
    BY <2>1 DEF ClientInv, EntryClientsOwn
<1>5. CASE UNCHANGED <<status, proxies, proxyID>>
  BY <1>3, <1>4, <1>5, ChannelFrame DEF ClientInv
<1>6. CASE entry # NULL /\ m.ok /\ CreateProxy(m, entry.client)
  <2>1. PICK c : c = entry.client
    OBVIOUS
  <2>2. c \in Clients \cup {NULL}
    BY <1>2, <1>6, <2>1 DEF TypeOK, BaseTypeOK, Entries
  <2>3. c # NULL => account[c] = m.account
    BY <1>1, <1>2, <1>6, <2>1 DEF ClientInv, EntryClientsOwn
  <2> QED
    BY <1>3, <1>4, <1>6, <2>1, <2>2, <2>3, CreateProxyClients
<1>7. CASE TellClient(entry.client, b, "refused") /\ UNCHANGED <<proxies, proxyID>>
  <2>1. \A c \in Clients : \/ status'[c] = status[c]
                           \/ /\ status[c] \in {"entering", "online", "refused"}
                              /\ status'[c] = "refused"
    BY <1>7 DEF TellClient, AtBaseapp, TypeOK, NetTypeOK
  <2> QED
    BY <1>3, <1>4, <1>7, <2>1, ChannelFrame DEF ClientInv
<1> QED
  BY <1>3, <1>5, <1>6, <1>7

\* A client that leaves takes with it the one Proxy that has its address.
LEMMA DisconnectClients ==
    ASSUME TypeOK, ClientInv, NEW c \in Clients, Disconnect(c)
    PROVE  EntryClientsOwn' /\ ClientsMatchProxies'
<1>1. /\ \A d \in Clients : d # c => /\ status'[d] = status[d] /\ server'[d] = server[d]
                                     /\ proxyID'[d] = proxyID[d]
      /\ proxyID'[c] = NULL
      /\ UNCHANGED pendingEntry
      /\ \A b \in Baseapps : proxies'[b] = proxies[b] \ ProxyOf(c)
  BY DEF Disconnect, TypeOK, NetTypeOK, BaseTypeOK
<1>2. EntryClientsOwn'
  BY <1>1 DEF ClientInv, EntryClientsOwn
<1>3. ASSUME NEW b \in Baseapps, NEW p \in proxies'[b], p.client # NULL
      PROVE  AtBaseapp(p.client, b)' /\ proxyID'[p.client] = p.eid
  <2>1. p \in proxies[b] /\ p \notin ProxyOf(c) /\ p.client \in Clients
    BY <1>1, <1>3, BindingTypes
  <2>2. AtBaseapp(p.client, b) /\ proxyID[p.client] = p.eid
    BY <1>3, <2>1 DEF ClientInv, ClientsMatchProxies
  <2>3. p.client # c
    BY <2>1, <2>2, BindingTypes DEF ProxyOf, AtBaseapp
  <2> QED
    BY <1>1, <2>1, <2>2, <2>3 DEF AtBaseapp
<1>4. ASSUME NEW d \in Clients, proxyID'[d] # NULL
      PROVE  \E p \in proxies'[BaseOf(proxyID'[d])] :
                p.eid = proxyID'[d] /\ p.client = d /\ p.account = account[d]
  <2>1. d # c /\ proxyID'[d] = proxyID[d]
    BY <1>1, <1>4
  <2>2. BaseOf(proxyID[d]) \in Baseapps
    BY <1>4, <2>1, BindingTypes
  <2>3. PICK p \in proxies[BaseOf(proxyID[d])] :
           p.eid = proxyID[d] /\ p.client = d /\ p.account = account[d]
    BY <1>4, <2>1 DEF ClientInv, ClientsMatchProxies
  <2>4. p \notin ProxyOf(c)
    <3> SUFFICES ASSUME p \in ProxyOf(c)  PROVE FALSE
      OBVIOUS
    <3>1. server[c] \in Baseapps /\ p \in proxies[server[c]] /\ p.eid = proxyID[c]
      BY DEF ProxyOf, TypeOK, NetTypeOK
    <3>2. proxyID[c] # NULL
      BY <3>1, BindingTypes
    <3>3. PICK q \in proxies[BaseOf(proxyID[c])] : q.eid = proxyID[c] /\ q.client = c
      BY <3>2 DEF ClientInv, ClientsMatchProxies
    <3>4. p = q
      BY <2>2, <2>3, <3>1, <3>3 DEF ClientInv, IInv, EntityInv, ProxiesApart
    <3> QED
      BY <2>1, <2>3, <3>3, <3>4
  <2> QED
    BY <1>1, <2>1, <2>2, <2>3, <2>4
<1> QED
  BY <1>2, <1>3, <1>4 DEF ClientsMatchProxies

\* A baseapp that dies takes its entries, its Proxies and the channels of their
\* clients with it.
LEMMA CrashClients ==
    ASSUME TypeOK, ClientInv, NEW b \in Baseapps, Crash(b)
    PROVE  EntryClientsOwn' /\ ClientsMatchProxies'
<1>1. /\ pendingEntry' = [pendingEntry EXCEPT ![b] = [a \in Accounts |-> NULL]]
      /\ proxies' = [proxies EXCEPT ![b] = {}]
      /\ status' = [c \in Clients |-> IF AtBaseapp(c, b) THEN "gone" ELSE status[c]]
      /\ server' = [c \in Clients |-> IF AtBaseapp(c, b) THEN NULL ELSE server[c]]
      /\ proxyID' = [c \in Clients |-> IF AtBaseapp(c, b) THEN NULL ELSE proxyID[c]]
  BY DEF Crash
<1>2. \A c \in Clients : AtBaseapp(c, b) => proxyID'[c] = NULL
  BY <1>1
<1>3. \A c \in Clients : ~AtBaseapp(c, b) =>
         status'[c] = status[c] /\ server'[c] = server[c] /\ proxyID'[c] = proxyID[c]
  BY <1>1
<1>4. /\ proxies'[b] = {}
      /\ \A a \in Accounts : pendingEntry'[b][a] = NULL
      /\ \A b1 \in Baseapps : b1 # b =>
            proxies'[b1] = proxies[b1] /\ pendingEntry'[b1] = pendingEntry[b1]
  BY <1>1 DEF TypeOK, BaseTypeOK
<1>5. EntryClientsOwn'
  BY <1>4 DEF ClientInv, EntryClientsOwn
<1>6. ASSUME NEW b1 \in Baseapps, NEW p \in proxies'[b1], p.client # NULL
      PROVE  AtBaseapp(p.client, b1)' /\ proxyID'[p.client] = p.eid
  <2>1. b1 # b /\ p \in proxies[b1]
    BY <1>4
  <2>2. AtBaseapp(p.client, b1) /\ proxyID[p.client] = p.eid /\ p.client \in Clients
    BY <1>6, <2>1, BindingTypes DEF ClientInv, ClientsMatchProxies
  <2>3. ~AtBaseapp(p.client, b)
    BY <2>1, <2>2 DEF AtBaseapp
  <2> QED
    BY <1>3, <2>2, <2>3 DEF AtBaseapp
<1>7. ASSUME NEW d \in Clients, proxyID'[d] # NULL
      PROVE  \E p \in proxies'[BaseOf(proxyID'[d])] :
                p.eid = proxyID'[d] /\ p.client = d /\ p.account = account[d]
  <2>1. ~AtBaseapp(d, b) /\ proxyID'[d] = proxyID[d]
    BY <1>2, <1>3, <1>7
  <2>2. PICK b1 \in Baseapps : b1 = BaseOf(proxyID[d])
    BY <1>7, <2>1, BindingTypes
  <2>3. PICK p \in proxies[b1] :
           p.eid = proxyID[d] /\ p.client = d /\ p.account = account[d]
    BY <1>7, <2>1, <2>2 DEF ClientInv, ClientsMatchProxies
  <2>4. AtBaseapp(d, b1)
    BY <2>3, BindingTypes DEF ClientInv, ClientsMatchProxies
  <2>5. b1 # b
    BY <2>1, <2>4
  <2> QED
    BY <1>4, <2>1, <2>2, <2>3, <2>5
<1> QED
  BY <1>5, <1>6, <1>7 DEF ClientsMatchProxies

LEMMA BaseClients ==
    ASSUME TypeOK, ClientInv, BaseStep
    PROVE  EntryClientsOwn' /\ ClientsMatchProxies'
<1> DEFINE Kept == EntryClientsOwn' /\ ClientsMatchProxies'
<1>1. ASSUME NEW b \in Baseapps, ReportReady(b)  PROVE Kept
  <2>1. UNCHANGED <<status, server, pendingEntry, proxies, proxyID>>
    BY <1>1 DEF ReportReady, baseVars
  <2> QED
    BY <2>1, ChannelFrame DEF ClientInv, EntryClientsOwn
<1>2. ASSUME NEW b \in Baseapps, Crash(b)  PROVE Kept
  BY <1>2, CrashClients
<1>3. ASSUME NEW m \in msgs, BaseReceive(m)  PROVE Kept
  BY <1>3, RegisterClients, AnswerClients DEF BaseReceive
<1>4. ASSUME NEW c \in Clients, EnterRefused(c) \/ EnterOnline(c) \/ Enter(c)  PROVE Kept
  BY <1>4, EnterClients
<1>5. ASSUME NEW c \in Clients, Disconnect(c)  PROVE Kept
  BY <1>5, DisconnectClients
<1> QED
  BY <1>1, <1>2, <1>3, <1>4, <1>5 DEF BaseStep

LEMMA ClientStep == ClientInv /\ ~ConnectionLoss /\ [Next]_vars => ClientInv'
<1> SUFFICES ASSUME ClientInv, ~ConnectionLoss, [Next]_vars  PROVE ClientInv'
  OBVIOUS
<1>1. TypeOK /\ IInv'
  BY InvStep DEF ClientInv, IInv
<1>2. CASE Next
  BY <1>1, <1>2, OtherServersClients, BaseClients DEF Next, ClientInv
<1>3. CASE UNCHANGED vars
  <2>1. UNCHANGED <<status, server, pendingEntry, proxies, proxyID>>
    BY <1>3 DEF vars, netVars, baseVars
  <2> QED
    BY <1>1, <2>1, ChannelFrame DEF ClientInv, EntryClientsOwn
<1> QED
  BY <1>2, <1>3

LEMMA ClientInit == Init => ClientInv
<1>1. Init => IInv
  BY TypeInit, EntityInit DEF IInv
<1> QED
  BY <1>1 DEF Init, NetInit, BaseInit, ClientInv, EntryClientsOwn, ClientsMatchProxies

\* With the connection to MySQL intact, a Proxy that has the address of a client is the
\* one the client's channel is bound to, and a channel is bound to a live Proxy of its
\* client's account, however often clients that are on-line send loginBaseapp again and
\* whichever baseapps crash.
THEOREM ClientsMatchProxiesHolds == ASSUME ~ConnectionLoss PROVE Spec => []ClientsMatchProxies
<1>1. ClientInv /\ [Next]_vars => ClientInv'
  BY ClientStep
<1>2. ClientInv => ClientsMatchProxies
  BY DEF ClientInv
<1> QED
  BY ClientInit, <1>1, <1>2, PTL DEF Spec

=============================================================================
