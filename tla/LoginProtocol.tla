--------------------------- MODULE LoginProtocol ---------------------------
(***************************************************************************)
(* The login of clients: loginapps, basemgr, baseapps and dbmgr together.  *)
(* The on-line row of dbmgr is the lock that keeps an account from having  *)
(* two Proxies.                                                            *)
(***************************************************************************)
EXTENDS LoginApp, BaseMgr, BaseApp, AccountDB

vars == <<netVars, loginVars, mgrVars, baseVars, row>>

Init == NetInit /\ LoginInit /\ MgrInit /\ BaseInit /\ DBInit

TypeOK == NetTypeOK /\ LoginTypeOK /\ MgrTypeOK /\ BaseTypeOK /\ dbTypeOK

LoginStep ==
    /\ \/ \E c \in Clients : LoginRefused(c) \/ Login(c)
       \/ \E m \in msgs : LoginReceive(m)
       \/ \E la \in LoginApps, a \in Accounts : PendingTimeout(la, a)
    /\ UNCHANGED <<mgrVars, baseVars, row>>

MgrStep ==
    /\ \/ \E b \in Baseapps : RegisterBaseapp(b) \/ LoseBaseapp(b)
       \/ \E m \in msgs : MgrReceive(m)
       \/ ForwardBuffered
    /\ UNCHANGED <<loginVars, baseVars, row>>

BaseStep ==
    /\ \/ \E b \in Baseapps : ReportReady(b) \/ Crash(b)
       \/ \E m \in msgs : BaseReceive(m)
       \/ \E c \in Clients : EnterRefused(c) \/ EnterOnline(c) \/ Enter(c) \/ Disconnect(c)
    /\ UNCHANGED <<loginVars, mgrVars, row>>

DBStep ==
    /\ \E m \in msgs : DBReceive(m)
    /\ UNCHANGED <<loginVars, mgrVars, baseVars>>

Next == LoginStep \/ MgrStep \/ BaseStep \/ DBStep

Spec == Init /\ [][Next]_vars

-----------------------------------------------------------------------------

\* An account has at most one Proxy in the whole cluster, however many clients log
\* in to it, over whatever loginapps and baseapps, and whoever disconnects or crashes
\* in between.
OneProxyPerAccount ==
    \A b1, b2 \in Baseapps : \A p1 \in proxies[b1], p2 \in proxies[b2] :
        p1.account = p2.account => p1 = p2

\* The row of an account names its Proxy as long as that lives: a second login is
\* sent to the entity that is on-line.
ProxyIsLogged ==
    \A b \in Baseapps : \A p \in proxies[b] : row[p.account] = p.eid

\* eraseEntityLog deletes by account alone; still, a removal under way never meets
\* the row of a later session.
RemoveErasesOwnRow ==
    \A m \in msgs : m.type = "RemoveEntity" => row[m.account] = m.eid

\* Channels and Proxies name each other: a Proxy that has the address of a client is
\* the one the client's channel at that baseapp is bound to, so that it dies with the
\* client, and a channel is bound to a live Proxy of its client's account.  A client
\* that sends loginBaseapp again while it is on-line, and is refused, keeps its Proxy.
\* (A client names one account; on a channel used for two accounts in turn, the first
\* Proxy would be forgotten.)
ClientsMatchProxies ==
    /\ \A b \in Baseapps : \A p \in proxies[b] :
          p.client # NULL => AtBaseapp(p.client, b) /\ proxyID[p.client] = p.eid
    /\ \A c \in Clients :
          proxyID[c] # NULL =>
              \E p \in proxies[BaseOf(proxyID[c])] :
                  p.eid = proxyID[c] /\ p.client = c /\ p.account = account[c]

-----------------------------------------------------------------------------

\* The messages sent on behalf of c.
ForClient(m, c) == "client" \in DOMAIN m /\ m.client = c

\* The servers receive what they are sent, and basemgr ticks.  No client need do
\* anything and no entry need get old.
Fairness ==
    /\ \A c \in Clients :
          /\ WF_vars(LoginStep /\ \E m \in msgs : ForClient(m, c) /\ LoginReceive(m))
          /\ WF_vars(MgrStep /\ \E m \in msgs : ForClient(m, c) /\ MgrReceive(m))
          /\ WF_vars(BaseStep /\ \E m \in msgs : ForClient(m, c) /\ BaseReceive(m))
          /\ WF_vars(DBStep /\ \E m \in msgs : ForClient(m, c) /\ DBReceive(m))
    /\ WF_vars(MgrStep /\ ForwardBuffered)

FairSpec == Spec /\ Fairness

\* As long as no baseapp dies, every attempt a loginapp has taken in is answered
\* without waiting for its time-out: no message is stuck in basemgr's buffer, and
\* pending_logins_ still names the loginapp when the address comes.
AttemptIsAnswered ==
    \A la \in LoginApps, a \in Accounts, c \in Clients :
        (pendingAttempts[la][a] = c) ~> (pendingAttempts[la][a] # c)

=============================================================================
