------------------------------ MODULE LoginApp ------------------------------
(***************************************************************************)
(* The loginapps (server/login/login.cpp, lib/server/pendingLoginmgr.cpp). *)
(* A loginapp asks dbmgr about the account, has basemgr register the login *)
(* at a baseapp, and tells the client the address.  Until then the attempt *)
(* is in pendingLoginMgr_, under the name of the account, for at most 120  *)
(* seconds.                                                                *)
(***************************************************************************)
EXTENDS LoginNetwork

VARIABLES
    pendingAttempts, \* pendingLoginMgr_ of each loginapp: the client of each account
    initProgress     \* initProgress_ >= 1

loginVars == <<pendingAttempts, initProgress>>

LoginTypeOK ==
    /\ pendingAttempts \in [LoginApps -> [Accounts -> Clients \cup {NULL}]]
    /\ initProgress \in [LoginApps -> BOOLEAN]

LoginInit ==
    /\ pendingAttempts = [la \in LoginApps |-> [a \in Accounts |-> NULL]]
    /\ initProgress = [la \in LoginApps |-> FALSE]

Attempt(c) == pendingAttempts[home[c]][account[c]]

\* Login, refused on the spot: another attempt for the account is pending
\* (SERVER_ERR_BUSY), or no baseapp is ready (SERVER_ERR_SRV_STARTING).
LoginRefused(c) ==
    /\ status[c] = "new"
    /\ Attempt(c) # NULL \/ ~initProgress[home[c]]
    /\ status' = [status EXCEPT ![c] = "refused"]
    /\ UNCHANGED <<msgs, server, phase, loginVars>>

\* Login: dbmgr is asked.
Login(c) ==
    /\ status[c] = "new"
    /\ Attempt(c) = NULL
    /\ initProgress[home[c]]
    /\ pendingAttempts' = [pendingAttempts EXCEPT ![home[c]][account[c]] = c]
    /\ status' = [status EXCEPT ![c] = "login"]
    /\ msgs' = msgs \cup {[type |-> "AccountLogin", client |-> c]}
    /\ UNCHANGED <<server, phase, initProgress>>

\* Mutant: the entry of a client that has left is kept.
AnswerClientThere(la, a, s, b) ==
    LET c == pendingAttempts[la][a] IN
    /\ pendingAttempts' =
          IF AtLoginapp(c) THEN [pendingAttempts EXCEPT ![la][a] = NULL] ELSE pendingAttempts
    /\ status' = IF AtLoginapp(c) THEN [status EXCEPT ![c] = s] ELSE status
    /\ server' = IF AtLoginapp(c) THEN [server EXCEPT ![c] = b] ELSE server

\* The pending entry of a at la is removed and its client, whoever that is by now,
\* told that it is s (and of the baseapp b) if it still has a channel.
AnswerClient(la, a, s, b) ==
    LET c == pendingAttempts[la][a] IN
    /\ pendingAttempts' = [pendingAttempts EXCEPT ![la][a] = NULL]
    /\ status' = IF AtLoginapp(c) THEN [status EXCEPT ![c] = s] ELSE status
    /\ server' = IF AtLoginapp(c) THEN [server EXCEPT ![c] = b] ELSE server

\* onLoginAccountQueryResultFromDbmgr.  Without a pending entry nothing happens.
\* A positive answer, or the row of an entity that is on-line, goes to basemgr.
OnLoginResult(m) ==
    /\ m.type = "LoginResult"
    /\ LET la == home[m.client]
           a == account[m.client]
       IN \/ /\ pendingAttempts[la][a] = NULL
             /\ Receive(m, {})
             /\ UNCHANGED <<status, server, pendingAttempts>>
          \/ /\ pendingAttempts[la][a] # NULL
             /\ ~m.ok
             /\ Receive(m, {})
             /\ AnswerClient(la, a, "refused", NULL)
          \/ /\ pendingAttempts[la][a] # NULL
             /\ m.ok
             /\ Receive(m, {[type |-> "RegisterPending", client |-> m.client, eid |-> m.eid]})
             /\ UNCHANGED <<status, server, pendingAttempts>>
    /\ UNCHANGED <<phase, initProgress>>

\* onLoginAccountQueryBaseappAddrFromBaseappmgr.  An empty address is a failure.
OnBaseappAddr(m) ==
    /\ m.type = "BaseappAddr"
    /\ Receive(m, {})
    /\ AnswerClient(m.loginapp, account[m.client],
                    IF m.base = NULL THEN "refused" ELSE "told", m.base)
    /\ UNCHANGED <<phase, initProgress>>

OnBaseappInitProgress(m) ==
    /\ m.type = "BaseappInitProgress"
    /\ Receive(m, {})
    /\ initProgress' = [initProgress EXCEPT ![m.loginapp] = TRUE]
    /\ UNCHANGED <<status, server, phase, pendingAttempts>>

\* PendingLoginMgr::process: after 120 s the entry is dropped without a word to
\* the client.  Time is not modelled: an entry may get that old at any point.
PendingTimeout(la, a) ==
    /\ pendingAttempts[la][a] # NULL
    /\ pendingAttempts' = [pendingAttempts EXCEPT ![la][a] = NULL]
    /\ UNCHANGED <<netVars, initProgress>>

LoginReceive(m) == OnLoginResult(m) \/ OnBaseappAddr(m) \/ OnBaseappInitProgress(m)

=============================================================================
