------------------------------ MODULE BaseMgr ------------------------------
(***************************************************************************)
(* The base manager (server/basemgr/basemgr.cpp) and the buffer of the     *)
(* messages it keeps until a baseapp is ready (ForwardAnywhere_Message-    *)
(* Buffer, lib/server/forward_messagebuffer.cpp).                          *)
(***************************************************************************)
EXTENDS LoginNetwork

VARIABLES
    components,     \* the baseapps with a channel, in the order they registered
    ready,          \* the keys of baseapps_: those that have reported.  They are the
                    \* components whose state is COMPONENT_STATE_RUN
    bestBaseapp,    \* bestBaseappID_, NULL for 0
    pendingLogins,  \* pending_logins_: the loginapp that asked for each account
    forwardBuffer   \* forward_baseapp_messagebuffer_: whose registrations wait

mgrVars == <<components, ready, bestBaseapp, pendingLogins, forwardBuffer>>

MgrTypeOK ==
    /\ components \in Seq(Baseapps)
    /\ ready \subseteq Baseapps
    /\ bestBaseapp \in Baseapps \cup {NULL}
    /\ pendingLogins \in [Accounts -> LoginApps \cup {NULL}]
    /\ forwardBuffer \in Seq(Clients)

MgrInit ==
    /\ components = <<>>
    /\ ready = {}
    /\ bestBaseapp = NULL
    /\ pendingLogins = [a \in Accounts |-> NULL]
    /\ forwardBuffer = <<>>

Registered(b) == \E i \in DOMAIN components : components[i] = b

\* OnRegisterServer: a baseapp has connected.
RegisterBaseapp(b) ==
    /\ phase[b] = "off"
    /\ phase' = [phase EXCEPT ![b] = "registered"]
    /\ components' = Append(components, b)
    /\ UNCHANGED <<msgs, status, server, ready, bestBaseapp, pendingLogins, forwardBuffer>>

\* onBaseappInitProgress: a baseapp reports once, when it is ready.  Those that have
\* reported are all complete, so that the loginapps are told so.
OnInitProgress(m) ==
    /\ m.type = "InitProgress"
    /\ Receive(m, [type : {"BaseappInitProgress"}, loginapp : LoginApps])
    /\ ready' = ready \cup {m.base}
    /\ UNCHANGED <<status, server, phase, components, bestBaseapp, pendingLogins,
                   forwardBuffer>>

\* findComponent(BASEAPP_TYPE, bestBaseappID_): with id 0, as before the first
\* updateBestBaseapp, the first of them all.
ChosenBaseapp ==
    CASE bestBaseapp # NULL -> bestBaseapp
      [] bestBaseapp = NULL /\ components # <<>> -> components[1]
      [] OTHER -> NULL

RegistrationOf(c, e, b) ==
    [type |-> "RegisterPendingLogin", client |-> c, eid |-> e, base |-> b]

SendRegistration(m) ==
    /\ ChosenBaseapp \in ready
    /\ Receive(m, {RegistrationOf(m.client, NULL, ChosenBaseapp)})
    /\ UNCHANGED forwardBuffer

BufferRegistration(m) ==
    /\ ChosenBaseapp \notin ready
    /\ Receive(m, {})
    /\ forwardBuffer' = Append(forwardBuffer, m.client)

\* onRegisterPendingAccount: the account is off-line, any baseapp will do.
OnRegisterPendingAccount(m) ==
    /\ m.type = "RegisterPending"
    /\ m.eid = NULL
    /\ pendingLogins' = [pendingLogins EXCEPT ![account[m.client]] = home[m.client]]
    /\ SendRegistration(m) \/ BufferRegistration(m)
    /\ UNCHANGED <<status, server, phase, components, ready, bestBaseapp>>

AddressOf(c, la, b) == [type |-> "BaseappAddr", client |-> c, loginapp |-> la, base |-> b]

\* onRegisterPendingAccountEx: the account is on-line at a baseapp, which is asked;
\* if that one is gone, the address sent back (sendAllocatedBaseappAddr) is empty.
OnRegisterPendingAccountEx(m) ==
    /\ m.type = "RegisterPending"
    /\ m.eid # NULL
    /\ LET a == account[m.client]
           b == BaseOf(m.eid)
       IN \/ /\ Registered(b)
             /\ pendingLogins' = [pendingLogins EXCEPT ![a] = home[m.client]]
             /\ Receive(m, {RegistrationOf(m.client, m.eid, b)})
          \/ /\ ~Registered(b)
             /\ pendingLogins' = [pendingLogins EXCEPT ![a] = NULL]
             /\ Receive(m, {AddressOf(m.client, home[m.client], NULL)})
    /\ UNCHANGED <<status, server, phase, components, ready, bestBaseapp, forwardBuffer>>

\* onPendingAccountGetBaseappAddr: the address goes to the loginapp that asked
\* last for the account; the entry is erased.
OnGetBaseappAddr(m) ==
    /\ m.type = "GetBaseappAddr"
    /\ LET a == account[m.client] IN
          /\ Receive(m, IF pendingLogins[a] = NULL THEN {}
                        ELSE {AddressOf(m.client, pendingLogins[a], m.base)})
          /\ pendingLogins' = [pendingLogins EXCEPT ![a] = NULL]
    /\ UNCHANGED <<status, server, phase, components, ready, bestBaseapp, forwardBuffer>>

\* Messages process sends in one tick at most.
Burst == 5

\* The positions in components of the baseapps that are running.
Running == {j \in DOMAIN components : components[j] \in ready}

\* The running baseapps take turns: the i-th message sent in a tick goes to the one
\* at j.
Turn(i, j) == Cardinality({k \in Running : k < j}) = (i - 1) % Cardinality(Running)

\* ForwardAnywhere_MessageBuffer::process, once some baseapp is running: the
\* oldest messages go to the running ones in turn.
ForwardBuffered ==
    /\ forwardBuffer # <<>>
    /\ Running # {}
    /\ LET n == IF Len(forwardBuffer) < Burst THEN Len(forwardBuffer) ELSE Burst
       IN /\ msgs' = msgs \cup
                {RegistrationOf(forwardBuffer[t[1]], NULL, components[t[2]]) :
                    t \in {u \in (1 .. n) \X Running : Turn(u[1], u[2])}}
          /\ forwardBuffer' = SubSeq(forwardBuffer, n + 1, Len(forwardBuffer))
    /\ UNCHANGED <<status, server, phase, components, ready, bestBaseapp, pendingLogins>>

\* findFreeBaseapp of baseapps_ = bs finds b: no baseapp ever reports entities, so
\* the last of the map is free.
FreeBaseapp(bs, b) ==
    \/ bs = {} /\ b = NULL
    \/ b \in bs /\ \A x \in bs : x <= b

\* onChannelDeregister: the channel of a crashed baseapp is gone, once what came
\* through it has been received.
LoseBaseapp(b) ==
    /\ phase[b] = "dead"
    /\ \A m \in msgs : m.type \in {"InitProgress", "GetBaseappAddr"} => m.base # b
    /\ \E i \in DOMAIN components :
          /\ components[i] = b
          /\ components' = SubSeq(components, 1, i - 1)
                             \o SubSeq(components, i + 1, Len(components))
    /\ ready' = ready \ {b}
    /\ \/ b \notin ready /\ UNCHANGED bestBaseapp
       \/ /\ b \in ready
          /\ \E best \in ready' \cup {NULL} :
                FreeBaseapp(ready', best) /\ bestBaseapp' = best
    /\ UNCHANGED <<netVars, pendingLogins, forwardBuffer>>

MgrReceive(m) ==
    \/ OnInitProgress(m)
    \/ OnRegisterPendingAccount(m) \/ OnRegisterPendingAccountEx(m)
    \/ OnGetBaseappAddr(m)

=============================================================================
