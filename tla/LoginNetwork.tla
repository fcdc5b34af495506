---------------------------- MODULE LoginNetwork ----------------------------
(***************************************************************************)
(* What the modules of the login share: the messages between the servers,  *)
(* the clients as the servers see them, and which baseapps are up.         *)
(*                                                                         *)
(* A client stands for one attempt: it sends one Login to one loginapp and *)
(* then connects to one baseapp.  A person who tries again is another      *)
(* client of the same account.  Internal messages name the client on whose *)
(* behalf they are sent where the code names its account, so that the      *)
(* messages of two attempts can be told apart in properties; the servers   *)
(* act on the account alone.                                               *)
(*                                                                         *)
(* msgs is the set of messages under way.  Each is received once.  They    *)
(* may be received in any order, which is more than TCP and the task queue *)
(* of dbmgr allow.                                                         *)
(***************************************************************************)
EXTENDS Naturals, Sequences, FiniteSets

CONSTANTS
    Clients,
    Accounts,
    account,        \* account[c]: the account c logs in to
    LoginApps,
    home,           \* home[c]: the loginapp c connects to
    Baseapps,       \* their component ids; a restarted baseapp has a new one
    IdsPerBaseapp,  \* bound: the entity ids a baseapp ever gets from dbmgr
    NULL

ASSUME ClientsAssumption ==
    /\ account \in [Clients -> Accounts]
    /\ home \in [Clients -> LoginApps]

ASSUME IdsRangeAssumption ==
    /\ Baseapps \subseteq Nat \ {0}
    /\ IdsPerBaseapp \in Nat

ASSUME NullAssumption ==
    NULL \notin Clients \cup LoginApps \cup Baseapps \cup (Nat \X Nat)

\* The entity ids of the ranges dbmgr gives a baseapp; a row of kbe_entitylog
\* names the baseapp beside the id.
Eids == Baseapps \X (1 .. IdsPerBaseapp)
BaseOf(e) == e[1]

VARIABLES
    msgs,    \* the messages under way
    status,  \* how far each client has got
    server,  \* the baseapp whose address the client has been told
    phase    \* of each baseapp

netVars == <<msgs, status, server, phase>>

Statuses ==
    {"new",      \* not connected yet
     "login",    \* has sent Login and waits
     "told",     \* has the address of its baseapp
     "entering", \* connected to it, has sent loginBaseapp
     "online",   \* has been told of its Proxy
     "refused",  \* has been told that its login failed
     "gone"}     \* has disconnected

Phases ==
    {"off",        \* not started
     "registered", \* known to basemgr and dbmgr, not ready
     "ready",      \* has ids, and has said so to basemgr
     "dead"}       \* has crashed

ClientMessages ==
    [type : {"AccountLogin"}, client : Clients]
      \cup [type : {"LoginResult"}, client : Clients, ok : BOOLEAN, eid : Eids \cup {NULL}]
      \cup [type : {"RegisterPending"}, client : Clients, eid : Eids \cup {NULL}]
      \cup [type : {"RegisterPendingLogin"}, client : Clients, eid : Eids \cup {NULL},
            base : Baseapps]
      \cup [type : {"GetBaseappAddr"}, client : Clients, base : Baseapps]
      \cup [type : {"BaseappAddr"}, client : Clients, base : Baseapps \cup {NULL},
            loginapp : LoginApps]

EntityMessages ==
    [type : {"QueryAccount", "RemoveEntity"}, account : Accounts, eid : Eids]
      \cup [type : {"QueryPlayerCB"}, account : Accounts, eid : Eids, ok : BOOLEAN]

ProgressMessages ==
    [type : {"InitProgress"}, base : Baseapps]
      \cup [type : {"BaseappInitProgress"}, loginapp : LoginApps]

Messages == ClientMessages \cup EntityMessages \cup ProgressMessages

NetTypeOK ==
    /\ msgs \subseteq Messages
    /\ status \in [Clients -> Statuses]
    /\ server \in [Clients -> Baseapps \cup {NULL}]
    /\ phase \in [Baseapps -> Phases]

NetInit ==
    /\ msgs = {}
    /\ status = [c \in Clients |-> "new"]
    /\ server = [c \in Clients |-> NULL]
    /\ phase = [b \in Baseapps |-> "off"]

\* m has been received and those of sent are sent in its handler.
Receive(m, sent) == msgs' = (msgs \ {m}) \cup sent

\* The loginapp has a channel to c: it has not been answered and has not left.
AtLoginapp(c) == c # NULL /\ status[c] = "login"

\* b has a channel to c.
AtBaseapp(c, b) ==
    c # NULL /\ server[c] = b /\ status[c] \in {"entering", "online", "refused"}

=============================================================================
