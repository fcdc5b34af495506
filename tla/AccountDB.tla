----------------------------- MODULE AccountDB -----------------------------
(***************************************************************************)
(* dbmgr and its tables as the login sees them: the tasks AccountLogin,    *)
(* QueryAccount and RemoveEntity (server/dbmgr/dbtasks.cpp) and the row of *)
(* kbe_entitylog that says where an account is on-line                     *)
(* (lib/db_mysql/kbe_table_mysql.cpp), whose primary key is the account.   *)
(*                                                                         *)
(* A task is one action: it is one transaction, and the tasks about one    *)
(* account never overlap (module BufferedDBTasks).                         *)
(***************************************************************************)
EXTENDS LoginNetwork

CONSTANT ConnectionLoss  \* whether the connection to MySQL may break

ASSUME ConnectionAssumption == ConnectionLoss \in BOOLEAN

VARIABLE row             \* the row of each account, NULL when there is none

dbTypeOK == row \in [Accounts -> Eids \cup {NULL}]

DBInit == row = [a \in Accounts |-> NULL]

\* KBEEntityLogTable::queryEntity: the entity of the account that is on-line, if any.
OnlineEntity(a) == row[a]

\* DBTaskAccountLogin: the answer names the entity that is on-line, if any.  Or the
\* login is refused (wrong password, error in the database).
AccountLogin(m) ==
    /\ m.type = "AccountLogin"
    /\ \E ok \in BOOLEAN :
          Receive(m, {[type |-> "LoginResult", client |-> m.client, ok |-> ok,
                       eid |-> IF ok THEN OnlineEntity(account[m.client]) ELSE NULL]})
    /\ UNCHANGED <<status, server, phase, row>>

\* Mutant: the outcome is not passed on.
ReplyAlwaysTrue(m, ok) ==
    Receive(m, {[type |-> "QueryPlayerCB", account |-> m.account, eid |-> m.eid, ok |-> TRUE]})

\* The answer to the baseapp.
Reply(m, ok) ==
    Receive(m, {[type |-> "QueryPlayerCB", account |-> m.account, eid |-> m.eid, ok |-> ok]})

\* Mutant: the row is replaced if there is one.
LogEntityReplace(m) ==
    /\ Reply(m, TRUE)
    /\ row' = [row EXCEPT ![m.account] = m.eid]

\* The entity is read and its row inserted.
LogEntity(m) ==
    /\ row[m.account] = NULL
    /\ Reply(m, TRUE)
    /\ row' = [row EXCEPT ![m.account] = m.eid]

\* The entity cannot be read, or it has a row.
QueryFails(m) ==
    /\ Reply(m, FALSE)
    /\ UNCHANGED row

\* The connection breaks at the insertion: logEntity reconnects and answers TRUE
\* without having inserted anything.
LogEntityReconnects(m) ==
    /\ ConnectionLoss
    /\ Reply(m, TRUE)
    /\ UNCHANGED row

\* DBTaskQueryAccount.
QueryAccount(m) ==
    /\ m.type = "QueryAccount"
    /\ LogEntity(m) \/ QueryFails(m) \/ LogEntityReconnects(m)
    /\ UNCHANGED <<status, server, phase>>

\* KBEEntityLogTable::eraseEntityLog: the row of the account is deleted, whichever
\* entity it names.
EraseEntityLog(a) == row' = [row EXCEPT ![a] = NULL]

\* DBTaskRemoveEntity.  When the connection breaks the task ends without having
\* deleted the row.
RemoveEntity(m) ==
    /\ m.type = "RemoveEntity"
    /\ Receive(m, {})
    /\ \/ EraseEntityLog(m.account)
       \/ ConnectionLoss /\ UNCHANGED row
    /\ UNCHANGED <<status, server, phase>>

DBReceive(m) == AccountLogin(m) \/ QueryAccount(m) \/ RemoveEntity(m)

=============================================================================
