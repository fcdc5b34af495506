# TLA+ verification of mini-kbe

mini-kbe is a C++ server cluster for games (a cut-down KBEngine). A client logs in at
a *loginapp*, which asks the database manager (*dbmgr*) about the account and the base
manager (*basemgr*) for a *baseapp*; the client then connects to that baseapp, which
creates the account's entity, a *Proxy*. All persistent state is behind the dbmgr, whose
worker threads run the database tasks.

Paths below are relative to `src/src/`. The sources are GBK-encoded; the code modelled is
the Win32 build (`src/minikbe_vs140.sln`), the one the repository ships.

## 1. Inventory

| Component | Code | State | Operations | Talks to | What is hard |
|---|---|---|---|---|---|
| Database queue `Buffered_DBTasks` | `server/dbmgr/buffered_dbtasks.*` | two multimaps, `dbid_tasks_` and `entityid_tasks_`, whose first entry per key stands for the task in progress | `addTask` (main thread), `tryGetNextTask` (worker) | the pool | two kinds of threads, the map unlocked before the pool is called, an entry per key that must never stay behind |
| Thread pool | `lib/thread/threadpool.*` | buffer, finished list, free/busy/all lists, two counters, one event per thread | `addTask`, `onMainThreadTick`, `threadFunc`, `removeHangThread`, `addFreeThread`, `destroy` | its tasks | lost wake-ups, time-outs racing with `addTask`, several mutexes |
| Database pool | `lib/db_interface/db_threadpool.*` | that of the pool | `DBThread::tryGetTask`, `processTask` | queue and pool | two sources of the next task |
| Database tasks | `server/dbmgr/dbtasks.*` | the request and its outcome | `db_thread_process`, `presentMainThread` | tables, channels | replies come from the tick, long after the row has been read |
| dbmgr | `server/dbmgr/dbmgr.*`, `interfaces_handler.*`, `sync_app_datas_handler.*` | queue, id server, pending registrations | message handlers, tick | every server | order of handlers, threads and tick |
| Account and on-line tables | `lib/db_mysql/*` | `kbe_accountinfos`, `kbe_entitylog`, entity tables | insert, query, erase | tasks | the `kbe_entitylog` row is the on-line lock of an account |
| loginapp | `server/login/login.*`, `lib/server/pendingLoginmgr.*` | pending logins and creations by name, 120 s limit | `login`, `onLoginAccountQueryResultFromDbmgr`, `onLoginAccountQueryBaseappAddrFromBaseappmgr` | client, dbmgr, basemgr | late answers, two attempts under one name |
| basemgr | `server/basemgr/*` | `baseapps_`, `bestBaseappID_`, `pending_logins_`, forward buffer | `registerPendingAccountToBaseapp(Addr)`, `onPendingAccountGetBaseappAddr`, `updateBestBaseapp` | loginapp, baseapp | a baseapp that is not ready or goes away |
| baseapp and Proxy | `server/baseapp/*`, `lib/server/entity_app.h` | pending logins, entities, id client | `registerPendingLogin`, `loginBaseapp`, `onQueryPlayerCBFromDbmgr`, `onClientDeath` | client, basemgr, dbmgr | the client may be gone or may have come twice when the query returns |
| Entity ids | `lib/server/idallocate.*`, `server/dbmgr/sync_app_datas_handler.*` | the server's next range, the clients' ranges, the applications waiting for one | `allocRange`, `size`, `alloc`, `onAddRange`, the 3 s batch | dbmgr, baseapp, cellapp | refusals and restarts between the registration and the batch |
| Forward buffers | `lib/server/forward_messagebuffer.*` | messages for a component or for any component | `push`, `process` | basemgr | order, a destination that is never ready |
| Component registry | `lib/server/components.*` | the list of known servers by type | `findComponents`, `connectComponent`, `OnRegisterServer`, `CBRegisterServer`, `removeComponentByChannel` | all servers | several servers that register with each other in any order, identities used twice, removal in the middle of traffic |
| Server frame | `lib/server/serverapp.*`, `shutdowner.*` | run state, timers | start, tick, `shutDown`, `canShutdown`, `onShutdownEnd` | components | waiting for others at shutdown |
| Channels, bundles, packets | `lib/network/*` | send queue, partly received message, flags | send, receive, condemn | endpoint | messages cut at any byte |
| Dispatcher, timers, tasks | `lib/network/event_dispatcher.*`, `lib/common/timer.*`, `tasks.*` | timer heap, task list | `addTimer`, `cancel`, `process`, `purgeCancelledTimes` | handlers | cancelling from the call-back, purging the queue under `process` |
| Pollers, sockets, filters | `lib/network/poller_*`, `endpoint.*`, `websocket_*`, `encryption_filter.*` | little | system calls | kernel | - |
| Entity tables, transactions | `lib/db_mysql/entity_table_mysql.*`, `db_transaction.*` | - | SQL | tasks | - |
| Proxies in play, message table | `server/baseapp/proxy.*`, `lib/network/message_handler.*` | - | game messages | client | - |
| cellmgr, cellapp, logger | `server/cellmgr`, `cellapp`, `logger` | none of their own in this code base | registration | - | - |
| Configuration, discovery, watchers, crash handler | `lib/server/machine_infos.*`, `serverconfig.*`, `lib/helper/*` | - | - | - | - |
| Redis driver, third-party code | `lib/db_redis`, `lib/dependencies`, `lib/google`, `lib/proto` | - | - | - | - |

What makes each of the central ones correct:

- **Database queue.** Transactions about one entity never overlap and run in the order of
  the requests; a key is occupied exactly while a task holds it; replies about one entity
  keep their order, but for one window.
- **Thread pool.** A task is always in exactly one place; the counters agree with the
  lists; no wake-up is lost; what is given is finished; `destroy()` returns.
- **Database pool.** Queue and pool together behave as the queue alone promises.
- **Login.** An account has at most one Proxy; the row in `kbe_entitylog` is that of the
  Proxy that is alive; a removal erases its own session's row only; a login that went wrong
  leaves nothing behind that refuses the next one.
- **Ids.** No id is handed out twice, and every baseapp gets its range. (None asks for a second one:
  `onAlloc` is commented out, `idallocate.cpp:47-74`.)
- **Forward buffers.** Messages are forwarded once and in order; nothing is sent to a component
  that is not ready.
- **Registry, shutdown.** Servers that start in any order learn of each other; of two with one
  identity only one gets into service; dbmgr ends last, and no one waits for ever.
- **Timers.** They fire in order and are not lost, a handle may be cancelled at any time, and a handler is
  registered for as many timers as it has handles it has not cancelled.
- **Network.** However the byte stream is cut, the same messages are handled in the same order.

The hazards (what a test would hardly reach, each at its line) are in `PROJECT.json`, with the
properties that cover them.

## 2. Modules

```
SerialQueues  <==  BufferedDBTasks  <==  DBThreadPool               (<== : is implemented by)

BufferedDBTasks <-- BufferedDBTasksProofs                           (<-- : is extended by)
ThreadPool <-- DBThreadPool, ThreadPoolProofs <-- DBThreadPoolProofs

LoginNetwork <-- LoginApp, BaseMgr, BaseApp, AccountDB <-- LoginProtocol <-- LoginProtocolProofs

PacketReader <-- Channel <-- ChannelProofs

Components <-- EntityIDs <-- Startup <-- StartupProofs <-- StartupIdsProofs

Timers <-- TimersProofs
```

Five subsystems, which meet in the code but not in one state space: the database queue and its
threads, the login over all servers, a network connection, the servers' start and end, and the
timers of a server. The login takes from the first that the requests of one account are served one
at a time, from the third that a message sent is received once, and from the fourth that every
baseapp has ids of its own and that a baseapp in the list of the ready ones is registered.

`MC*.tla` instantiate the modules for TLC; each `.cfg` is one run.

### SerialQueues (abstract)

What the dbmgr promises about requests for one entity: served one at a time, in the order of
their arrival; requests about different entities are served in any order. No threads and no
maps.

### BufferedDBTasks

`Buffered_DBTasks` with the pool seen from outside. `buffered[k]` is what the two
`std::multimap`s hold under key `k`, in insertion order; the key is a pair, since the same number
may be a database id in one map and an entity id in the other. The first task of a key is not
stored: a `NULL` entry holds its place. `stage[t]` is where the task is (filed and not yet
handed to the pool, waiting, given, running, released, in `finiTaskList_`, presented). Actions:

| Action | Code |
|---|---|
| `AddTask` = `AddBehind` or `AddFirst` | `addTask` under its mutex (`buffered_dbtasks.cpp:44-102`) |
| `HandToPool` | the last statement of `addTask`, outside the mutex (103) |
| `AddPlainTask` | account creation and login, which bypass the queue (`interfaces_handler.cpp:73-95`) |
| `PickUp` | a free worker begins a task of the pool |
| `TryGetNextTask` | the first entry is erased, the second returned (107-174) |
| `AddFiniTask` | the worker queues the finished task and goes on with the successor (`threadpool.cpp:667-680`) |
| `OnMainThreadTick` | the finished list is taken and presented (`threadpool.cpp:355-403`) |

`AddTask` and `HandToPool` are two steps because workers run between them; the main thread
does not (`MainThreadFree`). The variables `arrival` and `requests` are history: no action reads
them in a guard.

### ThreadPool

`ThreadPool` and `TPThread`. `pc[p]` is a thread's place in `threadFunc`; a step is one critical
section, or what lies between two accesses to shared state. The event of a thread is a
manual-reset Win32 event: `signalled` stays set until `ResetEvent`, so `SetEvent` before the
wait is not lost. Thread objects are used again after they are deleted (`"absent"`).
`addTask` has three outcomes: give to the first free thread, buffer only, buffer and grow. The
tick takes the finished list and then presents each task with one of the three results of
`presentMainThread`. `removeHangThread`, `addFreeThread` and `destroy()` are whole actions;
`destroy()` is begin, signal (every 300 ms) and end.

### DBThreadPool

`ThreadPool` with `Buffered_DBTasks` in front and `DBThread::tryGetTask`, which asks the finished
task for a successor (`AskNextTask`) before it looks into the pool's buffer (`PopTask`). The
operators `Stage` and `Follow` read the state of `BufferedDBTasks` off the threads and the lists:
that is the refinement mapping of `ImplementsQueue`.

### LoginProtocol and its parts

The login of clients, one module per server. `LoginNetwork` has what they share: `msgs`, the set of
messages under way, which may be received in any order (more than TCP and the task queue allow, so
that what holds here does not rest on their order); `status[c]`, how far a client has got, which is
also whether a server has a channel to it; `phase[b]` of each baseapp. A client is one attempt to log in
to one account: a person who tries again is another client of the same account. At the baseapp a client
may send `loginBaseapp` as often as it likes, for this account, also when it is on-line.

| Module | State | Actions and their code |
|---|---|---|
| `LoginApp` | `pendingAttempts`: `pendingLoginMgr_`, one entry per account | `Login`, `LoginRefused` (`login.cpp:148`), `OnLoginResult` (312), `OnBaseappAddr` (408), `OnBaseappInitProgress` (468), `PendingTimeout` (`pendingLoginmgr.cpp:108`, at any time: clocks are not modelled) |
| `BaseMgr` | the registered baseapps, which are ready, `bestBaseappID_`, `pending_logins_`, the forward buffer | `RegisterBaseapp`, `OnInitProgress` (`basemgr.cpp:188`), `OnRegisterPendingAccount` (286), `OnRegisterPendingAccountEx` (357), `OnGetBaseappAddr` (446), `ForwardBuffered` (`forward_messagebuffer.cpp:184`, five messages a tick), `LoseBaseapp` (130) |
| `BaseApp` | pending entries, the next entity id, the Proxies, the `proxyID_` of the clients' channels | `ReportReady`, `RegisterPendingLogin` (`baseapp.cpp:163`), `EnterRefused`/`EnterOnline`/`Enter` (the three ends of `loginBaseapp`, 285), `OnQueryPlayerCB` (461), `Disconnect` (126), `Crash` |
| `AccountDB` | `row[a]`: the row of `kbe_entitylog` | `AccountLogin`, `QueryAccount`, `RemoveEntity`: the database tasks of `dbtasks.cpp`, each with its reply |

The row is the lock that keeps an account from having two Proxies: `QueryAccount` inserts it, and the
insertion fails when there is one (unique key). `eraseEntityLog` deletes it by the account alone.
`ConnectionLoss` says whether the connection to MySQL may break at the insertion: `logEntity` then
returns true without having inserted anything.

A Proxy has the address of its client (`client`), and the client's channel the id of its Proxy (`proxyID`,
`createClientProxies`); the channel that is closed destroys the Proxy it names (`ProxyOf`), and no other.
`loginBaseapp` does not look at the `proxyID` of the channel, so an on-line client that repeats it is refused
(`baseapp.cpp:321`, 399 or, after another query, 491) while its Proxy lives. What must stay true is that the two go on naming each other (`ClientsMatchProxies`), or the Proxy would
outlive its client and keep the row.

### PacketReader and Channel

A TCP connection in one direction: the sending channel with its queue of bundles and the poller, the
bytes in the network, the receiving channel with its window of packets, and its `PacketReader`.

`PacketReader` is the loop of `processMessages`, one action per turn: `CutInId`, `CutInLength`,
`CutInBody` put the rest of the packet by; `MergeFragment` and `ExtendFragment` take it up with the
next packet; `Handle` and `HandleFragment` call a handler, which reads the blob *with its length*
again; `NoHandler` and `FragmentTooShort` condemn the channel. A byte is a record of its value and of
what it is in the stream sent; the second part is history, and the reader looks at values only.
Lengths have two bytes instead of four, the least that can be cut inside.

The reader can be put *out of step*: it takes other bytes for the id, the length or the blob than were
written as such, and what it does from there on depends on the bytes it meets. `cuts` notes where
packets have ended, and `InStep(n)` says that none of the first `n` messages had the cuts that do this:

- inside an id, of which the first byte is then copied to both commands (`packet_reader.cpp:279-280`);
- inside a length: the step back to the length (200) ends at 0, in the middle of it;
- both in front of a length and behind it: the length came alone in its packet, and the step back, at
  the start of the next one, stays where it is;
- between the id and the length of a message with an empty body: the length put together from the later
  packet is 0, which stands for "not known yet" (109), so that the next two bytes are taken for one.

A cut inside a body, or in front of one, leaves the reader in step but spoils the body (`WholeBody`,
`packets_cut`).

`Channel` has `SendNow`, `SendLater` (`Channel::send`, `channel.cpp:457`), `PollerSend`
(`handleOutputNotification`), `Receive` (`processRecv`), `ConnectionLost`, `ProcessPackets` and
`NextPacket` (`processPackets`, 728, with `handshake`, 678), `ProcessMessages`, and `Reconnect`, by which
a condemned channel goes back to the pool and comes out for the next connection with its
`PacketReader` as it was left. A socket may take any part of what it is given, a packet may
end anywhere, and the error after a partial send may be any (`errno` is read although the call
succeeded).

### Components, EntityIDs and Startup

How a cluster of dbmgr, base manager, baseapps and cellapps comes up and goes down. A *process* is one
run of a server; a server that is started again, or a second one started by mistake with the same
`componentID`, is another process. Between two processes there is at most one connection, on
which messages arrive in order until one end is gone.

| Module | State | Actions and their code |
|---|---|---|
| `Components` | `phase`, `findIdx_`, the list of components (`registry`), channels, messages | `FindComponents` (`components.cpp:564`: connect to the next server needed, register over the connection and go on *without awaiting the answer*), `OnRegisterServer` (694), `OnCBRegisterServer` (748), `OnChannelDeregister` (267), `Signal`, `Finish` (`shutdowner.cpp:97`), `Crash` |
| `EntityIDs` | `IDServer`'s next range; of each `IDClient` the range in use and those kept | `AllocRanges`, `CheckSize` (`size()` takes up the next range), `OnAddRange`, `Alloc` (`idallocate.h`) |
| `Startup` | `apps_` of `SyncAppDatasHandler`, `baseapps_` of the base manager, the `InitProgressHandler`s | `DbmgrOnRegisterServer` (`dbmgr.cpp:224`: answers, remembers the application, introduces it to the others), `SyncAppDatas` (the batch of ranges), `OnGetEntityApp` (`baseapp.cpp:226`), `OnDbmgrInitCompleted` (212), `InitProgress`, `OnBaseappInitProgress` (`basemgr.cpp:188`), `Deregister`, `LoginBaseapp` |

What the code does and the model keeps, although one may not expect it:

- `OnRegisterServer` of dbmgr remembers and introduces also an application it refuses
  (`dbmgr.cpp:251-313`); the refused one shuts down when it gets the answer, the batch skips it or finds
  the accepted process of the same identity, and that one may get a second range.
- Shutting down does not stop `findComponents`: `processOnce` resets the flag that
  `setWaitBreakProcessing` has set before the tasks are processed (`event_dispatcher.cpp:207-208`).
- Only dbmgr waits at shutdown. `getGameSrvComponentsSize`, by which the others would, always returns
  0 (`components.cpp:524-535`).
- A server that loses dbmgr ends at once.
- An application that has not yet removed its entry of a process that is gone does not add the next
  one of that identity (`components.cpp:766-775`), and nobody tries again.
- A cellapp gets a range of ids and ignores it (`cellapp.cpp:114-132`).

### Timers

The timers of the event dispatcher, with handlers that add and cancel periodic timers and keep a handle for
each, from outside and from call-backs. A handler may have several: dbmgr has two (`dbmgr.cpp:107`, 110), and the
baseapp has one of `EntityApp` (`entity_app.h:200`) and one of its own (`baseapp.cpp:98`). `handlerOf` says whose a
handle is. A `Time` object is `PENDING`, `EXECUTING`, `CANCELLED` or deleted, and its
memory may be used again. The queue is a set of timers, and `isHeap` says whether the front is
the earliest. `process` is `BeginPass`, then per turn `Fire` and `Return`/`ReturnCancelled`, or
`Discard`; in between a call-back may take any number of `Add` and `Cancel`. `Cancel` is the whole chain
`TimerHandle::cancel`, `TimeBase::cancel`, `onCancel`, `purgeCancelledTimes`. Handlers are not destroyed in the
model; what their destructor asserts is about `numTimesRegistered_`, which `HandlesAreAlive` ties to the handles
(section 5).

## 3. Runs

| Run | Instance | What it shows |
|---|---|---|
| `db_queue` | 3 requests on database id 7, one on entity id 7 in the other map, a login; 2 workers | the type, mutual exclusion per entity, keys occupied iff held, the order of replies, and that the queue implements `SerialQueues` |
| `pool_timed` | 1 permanent thread, grows by 1 to 3; 4 tasks | counters, lists, tasks and wake-ups stay consistent, with time-outs and `destroy()` |
| `pool_db` | 2 permanent threads, 3 tasks, fairness | nothing is lost; liveness of given tasks, of the buffer under load, of `destroy()` |
| `db_pool_refines` | 2 threads, 3 requests on one entity and a login | the real pool under the queue implements `BufferedDBTasks` |
| `pool_timeout_race` | violation | a thread that times out while `addTask` hands it a task deletes the task |
| `login` | 2 clients of one account, 2 loginapps, 2 baseapps of which one may crash, 2 ids each; no fairness | one Proxy per account; its row names it; a removal erases its own row; Proxies and the channels of clients name each other |
| `login_answered` | 1 loginapp, 2 baseapps, the connection to MySQL may break; fairness | every attempt a loginapp takes in is answered |
| `login_reconnect` | violation; `ConnectionLoss` | after a reconnection an account can have two Proxies |
| `packets` | 2 messages, of 3 kinds, on each of 2 connections, packets of at most 11 bytes, send window 1, receive window 2; fairness | bytes stay in order; messages that keep the reader in step are handled once, in order, without waiting; what is sent is handled |
| `packets_cut` | violation; as `packets` | a message whose body is cut is handled with another body |
| `startup` | dbmgr, the base manager, two baseapps of one identity and a cellapp, of which two are started; dbmgr may be told to shut down, one baseapp may crash; ranges of 1 id; fairness | no id twice; one server per identity in service; everyone is introduced, gets into service, outlives nobody it needs, and ends |
| `timers` | a handler with 2 handles and one with 1, 4 objects, periods 1 and 2, times up to 2; fairness | timers fire in order and are not lost; handles, counts and the share of cancelled timers stay right |

Bounds. Three requests on one key are the least with which a queue has a head, a middle and
a tail, and with which erasing the wrong entry shows; two workers are the least with which
transactions can overlap; a fourth request under the same number in the other map shows the keys
are kept apart; the login shows that plain tasks take workers and never keys. In
`pool_timed` three threads give every list more than one possible member while one thread is
permanent and two can time out; four tasks fill all threads and the buffer at once. Tasks are
created once, so the histories are finite with no further bound; a task that is presented
with "continue" is added again without limit. Deadlock checking is off where the model stops
when every task is presented.

In the login two clients are the least with which two sessions of an account can race, over
different loginapps and baseapps; with two ids a baseapp can serve both and still run out; a third
client makes the run several times as long. The proofs hold for any number. `login_answered` has one
loginapp, because with two the entry of one in `pending_logins_` may be overwritten by the other's
(a hazard listed in `PROJECT.json`); no baseapp dies there, since an address that dies with a
baseapp is never sent. In `packets` two messages of four to six bytes can share a packet, or be cut
at every byte and into several packets; main and sub commands differ or are the same, one body reads
like an empty blob, one is too short to be read as a length and one is empty, and there is a handler
for the id that a length of 2 reads like; the windows are small enough to overflow, and the second
connection finds the reader in every state the first can leave it in.

In `startup`, `MaxApps` = 2 of the three applications are started, in any order: the two baseapps of one
identity (the second one a twin, or the same server again after its crash), or a baseapp and the
cellapp. Introductions, conflicts, the batch and its order need two; with three the run takes too long
and dbmgr's introductions stay pairwise. `MayStop` = {dbmgr} and `MayCrash` = one of the
twins: the base manager and the other twin end by dbmgr's end and by refusal, which is how a cluster
stops. Ranges of one id (`range_step`) make a baseapp use up its range and take the next. In `timers` two
handlers are the least with which a call-back can cancel another timer than its own, and two handles of one
the least with which its count can be wrong and not be 0; with four objects all three
handles can hold a timer beside a cancelled one, cancelled timers stay in the queue while others fire, and
the share that triggers a purge is reached and not reached; with two ticks (`MaxClock`) the shorter period comes
round twice and the longer once, in either order of their timers.

Fairness (`FairSpec` of ThreadPool). Weak fairness of each thread's own step: the operating system
schedules threads and tasks end. Weak fairness of the tick: the main loop runs it for ever. Weak
fairness of the 300 ms loop in `destroy()`. None for `AddTask`: no handler need ever run. That a
buffered task is taken is therefore claimed only while tasks keep coming (`BufferDrainsUnderLoad`); see section 5.

`FairSpec` of LoginProtocol: servers receive what is sent on behalf of each client, and basemgr ticks.
None for clients or time-outs: an answer may not depend on either. `FairSpec` of Channel: the
poller writes when the socket has room, sockets are read, the tick processes packets, loops go on.

`FairSpec` of Startup: some server whose loop has something to do goes on. That is weaker than fairness of
each one, and enough, since what a loop can do without new starts, signals or logins is finite. None
for starts, signals, crashes and logins. `FairSpec` of Timers: the loop comes back to `process` and
call-backs return; time need not go on, and handlers need not do anything.

## 4. Proofs

`BufferedDBTasksProofs` proves for every set of tasks, every assignment of ids and every number of
workers: `TypeCorrect`, `Invariant`, `MutualExclusionHolds`, `KeyOccupiedIffHeldHolds`,
`RepliesOvertakeOnlyReleasedHolds`, and the refinement `ServedSeriallyHolds`. The assumptions are
those of the module: `TasksAssumption` (entity tasks and plain tasks are disjoint, `NULL` is
neither), `IdsAssumption` (ids are naturals), `WorkersAssumption` (there is a worker).

None of the safety properties is inductive. The invariant `IInv` adds what they rest on:

- `HoldersOccupy`, `OccupiedIsHeld`: a holder's key has entries, and a key with entries has a
  holder (erasing the first entry must not free a key that is held, nor leave it held by no one);
- `EntriesWait`, `WaitersAreEntries`: behind the first entry stand exactly the waiting tasks;
- `EntriesInOrder`, `ArrivalsCounted`: in the order of their arrival numbers;
- `EarlierServed`: whatever came before the holder or before a served task has been released;
- `FollowLinks`, `FollowInjective`, `FollowAdjacent`: the successor link of a released task leads
  to the chained task of the same key, only one link leads there, and no request came in between -
  which is why a chained task cannot overtake the reply of its predecessor.

For each action there is a lemma per disturbed conjunct; the refinement maps `AddTask` to `Submit`,
`PickUp` to `Start`, `TryGetNextTask` to `Finish` and every other action to a stutter.

`LoginProtocolProofs` proves for every number of clients, accounts, loginapps, baseapps and ids:
`TypeCorrect`; and, with `ASSUME ~ConnectionLoss`, `Invariant`, `ProxyIsLoggedHolds`,
`RemoveErasesOwnRowHolds`, `OneProxyPerAccountHolds` and `ClientsMatchProxiesHolds`. That one assumption is needed:
`login_reconnect` shows what happens without it. No assumption is made on the order of messages, nor on
which baseapps crash when. The invariant follows the entity id:

- `IdsHandedOut`: an id in a message or a Proxy is one its baseapp has handed out;
- `MessagesApart`, `MessagesAndProxiesApart`, `ProxiesApart`: it has one holder - a query under way,
  its answer, a Proxy, or the removal - so that no two of them ever speak for one session;
- `AnswerIsLogged`, `ProxyIsLogged`, `RemoveErasesOwnRow`: from the positive answer on, through the
  Proxy, to the removal, the row of the account is this id. Two accounts' holders differ, and since the row has one value, two Proxies of one
  account would be the same; this is also why erasing by the account alone is harmless.

The proof has one lemma per server (`LoginEntity`, `MgrEntity`, `DBEntity`, `BaseEntity`); the actions of a
loginapp and of basemgr do not touch an id's holder (`EntityFrame`).

`TimersProofs` proves for every set of handlers, timers and periods and any last time: `TypeCorrect`,
`Invariant`, `CancelledAreCountedHolds`, `HandlesAreAliveHolds`, `CancelledAreFewHolds` and `FiresInOrderHolds`, from
`TimersAssumption` alone. `IInv` adds what a call-back may find:

- `QueueMatchesStates`: the queue holds what is pending and what is cancelled; the one exception is the
  timer that `process` has taken out, which is why a purge can leave `numCancelled_` at 1;
- `HandlesApart`: a handle that is set holds a live timer of its handler, two handles never the same one, and
  only a live timer has a handler;
- `RegisteredAreCounted`: the count of a handler is the number of its timers and that of its set handles, which
  `Add` and `Cancel` change together, since the timer cancelled is one of the handler whose count goes down;
- `PassInOrder`: call-backs are made within a pass, the pass is not ahead of the clock, and
  the container is a heap again whenever the front is looked at;
- `CancelledShare`: while a timer is being processed the queue may hold one cancelled timer more than
  half; without this slack `CancelledAreFew` is not inductive.

`Cancel` is proved in one form (`CancelForm`): the timer is marked, and either none or all of the cancelled
ones in the queue are deleted.

`ClientsMatchProxiesHolds`, in `LoginProtocolProofs`, rests on `IInv`, and so on the connection to MySQL: an on-line
client that sends `loginBaseapp` again must not get a second Proxy, or the first would be forgotten by its channel.
`ClientInv` adds that the client named in an account's entry is of that account (`EntryClientsOwn`). A positive
answer then meets a channel without a Proxy (`ChannelUnbound`): the row of the account names the new entity, and
would name that of the Proxy, whose id is another one. Every other step leaves channels and Proxies as
they are (`ChannelFrame`), or, when a client leaves or a baseapp crashes, clears both ends.

`ThreadPoolProofs` is for any number of threads and tasks and any limits, from `CountsAssumption` (the three
counts are positive) and `ThreadsAssumption` (there are as many thread objects as the pool can have
at once, and `NULL` is none). Every safety property that `pool_timed` and `pool_db` check is proved. `PoolInv`
adds:

- `MembersExist`, `TaskByPlace`, `TaskByList`: the place of a thread in `threadFunc` says whether it has a
  task in hand and another one popped, and whether it may be in the free list;
- `WorkersAreBusy`: `addFreeThread` finds the thread that calls it in the busy list;
- `LeaversAreBusy`: in a live pool a thread that ends has been given a task, the one that it deletes; it is the
  race of `pool_timeout_race`, which the proof has to live with: the counters stay right all the same;
- `Shutdown`: `destroy()` begins between two ticks and leaves no thread behind.

`PermanentPoolLosesNothing` has the hypothesis `normalThreadCount >= maxThreadCount`, that of DBUtil's pools, without
which it is false. `OnePlace` counts: of each task the places of five kinds (in hand, popped, buffered,
finished, presented) are counted as cardinalities, and each action moves one from one kind to another.

`DBThreadPoolProofs` proves `QueueImplemented`, the refinement of the run `db_pool_refines`, from `DBPoolAssumption`
(the pool is created at its maximum) and `EntityIdsAssumption` (ids are naturals). `DBInv` adds to
`PoolInv` that no thread leaves (`NoneLeaves`), when a thread has asked the maps for a successor
(`AskedByPlace`), that what is filed behind a key is filed once (`BehindOnce`), and that a live task is in
exactly one of seven places (`NoneTwice`, `Apart`, `AllPlaced`). From the places, `StageMap` and `FollowMap` read
off the refinement mapping as a table, so that each action needs to say only which task changed its
place. That a worker is free when the queue's `PickUp` needs one is a matter of cardinalities: the threads that
have a task in progress are fewer than `maxThreadCount` when one of them has yet to begin. With the refinement the theorems
about the queue hold of the threads: `TransactionsExclude` and `ThreadsServeSerially` are `BufferedDBTasksProofs`,
instantiated by the mapping.

`StartupProofs` and `StartupIdsProofs` are for any set of processes of any identities, any of which may crash or be
stopped, and ranges of any length, from `ProcessesAssumption`, `IdsAssumption` and `OneDbmgr`. All safety properties
of `startup` are proved. `IInv` is about lists and messages:

- `ListsAgree`: who has been accepted is in the list, and who is in a list has the other one in its own or an
  acceptance under way; it holds only of a server whose identity no other has used (`Sole`), since an entry of
  a gone twin keeps a new one out;
- `IntroducedAfterAccepted`: on the channel from dbmgr the acceptance goes ahead of every introduction, on
  which the assertion `DbmgrIsKnown` rests;
- `EndedIsForgotten`: with dbmgr's end every list and channel that could count on it is empty;
- `Introduced`: of two registered applications one is on its way into the list of the other: to be told,
  told and registering, or in. `AppsKnowEachOther` is its last stage.

`IdsInv` follows the ranges: `RangesAscend` (of one baseapp the ids handed out, the range in use, those kept, those
on their way and what dbmgr has left lie in this order), `OwnedApart` (those of two processes have
no id in common), and, for `OneServerPerIdentity`, `RangesRegistered` (who has a range is in dbmgr's list while
both run), `OneEntryPerIdentity`, `OneRangePerIdentity`.

`ChannelProofs` is for all handlers, messages, sizes of packets, windows and numbers of messages and connections,
from `ReaderAssumption` (the main command of an id is never 0) and `ChannelAssumption` (a message has a
handler, its length fits into the length field, and the sizes are positive). `InOrderHolds`, `HandledInStepHolds`
and `HandledWhenCompleteHolds` are the three safety properties of `packets`. `ChannelInv` has three parts:

- `StreamInv`: the packet in hand, the packets buffered, the wire and what is unsent are the end of the stream
  that was sent (`InOrder`); the ends of all packets are noted (`PacketsNoted`); `complete` is the number of
  messages received whole (`CompleteExact`); a condemned or fresh channel processes nothing (`Quiet`);
- `ReaderInTurn`: as long as the messages handled kept it in step, the reader is at one of eight places of
  the next one, `m`, given by how many bytes of the stream have been consumed: at its start, in its id or with it
  read, in its length or with it read, in its body or with it read, or `Lost` - out of step, and then the
  message is received whole, since it takes its last byte to be handled wrong. The places inside say which
  cut led there, and that is what excludes a reader that has a length without its bytes in front of it;
- `HandledRight`: the two claims about calls of handlers, the first of them for one message more than the
  property says: the first message handled out of step is complete as well.

`FlattenSeq`, by which the stream is defined, is recursive. What is needed of it (of an appended,
split or cut sequence) is proved by an induction over a *set* of numbers, which the well-foundedness
of finite sets by inclusion gives; the library's induction theorem takes a predicate and cannot be instantiated.

Two claims of an earlier version were false, and the attempt to prove `HandledInStep` showed it: that packets may
end on both sides of a length, and that a cut in front of the length of an empty message does no harm. TLC
confirmed both once an empty message and a handler <<2, 0>> were in the instance; the last two of the cuts in
section 2 are the result. TLC has also checked `ChannelInv` on the instance of `packets`.

## 5. What is only model-checked, and what is not modelled

Every safety property of the passing runs is proved. Model-checked only are the liveness properties, since
fairness and ENABLED are beyond the prover: `GivenTaskIsFinished`, `BufferDrainsUnderLoad`, `ShutdownCompletes`,
`AttemptIsAnswered`, `SentIsHandled`, `BaseappBecomesReady`, `ServersEnd` and `DueTimerFires`. The violations
are TLC's.

Three things the code does that no property claims otherwise:

- A task can be left in the pool's buffer with every thread free. `popbufferTask` looks into the
  buffer under its own mutex; between the look that finds it empty (`threadpool.cpp:667-668`) and
  `addFreeThread` (780) the thread counts as busy, so `addTask` (526, 555) buffers a task and gives it to
  no one, and nothing looks there until another task is finished. The database pool is of this kind.
- A client can be refused because of an entity that is gone. `loginBaseapp` takes an id in the pending
  entry for that of an entity that is alive (`baseapp.cpp:338`); the look-up (343-348) is commented out, the
  refusal (398-400) leaves the entry behind, and so is the call that would clean up (157-161).
  `EnterOnline` of `BaseApp` has this, and the invariants of `login` hold with it.
- A baseapp that ends in the regular way has a timer left. `BaseApp::finalise` (`baseapp.cpp:104-109`) cancels
  its own handle and calls `ServerApp::finalise`, past `EntityApp::finalise` (`entity_app.h:216-226`), which would
  cancel the other. By `HandlesAreAlive` its count is then 1, and the assertion of `~TimerHandler` (`timer.h:65`)
  fails. dbmgr cancels both of its handles (`dbmgr.cpp:48-49`) and passes it.

Left out of what `packets` claims, because the code gets it wrong: everything behind a cut that puts the
reader out of step (`InStep`, section 2), and the bodies of messages that are cut (`packets_cut`). Such
cuts can occur with every packet that a socket fills or delivers in part.

Not modelled: the POSIX branch of the condition variables (not the shipped build); a new thread
object at the address of a deleted one (`hasThread`); `finiTaskList_count_`, which only a watcher
shows; SQL, columns and I/O; a database task retried after an exception (`retry` is never set);
the Redis driver (disabled in `db_interface.cpp`); vendored and generated code; the stub servers. `lib/dependencies`,
`lib/google` and `lib/proto` are nearly all of the repository's lines; the servers themselves are a few
tens of thousands.
The pool's maximum is compared once before several threads are added (`threadpool.cpp:557-588`), so that
it may be exceeded. The run `pool_timed` adds one thread at a time; that the counters agree with the lists after a
larger batch is shown by the proof (`CountsMatch`).

In the login: a client that logs in to two accounts over one channel of a baseapp (the channel then forgets the
first Proxy); the death of a loginapp, of basemgr or of dbmgr (whose death ends every server and
whose start clears `kbe_entitylog`); refusals while a server shuts down; the creation of accounts; what
a Proxy does while it plays. In the network: filters and encryption, WebSocket, UDP, the windows
counted in bytes, bundles of several packets, channels that a handler destroys.

In the start and end of the cluster: logger, cellappmgr and loginapp (their registrations change nothing but
the list); dbmgr started again (every server ends with the old one, and the ids begin anew:
`OneDbmgr`); heart-beats that time out between live processes; ids of 32 bits that wrap around after four
million ranges; ids that run out (a baseapp then refuses the login: `EnterRefused`). Of the dispatcher: timers that
fire once and `clear`, which nobody calls; the destruction of handlers; the list of tasks; what a pass through all pollers takes.

## 6. Plan

Done: the database queue and its threads, the login protocol with basemgr's forward buffer, channels and
packets, the start and end of a cluster with its entity ids, timers; proofs of every safety property of the
runs and of both refinements. Next:

1. An abstract stream of messages that `Channel` implements while packets keep the reader in step, with
   `ChannelInv` as the invariant of the refinement.
2. The facts that the liveness properties rest on, as safety: from each state in which a task, a message
   or a server waits, an action that helps it is possible (without ENABLED: its guard, written out).
3. Bundles of several packets, and channels that a handler destroys.
