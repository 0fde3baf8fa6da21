# RIPC: TLA+ models and proofs

RIPC is inter-process communication through a Linux kernel module: processes
open `/dev/ripc`, register *servers* and *clients*, connect a client to a server
by name, and exchange requests and answers over a page of shared memory.  The
kernel module (`driver/`) keeps the objects and delivers *notifications*; the
C++ library (`libripc/`) wraps it in classes, runs a listener thread and matches
urls to callbacks; `ripcctl` prints a snapshot of the driver.

This directory holds TLA+ models of that code, the TLC configurations that check
them and the theorems proved about them with TLAPS.  `PROJECT.json` maps every
definition to the lines it models and lists the runs, the mutants that show
that each property can fail, the hazards, findings and theorems.

## The system

| Part | State | Operations | What makes it correct |
|---|---|---|---|
| Registered tasks (`driver/task.c`) | `g_reg_task_list`; per task: server and client lists with counters, monitor flag, notification list | open, release (`reg_task_delete`), `REGISTER_MONITOR`, read, poll | a closed file leaves nothing behind; counters count; one monitor, and it owns nothing |
| Servers (`driver/server.c`) | `g_servers_list`; per server: name, owner, `connection_list` | `REGISTER_SERVER`, `SERVER_UNREGISTER`, look-up by name and id | one server per name; no connection to a destroyed server |
| Clients (`driver/client.c`) | `g_clients_list`; per client: owner, `m_conn_p` | `REGISTER_CLIENT`, `CLIENT_UNREGISTER` | at most one connection, which exists |
| Connections (`driver/connection.c`) | `g_conns_list`; per connection: client, server, sub-area, `m_serv_mmaped` | `CONNECT_TO_SERVER`, `CLIENT_DISCONNECT`, `SERVER_DISCONNECT`, the clean-up loops | four objects point at each other; the end is announced to both sides |
| Shared memory (`driver/shm.c`) | `g_shm_list` of pools of `SHM_POOL_SIZE` sub-areas | `get_free_submem`, mmap | no two connections share a sub-area; pools do not grow without need |
| Ids (`driver/id.c`) | one `ida` for servers, clients, sub-areas and pools | `generate_id`, `free_id` | an id is taken exactly while one object has it |
| Notifications (`driver/task.c`) | a list per task of (sender kind, type, sub-area, from, to) | `notification_send`, read | nothing queued speaks of a connection that is gone without saying so later |
| Entity manager (`libripc/src/entity_manager.cpp`) | maps of servers and clients, handlers, listener thread | create, delete, dispatch, shutdown | dispatch meets living objects only; shutdown ends |
| Client (`libripc/src/client.cpp`) | connection, mapping, pending request and its callback | connect, `call`, disconnect, handlers | every request is answered, refused or abandoned, never waited for in vain |
| Server (`libripc/src/server.cpp`) | connections, mappings by sub-area, url callbacks | handlers for the three notifications, `disconnect` | its tables follow the driver's |
| Buffers (`libripc/src/submem.cpp`) | one page: url, payload, lengths | write and read views | what is read is what was written; no access past the page |
| Urls (`libripc/src/url.cpp`) | segments of a pattern | parse, match | matching agrees with its description |
| Snapshot, `ripcctl` | - | `reg_task_get_data` | not modelled |

How the modules follow the table: `RipcDriver` has the first seven rows,
`RipcManager` the entity manager, `RipcCall` client and server around a call,
`RipcBuffer`, `RipcUrl` and `RipcExchange` the page and the urls.  `RipcLinks` is
what the driver promises, without its objects.

The library calls the driver by ioctl, mmap, read and poll; the driver talks
back only through the notification queue, which the listener thread of each
process reads and dispatches.  Two processes share nothing else but the page.

What is hard: the objects form a pointer graph that several calls take apart in
different orders; ids are reused at once (lowest free first) while
notifications that carry them are still queued; a call finds an object under one
lock and uses it under another, or none; the opener of the file may die before
the file is closed; a client blocks for an answer that another thread receives.
The `hazards` of `PROJECT.json` list each of these at its line.

## Modules

### RipcDriver

`RipcDriver` is the driver's object graph.  One action is one system call.

| Variables | Code |
|---|---|
| `tasks`, `opened`, `alive`, `monitor`, `count` | `g_reg_task_list`; `filp->private_data`; `pid_alive` of the opener; `m_is_monitor`; `m_num_of_servers`, `m_num_of_clients` |
| `notif` | `m_notif_list` of each `reg_task_t` |
| `servers`, `server` | `g_servers_list`; name, owner, `connection_list` |
| `clients`, `client` | `g_clients_list`; owner, `m_conn_p` |
| `pools`, `submems`, `submem` | `g_shm_list`; the sub-areas; their pool's age and `m_conn_p` |
| `conns`, `conn` | `g_conns_list`; the fields of `connection_t` |
| `ida` | ids taken from `g_id_gen` |
| `op` | the call that is inside one of its clean-up loops |
| `oops` | the call that dereferenced NULL and stopped the kernel |

`Open`, `RegisterServer`, `RegisterClient`, `RegisterMonitor`, `Connect`,
`ClientMmap`, `ClientEndWriting`, `ServerEndWriting`, `Read`,
`ClientDisconnect`, `ServerDisconnect` and `ClientUnregister` are the calls that
finish in one step.  `SERVER_UNREGISTER` and release are a start action
(`ServerUnregister`, `ReleaseStart`), one action per deleted connection
(`UnregisterConn`, `ReleaseServerConn`, `ReleaseClientConn`) and a finish action.
`ReleaseOrphan` is the early return of `reg_task_delete` when the opener is gone,
`ThreadExit` the event that makes it happen.  `delete_connection` is an operator
used by all the calls that end a connection: it queues the two announcements in
the code's order, then cuts the pointers.

Conventions:

- A call that fails with an error code changes nothing and is a stuttering
  step.  `ServerEndWritingNull` dereferences NULL on the way to its error code; it
  sets `oops` and stops the kernel.  It needs no mistake of the caller, whose
  client has just left; the constant `LateAnswers` says whether a run has it.
  `REGISTER_SERVER` with an empty name and `CONNECT_TO_SERVER` for an id that is no
  client's do the same and are left out: the library never makes such a call.
- The driver never checks that the caller owns the server or client id it
  passes, so the actions do not either.
- `Read` removes the head of the queue.  A read with a buffer that is too small
  loses it in the same way, so it is the same step.
- The order in which a loop deletes connections is left open; the code goes
  newest first.
- Failing allocations (`kmalloc`, `alloc_pages`, `copy_to_user`) are left out.
- Ids do not run out in the code: 16 processes with 16 servers and 16 clients
  each, and their pools, need far fewer than 65536.  In the models `MaxId` is a
  bound: a call that needs an id when none is left is not made.

`MCRipcDriver` adds the symmetry of tasks, names and connection addresses.  Ids
are numbers, because the generator compares them, and are not symmetric.

`RipcDriverProofs` and `RipcDriverLimitsProofs` hold the theorems about
`RipcDriver`.

### RipcLinks and RipcDriverLinks

`RipcLinks` is the abstract specification of the driver: named servers with a
process (`host`), clients with a process (`guest`), the link of a client with a
server over a sub-area (`link`), and an inbox for each process.  A link begins
and ends in one step, and its end is told to both sides.  There are no
connection objects, pools, generators, counters, monitors or loops.  Its own
property, `NotMisled`, says what a reader may conclude: a process that reads its
inbox to the end does not take a link for alive that is over.

`RipcDriverLinks` maps the driver to it: `HostView` and `GuestView` read the
global lists, `LinkView` follows `m_conn_p`, the inbox is `m_notif_list`.
`ImplementsLinks` is the specification of `RipcLinks` under this mapping.  Each
iteration of a clean-up loop is a `Disconnect` of the abstract specification, the
start and end of a loop do not show or are `Withdraw` and `Exit`.

### RipcCall

`RipcCall` is one library client and the library server it talks to, around
`Client::call`.  `RipcDriver` asks what the kernel's objects do; `RipcCall` asks
what the threads of the two processes do to each other, and keeps of the driver
only the link between the two and their notification queues.

| Variables | Code |
|---|---|
| `name`, `mapping` | `m_connected_server_name` is set; `m_sub_mem` (`page`, or `failed` when `Memory::mmap` has stored the error value as an address) |
| `sent`, `running`, `blocking`, `callback` | `m_is_request_sent`, `m_is_running`, `m_is_using_blocking`, `m_callback` |
| `apc`, `call` | where the application thread is in `connect`, `disconnect` or `call`; the number of its call |
| `lpc` | where the client's listener is in `Client::handleNotification` |
| `up` | the server: unknown, registered with the driver, in the map of the entity manager |
| `con`, `spc`, `serving` | the client's entry in `m_connections` and its memory; where the server's listener is in `Server::dispatchNewMessage`; the request it answers |
| `linked`, `shown`, `connects` | driver: the connection, whether its mmap has announced it, how many there were |
| `cq`, `sq`, `page` | the two notification queues; what the shared page holds |
| `fault` | who touched memory that is not there; the model stops then |
| `returned`, `ran`, `intact` | history: what `call` returned; callbacks that ran and what they read; the server's owner has neither ended it nor dropped the client |

| Actions | Code |
|---|---|
| `Connect`, `ConnectMap`, `ConnectName` | `Client::connect`: ioctl, mmap, name |
| `Disconnect`, `Forget` | `Client::disconnect`: ioctl, then local state |
| `SetBlockingMode` | `Client::setBlockingMode`, between two calls and while an answer is under way |
| `BeginCall`, `WaitBefore`, `Write`, `Post`, `Mark`, `Store`, `Test`, `WaitAfter` | `Client::call` from the entry check to its two waits |
| `SpuriousWakeup` | `std::condition_variable::wait` may return at any time |
| `Ignore`, `DispatchNewMessage`, `Handle`, `Drop`, `ClearSent`, `TestMode`, `Notify` | `Client::dispatchNewMessage` |
| `DispatchRemoteDisconnect`, `ForgetName`, `ForgetMemory` | `Client::dispatchRemoteDisconnect` |
| `AddConnection`, `DisconnectFromClient`, `TakeRequest`, `RefuseRequest`, `ReadNothing`, `WriteAnswer`, `WriteToClient`, `UseErased`, `ServerGone` | the server's listener |
| `ServerEnd`, `RegisterServer`, `AddServer`, `ServerDrop` | `deleteServer`, the two halves of `createServer`, `Server::disconnect` |

Conventions:

- An action runs from one access to what another thread also uses to the next.
  The code locks only the wait itself and `notify_all`, so nothing else is
  grouped.  The assignment and the test of `m_callback`, a `std::function`, count
  as one access each although the code has a data race on it.
- One page serves all connections: with a single client the driver finds the same
  sub-area free each time.
- Every call is given a callback, and the listener of the server has one for
  the url unless `unserved` is in `Events`.
- The client object is neither created nor destroyed meanwhile (`RipcManager`
  does that).  `Modes` is what the application sets the blocking mode to.
- `Early` says whether an answer may be dispatched before `call()` has recorded
  that it sent the request.  The code does nothing to prevent it, so `TRUE` is
  the code.  `FALSE` is an assumption about scheduling, that an answer takes
  longer than two assignments, under which the rest of the call can be studied;
  every run and theorem that makes it says so below.
- `Events` says which of disconnect, end of the server, `Server::disconnect` and
  refused requests occur, so that a run shows what its events do.

`MCRipcCall` names the sets of events.  `RipcCallProofs` and
`RipcCallAnswersProofs` hold the theorems.

### RipcBuffer, RipcUrl and RipcExchange

`RipcBuffer` is the layout of a message, as operators: `addHeader`, `setPayload`,
`finalizeHeader`, `finalizePayload` and `reset` of `WriteBufferView`, `getHeader`,
`getPayload` and the skipping operations of `ReadBufferView`, over
`Memory::write` (which cuts off what does not fit, and refuses at the end of the
page) and `Memory::find`.  An operation takes page and view and gives their new
values and its result, with what it touched: the page, the byte after it, or
address 0.

`RipcUrl` cuts urls and patterns into tokens, compares them, orders the patterns
of a server as the keys of `m_urls` are ordered, and picks the first that
matches.  A character is a string of one; the marks `<int>` and `<string>` count
as one character.

`RipcExchange` composes the two: a call writes url, headers and payload into the
page, the server takes the url, looks for the callback, the callback reads, a
second callback answers, the client's callback reads.  A callback is any
sequence of operations of its view, in any order.  `page` persists from message
to message, also into the next connection (`Reuse`), with the bytes of all
earlier ones.  The two sides take turns: in the code this is what
`m_is_request_sent` achieves, and it is theorem `PageTakenInTurns` of `RipcCall`.
`msg` is what the writer asked for and `got` what the reader was given.

Two things are asked of the constants (`ExchangeAssumption`).  A url or a header
holds no TAB, newline or NUL, and a payload no NUL: the library writes what it is
given without a look at it, so this is the application's part.  A table of
patterns is finite, as a `std::map` is.

`MCRipcExchange` gives the urls, payloads and tables of patterns.
`RipcExchangeProofs` holds the theorems.

### RipcManager

`RipcManager` is the entity manager of one process: application threads that
create and delete servers and clients, one of them (`Keeper`) also initializes
the library and shuts it down, and the listener thread.

| Variables | Code |
|---|---|
| `initialized`, `context`, `running`, `listener` | `is_initialized`, the `RipcContext` and its descriptor, `listener_running`, `listener_thread` |
| `lock` | the holder of `manager_mutex` |
| `entities`, `handlers` | the keys of `servers` and `clients`; the types in `notification_handlers` |
| `pc`, `work` | where each application thread is, and the entity it is about |
| `lpc`, `ntf` | where the listener is in `notificationListenerLoop`, and what it has read |
| `registered`, `loose`, `linked` | driver: servers and clients of the file; those on no file's list; clients with a connection |
| `inits`, `fault` | the bound of initializations; a context used after it is gone, a thread object assigned to while it is joinable |

| Actions | Code |
|---|---|
| `OpenFails`, `StartFails`, `Initialize` | `doInitialize`, under the mutex from beginning to end |
| `BeginShutdown`, `Join`, `NothingToClear`, `Clear` | `doShutdown`: the flag, the join without the mutex, the rest with it |
| `BeginCreate`, `AskContext`, `Register`, `Allocate`, `Add`, `RegisterShut`, `Insert` | `createServer`, `createClient` and their REST variants: tests without the mutex, `getContext`, the ioctl, `emplace` |
| `Erase`, `Destroy` | `deleteServer`, `deleteClient` and the destructors |
| `RegisterHandler` | `registerHandler` |
| `ListenerStart`, `Read`, `Dispatch`, `DispatchToNobody`, `Dispatched`, `CallbackCalls`, `PollFails`, `ListenerEnd` | `notificationListenerLoop`, `dispatchNotification` |
| `Link`, `Unlink` | a client connects, or either side ends it |

Conventions:

- The registration is taken apart, because the limits depend on it: `Register`,
  `Allocate` and `Add` are the driver's test of the limit, the creation of the
  object and its second test, and the addition to the list of the process.
  Between the first and the last, other threads may do the same.
  An object whose second test fails stays behind (`loose`).  The driver's lists
  are taken to stay whole when two threads add to one of them at once, although
  the code has no lock there.
- What waits in the driver is not kept.  The listener may read any notification
  at any time, about entities that are there, gone or not there yet, and there is
  always more.
- A user's callback runs while the listener holds the mutex.  It may call the
  manager and is then stuck (`CallbackCalls`).
- Only one thread initializes and shuts down; doing both at once is left out.
- A call that is refused changes nothing and has no action.

`MCRipcManager` names the two threads.  `RipcManagerProofs` holds the theorems.

## Runs

### RipcDriver

Bounds common to all: `MaxNotif` is the queue length above which no call that
sends is started (one call may append three notifications, so queues get longer
than the bound), `MaxId` the largest id, `Conn` the connections that exist at
one time.

| Run | Instance | Shows |
|---|---|---|
| `driver_queues` | 2 processes, 1 server and 1 client each, 1 connection address, pool of 1, queue bound 1 | `TypeOK`, `MonitorAlone`, `PendingIsLive`, `ServerLastWord`; the refinement `ImplementsLinks` |
| `driver_live` | 2 processes, 1 server, 1 client each, 2 connections, pools of 1, ids for a pool more than there are connections, late answers, one opener may die early | `IdsExact`, `NamesUnique`, `CountsExact`, `ReleaseClean`, `PointersAgree`, `OwnersRegistered`, `PoolsBounded`, `EndIsAnnounced`; `OpEnds` under weak fairness of the loops |
| `driver_zero_id` | 1 process, 2 servers, 2 clients, 2 connections, pools of 2, ids 0..6 | `SubmemIdNotZero` violated |
| `driver_null` | the instance of `driver_queues`, and a server may answer at any time | `EndWritingRefuses` violated |

Why these bounds are enough for what is asked: every id reuse needs at most two
objects of different kinds competing for the lowest id, and `MaxId` leaves room
for a pool beside all servers and clients; pools of 1 and 2 sub-areas with 1 and 2
connections show both the reuse of a sub-area and the creation of a pool; a stale
notification needs one queue with the remains of one connection and the beginning
of the next, which fits in a queue of four.  The limits per process are small so
that they are reached.  What needs more servers, names or processes than these
instances have (`NamesUnique`, the counters, the graph) is proved for any number.

Deadlock is not checked: the system stops after an `oops`, and when every
opener has died.

Fairness: `FairSpec` asks only that a call that has begun its clean-up loop goes
on (`WF_vars(OpStep)`).  The kernel does not abandon a system call and each
iteration waits for mutexes that are held for a bounded time only.

### RipcCall

`MaxCall` bounds the calls, `MaxConnect` the connections; the queues need no
bound of their own.

| Run | Instance | Shows |
|---|---|---|
| `call_modes` | the mode switched at will, `Early = FALSE`, everything may happen, 3 calls, 2 connections | `TypeOK`, `NoLostWakeup`, `AnswerDelivered`, `PageExclusive`, `HandlerMatches`, `ServerView` |
| `call_live` | blocking, `Early = FALSE`, undisturbed, 4 calls, fair | `CallReturns`, `RequestEnds` |
| `call_early` | blocking, `Early = TRUE`, undisturbed, fair | `CallReturns` violated |
| `call_stop` | blocking, `Early = FALSE`, the server may end, fair | `StopWakes` violated |
| `call_reconnect` | the client may disconnect, 2 connections | `ConnectLasts` violated |

Three calls let the third meet what the first left behind while the second is
in flight; two connections let notifications of a dead connection meet its
successor.  All six invariants of `call_modes` are proved for all bounds besides.

`HandlerMatches` and `ServerView` hold until the server's owner ends it or drops
the client (`intact`).  After that:

- `call()` does not look at what its buffer returns.  When a remote disconnect
  has unmapped the page under its hands and the client has connected again by the
  time of the ioctl, it posts a page it has not written, and an old request is
  answered to the new callback.  It takes four connections, more than the run has;
  the restriction in `HandlerMatches` is there for it.
- A client that connects between the two halves of `createServer` loses its
  `NEW_CONNECTION`.  A client that reconnects to a restarted server before it has
  read the end of the old connection skips the mmap.  Either way the server has no
  entry for it.

`CallReturns` and `RequestEnds` are checked without disconnects.  With them
neither holds: `StopWakes` is one reason, the other is that
`m_is_request_sent` survives the connection whose answer is lost.

Deadlock is not checked: the calls are bounded, and a fault stops the model.

Fairness: `FairSpec` asks that a thread that is inside a library call, a listener
with a notification, and a server under construction go on.  These
are ordinary threads of running processes that hold no lock across the steps.
Nothing makes the application call, the server's owner act, or a wait end by
itself.

### RipcExchange

| Run | Instance | Shows |
|---|---|---|
| `exchange` | page of 6 bytes, 5 urls of 1 to 7 characters, 2 headers, 3 payloads, 4 tables of up to 6 patterns, at most 2 headers a message | `TypeOK`, `WrittenIsRead`, `NothingStale`, `NoRequestLost`, `MostSpecial` |
| `buffer_full` | the same | `ToldIsWritten` violated |

Six bytes are the smallest page in which a url, a second header, a payload and the
three marks fit together; among the urls are some that leave room, one that
fills the page up to its last byte and one that is cut off, so that every mark and
every write meets the end of the page.  The page keeps what earlier messages
left, and messages follow each other without bound, so all stale contents that
these data can produce occur.  The tables hold patterns that overlap (a string,
`<string>`, `<int>`, and mixtures over two tokens) in all the ways two tokens can,
and `/`, which matches the empty url that a callback leaves when it resets the
request and writes nothing.  The five invariants of `exchange` are proved for any
page, data and tables besides.

Deadlock is checked in both: a message can always be ended, read or given up.

### RipcManager

| Run | Instance | Shows |
|---|---|---|
| `manager` | 2 threads, 2 ids, 1 server, up to 2 clients, 1 type of notification, 2 initializations, fair | `TypeOK`, `MapsAgree`, `NoCollision`, `HandlerAlive`, `DeviceHeld`; `ShutdownReturns` |

Two threads make every pair of calls overlap; two ids make the second creation
reuse what a deletion has just freed; two initializations let the second meet what
the first left (a listener that was not joined).  `LimitsHeld` needs three ids to
say anything with two threads, which is too large for TLC, and is proved only.

Deadlock is not checked: the model stops after a fault, and when a callback is
stuck.

Fairness: `FairSpec` has strong fairness of the steps of `doShutdown`, of each call
that has begun, and of the listener.  Strong, because each waits for
`manager_mutex`, which others take and leave; a mutex that starves a thread
for ever is excluded, as it is in practice.  `Read` is always possible while the
flag is set, so `ShutdownReturns` really depends on the flag being tested before
each read.  A callback comes back (`Dispatched`) or calls the manager
(`CallbackCalls`), which ends the promise.

### Findings

- *Early answer* (`client.cpp:158`, `:161`; `call_early`): the flag and the
  callback are stored after the request is sent.  An answer dispatched in between
  is waited for ever.
- *Stopped client* (`client.cpp:395`; `call_stop`): the end of the server does not
  wake a blocked caller although the predicate of the wait provides for it.
- *Reconnect* (`client.cpp:398`; `call_reconnect`): `delete_connection` announces
  the end to both sides (`connection.c:121`); the echo of the client's own
  disconnect, read after it has connected again, closes the new connection on its
  side.
- *Sub-area 0* (`driver/main.c:563`; `driver_zero_id`): a server's mmap refuses
  sub-area id 0 with the comment that the first client or server always takes
  that id.  It is free again when its owner is destroyed, and the next pool takes
  it.
- *Answer to a vanished client* (`driver/main.c:267`; `driver_null`): the result
  of `server_find_conn_by_sub_mem_id` is dereferenced before the check that
  should return `-ENOENT`.
- *Full page* (`submem.cpp:566`; `buffer_full`): when the mark behind the headers
  takes the last byte of the page, `setPayload` reports that the payload was
  written although nothing of it was.

The models contain more that a reader may find surprising, and that no run
reports: `reg_task_delete` gives up when the thread that opened the file has ended,
and the task stays registered (`ReleaseOrphan`); a client that lost its server
once returns 0 from every later blocking call, sent or not, because
`m_is_running` is never set again (`WaitAfter`); a failed mmap is recorded as a
mapping and accessed (`ConnectMap`, `AddConnection`, `ReadNothing`);
`Server::disconnect` tells neither driver nor client (`ServerDrop`); a creation
holds a reference to the context that a shutdown in another thread destroys
(`Clear`); a listener that ended by itself is not joined, and the next
initialization terminates the process (`Initialize`); destroying a client that has
no connection leaves it registered (`Unregistered`), as does a registration that
loses the race for the limit (`Allocate`).

## Proofs

All theorems are for every value of the constants, under the named assumption of
the module (the types of the constants, limits that are numbers, `NULL` that is
none of the values beside it) and what is said below.

### RipcDriverProofs

- `TypeCorrect`: `Spec => []TypeOK`
- `GraphConsistent`: `Spec => []PointersAgree`
- `OwnersAlive`: `Spec => []OwnersRegistered`
- `IdsCorrect`: `Spec => []IdsExact`

None of the four is inductive alone, and they are proved together as `IInv`,
with one small addition, `OpenTasks` (a task whose file is open is registered).
They need each other: a notification is well typed because the pointers it is
built from lead to existing objects; a new server does not overwrite another
object because the generator's ids are exactly those in use; a server is owned
by a registered task because the calls that register it come through an open
file, and release removes the objects before the task.

The lemmas follow the code: `SendType` and `AnnounceType` for
`notification_send`, `UnlinkEffect` and `UnlinkPointers` for
`delete_connection`, `TakeEffect` for `get_free_submem`, then one lemma for each
call, `StepIInv` for the whole next-state relation, and `InductiveInvariant`.

### RipcDriverLimitsProofs

- `NameFindsOneServer`, `CountersExact`, `OneMonitor`, `ReleaseLeavesNothing`:
  `NamesUnique`, `CountsExact`, `MonitorAlone`, `ReleaseClean`
- `PoolsStayBounded`: `PoolsBounded`, for finitely many connections
- `EndsAreAnnounced`: `EndIsAnnounced`, an action property
- `ServerHearsOfReuse`: `ServerLastWord`

The first four are one invariant, `Limits`, on top of `IInv`: the counters are right
for tasks that are not registered too (they are 0, so a task that opens again
starts right), and a monitor is registered.  The monitor needs the counters,
because it is they that the code tests, and the counters need the ids, because a
new server must be none of those counted.  `PoolsBounded` adds that sub-areas
come in whole pools and that a pool is made only when every sub-area has a
connection of its own, which is where `PointersAgree` comes in.

`ServerLastWord` starts from a queued note and asks what connection it now
describes, which is not inductive: a new connection makes an old note true again.
`HeardLast` turns it round and starts from the connection: for each one that its
client has mapped, the `NEW_CONNECTION` is behind every `REMOTE_DISCONNECT` with its
ids.  It begins with the mmap, which appends the note, and nothing but the deletion
of that very connection can append another end with the same ids, because its
sub-area is its own.  `BehindAppend`, `BehindLast` and `BehindTail` are what the
queue operations do to "is behind".

### RipcLinksProofs and RipcDriverLinksProofs

- `LinksDoNotMislead`: `RipcLinks` keeps `NotMisled`
- `DriverImplementsLinks`: `Spec => ImplementsLinks`
- `DriverDoesNotMislead`: `Spec => []PendingIsLive`

`NotMisled` is about queues and reused ids and would be hard to prove on the
driver's objects.  On the abstract specification it is: a note is appended while
its link lasts, and whatever ends the link appends the note of its end behind it;
`EndsExist` keeps later arrivals and departures from changing who the reader is.
The refinement needs `IInv`: the pointers the mapping follows must lead somewhere,
and a connection must be the link of one client.  The third theorem joins the two
and translates `NotMisled` back.

### RipcCallProofs

For all modes, early answers or not, every set of events and all bounds:

- `TypeCorrect`: `Spec => []TypeOK`
- `NoWakeupLost`: `Spec => []NoLostWakeup`
- `PageTakenInTurns`: `Spec => []PageExclusive`

`PageExclusive` speaks of the moment a request is written and is not inductive.
The invariant behind it is `OneExchange`: among the two queues, the request the
server is answering and the answer the client is dispatching there is at most
one message, and while there is one, `m_is_request_sent` is set or about to be
set.  It survives disconnects and restarts because nothing but the end of a
dispatch clears the flag while a message is under way; a failed ioctl clears it
too, but `call()` gets there only when the flag was clear.  `OneExchange` needs
the types of the queues, hence `TypeOK` and `Numbered` (a call number is there
where the code relies on one).

The queue lemmas (`AppendOther`, `AppendMessage`, `TailQueue`,
`DisconnectQueue`) say what each operation does to the messages of a queue.

### RipcCallAnswersProofs

- `OwnAnswerHandled`: `HandlerMatches`, when `Early` is `FALSE`
- `ReturnsAfterAnswer`: `AnswerDelivered`, when `Early` is `FALSE`
- `ServerSeesConnection`: `ServerView`, early answers or not

The invariant follows a request through the exchange: on each of its stations
(page, server's queue, server, client's queue, handler) it carries the number of
the call whose callback is stored (`ExchangeOwn`).  This needs that what is posted
was written by the same call (`PostedOwn`), hence that nobody unmaps the page
during a call (`MappedInCall`), which is so until the client has read a disconnect
or, before that, while the server's owner keeps still (`Trusted`).

### RipcManagerProofs

For any threads, ids and limits:

- `TypeCorrect`, `MapsFollowDriver`, `NeverCollides`, `HandlersLive`,
  `ListenerHasDevice`: `TypeOK`, `MapsAgree`, `NoCollision`, `HandlerAlive`,
  `DeviceHeld`
- `LimitsNearlyHeld`: `LimitsHeld`, for finitely many threads: racing creations
  may pass the limit, but by fewer than there are threads

The invariant has a part for the mutex (`Mutex`: who holds it is where it should
be), one for the lives of listener and context (`Keeping`), and one for where an
id is on its way from the driver to the map and back (`Sound`: no two threads
carry the same id).  `NoCollision` follows although the code's test for it is
made without the mutex: an id is given out by the driver once, and is in a map or
under way to it as long as the driver has it.  `LimitsNearlyHeld` counts the threads that have passed the
driver's last test (`Adders`): each was below the limit when it did.

### RipcExchangeProofs

For any size of the page, any characters, urls, headers and payloads, any finite
tables of patterns and any number of headers, whatever operations the callbacks
choose:

- `ExchangeTypes`: `TypeOK`
- `WhatIsWrittenIsRead`: `WrittenIsRead`
- `NothingStaleIsRead`: `NothingStale`
- `NoRequestIsLost`: `NoRequestLost`
- `MostSpecialRuns`: `MostSpecial`

The invariant, `ExchangeInv`, is built in layers, each proved inductive relative to
those before it:

| Part | Says | Needed because |
|---|---|---|
| `Types` | the page holds characters and marks, the cursors are in the page, the histories are sequences | `TypeOK` says nothing of the page or of `msg` |
| `Turns` | while nobody reads, the reader is fresh; a message that may be read was ended or fills the page | reader and writer are never at work together |
| `StaleInv` | what the writer's flags say it has ended, has its NL and its NUL below the writer's cursor, unless the page is full; the reader is through or has such an end before it | a search must stop at this message's end, not at an earlier one's |
| `UrlFirst` | the url lies at the beginning of the page, cut off if it must be, with a mark behind it, until `reset` | later headers and the payload must not touch it |
| `ChosenFirst` | the pattern whose callback runs is one the search may stop at | `MostSpecial` says what this means for the tokens |
| `Whole` | of a message that fits: where each header and the payload begin, and that they are there with their marks; how far the reader has come | `WrittenIsRead` says nothing of a message that is half written |

`Whole` is the heart of it: it states the layout `header TAB header ... NL payload
NUL` as an assignment of places to headers, follows the writer as it grows, and
follows the reader, whose next search must end at the very mark that the writer
put there.  That holds since no header contains a mark, and although the rest of
the page is full of old ones.

The search for a callback needs that a finite set of patterns with one that
matches has one that matches and no other before it (`FirstMatchExists`).  The
order of the keys is irreflexive and transitive, so the one with the fewest
others before it has none.  What an induction would give in places like this comes
from the fact that every non-empty set of naturals has a least element
(`LeastExists`), which the library of well-founded relations provides.  For the
same reason `Subdivide` is defined by the places of the bars, and not by recursion
along the url.

The proof of `MostSpecial` showed what it had to say of `reset`: a request that is
reset has no first header any more, but is answered all the same if a pattern
matches what lies in its place.  `Asked` is the url in either case.

### Only model-checked

Every invariant that a run checks, and every action property, is proved.  What
stays with TLC are the liveness properties, `OpEnds`, `CallReturns`, `RequestEnds`
and `ShutdownReturns`: the prover handles neither fairness nor `ENABLED`.  No
theorem is about the value of `Number`, a fold over digits: the proofs need only
that equal digits give equal numbers.  The runs that refute a statement are TLC's
too.

## Not modelled

- The windows inside the driver's calls, except those of a registration
  (`RipcManager`): two servers registered under one name, a server on the global
  list before it has an owner, one sub-area found free by two connects, a list
  cursor kept while its lock is released, two readers of one queue, two
  registrations of a monitor.  They are hazards in `PROJECT.json`, each at its
  line.  `RipcDriver` takes calls whole, and what it shows is shown of calls that
  do not overlap.  A model of the windows would have one action per lock section
  over the same objects, and next to nothing would hold of it: most of the lists
  are not protected at all.
- A library server with several clients and the limits of its tables, and
  callbacks registered while requests are served.
- Poll and its wait queue, the monitor's snapshot, `ipc_init` and `ipc_exit`, and
  functions that are never called (`delete_connection_list`, `find_connection`).
- The addresses of pages: which page of its pool a sub-area is
  (`driver/shm.c:29` is a hazard for this reason).
- The REST facade: two callbacks over `Server` and one call over `Client`; what
  it adds is the text of JSON.
- `api.cpp` (forwarding), the logger and `ripcctl` (output), examples and tests.
- Failing allocations.
