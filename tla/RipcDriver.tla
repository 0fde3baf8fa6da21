------------------------------ MODULE RipcDriver ------------------------------
(***************************************************************************)
(* The object graph of the kernel driver behind /dev/ripc: registered      *)
(* tasks, servers, clients, connections, shared-memory pools with their    *)
(* sub-areas, the one id generator they share, and the notification queue  *)
(* of every task.                                                          *)
(*                                                                         *)
(* One action is one system call (open, ioctl, mmap, read, release).  The  *)
(* two calls that loop over connections, IOCTL_SERVER_UNREGISTER and       *)
(* release, are a start action, one action per deleted connection and a    *)
(* finish action; while such a call runs (variable op) no other call       *)
(* starts.  Calls that overlap between two lock sections are outside this  *)
(* module.                                                                 *)
(*                                                                         *)
(* A call that returns an error code leaves the driver as it was, so it is *)
(* a stuttering step and has no action.  The exception is a call that      *)
(* dereferences NULL before it gets to its error code: it sets oops.  Two  *)
(* more calls do so when they are given an empty name, or an id that is no *)
(* client's; they are left out, since the library never makes them.        *)
(* The driver never checks that the caller owns the id it passes, so no    *)
(* guard does either.                                                      *)
(***************************************************************************)
EXTENDS Integers, Sequences, FiniteSets

CONSTANTS
    Task,                  \* task_structs of the threads that open the device
    EarlyExit,             \* those that may end before the device is closed
    Name,                  \* server names
    Conn,                  \* addresses kmalloc can give to a connection_t
    NULL,
    MaxId,                 \* bound: MAX_ID_VALUE
    MAX_PROCESSES,
    MAX_SERVERS_PER_PID,
    MAX_CLIENTS_PER_PID,
    SHM_POOL_SIZE,         \* sub-areas of one pool
    LateAnswers,           \* servers may answer over a connection that is gone
    MaxNotif               \* bound: queue length above which nobody sends

Id == 0..MaxId

ASSUME ConstantsAssumption ==
    /\ MaxId \in Nat
    /\ {MAX_PROCESSES, MAX_SERVERS_PER_PID, MAX_CLIENTS_PER_PID,
        SHM_POOL_SIZE} \subseteq Nat \ {0}
    /\ MaxNotif \in Nat
    /\ EarlyExit \subseteq Task
    /\ LateAnswers \in BOOLEAN
    /\ NULL \notin Task \cup Name \cup Conn
    /\ NULL \notin Id

VARIABLES
    tasks,     \* g_reg_task_list
    opened,    \* tasks whose struct file still has its private_data
    alive,     \* tasks for which pid_alive() holds
    monitor,   \* tasks with m_is_monitor set
    count,     \* m_num_of_servers and m_num_of_clients of every reg_task
    notif,     \* m_notif_list of every reg_task
    servers,   \* ids of the servers on g_servers_list
    server,    \* their name, owner and connection_list
    clients,   \* ids of the clients on g_clients_list
    client,    \* their owner and m_conn_p
    pools,     \* ids of the shm_t on g_shm_list
    submems,   \* ids of their sub-areas
    submem,    \* rank of the pool it belongs to, and m_conn_p
    conns,     \* addresses on g_conns_list
    conn,      \* their client, server, sub-area and m_serv_mmaped
    ida,       \* ids taken from g_id_gen
    op,        \* the looping call in progress
    oops       \* the call that dereferenced a NULL pointer, or "none"

taskVars   == <<tasks, opened, alive, monitor, count>>
memVars    == <<pools, submems, ida>>
vars == <<taskVars, notif, servers, server, clients, client, memVars, submem,
          conns, conn, op, oops>>

NoServer == [name |-> NULL, task |-> NULL, conns |-> {}]
NoClient == [task |-> NULL, conn |-> NULL]
NoSubmem == [rank |-> 0, conn |-> NULL]
NoConn   == [client |-> NULL, server |-> NULL, mem |-> NULL, mmaped |-> FALSE]
NoOp     == [kind |-> "none", task |-> NULL, srv |-> NULL]

(* The records of the tables, and what a notification carries.             *)
ServerRecord == [name : Name \cup {NULL}, task : Task \cup {NULL}, conns : SUBSET Conn]
ClientRecord == [task : Task \cup {NULL}, conn : Conn \cup {NULL}]
SubmemRecord == [rank : Nat, conn : Conn \cup {NULL}]
ConnRecord   == [client : Id \cup {NULL}, server : Id \cup {NULL},
                 mem : Id \cup {NULL}, mmaped : BOOLEAN]

Notification ==
    [who : {"SERVER", "CLIENT"},
     type : {"NEW_CONNECTION", "NEW_MESSAGE", "REMOTE_DISCONNECT"},
     mem : Id, from : Id, to : Id]

TypeOK ==
    /\ tasks \subseteq Task
    /\ opened \subseteq Task
    /\ alive \subseteq Task
    /\ monitor \subseteq Task
    /\ count \in [Task -> [servers : Int, clients : Int]]
    /\ notif \in [Task -> Seq(Notification)]
    /\ servers \subseteq Id
    /\ server \in [Id -> ServerRecord]
    /\ clients \subseteq Id
    /\ client \in [Id -> ClientRecord]
    /\ pools \subseteq Id
    /\ submems \subseteq Id
    /\ submem \in [Id -> SubmemRecord]
    /\ conns \subseteq Conn
    /\ conn \in [Conn -> ConnRecord]
    /\ ida \subseteq Id
    /\ op \in [kind : {"none", "unregister", "release"},
               task : Task \cup {NULL}, srv : Id \cup {NULL}]
    /\ oops \in {"none", "end_writing"}

Init ==
    /\ tasks = {} /\ opened = {} /\ alive = Task /\ monitor = {}
    /\ count = [t \in Task |-> [servers |-> 0, clients |-> 0]]
    /\ notif = [t \in Task |-> <<>>]
    /\ servers = {} /\ server = [i \in Id |-> NoServer]
    /\ clients = {} /\ client = [i \in Id |-> NoClient]
    /\ pools = {} /\ submems = {} /\ submem = [i \in Id |-> NoSubmem]
    /\ conns = {} /\ conn = [c \in Conn |-> NoConn]
    /\ ida = {}
    /\ op = NoOp
    /\ oops = "none"

(* A call may start: no looping call is under way, the kernel is up, and   *)
(* the caller still has the device open.                                   *)
Call(t) == op = NoOp /\ oops = "none" /\ t \in opened

(* Bound on the queues: a call that sends starts only while all are short. *)
Room == \A t \in Task : Len(notif[t]) <= MaxNotif

-----------------------------------------------------------------------------
(* The id generator: ida_alloc_range hands out the lowest free id.         *)

IsLowestFree(i) == i \in Id \ ida /\ \A j \in Id \ ida : i <= j

(* The ids of n successive calls are the n lowest free ones.               *)
AreLowestFree(I, n) ==
    /\ I \subseteq Id \ ida
    /\ Cardinality(I) = n
    /\ \A i \in I, j \in (Id \ ida) \ I : i < j

-----------------------------------------------------------------------------
(* Notifications.                                                          *)

Owner(c, who) ==
    IF who = "CLIENT" THEN client[conn[c].client].task
                      ELSE server[conn[c].server].task

(* Mutant: the note is made after the sub-area was detached.               *)
NoteAfterDetach(who, type, c) ==
    [who |-> who, type |-> type, mem |-> NULL, from |-> 0, to |-> 0]

(* What the given side of connection c sends to the other side.            *)
Note(who, type, c) ==
    [who |-> who, type |-> type, mem |-> conn[c].mem,
     from |-> IF who = "CLIENT" THEN conn[c].client ELSE conn[c].server,
     to   |-> IF who = "CLIENT" THEN conn[c].server ELSE conn[c].client]

(* Mutant: list_add for list_add_tail.                                     *)
Prepended(queue, n) == <<n>> \o queue

Enqueued(queue, n) == Append(queue, n)

notification_send(who, type, c, queues) ==
    LET receiver == Owner(c, IF who = "CLIENT" THEN "SERVER" ELSE "CLIENT")
    IN  [queues EXCEPT ![receiver] = Enqueued(@, Note(who, type, c))]

(* Mutant: only the client hears of the end of its connection.             *)
AnnounceToClient(c, queues) ==
    notification_send("SERVER", "REMOTE_DISCONNECT", c, queues)

(* The queues after delete_connection(c), whose first act is to announce   *)
(* the end of the connection to both sides.                                *)
AnnounceDelete(c, queues) ==
    notification_send("CLIENT", "REMOTE_DISCONNECT", c,
        notification_send("SERVER", "REMOTE_DISCONNECT", c, queues))

(* The rest of delete_connection: the sub-area, the client and the server  *)
(* forget the connection and it is freed.                                  *)
ClientsWithout(c) == [client EXCEPT ![conn[c].client].conn = NULL]

(* Mutant: the sub-area keeps pointing at the freed connection.            *)
UnlinkKeepMem(c) ==
    /\ UNCHANGED submem
    /\ server' = [server EXCEPT ![conn[c].server].conns = @ \ {c}]
    /\ conns' = conns \ {c}
    /\ conn' = [conn EXCEPT ![c] = NoConn]

Unlink(c) ==
    /\ submem' = [submem EXCEPT ![conn[c].mem].conn = NULL]
    /\ server' = [server EXCEPT ![conn[c].server].conns = @ \ {c}]
    /\ conns' = conns \ {c}
    /\ conn' = [conn EXCEPT ![c] = NoConn]

delete_connection(c, queues) ==
    /\ notif' = AnnounceDelete(c, queues)
    /\ client' = ClientsWithout(c)
    /\ Unlink(c)

-----------------------------------------------------------------------------
(* open, registration of servers, clients and the monitor.                 *)

Open(t) ==
    /\ op = NoOp /\ oops = "none"
    /\ t \in alive
    /\ t \notin tasks
    /\ Cardinality(tasks) < MAX_PROCESSES
    /\ tasks' = tasks \cup {t}
    /\ opened' = opened \cup {t}
    /\ UNCHANGED <<alive, monitor, count, notif, servers, server, clients, client,
                   memVars, submem, conns, conn, op, oops>>

(* reg_task_can_add_server, reg_task_can_add_client, and a mutant that     *)
(* lets one more in.                                                       *)
CanAddOneMore(t) ==
    t \notin monitor /\ count[t].clients <= MAX_CLIENTS_PER_PID

CanAddServer(t) == t \notin monitor /\ count[t].servers < MAX_SERVERS_PER_PID

CanAddClient(t) == t \notin monitor /\ count[t].clients < MAX_CLIENTS_PER_PID

(* find_server_by_name, and a mutant that misses servers without a client. *)
ServersInUseNamed(n) == {s \in servers : server[s].name = n /\ server[s].conns # {}}

ServersNamed(n) == {s \in servers : server[s].name = n}

RegisterServer(t, n) ==
    /\ Call(t)
    /\ CanAddServer(t)
    /\ ServersNamed(n) = {}
    /\ \E s \in Id :
         /\ IsLowestFree(s)
         /\ ida' = ida \cup {s}
         /\ servers' = servers \cup {s}
         /\ server' = [server EXCEPT ![s] = [name |-> n, task |-> t, conns |-> {}]]
    /\ count' = [count EXCEPT ![t].servers = @ + 1]
    /\ UNCHANGED <<tasks, opened, alive, monitor, notif, clients, client,
                   pools, submems, submem, conns, conn, op, oops>>

RegisterClient(t) ==
    /\ Call(t)
    /\ CanAddClient(t)
    /\ \E k \in Id :
         /\ IsLowestFree(k)
         /\ ida' = ida \cup {k}
         /\ clients' = clients \cup {k}
         /\ client' = [client EXCEPT ![k] = [task |-> t, conn |-> NULL]]
    /\ count' = [count EXCEPT ![t].clients = @ + 1]
    /\ UNCHANGED <<tasks, opened, alive, monitor, notif, servers, server,
                   pools, submems, submem, conns, conn, op, oops>>

(* The search of reg_task_set_monitor, and a mutant that looks only at the *)
(* caller.                                                                 *)
CallerIsMonitor(t) == t \in monitor

MonitorExists(t) == monitor \cap tasks # {}

RegisterMonitor(t) ==
    /\ Call(t)
    /\ count[t].servers <= 0 /\ count[t].clients <= 0
    /\ ~MonitorExists(t)
    /\ monitor' = monitor \cup {t}
    /\ UNCHANGED <<tasks, opened, alive, count, notif, servers, server, clients,
                   client, memVars, submem, conns, conn, op, oops>>

-----------------------------------------------------------------------------
(* CONNECT_TO_SERVER.                                                      *)

(* get_free_submem walks the pools newest first and the sub-areas of one   *)
(* pool in index order, which is the order of their ids.                   *)
(* Mutant: the search stops one sub-area short of the end of a pool.       *)
FreeButLast ==
    {m \in submems : /\ submem[m].conn = NULL
                     /\ \E x \in submems : submem[x].rank = submem[m].rank /\ m < x}

FreeSubmems == {m \in submems : submem[m].conn = NULL}

IsFirstFree(m) ==
    /\ m \in FreeSubmems
    /\ \A x \in FreeSubmems : \/ submem[x].rank < submem[m].rank
                              \/ submem[x].rank = submem[m].rank /\ m <= x

(* A free sub-area of an existing pool is taken for connection c.          *)
TakeSubmem(m, c) ==
    /\ IsFirstFree(m)
    /\ submem' = [submem EXCEPT ![m].conn = c]
    /\ UNCHANGED memVars

(* No sub-area is free: shm_create takes the lowest free ids, first for    *)
(* the sub-areas and then for the pool, and c gets the first sub-area.     *)
CreatePool(m, c) ==
    /\ FreeSubmems = {}
    /\ \E I \in SUBSET Id : \E p \in I :
         /\ AreLowestFree(I, SHM_POOL_SIZE + 1)
         /\ \A i \in I : i <= p
         /\ m \in I \ {p} /\ \A i \in I : m <= i
         /\ ida' = ida \cup I
         /\ pools' = pools \cup {p}
         /\ submems' = submems \cup (I \ {p})
         /\ submem' = [i \in Id |->
                         IF i \in I \ {p}
                         THEN [rank |-> Cardinality(pools) + 1,
                               conn |-> IF i = m THEN c ELSE NULL]
                         ELSE submem[i]]

Connect(t, k, n) ==
    /\ Call(t)
    /\ k \in clients
    /\ client[k].conn = NULL
    /\ \E s \in ServersNamed(n), m \in Id, c \in Conn \ conns :
         /\ TakeSubmem(m, c) \/ CreatePool(m, c)
         /\ conns' = conns \cup {c}
         /\ conn' = [conn EXCEPT ![c] = [client |-> k, server |-> s, mem |-> m,
                                         mmaped |-> FALSE]]
         /\ client' = [client EXCEPT ![k].conn = c]
         /\ server' = [server EXCEPT ![s].conns = @ \cup {c}]
    /\ UNCHANGED <<taskVars, notif, servers, clients, op, oops>>

-----------------------------------------------------------------------------
(* mmap by a client, the two END_WRITING calls, read.                      *)

Connected(k) == k \in clients /\ client[k].conn # NULL

(* mmap by a server changes nothing in the driver and has no action here.  *)
ClientMmap(t, k) ==
    /\ Call(t) /\ Room
    /\ Connected(k)
    /\ notif' = notification_send("CLIENT", "NEW_CONNECTION", client[k].conn, notif)
    /\ conn' = [conn EXCEPT ![client[k].conn].mmaped = TRUE]
    /\ UNCHANGED <<taskVars, servers, server, clients, client, memVars, submem,
                   conns, op, oops>>

ClientEndWriting(t, k) ==
    /\ Call(t) /\ Room
    /\ Connected(k)
    /\ notif' = notification_send("CLIENT", "NEW_MESSAGE", client[k].conn, notif)
    /\ UNCHANGED <<taskVars, servers, server, clients, client, memVars, submem,
                   conns, conn, op, oops>>

(* server_find_conn_by_sub_mem_id *)
ConnsByMem(s, m) == {c \in server[s].conns : conn[c].mem = m}

ServerEndWriting(t, s, m) ==
    /\ Call(t) /\ Room
    /\ s \in servers
    /\ \E c \in ConnsByMem(s, m) :
         notif' = notification_send("SERVER", "NEW_MESSAGE", c, notif)
    /\ UNCHANGED <<taskVars, servers, server, clients, client, memVars, submem,
                   conns, conn, op, oops>>

(* The same call when the server has no connection over sub-area m any     *)
(* more: the result of the search is dereferenced before it is checked.    *)
ServerEndWritingNull(t, s, m) ==
    /\ Call(t) /\ LateAnswers
    /\ s \in servers
    /\ ConnsByMem(s, m) = {}
    /\ oops' = "end_writing"
    /\ UNCHANGED <<taskVars, notif, servers, server, clients, client, memVars,
                   submem, conns, conn, op>>

Read(t) ==
    /\ Call(t)
    /\ t \notin monitor
    /\ notif[t] # <<>>
    /\ notif' = [notif EXCEPT ![t] = Tail(@)]
    /\ UNCHANGED <<taskVars, servers, server, clients, client, memVars, submem,
                   conns, conn, op, oops>>

-----------------------------------------------------------------------------
(* Calls that end one connection.                                          *)

ClientDisconnect(t, k) ==
    /\ Call(t) /\ Room
    /\ Connected(k)
    /\ LET c == client[k].conn
       IN  delete_connection(c,
               notification_send("CLIENT", "REMOTE_DISCONNECT", c, notif))
    /\ UNCHANGED <<taskVars, servers, clients, memVars, op, oops>>

ServerDisconnect(t, s, m) ==
    /\ Call(t) /\ Room
    /\ s \in servers
    /\ \E c \in ConnsByMem(s, m) :
         delete_connection(c,
             notification_send("SERVER", "REMOTE_DISCONNECT", c, notif))
    /\ UNCHANGED <<taskVars, servers, clients, memVars, op, oops>>

(* Only a connected client is unregistered: without a connection the call  *)
(* returns -ENOENT before it removes anything.                             *)
ClientUnregister(t, k) ==
    /\ Call(t) /\ Room
    /\ Connected(k)
    /\ LET c == client[k].conn
       IN  /\ notif' = AnnounceDelete(c,
                 notification_send("CLIENT", "REMOTE_DISCONNECT", c, notif))
           /\ Unlink(c)
           /\ client' = [ClientsWithout(c) EXCEPT ![k] = NoClient]
    /\ clients' = clients \ {k}
    /\ ida' = ida \ {k}
    /\ count' = [count EXCEPT ![client[k].task].clients = @ - 1]
    /\ UNCHANGED <<tasks, opened, alive, monitor, servers, pools, submems, op, oops>>

-----------------------------------------------------------------------------
(* SERVER_UNREGISTER: delete the server's connections, then the server.    *)

ServerUnregister(t, s) ==
    /\ Call(t) /\ Room
    /\ s \in servers
    /\ op' = [kind |-> "unregister", task |-> server[s].task, srv |-> s]
    /\ UNCHANGED <<taskVars, notif, servers, server, clients, client, memVars,
                   submem, conns, conn, oops>>

(* One iteration of server_cleanup_connections.                            *)
UnregisterConn ==
    /\ op.kind = "unregister"
    /\ \E c \in server[op.srv].conns : delete_connection(c, notif)
    /\ UNCHANGED <<taskVars, servers, clients, memVars, op, oops>>

(* Mutant: server_destroy without free_id.                                 *)
UnregisterFinishKeepId ==
    /\ op.kind = "unregister"
    /\ server[op.srv].conns = {}
    /\ servers' = servers \ {op.srv}
    /\ server' = [server EXCEPT ![op.srv] = NoServer]
    /\ count' = [count EXCEPT ![op.task].servers = @ - 1]
    /\ op' = NoOp
    /\ UNCHANGED <<tasks, opened, alive, monitor, notif, clients, client, memVars,
                   submem, conns, conn, oops>>

UnregisterFinish ==
    /\ op.kind = "unregister"
    /\ server[op.srv].conns = {}
    /\ servers' = servers \ {op.srv}
    /\ server' = [server EXCEPT ![op.srv] = NoServer]
    /\ ida' = ida \ {op.srv}
    /\ count' = [count EXCEPT ![op.task].servers = @ - 1]
    /\ op' = NoOp
    /\ UNCHANGED <<tasks, opened, alive, monitor, notif, clients, client, pools,
                   submems, submem, conns, conn, oops>>

-----------------------------------------------------------------------------
(* release: the last close of the device, also when the process dies.      *)

OwnServers(t) == {s \in servers : server[s].task = t}
(* Mutant: a client without a connection is passed over.                   *)
OwnClientsConnected(t) == {k \in clients : client[k].task = t /\ client[k].conn # NULL}

OwnClients(t) == {k \in clients : client[k].task = t}

(* The thread that opened the device ends while the file stays open in     *)
(* another thread or in a forked child.                                    *)
ThreadExit(t) ==
    /\ op = NoOp /\ oops = "none"
    /\ t \in EarlyExit \cap alive \cap opened
    /\ alive' = alive \ {t}
    /\ UNCHANGED <<tasks, opened, monitor, count, notif, servers, server, clients,
                   client, memVars, submem, conns, conn, op, oops>>

ReleaseStart(t) ==
    /\ Call(t) /\ Room
    /\ t \in alive
    /\ opened' = opened \ {t}
    /\ op' = [kind |-> "release", task |-> t, srv |-> NULL]
    /\ UNCHANGED <<tasks, alive, monitor, count, notif, servers, server, clients,
                   client, memVars, submem, conns, conn, oops>>

(* Mutant: the test of pid_alive is lost.                                  *)
ReleaseForgets(t) ==
    /\ Call(t)
    /\ opened' = opened \ {t}
    /\ UNCHANGED <<tasks, alive, monitor, count, notif, servers, server, clients,
                   client, memVars, submem, conns, conn, op, oops>>

(* reg_task_delete gives up at once when the opener is gone, and release   *)
(* forgets the reg_task all the same.                                      *)
ReleaseOrphan(t) ==
    /\ Call(t)
    /\ t \notin alive
    /\ opened' = opened \ {t}
    /\ UNCHANGED <<tasks, alive, monitor, count, notif, servers, server, clients,
                   client, memVars, submem, conns, conn, op, oops>>

ReleaseServerConn ==
    /\ op.kind = "release"
    /\ \E s \in OwnServers(op.task) :
         \E c \in server[s].conns : delete_connection(c, notif)
    /\ UNCHANGED <<taskVars, servers, clients, memVars, op, oops>>

(* Mutant: only the connections a client has mapped are cleaned up.        *)
ReleaseMappedConn ==
    /\ op.kind = "release"
    /\ \A s \in OwnServers(op.task) : server[s].conns = {}
    /\ \E k \in OwnClients(op.task) :
         /\ client[k].conn # NULL /\ conn[client[k].conn].mmaped
         /\ delete_connection(client[k].conn, notif)
    /\ UNCHANGED <<taskVars, servers, clients, memVars, op, oops>>

ReleaseClientConn ==
    /\ op.kind = "release"
    /\ \A s \in OwnServers(op.task) : server[s].conns = {}
    /\ \E k \in OwnClients(op.task) :
         /\ client[k].conn # NULL
         /\ delete_connection(client[k].conn, notif)
    /\ UNCHANGED <<taskVars, servers, clients, memVars, op, oops>>

ReleaseFinish ==
    LET t == op.task IN
    /\ op.kind = "release"
    /\ \A s \in OwnServers(t) : server[s].conns = {}
    /\ \A k \in OwnClients(t) : client[k].conn = NULL
    /\ ida' = ida \ (OwnServers(t) \cup OwnClients(t))
    /\ servers' = servers \ OwnServers(t)
    /\ server' = [s \in Id |-> IF s \in OwnServers(t) THEN NoServer ELSE server[s]]
    /\ clients' = clients \ OwnClients(t)
    /\ client' = [k \in Id |-> IF k \in OwnClients(t) THEN NoClient ELSE client[k]]
    /\ count' = [count EXCEPT ![t] = [servers |-> 0, clients |-> 0]]
    /\ notif' = [notif EXCEPT ![t] = <<>>]
    /\ tasks' = tasks \ {t}
    /\ monitor' = monitor \ {t}
    /\ op' = NoOp
    /\ UNCHANGED <<opened, alive, pools, submems, submem, conns, conn, oops>>

-----------------------------------------------------------------------------
(* The steps of a looping call that has started.                           *)
OpStep ==
    \/ UnregisterConn \/ UnregisterFinish
    \/ ReleaseServerConn \/ ReleaseClientConn \/ ReleaseFinish

Next ==
    \/ OpStep
    \/ \E t \in Task :
         \/ Open(t) \/ ThreadExit(t) \/ ReleaseStart(t) \/ ReleaseOrphan(t)
         \/ RegisterClient(t) \/ RegisterMonitor(t) \/ Read(t)
         \/ \E n \in Name : RegisterServer(t, n)
         \/ \E k \in clients, n \in Name : Connect(t, k, n)
         \/ \E k \in clients :
              \/ ClientMmap(t, k) \/ ClientEndWriting(t, k)
              \/ ClientDisconnect(t, k) \/ ClientUnregister(t, k)
         \/ \E s \in servers : ServerUnregister(t, s)
         \/ \E s \in servers, m \in submems :
              \/ ServerEndWriting(t, s, m) \/ ServerEndWritingNull(t, s, m)
              \/ ServerDisconnect(t, s, m)

Spec == Init /\ [][Next]_vars

(* A system call that has started is not abandoned by the kernel.          *)
FairSpec == Spec /\ WF_vars(OpStep)

-----------------------------------------------------------------------------
(* Safety invariants.                                                      *)

(* Every pointer has its way back: a connection on the global list and the *)
(* client, server and sub-area it names point at each other, so no freed   *)
(* connection is reachable and no two connections share a sub-area.        *)
PointersAgree ==
    /\ \A c \in conns :
         /\ conn[c].client \in clients /\ client[conn[c].client].conn = c
         /\ conn[c].server \in servers /\ c \in server[conn[c].server].conns
         /\ conn[c].mem \in submems    /\ submem[conn[c].mem].conn = c
    /\ \A k \in clients : client[k].conn # NULL =>
         client[k].conn \in conns /\ conn[client[k].conn].client = k
    /\ \A s \in servers : \A c \in server[s].conns :
         c \in conns /\ conn[c].server = s
    /\ \A m \in submems : submem[m].conn # NULL =>
         submem[m].conn \in conns /\ conn[submem[m].conn].mem = m

(* A server or client on a global list belongs to a task that is still     *)
(* registered, so notification_send never follows a freed reg_task.        *)
OwnersRegistered ==
    /\ \A s \in servers : server[s].task \in tasks
    /\ \A k \in clients : client[k].task \in tasks
    /\ op.kind = "unregister" => op.srv \in servers /\ server[op.srv].task = op.task
    /\ op.kind = "release" => op.task \in tasks

(* The generator and the objects agree: an id is taken exactly while one   *)
(* server, client, sub-area or pool has it.  No id leaks and none is freed *)
(* under a living object, over any order of creation and destruction.      *)
IdsExact ==
    /\ ida = servers \cup clients \cup submems \cup pools
    /\ servers \cap clients = {} /\ servers \cap submems = {}
    /\ servers \cap pools = {}   /\ clients \cap submems = {}
    /\ clients \cap pools = {}   /\ submems \cap pools = {}

(* find_server_by_name has at most one answer.                             *)
NamesUnique ==
    \A r, s \in servers : server[r].name = server[s].name => r = s

(* The per-process counters count the list entries, so the limits they are *)
(* compared with are limits on the lists.                                  *)
CountsExact ==
    \A t \in tasks :
        /\ count[t].servers = Cardinality(OwnServers(t))
        /\ count[t].clients = Cardinality(OwnClients(t))
        /\ count[t].servers <= MAX_SERVERS_PER_PID
        /\ count[t].clients <= MAX_CLIENTS_PER_PID

(* There is at most one monitor and it owns no server and no client.       *)
MonitorAlone ==
    /\ Cardinality(monitor) <= 1
    /\ \A t \in monitor : OwnServers(t) = {} /\ OwnClients(t) = {}

(* A new pool is made only when all sub-areas are in use, and a deleted    *)
(* connection gives its sub-area back: there are never more sub-areas than *)
(* the largest number of simultaneous connections rounds up to.            *)
PoolsBounded ==
    /\ Cardinality(submems) = SHM_POOL_SIZE * Cardinality(pools)
    /\ Cardinality(submems) < Cardinality(Conn) + SHM_POOL_SIZE

(* Nothing is left of a task whose device file was closed while its opener *)
(* was alive.                                                              *)
ReleaseClean ==
    \A t \in alive \ opened : t # op.task => t \notin tasks

SameEnds(a, b) == a.who = b.who /\ a.from = b.from /\ a.to = b.to /\ a.mem = b.mem

(* A connection described by notification n, whose receiver is task t.     *)
Live(n, t) ==
    \E c \in conns :
        /\ conn[c].mem = n.mem
        /\ n = Note(n.who, n.type, c)
        /\ t = Owner(c, IF n.who = "CLIENT" THEN "SERVER" ELSE "CLIENT")

(* A queued NEW_CONNECTION or NEW_MESSAGE speaks of a connection that      *)
(* still exists, unless its REMOTE_DISCONNECT follows in the same queue:   *)
(* the reader never keeps a dead connection, whatever ids were reused.     *)
PendingIsLive ==
    \A t \in tasks : \A i \in 1..Len(notif[t]) :
        LET n == notif[t][i]
        IN  n.type # "REMOTE_DISCONNECT" =>
              \/ Live(n, t)
              \/ \E j \in i+1..Len(notif[t]) :
                   /\ notif[t][j].type = "REMOTE_DISCONNECT"
                   /\ SameEnds(notif[t][j], n)

(* A REMOTE_DISCONNECT queued for a server is never the last word on a     *)
(* connection that its client has mapped: the NEW_CONNECTION of such a     *)
(* connection, over the same ids, is behind it in the queue.               *)
ServerLastWord ==
    \A t \in tasks : \A i \in 1..Len(notif[t]) :
        LET n == notif[t][i]
        IN  n.who = "CLIENT" /\ n.type = "REMOTE_DISCONNECT" /\ Live(n, t) =>
              \/ ~conn[submem[n.mem].conn].mmaped
              \/ \E j \in i+1..Len(notif[t]) :
                   /\ notif[t][j].type = "NEW_CONNECTION"
                   /\ SameEnds(notif[t][j], n)

-----------------------------------------------------------------------------
(* Action and liveness properties.                                         *)

Told(t, n) == \E i \in 1..Len(notif'[t]) : notif'[t][i] = n

(* Whichever call ends a connection, both sides find out: the step that    *)
(* takes a connection off the list leaves a REMOTE_DISCONNECT from each    *)
(* end in the queue of the other.                                          *)
EndIsAnnounced ==
    [][\A c \in conns \ conns' :
         /\ Told(Owner(c, "CLIENT"), Note("SERVER", "REMOTE_DISCONNECT", c))
         /\ Told(Owner(c, "SERVER"), Note("CLIENT", "REMOTE_DISCONNECT", c))]_vars

(* SERVER_UNREGISTER and release end, whatever connections there are.      *)
OpEnds == (op # NoOp) ~> (op = NoOp)

-----------------------------------------------------------------------------
(* Statements of the documentation and of comments that the code does not  *)
(* keep; each is the subject of a run that refutes it.                     *)

(* ipc_mmap: shared memory cannot be created before the clients and        *)
(* servers that take the initial ids, so no sub-area has id 0.             *)
SubmemIdNotZero == 0 \notin submems

(* IOCTL_SERVER_END_WRITING: "if there is no connection with this memory"  *)
(* the call returns -ENOENT.                                               *)
EndWritingRefuses == oops # "end_writing"

=============================================================================
