------------------------------ MODULE RipcManager ------------------------------
(***************************************************************************)
(* The library's entity manager in one process: application threads that   *)
(* create and delete servers and clients, one of which also initializes    *)
(* the library and shuts it down, and the listener thread that reads       *)
(* notifications and hands them to the entities.                           *)
(*                                                                         *)
(* manager_mutex guards the maps, but not everything that is read of them: *)
(* a creation tests the limit, asks for the context, registers with the    *)
(* driver and enters the map in four steps.  A dispatch holds the mutex    *)
(* while the entity or the user's handler runs.                            *)
(*                                                                         *)
(* A call that is refused, or ends in the exception that LOG_CRIT may      *)
(* throw, changes nothing and has no action.  Of the driver there is what  *)
(* it has registered for the open file; its lists are taken to be whole,   *)
(* although threads that register at once add to them without a lock.      *)
(***************************************************************************)
EXTENDS Integers, FiniteSets

CONSTANTS
    Thread,                 \* application threads
    Keeper,                 \* the one that initializes and shuts down
    Id,                     \* ids that the driver may give out
    Type,                   \* types of notifications
    MAX_SERVERS_PER_PID,    \* the library's limit and the driver's
    MAX_CLIENTS_PER_PID,
    MaxInit                 \* bound: initializations

ASSUME ManagerAssumption ==
    /\ Keeper \in Thread /\ {"nobody", "listener"} \cap Thread = {}
    /\ Id \subseteq Nat
    /\ MAX_SERVERS_PER_PID \in Nat /\ MAX_CLIENTS_PER_PID \in Nat
    /\ MaxInit \in Nat

VARIABLES
    initialized,    \* is_initialized
    context,        \* none, with the device shut (it did not open) or open
    running,        \* listener_running
    listener,       \* listener_thread: none, running, or ended but not joined
    lock,           \* who holds manager_mutex
    entities,       \* servers and clients: the ids in either map
    handlers,       \* notification_handlers: types with a handler
    pc,             \* where each application thread is
    work,           \* the kind and id its creation or deletion is about
    lpc,            \* where the listener is
    ntf,            \* the notification it has read
    registered,     \* driver: servers and clients of this file
    loose,          \* driver: ids of those that belong to no file
    linked,         \* driver: clients that have a connection
    inits,          \* initializations
    fault           \* the context or the thread object misused

threads  == <<pc, work>>
loop     == <<lpc, ntf>>
driver   == <<registered, loose, linked>>
manager  == <<initialized, context, running, listener, inits>>
vars == <<manager, lock, entities, handlers, threads, loop, driver, fault>>

Kind == {"server", "client"}
NoId == -1
Work == [kind : Kind, id : Id \cup {NoId}]
NoWork == [kind |-> "server", id |-> NoId]
Notification == [to : Kind, id : Id, type : Type]
NoNotification == [to |-> "server", id |-> NoId, type |-> "none"]

Nobody   == "nobody"
Listener == "listener"

TypeOK ==
    /\ initialized \in BOOLEAN /\ running \in BOOLEAN
    /\ context \in {"none", "shut", "open"}
    /\ listener \in {"none", "running", "ended"}
    /\ lock \in Thread \cup {Nobody, Listener}
    /\ entities \in [Kind -> SUBSET Id]
    /\ handlers \subseteq Type
    /\ pc \in [Thread -> {"idle", "context", "register", "create", "add",
                          "insert", "destroy", "join", "clear"}]
    /\ work \in [Thread -> Work]
    /\ lpc \in {"off", "start", "poll", "dispatch", "handle", "stuck"}
    /\ ntf \in Notification \cup {NoNotification}
    /\ registered \in [Kind -> SUBSET Id]
    /\ loose \subseteq Id
    /\ linked \subseteq registered["client"]
    /\ inits \in 0..MaxInit
    /\ fault \in {"none", "context", "terminate"}

Init ==
    /\ initialized = FALSE /\ context = "none"
    /\ running = FALSE /\ listener = "none"
    /\ lock = Nobody
    /\ entities = [k \in Kind |-> {}] /\ handlers = {}
    /\ pc = [t \in Thread |-> "idle"]
    /\ work = [t \in Thread |-> NoWork]
    /\ lpc = "off" /\ ntf = NoNotification
    /\ registered = [k \in Kind |-> {}] /\ loose = {} /\ linked = {}
    /\ inits = 0
    /\ fault = "none"

At(t, place) == fault = "none" /\ pc[t] = place
Goto(t, place) == pc' = [pc EXCEPT ![t] = place]
Return(t) == Goto(t, "idle") /\ work' = [work EXCEPT ![t] = NoWork]
Loop(place) == fault = "none" /\ lpc = place

LimitOf(kind) ==
    IF kind = "server" THEN MAX_SERVERS_PER_PID ELSE MAX_CLIENTS_PER_PID

-----------------------------------------------------------------------------
(* doInitialize, under the mutex from beginning to end.                    *)

(* The device is not there.                                                *)
OpenFails ==
    /\ At(Keeper, "idle") /\ lock = Nobody
    /\ ~initialized
    /\ context' = "shut"
    /\ UNCHANGED <<initialized, running, listener, inits, lock, entities,
                   handlers, threads, loop, driver, fault>>

(* The listener thread cannot be started.                                  *)
StartFails ==
    /\ At(Keeper, "idle") /\ lock = Nobody
    /\ ~initialized
    /\ context' = "none" /\ running' = FALSE
    /\ UNCHANGED <<initialized, listener, inits, lock, entities, handlers,
                   threads, loop, driver, fault>>

(* A thread object that was not joined may not be assigned to.             *)
Initialize ==
    /\ At(Keeper, "idle") /\ lock = Nobody
    /\ ~initialized
    /\ inits < MaxInit
    /\ context' = "open" /\ running' = TRUE
    /\ \/ /\ listener = "none"
          /\ listener' = "running" /\ lpc' = "start"
          /\ initialized' = TRUE /\ inits' = inits + 1
          /\ UNCHANGED fault
       \/ /\ listener # "none"
          /\ fault' = "terminate"
          /\ UNCHANGED <<listener, lpc, initialized, inits>>
    /\ UNCHANGED <<lock, entities, handlers, threads, ntf, driver>>

-----------------------------------------------------------------------------
(* doShutdown.                                                             *)

(* Mutant: nobody waits for the listener.                                  *)
NoJoin == FALSE

(* The flag was still set, and there is a thread to wait for.              *)
MustJoin == running /\ listener # "none"

BeginShutdown ==
    /\ At(Keeper, "idle")
    /\ running' = FALSE
    /\ Goto(Keeper, IF MustJoin THEN "join" ELSE "clear")
    /\ UNCHANGED <<initialized, context, listener, inits, lock, entities,
                   handlers, work, loop, driver, fault>>

Join ==
    /\ At(Keeper, "join")
    /\ listener = "ended"
    /\ listener' = "none"
    /\ Goto(Keeper, "clear")
    /\ UNCHANGED <<initialized, context, running, inits, lock, entities,
                   handlers, work, loop, driver, fault>>

NothingToClear ==
    /\ At(Keeper, "clear") /\ lock = Nobody
    /\ ~initialized
    /\ Goto(Keeper, "idle")
    /\ UNCHANGED <<manager, lock, entities, handlers, work, loop, driver, fault>>

(* Mutant: the servers stay in their map.                                  *)
ClearedClients == [entities EXCEPT !["client"] = {}]

Cleared == [k \in Kind |-> {}]

(* The entities go, then the context; the driver releases the file.  A     *)
(* creation that holds a reference to the context is left with nothing.    *)
Clear ==
    /\ At(Keeper, "clear") /\ lock = Nobody
    /\ initialized
    /\ entities' = Cleared /\ handlers' = {}
    /\ context' = "none" /\ initialized' = FALSE
    /\ registered' = [k \in Kind |-> {}] /\ linked' = {}
    /\ Goto(Keeper, "idle")
    /\ fault' = IF \E t \in Thread : pc[t] \in {"register", "create", "add", "insert"}
                THEN "context" ELSE fault
    /\ UNCHANGED <<running, listener, inits, lock, work, loop, loose>>

-----------------------------------------------------------------------------
(* createServer, createClient and their REST variants.                     *)

(* Neither test is made under the mutex.                                   *)
BeginCreate(t, kind) ==
    /\ At(t, "idle")
    /\ initialized
    /\ Cardinality(entities[kind]) < LimitOf(kind)
    /\ work' = [work EXCEPT ![t] = [kind |-> kind, id |-> NoId]]
    /\ Goto(t, "context")
    /\ UNCHANGED <<manager, lock, entities, handlers, loop, driver, fault>>

(* getContext dereferences whatever there is.                              *)
AskContext(t) ==
    /\ At(t, "context") /\ lock = Nobody
    /\ Goto(t, "register")
    /\ fault' = IF context = "none" THEN "context" ELSE fault
    /\ UNCHANGED <<manager, lock, entities, handlers, work, loop, driver>>

(* The driver counts on its own.                                           *)
MayRegister(kind) == Cardinality(registered[kind]) < LimitOf(kind)

TakenIds == loose \cup UNION {registered[k] : k \in Kind}

(* Mutant: -1 is an id.                                                    *)
IdsAndInvalid == (Id \ TakenIds) \cup {NoId}

FreeIds == Id \ TakenIds

(* init(): the ioctl, on the file that is open.  It is refused at the      *)
(* limit, and for a name that is taken or wrong.                           *)
Register(t) ==
    /\ At(t, "register")
    /\ context = "open"
    /\ \/ MayRegister(work[t].kind) /\ Goto(t, "create") /\ UNCHANGED work
       \/ Return(t)
    /\ UNCHANGED <<manager, lock, entities, handlers, loop, driver, fault>>

(* The driver's object has its id and is on the global list before the     *)
(* limit is tested again; if that fails the object stays there.            *)
Allocate(t) ==
    /\ At(t, "create")
    /\ \E i \in FreeIds :
          /\ loose' = loose \cup {i}
          /\ IF MayRegister(work[t].kind)
             THEN work' = [work EXCEPT ![t].id = i] /\ Goto(t, "add")
             ELSE Return(t)
    /\ UNCHANGED <<manager, lock, entities, handlers, loop, registered, linked, fault>>

(* It enters the list of its process and is counted.                       *)
Add(t) ==
    /\ At(t, "add")
    /\ registered' = [registered EXCEPT ![work[t].kind] = @ \cup {work[t].id}]
    /\ loose' = loose \ {work[t].id}
    /\ Goto(t, "insert")
    /\ UNCHANGED <<manager, lock, entities, handlers, work, loop, linked, fault>>

(* A device that did not open refuses every ioctl.                         *)
RegisterShut(t) ==
    /\ At(t, "register")
    /\ context = "shut"
    /\ Return(t)
    /\ UNCHANGED <<manager, lock, entities, handlers, loop, driver, fault>>

Insert(t) ==
    /\ At(t, "insert") /\ lock = Nobody
    /\ entities' = [entities EXCEPT ![work[t].kind] = @ \cup {work[t].id}]
    /\ Return(t)
    /\ UNCHANGED <<manager, lock, handlers, loop, driver, fault>>

-----------------------------------------------------------------------------
(* deleteServer and deleteClient: the entity leaves its map, and under the *)
(* mutex its destructor tells the driver.                                  *)

(* Mutant: the maps are changed whoever holds the mutex.                   *)
AnyLock == TRUE

MayErase == lock = Nobody

Erase(t, kind, i) ==
    /\ At(t, "idle") /\ MayErase
    /\ initialized
    /\ i \in entities[kind]
    /\ entities' = [entities EXCEPT ![kind] = @ \ {i}]
    /\ work' = [work EXCEPT ![t] = [kind |-> kind, id |-> i]]
    /\ lock' = t
    /\ Goto(t, "destroy")
    /\ UNCHANGED <<manager, handlers, loop, driver, fault>>

(* Mutant: the driver is not told of servers that go.                      *)
KeepServers(kind, i) ==
    IF kind = "client" /\ i \in linked THEN {i} ELSE {}

(* The driver refuses to unregister a client without a connection.         *)
Unregistered(kind, i) ==
    IF kind = "server" \/ i \in linked THEN {i} ELSE {}

Destroy(t) ==
    /\ At(t, "destroy")
    /\ LET kind == work[t].kind
           gone == Unregistered(kind, work[t].id)
       IN  /\ registered' = [registered EXCEPT ![kind] = @ \ gone]
           /\ linked' = IF kind = "client" THEN linked \ gone ELSE linked
    /\ lock' = Nobody
    /\ Return(t)
    /\ UNCHANGED <<manager, entities, handlers, loop, loose, fault>>

(* registerHandler: a handler is set, or an empty one takes it away.       *)
RegisterHandler(t, type) ==
    /\ At(t, "idle") /\ lock = Nobody
    /\ \/ handlers' = handlers \cup {type}
       \/ handlers' = handlers \ {type}
    /\ UNCHANGED <<manager, lock, entities, threads, loop, driver, fault>>

-----------------------------------------------------------------------------
(* notificationListenerLoop.                                               *)

(* getContext waits until doInitialize is through.                         *)
ListenerStart ==
    /\ Loop("start") /\ lock = Nobody
    /\ lpc' = "poll"
    /\ UNCHANGED <<manager, lock, entities, handlers, threads, ntf, driver, fault>>

(* Mutant: all there is is read before the flag is looked at again.        *)
ReadAll == TRUE

(* The flag is tested before each read.                                    *)
MayRead == running

(* What waits in the driver is not kept: it may be about any server or     *)
(* client, also one that has gone, and there may always be more.           *)
Read(n) ==
    /\ Loop("poll") /\ MayRead
    /\ ntf' = n
    /\ lpc' = "dispatch"
    /\ UNCHANGED <<manager, lock, entities, handlers, threads, driver, fault>>

Handled == ntf.type \in handlers

(* A handler or the entity itself is called, with the mutex held.          *)
Dispatch ==
    /\ Loop("dispatch") /\ lock = Nobody
    /\ Handled \/ ntf.id \in entities[ntf.to]
    /\ lock' = Listener
    /\ lpc' = "handle"
    /\ UNCHANGED <<manager, entities, handlers, threads, ntf, driver, fault>>

DispatchToNobody ==
    /\ Loop("dispatch") /\ lock = Nobody
    /\ ~Handled /\ ntf.id \notin entities[ntf.to]
    /\ lpc' = "poll" /\ ntf' = NoNotification
    /\ UNCHANGED <<manager, lock, entities, handlers, threads, driver, fault>>

Dispatched ==
    /\ Loop("handle")
    /\ lock' = Nobody
    /\ lpc' = "poll" /\ ntf' = NoNotification
    /\ UNCHANGED <<manager, entities, handlers, threads, driver, fault>>

(* A callback of the user calls the manager, which waits for the mutex its *)
(* own thread holds.                                                       *)
CallbackCalls ==
    /\ Loop("handle")
    /\ lpc' = "stuck"
    /\ UNCHANGED <<manager, lock, entities, handlers, threads, ntf, driver, fault>>

(* poll fails, or the flag has been taken back.                            *)
PollFails ==
    /\ Loop("poll") /\ running
    /\ running' = FALSE
    /\ lpc' = "off" /\ listener' = "ended"
    /\ UNCHANGED <<initialized, context, inits, lock, entities, handlers,
                   threads, ntf, driver, fault>>

ListenerEnd ==
    /\ Loop("poll") /\ ~running
    /\ lpc' = "off" /\ listener' = "ended"
    /\ UNCHANGED <<initialized, context, running, inits, lock, entities,
                   handlers, threads, ntf, driver, fault>>

-----------------------------------------------------------------------------
(* What the clients of this process and the driver do meanwhile.           *)

(* A client connects, or its connection is ended from either side.         *)
Link(c) ==
    /\ fault = "none"
    /\ c \in entities["client"] /\ c \in registered["client"]
    /\ linked' = linked \cup {c}
    /\ UNCHANGED <<manager, lock, entities, handlers, threads, loop, registered,
                   loose, fault>>

Unlink(c) ==
    /\ fault = "none"
    /\ c \in linked
    /\ linked' = linked \ {c}
    /\ UNCHANGED <<manager, lock, entities, handlers, threads, loop, registered,
                   loose, fault>>

-----------------------------------------------------------------------------
KeeperStep == Join \/ NothingToClear \/ Clear

CallStep(t) ==
    \/ AskContext(t) \/ Register(t) \/ RegisterShut(t) \/ Allocate(t) \/ Add(t)
    \/ Insert(t) \/ Destroy(t)

ListenerStep ==
    \/ ListenerStart \/ Dispatch \/ DispatchToNobody \/ Dispatched \/ ListenerEnd
    \/ \E n \in Notification : Read(n)

Next ==
    \/ OpenFails \/ StartFails \/ Initialize \/ BeginShutdown \/ KeeperStep
    \/ \E t \in Thread :
          \/ CallStep(t)
          \/ \E kind \in Kind :
                BeginCreate(t, kind) \/ \E i \in Id : Erase(t, kind, i)
          \/ \E type \in Type : RegisterHandler(t, type)
    \/ ListenerStep \/ CallbackCalls \/ PollFails
    \/ \E i \in Id : Link(i) \/ Unlink(i)

Spec == Init /\ [][Next]_vars

(* A call that has begun goes on, callbacks come back, and whoever waits   *)
(* for the mutex gets it in the end.  Nothing makes the application call,  *)
(* poll fail or anyone send.                                               *)
FairSpec ==
    /\ Spec
    /\ SF_vars(KeeperStep)
    /\ \A t \in Thread : SF_vars(CallStep(t))
    /\ SF_vars(ListenerStep)

-----------------------------------------------------------------------------
(* What holds.                                                             *)

(* The maps and the driver agree: what is in a map is registered, and, but *)
(* for a call under way, a registered server is in its map, and what was   *)
(* registered and is not in the map is a client without a connection       *)
(* (createServer, deleteServer and the destructors, doShutdown).           *)
MapsAgree ==
    fault = "none" =>
        /\ \A kind \in Kind : entities[kind] \subseteq registered[kind]
        /\ (\A t \in Thread : pc[t] \notin {"insert", "destroy"}) =>
               /\ registered["server"] \subseteq entities["server"]
               /\ linked \subseteq entities["client"]

(* The limits are tested three times, by createServer or createClient, by  *)
(* the ioctl and when the driver adds to the list of the process, and      *)
(* never in one step with the count: threads that create at once may pass  *)
(* the limit, but only by as many as there are others.                     *)
LimitsHeld ==
    \A kind \in Kind :
        Cardinality(registered[kind]) < LimitOf(kind) + Cardinality(Thread)

(* A new entity never meets one with its id in the map: the collision that *)
(* createServer looks for outside the mutex cannot happen, so emplace adds *)
(* what it is given.                                                       *)
NoCollision ==
    \A t \in Thread :
        At(t, "insert") => work[t].id \notin entities[work[t].kind]

(* While an entity handles a notification it is not deleted by any thread  *)
(* (dispatchNotification, deleteServer, deleteClient).                     *)
HandlerAlive ==
    Loop("handle") /\ ~Handled => ntf.id \in entities[ntf.to]

(* The listener polls and reads no descriptor that doShutdown has closed,  *)
(* also when the library has been initialized again.                       *)
DeviceHeld ==
    lpc \notin {"off", "start"} => initialized /\ context = "open"

(* shutdown() comes back: the listener ends however much there is to read  *)
(* and whoever holds the mutex.  It does not when a callback has called    *)
(* the manager.                                                            *)
ShutdownReturns ==
    pc[Keeper] \in {"join", "clear"} ~>
        pc[Keeper] = "idle" \/ lpc = "stuck" \/ fault # "none"

===============================================================================
