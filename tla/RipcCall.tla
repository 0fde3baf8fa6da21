------------------------------- MODULE RipcCall -------------------------------
(***************************************************************************)
(* One library client and the library server it is connected to, around    *)
(* Client::call.  Four threads share their state: the application thread   *)
(* that calls connect, call and disconnect; the listener thread of the     *)
(* client's process, which dispatches notifications to the same Client     *)
(* object; the listener thread of the server's process; and a thread of    *)
(* that process that creates, destroys and disconnects the server.  The    *)
(* driver is reduced to the link between the two and the two notification  *)
(* queues (module RipcDriver has the rest).                                *)
(*                                                                         *)
(* An action of the application or of a listener runs from one access to   *)
(* what another thread also uses to the next.  Nothing but the wait and    *)
(* the notification of the condition variable is done under a lock.  The   *)
(* assignment of m_callback and its test count as one access each.         *)
(* A call that an entry check refuses changes nothing and has no action.   *)
(***************************************************************************)
EXTENDS Integers, Sequences

CONSTANTS
    Modes,          \* what the application sets m_is_using_blocking to
    Early,          \* answers may be dispatched before call() has stored
                    \* the flag and the callback
    Events,         \* what may happen besides connect and call
    MaxCall,        \* bound: calls that pass the entry check
    MaxConnect      \* bound: connections

ASSUME CallAssumption ==
    /\ Modes \subseteq BOOLEAN /\ Modes # {}
    /\ Early \in BOOLEAN
    /\ Events \subseteq {"disconnect", "server_end", "server_drop", "unserved"}
    /\ MaxCall \in Nat \ {0}
    /\ MaxConnect \in Nat \ {0}

VARIABLES
    name,        \* m_connected_server_name is not empty
    mapping,     \* m_sub_mem: not mapped, the page, or the failed mmap's address
    sent,        \* m_is_request_sent
    running,     \* m_is_running
    blocking,    \* m_is_using_blocking
    callback,    \* m_callback, as the number of the call it was given to
    apc,         \* where the application thread is
    call,        \* the number of its current or last call
    lpc,         \* where the client's listener is in the dispatch
    up,          \* the server: registered with the driver, and then present in
                 \* the map of its entity manager as well
    con,         \* its entry in m_connections and the mapping behind it
    spc,         \* where the server's listener is in the dispatch
    serving,     \* the call whose request it is answering
    linked,      \* driver: m_conn_p of the client
    shown,       \* driver: NEW_CONNECTION was sent for this connection
    connects,    \* driver: connections made
    cq,          \* driver: notifications waiting for the client's process
    sq,          \* driver: and for the server's
    page,        \* content of the shared page
    fault,       \* the first one to access memory that is not there
    returned,    \* history: what each call returned: 0, or 1 when the request
                 \* was sent, or 1 when it had waited
    ran,         \* history: callbacks that ran, with the page they were given
    intact       \* history: the server's owner has neither ended it nor
                 \* dropped a connection

object  == <<name, mapping, sent, running, blocking, callback>>
serverVars == <<up, con, spc, serving>>
link    == <<linked, shown, connects>>
history == <<returned, ran, intact>>
vars == <<object, apc, call, lpc, serverVars, link, cq, sq, page, fault, history>>

CallId   == 1..MaxCall
Mapping  == {"none", "page", "failed"}
Type     == {"NEW_CONNECTION", "NEW_MESSAGE", "REMOTE_DISCONNECT"}
Page     == [kind : {"request", "answer"}, call : CallId] \cup
            [kind : {"empty"}, call : {0}]
Empty    == [kind |-> "empty", call |-> 0]

TypeOK ==
    /\ name \in BOOLEAN /\ mapping \in Mapping
    /\ sent \in BOOLEAN /\ running \in BOOLEAN /\ blocking \in BOOLEAN
    /\ callback \in 0..MaxCall
    /\ apc \in {"idle", "map", "name", "forget", "before", "asleep_before", "write",
                "post", "mark", "store", "test", "after", "asleep_after"}
    /\ call \in 0..MaxCall
    /\ lpc \in {"idle", "handler", "drop", "clear", "mode", "notify", "unname",
               "unmap"}
    /\ up \in {"absent", "registered", "present"} /\ con \in Mapping
    /\ spc \in {"idle", "answer", "send"}
    /\ serving \in 0..MaxCall
    /\ linked \in BOOLEAN /\ shown \in BOOLEAN
    /\ connects \in 0..MaxConnect
    /\ cq \in Seq(Type) /\ sq \in Seq(Type)
    /\ page \in Page
    /\ fault \in {"none", "client", "server", "kernel"}
    /\ returned \in [CallId -> {"no", "0", "sent", "answered"}]
    /\ ran \subseteq CallId \X Page
    /\ intact \in BOOLEAN

Init ==
    /\ name = FALSE /\ mapping = "none" /\ sent = FALSE /\ running = TRUE
    /\ blocking \in Modes
    /\ callback = 0
    /\ apc = "idle" /\ call = 0
    /\ lpc = "idle"
    /\ up = "present" /\ con = "none" /\ spc = "idle" /\ serving = 0
    /\ linked = FALSE /\ shown = FALSE /\ connects = 0
    /\ cq = <<>> /\ sq = <<>>
    /\ page = Empty
    /\ fault = "none"
    /\ returned = [i \in CallId |-> "no"] /\ ran = {} /\ intact = TRUE

(* The checks CHECK_MAPPED and CHECK_CONNECTED.                            *)
Connected == name
Mapped    == name /\ mapping # "none"

(* Memory::unmap: munmap refuses the address of a failed mmap.             *)
Unmapped(m) == IF m = "page" THEN "none" ELSE m

App(from)      == fault = "none" /\ apc = from
Listener(from) == fault = "none" /\ lpc = from
Server(from)   == fault = "none" /\ spc = from

-----------------------------------------------------------------------------
(* Client::connect: the ioctl, the mmap unless the memory counts as        *)
(* mapped, the name.                                                       *)

Connect ==
    /\ App("idle")
    /\ up # "absent" /\ ~linked
    /\ connects < MaxConnect
    /\ linked' = TRUE /\ shown' = FALSE /\ connects' = connects + 1
    /\ apc' = "map"
    /\ UNCHANGED <<object, call, lpc, serverVars, cq, sq, page, fault, history>>

(* The driver's mmap tells the server of the connection.  Without one it   *)
(* fails, and Memory::mmap takes the error value for an address.           *)
ConnectMap ==
    /\ App("map")
    /\ apc' = "name"
    /\ \/ /\ mapping = "none" /\ linked
          /\ mapping' = "page" /\ shown' = TRUE
          /\ sq' = Append(sq, "NEW_CONNECTION")
       \/ /\ mapping = "none" /\ ~linked
          /\ mapping' = "failed"
          /\ UNCHANGED <<shown, sq>>
       \/ /\ mapping # "none"
          /\ UNCHANGED <<mapping, shown, sq>>
    /\ UNCHANGED <<name, sent, running, blocking, callback, call, lpc,
                   serverVars, linked, connects, cq, page, fault, history>>

ConnectName ==
    /\ App("name")
    /\ name' = TRUE
    /\ apc' = "idle"
    /\ UNCHANGED <<mapping, sent, running, blocking, callback, call, lpc,
                   serverVars, link, cq, sq, page, fault, history>>

-----------------------------------------------------------------------------
(* Client::disconnect.  The driver tells the server, then delete_connection *)
(* tells both ends.                                                        *)

(* Mutant: the server is left to find out by itself.                       *)
SilentToServer(queue) == queue

AfterDisconnect(queue) == queue \o <<"REMOTE_DISCONNECT", "REMOTE_DISCONNECT">>

Disconnect ==
    /\ "disconnect" \in Events
    /\ App("idle")
    /\ Connected
    /\ linked
    /\ linked' = FALSE /\ shown' = FALSE
    /\ sq' = AfterDisconnect(sq)
    /\ cq' = Append(cq, "REMOTE_DISCONNECT")
    /\ apc' = "forget"
    /\ UNCHANGED <<object, call, lpc, serverVars, connects, page, fault,
                   history>>

Forget ==
    /\ App("forget")
    /\ name' = FALSE
    /\ mapping' = Unmapped(mapping)
    /\ apc' = "idle"
    /\ UNCHANGED <<sent, running, blocking, callback, call, lpc, serverVars,
                   link, cq, sq, page, fault, history>>

(* Client::setBlockingMode, by the thread that makes the calls.            *)
SetBlockingMode ==
    /\ App("idle")
    /\ blocking' \in Modes \ {blocking}
    /\ UNCHANGED <<name, mapping, sent, running, callback, apc, call, lpc,
                   serverVars, link, cq, sq, page, fault, history>>

-----------------------------------------------------------------------------
(* Client::call.                                                           *)

Return(value) ==
    /\ apc' = "idle"
    /\ returned' = [returned EXCEPT ![call'] = value]

(* Mutant: a new request is written whether or not the last was answered.  *)
MayAlwaysWrite == TRUE

(* The last request has been answered, or was never sent.                  *)
MayWrite == ~sent

BeginCall ==
    /\ App("idle")
    /\ Mapped
    /\ call < MaxCall
    /\ call' = call + 1
    /\ \/ MayWrite /\ apc' = "write" /\ UNCHANGED returned
       \/ ~MayWrite /\ blocking /\ apc' = "before" /\ UNCHANGED returned
       \/ ~MayWrite /\ ~blocking /\ Return("0")
    /\ UNCHANGED <<object, lpc, serverVars, link, cq, sq, page, fault, ran,
                   intact>>

(* WriteBufferView writes nothing when the memory is no longer mapped, and *)
(* call() goes on all the same.                                            *)
Write ==
    /\ App("write")
    /\ \/ /\ mapping = "page"
          /\ page' = [kind |-> "request", call |-> call]
          /\ apc' = "post" /\ UNCHANGED fault
       \/ /\ mapping = "none"
          /\ apc' = "post" /\ UNCHANGED <<page, fault>>
       \/ /\ mapping = "failed"
          /\ fault' = "client" /\ UNCHANGED <<page, apc>>
    /\ UNCHANGED <<object, call, lpc, serverVars, link, cq, sq, history>>

(* IOCTL_CLIENT_END_WRITING *)
Post ==
    /\ App("post")
    /\ \/ /\ linked
          /\ sq' = Append(sq, "NEW_MESSAGE")
          /\ apc' = "mark"
          /\ UNCHANGED sent
       \/ /\ ~linked
          /\ sent' = FALSE
          /\ apc' = "test"
          /\ UNCHANGED sq
    /\ UNCHANGED <<name, mapping, running, blocking, callback, call, lpc,
                   serverVars, link, cq, page, fault, history>>

Mark ==
    /\ App("mark")
    /\ sent' = TRUE
    /\ apc' = "store"
    /\ UNCHANGED <<name, mapping, running, blocking, callback, call, lpc,
                   serverVars, link, cq, sq, page, fault, history>>

Store ==
    /\ App("store")
    /\ callback' = call
    /\ apc' = "test"
    /\ UNCHANGED <<name, mapping, sent, running, blocking, call, lpc,
                   serverVars, link, cq, sq, page, fault, history>>

(* Whether call() waits for the answer; if not it returns the flag.        *)
Test ==
    /\ App("test")
    /\ \/ blocking /\ sent /\ apc' = "after" /\ UNCHANGED returned
       \/ ~blocking /\ sent /\ UNCHANGED call /\ Return("sent")
       \/ ~sent /\ UNCHANGED call /\ Return("0")
    /\ UNCHANGED <<object, call, lpc, serverVars, link, cq, sq, page, fault,
                   ran, intact>>

(* Mutant: a wait without a predicate ends at the first chance.            *)
NoPredicate == TRUE

(* The predicate of both waits.  Under m_lock it is evaluated and, when    *)
(* false, the thread falls asleep.                                         *)
WaitOver == ~sent \/ ~running

WaitBefore ==
    /\ App("before")
    /\ \/ ~WaitOver /\ apc' = "asleep_before" /\ UNCHANGED returned
       \/ WaitOver /\ running /\ apc' = "write" /\ UNCHANGED returned
       \/ ~running /\ UNCHANGED call /\ Return("0")
    /\ UNCHANGED <<object, call, lpc, serverVars, link, cq, sq, page, fault,
                   ran, intact>>

WaitAfter ==
    /\ App("after")
    /\ \/ ~WaitOver /\ apc' = "asleep_after" /\ UNCHANGED returned
       \/ WaitOver /\ running /\ UNCHANGED call /\ Return("answered")
       \/ ~running /\ UNCHANGED call /\ Return("0")
    /\ UNCHANGED <<object, call, lpc, serverVars, link, cq, sq, page, fault,
                   ran, intact>>

Asleep == apc \in {"asleep_before", "asleep_after"}

Woken(pc) == CASE pc = "asleep_before" -> "before"
               [] pc = "asleep_after"  -> "after"
               [] OTHER                -> pc

SpuriousWakeup ==
    /\ fault = "none"
    /\ Asleep
    /\ apc' = Woken(apc)
    /\ UNCHANGED <<object, call, lpc, serverVars, link, cq, sq, page, fault,
                   history>>

-----------------------------------------------------------------------------
(* The client's listener: notificationListenerLoop reads a notification,   *)
(* handleNotification dispatches it.                                       *)

Arrived(type) ==
    /\ Listener("idle")
    /\ cq # <<>> /\ Head(cq) = type
    /\ cq' = Tail(cq)

(* CHECK_MAPPED lets nothing through to a client that is not connected.    *)
Ignore ==
    /\ \E type \in Type : Arrived(type)
    /\ ~Mapped
    /\ UNCHANGED <<object, apc, call, lpc, serverVars, link, sq, page, fault,
                   history>>

DispatchNewMessage ==
    /\ Arrived("NEW_MESSAGE")
    /\ Early \/ apc \notin {"mark", "store"}
    /\ Mapped
    /\ lpc' = IF callback # 0 THEN "handler" ELSE "clear"
    /\ UNCHANGED <<object, apc, call, serverVars, link, sq, page, fault,
                   history>>

(* The callback gets a ReadBufferView of the page; once the application    *)
(* has disconnected there is nothing to read.                              *)
Handle ==
    /\ Listener("handler")
    /\ \/ /\ mapping # "failed"
          /\ ran' = ran \cup {<<callback, IF mapping = "page" THEN page ELSE Empty>>}
          /\ lpc' = "drop" /\ UNCHANGED fault
       \/ /\ mapping = "failed"
          /\ fault' = "client" /\ UNCHANGED <<ran, lpc>>
    /\ UNCHANGED <<object, apc, call, serverVars, link, cq, sq, page, returned,
                   intact>>

(* Mutant: the dispatch ends with the callback.                            *)
DropAndReturn ==
    /\ Listener("drop")
    /\ callback' = 0
    /\ lpc' = "idle"
    /\ UNCHANGED <<name, mapping, sent, running, blocking, apc, call,
                   serverVars, link, cq, sq, page, fault, history>>

Drop ==
    /\ Listener("drop")
    /\ callback' = 0
    /\ lpc' = "clear"
    /\ UNCHANGED <<name, mapping, sent, running, blocking, apc, call,
                   serverVars, link, cq, sq, page, fault, history>>

ClearSent ==
    /\ Listener("clear")
    /\ sent' = FALSE
    /\ lpc' = "mode"
    /\ UNCHANGED <<name, mapping, running, blocking, callback, apc, call,
                   serverVars, link, cq, sq, page, fault, history>>

TestMode ==
    /\ Listener("mode")
    /\ lpc' = IF blocking THEN "notify" ELSE "idle"
    /\ UNCHANGED <<object, apc, call, serverVars, link, cq, sq, page, fault,
                   history>>

(* Mutant: only a caller that waits before its request is woken.           *)
WakeBefore(pc) == IF pc = "asleep_before" THEN "before" ELSE pc

NotifyAll(pc) == Woken(pc)

Notify ==
    /\ Listener("notify")
    /\ apc' = NotifyAll(apc)
    /\ lpc' = "idle"
    /\ UNCHANGED <<object, call, serverVars, link, cq, sq, page, fault,
                   history>>

(* dispatchRemoteDisconnect: the flag, the name, the memory.               *)
DispatchRemoteDisconnect ==
    /\ Arrived("REMOTE_DISCONNECT")
    /\ Mapped
    /\ running' = FALSE
    /\ lpc' = "unname"
    /\ UNCHANGED <<name, mapping, sent, blocking, callback, apc, call,
                   serverVars, link, sq, page, fault, history>>

ForgetName ==
    /\ Listener("unname")
    /\ name' = FALSE
    /\ lpc' = "unmap"
    /\ UNCHANGED <<mapping, sent, running, blocking, callback, apc, call,
                   serverVars, link, cq, sq, page, fault, history>>

ForgetMemory ==
    /\ Listener("unmap")
    /\ mapping' = Unmapped(mapping)
    /\ lpc' = "idle"
    /\ UNCHANGED <<name, sent, running, blocking, callback, apc, call,
                   serverVars, link, cq, sq, page, fault, history>>

-----------------------------------------------------------------------------
(* The server's listener.                                                  *)

ServerArrived(type) ==
    /\ Server("idle")
    /\ sq # <<>> /\ Head(sq) = type
    /\ sq' = Tail(sq)

(* No server with this id in the process any more, or not yet.             *)
ServerGone ==
    /\ \E type \in Type : ServerArrived(type)
    /\ up # "present"
    /\ UNCHANGED <<object, apc, call, lpc, serverVars, link, cq, page, fault,
                   history>>

(* addConnection: an entry that is there stays; else the page is mapped,   *)
(* which the driver refuses when the connection has ended meanwhile.       *)
AddConnection ==
    /\ ServerArrived("NEW_CONNECTION")
    /\ up = "present"
    /\ \/ con # "none" /\ UNCHANGED con
       \/ con = "none" /\ con' = IF linked THEN "page" ELSE "failed"
    /\ UNCHANGED <<object, apc, call, lpc, up, spc, serving, link, cq, page,
                   fault, history>>

(* Mutant: the entry outlives the connection.                              *)
KeepEntry == con

EntryAfterDisconnect == "none"

DisconnectFromClient ==
    /\ ServerArrived("REMOTE_DISCONNECT")
    /\ up = "present"
    /\ con' = EntryAfterDisconnect
    /\ UNCHANGED <<object, apc, call, lpc, up, spc, serving, link, cq, page,
                   fault, history>>

(* Mutant: whatever the page holds is taken for a request.                 *)
AnyContent == TRUE

HasUrl == page.kind = "request"

(* dispatchNewMessage finds a request and a callback for its url.          *)
TakeRequest ==
    /\ ServerArrived("NEW_MESSAGE")
    /\ up = "present" /\ con = "page"
    /\ HasUrl
    /\ spc' = "answer"
    /\ serving' = page.call
    /\ UNCHANGED <<object, apc, call, lpc, up, con, link, cq, page, fault,
                   history>>

(* It gives up: no connection, no url in the page, or no callback for it.  *)
RefuseRequest ==
    /\ ServerArrived("NEW_MESSAGE")
    /\ up = "present"
    /\ \/ con = "none"
       \/ con = "page" /\ (~HasUrl \/ "unserved" \in Events)
    /\ UNCHANGED <<object, apc, call, lpc, serverVars, link, cq, page, fault,
                   history>>

(* It looks for the url behind the address of a failed mmap.               *)
ReadNothing ==
    /\ ServerArrived("NEW_MESSAGE")
    /\ up = "present" /\ con = "failed"
    /\ fault' = "server"
    /\ UNCHANGED <<object, apc, call, lpc, serverVars, link, cq, page, history>>

WriteAnswer ==
    /\ Server("answer")
    /\ page' = [kind |-> "answer", call |-> serving]
    /\ spc' = "send"
    /\ UNCHANGED <<object, apc, call, lpc, up, con, serving, link, cq, sq,
                   fault, history>>

(* The entry was erased while its request was being answered: the answer   *)
(* goes through a reference to a freed element, which may still work.      *)
UseErased ==
    /\ Server("answer") \/ Server("send")
    /\ con = "none"
    /\ fault' = "server"
    /\ UNCHANGED <<object, apc, call, lpc, serverVars, link, cq, sq, page,
                   history>>

(* writeToClient.  The driver dereferences NULL when the connection is gone. *)
WriteToClient ==
    /\ Server("send")
    /\ spc' = "idle" /\ serving' = 0
    /\ \/ linked /\ cq' = Append(cq, "NEW_MESSAGE") /\ UNCHANGED fault
       \/ ~linked /\ fault' = "kernel" /\ UNCHANGED cq
    /\ UNCHANGED <<object, apc, call, lpc, up, con, link, sq, page, history>>

-----------------------------------------------------------------------------
(* The server's owner.  deleteServer waits for manager_mutex, which the    *)
(* listener holds during a dispatch; Server::disconnect does not.          *)

(* ~Server: SERVER_UNREGISTER deletes the connection.                      *)
ServerEnd ==
    /\ "server_end" \in Events
    /\ Server("idle")
    /\ up = "present"
    /\ up' = "absent" /\ con' = "none"
    /\ intact' = FALSE
    /\ linked' = FALSE /\ shown' = FALSE
    /\ \/ /\ linked
          /\ cq' = Append(cq, "REMOTE_DISCONNECT")
          /\ sq' = Append(sq, "REMOTE_DISCONNECT")
       \/ ~linked /\ UNCHANGED <<cq, sq>>
    /\ UNCHANGED <<object, apc, call, lpc, spc, serving, connects, page, fault,
                   returned, ran>>

(* createServer: a server of the same name is registered, and clients may  *)
(* connect to it, before it is in the map.  It gets the same id, the       *)
(* lowest free one.                                                        *)
RegisterServer ==
    /\ "server_end" \in Events
    /\ fault = "none"
    /\ up = "absent"
    /\ up' = "registered"
    /\ UNCHANGED <<object, apc, call, lpc, con, spc, serving, link, cq, sq,
                   page, fault, history>>

AddServer ==
    /\ Server("idle")
    /\ up = "registered"
    /\ up' = "present"
    /\ UNCHANGED <<object, apc, call, lpc, con, spc, serving, link, cq, sq,
                   page, fault, history>>

(* Server::disconnect forgets the entry and calls nobody.                  *)
ServerDrop ==
    /\ "server_drop" \in Events
    /\ fault = "none"
    /\ up = "present" /\ con # "none"
    /\ con' = "none"
    /\ intact' = FALSE
    /\ UNCHANGED <<object, apc, call, lpc, up, spc, serving, link, cq, sq, page,
                   fault, returned, ran>>

-----------------------------------------------------------------------------
(* The steps of a call of the library that has begun.                      *)
AppStep ==
    \/ ConnectMap \/ ConnectName \/ Forget
    \/ Write \/ Post \/ Mark \/ Store \/ Test \/ WaitBefore \/ WaitAfter

ListenerStep ==
    \/ Ignore \/ DispatchNewMessage \/ Handle \/ Drop \/ ClearSent
    \/ TestMode \/ Notify
    \/ DispatchRemoteDisconnect \/ ForgetName \/ ForgetMemory

ServerStep ==
    \/ ServerGone \/ AddConnection \/ DisconnectFromClient
    \/ TakeRequest \/ RefuseRequest \/ ReadNothing
    \/ WriteAnswer \/ UseErased \/ WriteToClient

Next ==
    \/ Connect \/ Disconnect \/ SetBlockingMode \/ BeginCall \/ AppStep \/ SpuriousWakeup
    \/ ListenerStep
    \/ ServerStep
    \/ ServerEnd \/ RegisterServer \/ AddServer \/ ServerDrop

Spec == Init /\ [][Next]_vars

(* A thread that can run does so; nothing makes the application call, the  *)
(* server's owner act or a wait end spuriously.                            *)
FairSpec ==
    /\ Spec
    /\ WF_vars(AppStep)
    /\ WF_vars(ListenerStep)
    /\ WF_vars(ServerStep)
    /\ WF_vars(AddServer)

-----------------------------------------------------------------------------
(* What holds.                                                             *)

(* A caller never sleeps through its answer: when it is asleep and the     *)
(* request is no longer pending, the listener is about to notify.  The     *)
(* flag is cleared outside the lock under which the caller tests it        *)
(* (Client::call, dispatchNewMessage).                                     *)
NoLostWakeup == Asleep /\ ~sent => lpc \in {"mode", "notify"}

(* The two processes take turns on the page: while call() writes a request *)
(* no earlier request is waiting or being answered and no answer is        *)
(* waiting or being read.  m_is_request_sent is all that sees to it.       *)
PageExclusive ==
    apc = "write" =>
        /\ spc = "idle"
        /\ lpc \notin {"handler", "drop", "clear"}
        /\ \A i \in DOMAIN sq : sq[i] # "NEW_MESSAGE"
        /\ \A i \in DOMAIN cq : cq[i] # "NEW_MESSAGE"

(* When the server's listener has read all its notifications, the server   *)
(* has an entry for the client exactly when the driver has a connection    *)
(* that the client has mapped (Server::addConnection,                      *)
(* disconnectFromClient, and the order of what the driver sends).  It does *)
(* not hold of a server whose owner has dropped a connection, or that      *)
(* replaces one of the same name.                                          *)
ServerView ==
    intact /\ sq = <<>> /\ spc = "idle" => (con # "none" <=> linked /\ shown)

(* The callback of a call reads the answer to that call, as Client::call's *)
(* parameter in (the handler of the server's answer) says, or nothing when *)
(* the application has disconnected since the dispatch began.  When        *)
(* servers end it may also read an older one: call() sends what a call     *)
(* before it left in the page if the memory was unmapped under its hands.  *)
HandlerMatches ==
    intact => \A run \in ran :
        run[2] \in {Empty, [kind |-> "answer", call |-> run[1]]}

(* A call that waits and returns 1 has had its callback run, on the answer  *)
(* to its own request, before it returned: neither a spurious wakeup nor   *)
(* the end of a connection nor what an earlier call left behind passes for *)
(* an answer (the second wait of Client::call).  Answers that overtake     *)
(* call() break this (Early).                                              *)
AnswerDelivered ==
    \A i \in CallId :
        returned[i] = "answered" => <<i, [kind |-> "answer", call |-> i]>> \in ran

(* Every call comes back to its caller (the waits of Client::call).        *)
CallReturns == apc # "idle" ~> apc = "idle"

(* Every request that was sent is answered, so that the client may send    *)
(* the next (m_is_request_sent is cleared).                                *)
RequestEnds == sent ~> ~sent

-----------------------------------------------------------------------------
(* What the sources say and the code does not do.                          *)

(* The predicate of the wait in Client::call ends it when the client has   *)
(* stopped running.                                                        *)
StopWakes == Asleep /\ ~running ~> ~Asleep

(* A client that connected and did not disconnect is connected, once all   *)
(* notifications are dispatched (test MultipleServerConnection).           *)
ConnectLasts ==
    linked /\ apc = "idle" /\ lpc = "idle" /\ cq = <<>> => Mapped

===============================================================================
