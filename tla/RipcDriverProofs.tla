--------------------------- MODULE RipcDriverProofs ---------------------------
(* Theorems about RipcDriver, for every set of tasks, names and addresses  *)
(* and every value of the limits.                                          *)
EXTENDS RipcDriver, FiniteSetTheorems, TLAPS

(* The inductive invariant: types, the pointer graph, the owners and the   *)
(* id generator hold each other up.  A notification is well typed because  *)
(* the pointers it is built from agree; a new object does not overwrite an *)
(* old one because its id was free; an owner is registered because a task  *)
(* whose file is open is, which is why OpenTasks is needed.                *)
OpenTasks ==
    /\ opened \subseteq tasks
    /\ op.kind = "release" => op.task \notin opened

IInv == TypeOK /\ PointersAgree /\ OwnersRegistered /\ IdsExact /\ OpenTasks

-----------------------------------------------------------------------------
(* Lemmas about the operators.                                             *)

(* Sending over a live connection appends one well-typed notification.     *)
LEMMA SendType ==
    ASSUME TypeOK, PointersAgree, OwnersRegistered,
           NEW c \in conns,
           NEW who \in {"SERVER", "CLIENT"},
           NEW type \in {"NEW_CONNECTION", "NEW_MESSAGE", "REMOTE_DISCONNECT"},
           NEW q \in [Task -> Seq(Notification)]
    PROVE  notification_send(who, type, c, q) \in [Task -> Seq(Notification)]
<1>1. conn[c].client \in Id /\ conn[c].server \in Id /\ conn[c].mem \in Id
  BY DEF TypeOK, PointersAgree
<1>2. Note(who, type, c) \in Notification
  BY <1>1 DEF Note, Notification
<1>3. Owner(c, "SERVER") \in Task /\ Owner(c, "CLIENT") \in Task
  BY DEF Owner, TypeOK, PointersAgree, OwnersRegistered
<1>4. QED
  BY <1>2, <1>3 DEF notification_send, Enqueued

(* So does the announcement of the end of a connection.                    *)
LEMMA AnnounceType ==
    ASSUME TypeOK, PointersAgree, OwnersRegistered,
           NEW c \in conns, NEW q \in [Task -> Seq(Notification)]
    PROVE  AnnounceDelete(c, q) \in [Task -> Seq(Notification)]
<1>1. notification_send("SERVER", "REMOTE_DISCONNECT", c, q)
        \in [Task -> Seq(Notification)]
  BY SendType
<1>2. QED
  BY <1>1, SendType DEF AnnounceDelete

(* The pointers to connection c, and only those, are cut.                  *)
PointersCut(c) ==
    /\ \A i \in Id : server'[i].conns = IF i = conn[c].server
                                         THEN server[i].conns \ {c}
                                         ELSE server[i].conns
    /\ \A i \in Id : submem'[i].conn = IF i = conn[c].mem THEN NULL
                                                           ELSE submem[i].conn
    /\ \A i \in Id : ClientsWithout(c)[i].conn = IF i = conn[c].client THEN NULL
                                                            ELSE client[i].conn
    /\ \A d \in conns' : conn'[d] = conn[d]

(* What delete_connection does to the tables, entry by entry.              *)
LEMMA UnlinkEffect ==
    ASSUME TypeOK, PointersAgree, ConstantsAssumption, NEW c \in conns, Unlink(c)
    PROVE  /\ server' \in [Id -> ServerRecord]
           /\ submem' \in [Id -> SubmemRecord]
           /\ ClientsWithout(c) \in [Id -> ClientRecord]
           /\ conns' = conns \ {c} /\ conns' \subseteq Conn
           /\ conn' \in [Conn -> ConnRecord]
           /\ \A i \in Id :
                /\ server'[i].name = server[i].name
                /\ server'[i].task = server[i].task
                /\ ClientsWithout(c)[i].task = client[i].task
           /\ PointersCut(c)
<1>. DEFINE k == conn[c].client
            s == conn[c].server
            m == conn[c].mem
<1>1. k \in Id /\ s \in Id /\ m \in Id /\ c \in Conn
  BY DEF PointersAgree, TypeOK
<1>2. /\ server' \in [Id -> ServerRecord]
      /\ \A i \in Id :
           /\ server'[i].name = server[i].name
           /\ server'[i].task = server[i].task
           /\ server'[i].conns = IF i = s THEN server[i].conns \ {c} ELSE server[i].conns
  <2>. DEFINE r == [server[s] EXCEPT !.conns = @ \ {c}]
  <2>1. server[s] \in ServerRecord
    BY <1>1 DEF TypeOK
  <2>2. /\ r \in ServerRecord
        /\ r.name = server[s].name /\ r.task = server[s].task
        /\ r.conns = server[s].conns \ {c}
    BY <2>1 DEF ServerRecord
  <2>3. server' = [i \in Id |-> IF i = s THEN r ELSE server[i]]
    BY DEF Unlink, TypeOK
  <2>. HIDE DEF r, s
  <2>. QED
    BY <2>2, <2>3 DEF TypeOK
<1>3. /\ submem' \in [Id -> SubmemRecord]
      /\ \A i \in Id : submem'[i].conn = IF i = m THEN NULL ELSE submem[i].conn
  <2>. DEFINE r == [submem[m] EXCEPT !.conn = NULL]
  <2>1. submem[m] \in SubmemRecord
    BY <1>1 DEF TypeOK
  <2>2. r \in SubmemRecord /\ r.conn = NULL
    BY <2>1 DEF SubmemRecord
  <2>3. submem' = [i \in Id |-> IF i = m THEN r ELSE submem[i]]
    BY DEF Unlink, TypeOK
  <2>. HIDE DEF r, m
  <2>. QED
    BY <2>2, <2>3 DEF TypeOK
<1>4. /\ ClientsWithout(c) \in [Id -> ClientRecord]
      /\ \A i \in Id :
           /\ ClientsWithout(c)[i].task = client[i].task
           /\ ClientsWithout(c)[i].conn = IF i = k THEN NULL ELSE client[i].conn
  <2>. DEFINE r == [client[k] EXCEPT !.conn = NULL]
  <2>1. client[k] \in ClientRecord
    BY <1>1 DEF TypeOK
  <2>2. r \in ClientRecord /\ r.conn = NULL /\ r.task = client[k].task
    BY <2>1 DEF ClientRecord
  <2>3. ClientsWithout(c) = [i \in Id |-> IF i = k THEN r ELSE client[i]]
    BY DEF ClientsWithout, TypeOK
  <2>. HIDE DEF r, k
  <2>. QED
    BY <2>2, <2>3 DEF TypeOK
<1>5. /\ conns' = conns \ {c} /\ conns' \subseteq Conn
      /\ \A d \in conns' : conn'[d] = conn[d]
  BY DEF Unlink, TypeOK
<1>6. conn' \in [Conn -> ConnRecord]
  BY DEF TypeOK, Unlink, NoConn, ConnRecord
<1>7. PointersCut(c)
  BY <1>2, <1>3, <1>4, <1>5 DEF PointersCut
<1>8. QED
  BY <1>2, <1>4, <1>3, <1>5, <1>6, <1>7

(* delete_connection leaves no pointer to the freed connection and does    *)
(* not disturb the others; the client itself may be destroyed with it.     *)
LEMMA UnlinkPointers ==
    ASSUME TypeOK, PointersAgree, ConstantsAssumption, NEW c \in conns, Unlink(c),
           clients' \subseteq clients, clients \ {conn[c].client} \subseteq clients',
           \A i \in clients' : client'[i].conn = ClientsWithout(c)[i].conn,
           UNCHANGED <<servers, submems>>
    PROVE  PointersAgree'
<1>. DEFINE k == conn[c].client
            s == conn[c].server
            m == conn[c].mem
<1>1. /\ k \in clients /\ client[k].conn = c /\ k \in Id
      /\ s \in servers /\ c \in server[s].conns /\ s \in Id
      /\ m \in submems /\ submem[m].conn = c /\ m \in Id
  BY DEF PointersAgree, TypeOK
<1>2. c \in Conn /\ c # NULL
  BY DEF TypeOK, ConstantsAssumption
<1>3. /\ \A i \in clients' : client'[i].conn = IF i = k THEN NULL ELSE client[i].conn
      /\ \A i \in Id : /\ submem'[i].conn = IF i = m THEN NULL ELSE submem[i].conn
                       /\ server'[i].conns = IF i = s THEN server[i].conns \ {c}
                                                      ELSE server[i].conns
      /\ conns' = conns \ {c} /\ \A d \in conns' : conn'[d] = conn[d]
  <2>1. /\ \A i \in Id :
             /\ server'[i].conns = IF i = s THEN server[i].conns \ {c}
                                            ELSE server[i].conns
             /\ submem'[i].conn = IF i = m THEN NULL ELSE submem[i].conn
             /\ ClientsWithout(c)[i].conn = IF i = k THEN NULL ELSE client[i].conn
        /\ conns' = conns \ {c} /\ \A d \in conns' : conn'[d] = conn[d]
    <3>1. conns' = conns \ {c} /\ PointersCut(c)
      BY UnlinkEffect
    <3>. QED
      BY <3>1 DEF PointersCut
  <2>2. clients' \subseteq Id
    BY DEF TypeOK
  <2>. HIDE DEF k, s, m
  <2>. QED
    BY <2>1, <2>2
<1>4. clients \ {k} \subseteq clients'
  OBVIOUS
<1>. HIDE DEF k, s, m
<1>5. ASSUME NEW d \in conns'
      PROVE  /\ conn'[d].client \in clients' /\ client'[conn'[d].client].conn = d
             /\ conn'[d].server \in servers' /\ d \in server'[conn'[d].server].conns
             /\ conn'[d].mem \in submems'    /\ submem'[conn'[d].mem].conn = d
  <2>1. /\ conn[d].client \in clients /\ client[conn[d].client].conn = d
        /\ conn[d].server \in servers /\ d \in server[conn[d].server].conns
        /\ conn[d].mem \in submems    /\ submem[conn[d].mem].conn = d
    BY <1>3 DEF PointersAgree
  <2>2. d # c /\ conn'[d] = conn[d]
    BY <1>3
  <2>3. conn[d].client # k /\ conn[d].mem # m
    BY <1>1, <2>1, <2>2
  <2>4. conn[d].client \in Id /\ conn[d].server \in Id /\ conn[d].mem \in Id
    BY <2>1 DEF TypeOK
  <2>5. conn[d].client \in clients'
    BY <1>4, <2>1, <2>3
  <2>6. client'[conn[d].client].conn = d /\ submem'[conn[d].mem].conn = d
    BY <1>3, <2>1, <2>3, <2>4, <2>5
  <2>7. d \in server'[conn[d].server].conns
    BY <1>3, <2>1, <2>2, <2>4
  <2>. QED
    BY <2>1, <2>2, <2>5, <2>6, <2>7
<1>6. ASSUME NEW i \in clients', client'[i].conn # NULL
      PROVE  client'[i].conn \in conns' /\ conn'[client'[i].conn].client = i
  <2>1. i \in clients /\ i \in Id /\ i # k /\ client'[i].conn = client[i].conn
    BY <1>3, <1>6 DEF TypeOK
  <2>2. client[i].conn \in conns /\ conn[client[i].conn].client = i
    BY <1>6, <2>1 DEF PointersAgree
  <2>3. client[i].conn # c
    BY <2>1, <2>2 DEF k
  <2>. QED
    BY <1>3, <2>1, <2>2, <2>3
<1>7. ASSUME NEW i \in servers', NEW d \in server'[i].conns
      PROVE  d \in conns' /\ conn'[d].server = i
  <2>1. i \in servers /\ i \in Id
    BY DEF TypeOK
  <2>2. d \in server[i].conns
    BY <1>3, <2>1
  <2>3. d \in conns /\ conn[d].server = i
    BY <2>1, <2>2 DEF PointersAgree
  <2>4. d # c
    <3>1. i # s => d # c
      BY <2>3 DEF s
    <3>2. i = s => server'[i].conns = server[i].conns \ {c}
      BY <1>3, <2>1
    <3>. QED
      BY <3>1, <3>2
  <2>. QED
    BY <1>3, <2>3, <2>4
<1>8. ASSUME NEW i \in submems', submem'[i].conn # NULL
      PROVE  submem'[i].conn \in conns' /\ conn'[submem'[i].conn].mem = i
  <2>1. i \in submems /\ i \in Id /\ i # m /\ submem'[i].conn = submem[i].conn
    BY <1>3, <1>8 DEF TypeOK
  <2>2. submem[i].conn \in conns /\ conn[submem[i].conn].mem = i
    BY <1>8, <2>1 DEF PointersAgree
  <2>3. submem[i].conn # c
    BY <2>1, <2>2 DEF m
  <2>. QED
    BY <1>3, <2>1, <2>2, <2>3
<1>9. QED
  BY <1>5, <1>6, <1>7, <1>8 DEF PointersAgree

-----------------------------------------------------------------------------
(* The invariant holds initially, and every action preserves it.           *)

(* Init builds an empty graph, which is consistent.                        *)
LEMMA InitIInv == Init => IInv
<1>. SUFFICES ASSUME Init PROVE IInv
  OBVIOUS
<1>1. TypeOK
  <2>1. /\ server \in [Id -> ServerRecord] /\ client \in [Id -> ClientRecord]
        /\ submem \in [Id -> SubmemRecord] /\ conn \in [Conn -> ConnRecord]
    BY DEF Init, NoServer, NoClient, NoSubmem, NoConn,
           ServerRecord, ClientRecord, SubmemRecord, ConnRecord
  <2>2. count \in [Task -> [servers : Int, clients : Int]]
    BY DEF Init
  <2>3. notif \in [Task -> Seq(Notification)]
    <3>1. <<>> \in Seq(Notification)
      OBVIOUS
    <3>. QED
      BY <3>1 DEF Init
  <2>4. op \in [kind : {"none", "unregister", "release"},
                task : Task \cup {NULL}, srv : Id \cup {NULL}]
    BY DEF Init, NoOp
  <2>. QED
    BY <2>1, <2>2, <2>3, <2>4 DEF Init, TypeOK
<1>2. PointersAgree /\ OwnersRegistered /\ IdsExact /\ OpenTasks
  BY DEF Init, PointersAgree, OwnersRegistered, IdsExact, OpenTasks, NoOp
<1>3. QED
  BY <1>1, <1>2 DEF IInv

(* A call, or one iteration of a loop, that ends connection c.             *)
LEMMA DeleteStep ==
    ASSUME IInv, ConstantsAssumption,
           NEW c \in conns, NEW q \in [Task -> Seq(Notification)],
           delete_connection(c, q),
           UNCHANGED <<taskVars, servers, clients, memVars, op, oops>>
    PROVE  IInv'
<1>1. TypeOK /\ PointersAgree /\ OwnersRegistered /\ IdsExact /\ OpenTasks
  BY DEF IInv
<1>2. Unlink(c) /\ client' = ClientsWithout(c) /\ notif' = AnnounceDelete(c, q)
  BY DEF delete_connection
<1>3. UNCHANGED <<tasks, opened, alive, monitor, count, pools, submems, ida,
                  servers, clients, op, oops>>
  BY DEF taskVars, memVars
<1>4. notif' \in [Task -> Seq(Notification)]
  BY <1>1, <1>2, AnnounceType
<1>5. TypeOK'
  <2>1. /\ server' \in [Id -> ServerRecord] /\ submem' \in [Id -> SubmemRecord]
        /\ client' \in [Id -> ClientRecord]
        /\ conns' \subseteq Conn /\ conn' \in [Conn -> ConnRecord]
    BY <1>1, <1>2, UnlinkEffect
  <2>. QED
    BY <1>1, <1>3, <1>4, <2>1 DEF TypeOK
<1>6. PointersAgree'
  BY <1>1, <1>2, <1>3, UnlinkPointers
<1>7. OwnersRegistered'
  <2>1. \A i \in Id : server'[i].task = server[i].task /\ client'[i].task = client[i].task
    BY <1>1, <1>2, UnlinkEffect
  <2>. QED
    BY <1>1, <1>3, <2>1 DEF OwnersRegistered, TypeOK
<1>8. IdsExact' /\ OpenTasks'
  BY <1>1, <1>3 DEF IdsExact, OpenTasks
<1>9. QED
  BY <1>5, <1>6, <1>7, <1>8 DEF IInv

(* A step that touches nothing of the graph, the ids and the registered    *)
(* tasks, whatever it does to the queues.                                  *)
LEMMA QueueStep ==
    ASSUME IInv,
           notif' \in [Task -> Seq(Notification)],
           oops' \in {"none", "end_writing"},
           UNCHANGED <<taskVars, servers, server, clients, client, memVars, submem,
                       conns, conn, op>>
    PROVE  IInv'
<1>1. TypeOK'
  BY DEF IInv, TypeOK, taskVars, memVars
<1>2. PointersAgree'
  BY DEF IInv, PointersAgree, memVars
<1>3. OwnersRegistered' /\ IdsExact' /\ OpenTasks'
  BY DEF IInv, OwnersRegistered, IdsExact, OpenTasks, taskVars, memVars
<1>4. QED
  BY <1>1, <1>2, <1>3 DEF IInv

(* reg_task_create only adds a registered task.                            *)
LEMMA OpenStep == ASSUME IInv, NEW t \in Task, Open(t) PROVE IInv'
<1>1. UNCHANGED <<pools, submems, ida>>
  BY DEF Open, memVars
<1>2. TypeOK'
  BY <1>1 DEF IInv, TypeOK, Open
<1>3. PointersAgree'
  BY <1>1 DEF IInv, PointersAgree, Open
<1>4. OwnersRegistered'
  BY DEF IInv, OwnersRegistered, Open, NoOp
<1>5. IdsExact' /\ OpenTasks'
  BY <1>1 DEF IInv, IdsExact, OpenTasks, Open, NoOp
<1>6. QED
  BY <1>2, <1>3, <1>4, <1>5 DEF IInv

(* reg_task_set_monitor only sets a flag of the caller.                    *)
LEMMA MonitorStep == ASSUME IInv, NEW t \in Task, RegisterMonitor(t) PROVE IInv'
<1>1. UNCHANGED <<pools, submems, ida>>
  BY DEF RegisterMonitor, memVars
<1>2. TypeOK'
  BY <1>1 DEF IInv, TypeOK, RegisterMonitor
<1>3. PointersAgree'
  BY <1>1 DEF IInv, PointersAgree, RegisterMonitor
<1>4. OwnersRegistered' /\ IdsExact' /\ OpenTasks'
  BY <1>1 DEF IInv, OwnersRegistered, IdsExact, OpenTasks, RegisterMonitor
<1>5. QED
  BY <1>2, <1>3, <1>4 DEF IInv

(* The end of the opening thread touches nothing of the driver.            *)
LEMMA ExitStep == ASSUME IInv, NEW t \in Task, ThreadExit(t) PROVE IInv'
<1>1. UNCHANGED <<pools, submems, ida>>
  BY DEF ThreadExit, memVars
<1>2. TypeOK'
  BY <1>1 DEF IInv, TypeOK, ThreadExit
<1>3. PointersAgree'
  BY <1>1 DEF IInv, PointersAgree, ThreadExit
<1>4. OwnersRegistered' /\ IdsExact' /\ OpenTasks'
  BY <1>1 DEF IInv, OwnersRegistered, IdsExact, OpenTasks, ThreadExit
<1>5. QED
  BY <1>2, <1>3, <1>4 DEF IInv

(* release starts on a task that is still on g_reg_task_list.              *)
LEMMA ReleaseStartStep == ASSUME IInv, NEW t \in Task, ReleaseStart(t) PROVE IInv'
<1>1. UNCHANGED <<pools, submems, ida>>
  BY DEF ReleaseStart, memVars
<1>2. TypeOK'
  BY <1>1 DEF IInv, TypeOK, ReleaseStart
<1>3. PointersAgree'
  BY <1>1 DEF IInv, PointersAgree, ReleaseStart
<1>4. OwnersRegistered' /\ IdsExact' /\ OpenTasks'
  BY <1>1 DEF IInv, OwnersRegistered, IdsExact, OpenTasks, ReleaseStart, Call
<1>5. QED
  BY <1>2, <1>3, <1>4 DEF IInv

(* A release that gives up changes no list, it leaves all as it was.       *)
LEMMA ReleaseOrphanStep == ASSUME IInv, NEW t \in Task, ReleaseOrphan(t) PROVE IInv'
<1>1. UNCHANGED <<pools, submems, ida>>
  BY DEF ReleaseOrphan, memVars
<1>2. TypeOK'
  BY <1>1 DEF IInv, TypeOK, ReleaseOrphan
<1>3. PointersAgree'
  BY <1>1 DEF IInv, PointersAgree, ReleaseOrphan
<1>4. OwnersRegistered' /\ IdsExact' /\ OpenTasks'
  BY <1>1 DEF IInv, OwnersRegistered, IdsExact, OpenTasks, ReleaseOrphan
<1>5. QED
  BY <1>2, <1>3, <1>4 DEF IInv

(* SERVER_UNREGISTER starts on a registered server, for its owner's count. *)
LEMMA ServerUnregisterStep ==
    ASSUME IInv, NEW t \in Task, NEW s \in servers, ServerUnregister(t, s)
    PROVE  IInv'
<1>1. UNCHANGED <<tasks, opened, alive, monitor, count, pools, submems, ida>>
  BY DEF ServerUnregister, memVars, taskVars
<1>2. TypeOK'
  <2>1. TypeOK /\ server[s].task \in Task
    BY DEF IInv, OwnersRegistered, TypeOK
  <2>2. op' \in [kind : {"none", "unregister", "release"},
                task : Task \cup {NULL}, srv : Id \cup {NULL}]
    BY <2>1 DEF ServerUnregister, TypeOK
  <2>. QED
    BY <1>1, <2>1, <2>2 DEF TypeOK, ServerUnregister
<1>3. PointersAgree'
  BY <1>1 DEF IInv, PointersAgree, ServerUnregister
<1>4. OwnersRegistered' /\ IdsExact' /\ OpenTasks'
  BY <1>1 DEF IInv, OwnersRegistered, IdsExact, OpenTasks, ServerUnregister
<1>5. QED
  BY <1>2, <1>3, <1>4 DEF IInv

(* A new server or client takes a free id, so it is none of the old ones.  *)
LEMMA RegisterServerStep ==
    ASSUME IInv, ConstantsAssumption, NEW t \in Task, NEW n \in Name,
           RegisterServer(t, n)
    PROVE  IInv'
<1>. USE DEF IInv
<1>1. PICK s \in Id :
        /\ s \notin ida
        /\ ida' = ida \cup {s}
        /\ servers' = servers \cup {s}
        /\ server' = [server EXCEPT ![s] = [name |-> n, task |-> t, conns |-> {}]]
  BY DEF RegisterServer, IsLowestFree
<1>2. UNCHANGED <<tasks, opened, alive, monitor, notif, clients, client,
                  pools, submems, submem, conns, conn, op, oops>>
  BY DEF RegisterServer
<1>3. s \notin servers /\ s \notin clients /\ s \notin submems /\ s \notin pools
  BY <1>1 DEF IdsExact
<1>4. /\ server'[s] = [name |-> n, task |-> t, conns |-> {}]
      /\ \A i \in servers : server'[i] = server[i]
  BY <1>1, <1>3 DEF TypeOK
<1>5. TypeOK'
  <2>1. server' \in [Id -> ServerRecord]
    BY <1>1 DEF TypeOK, ServerRecord
  <2>2. count' \in [Task -> [servers : Int, clients : Int]]
    <3>. DEFINE r == [count[t] EXCEPT !.servers = @ + 1]
    <3>1. count \in [Task -> [servers : Int, clients : Int]]
      BY DEF TypeOK
    <3>2. r \in [servers : Int, clients : Int]
      BY <3>1
    <3>3. count' = [u \in Task |-> IF u = t THEN r ELSE count[u]]
      BY <3>1 DEF RegisterServer
    <3>. QED
      BY <3>1, <3>2, <3>3
  <2>. QED
    BY <1>1, <1>2, <2>1, <2>2 DEF TypeOK
<1>6. PointersAgree'
  BY <1>1, <1>2, <1>3, <1>4 DEF PointersAgree
<1>7. OwnersRegistered'
  BY <1>1, <1>2, <1>4 DEF OwnersRegistered, OpenTasks, RegisterServer, Call, NoOp
<1>8. IdsExact' /\ OpenTasks'
  BY <1>1, <1>2, <1>3 DEF IdsExact, OpenTasks
<1>9. QED
  BY <1>5, <1>6, <1>7, <1>8

(* The same for a client, which starts without a connection.               *)
LEMMA RegisterClientStep ==
    ASSUME IInv, ConstantsAssumption, NEW t \in Task, RegisterClient(t)
    PROVE  IInv'
<1>. USE DEF IInv
<1>1. PICK k \in Id :
        /\ k \notin ida
        /\ ida' = ida \cup {k}
        /\ clients' = clients \cup {k}
        /\ client' = [client EXCEPT ![k] = [task |-> t, conn |-> NULL]]
  BY DEF RegisterClient, IsLowestFree
<1>2. UNCHANGED <<tasks, opened, alive, monitor, notif, servers, server,
                  pools, submems, submem, conns, conn, op, oops>>
  BY DEF RegisterClient
<1>3. k \notin servers /\ k \notin clients /\ k \notin submems /\ k \notin pools
  BY <1>1 DEF IdsExact
<1>4. /\ client'[k] = [task |-> t, conn |-> NULL]
      /\ \A i \in clients : client'[i] = client[i]
  BY <1>1, <1>3 DEF TypeOK
<1>5. TypeOK'
  <2>1. client' \in [Id -> ClientRecord]
    BY <1>1 DEF TypeOK, ClientRecord
  <2>2. count' \in [Task -> [servers : Int, clients : Int]]
    <3>. DEFINE r == [count[t] EXCEPT !.clients = @ + 1]
    <3>1. count \in [Task -> [servers : Int, clients : Int]]
      BY DEF TypeOK
    <3>2. r \in [servers : Int, clients : Int]
      BY <3>1
    <3>3. count' = [u \in Task |-> IF u = t THEN r ELSE count[u]]
      BY <3>1 DEF RegisterClient
    <3>. QED
      BY <3>1, <3>2, <3>3
  <2>. QED
    BY <1>1, <1>2, <2>1, <2>2 DEF TypeOK
<1>6. PointersAgree'
  BY <1>1, <1>2, <1>3, <1>4 DEF PointersAgree
<1>7. OwnersRegistered'
  BY <1>1, <1>2, <1>4 DEF OwnersRegistered, OpenTasks, RegisterClient, Call, NoOp
<1>8. IdsExact' /\ OpenTasks'
  BY <1>1, <1>2, <1>3 DEF IdsExact, OpenTasks
<1>9. QED
  BY <1>5, <1>6, <1>7, <1>8

(* Only the mapped flag of the connection changes, and a note is queued.   *)
LEMMA ClientMmapStep ==
    ASSUME IInv, ConstantsAssumption, NEW t \in Task, NEW k \in clients,
           ClientMmap(t, k)
    PROVE  IInv'
<1>. DEFINE c == client[k].conn
            r == [conn[c] EXCEPT !.mmaped = TRUE]
<1>. USE DEF IInv
<1>1. c \in conns /\ c \in Conn
  BY DEF ClientMmap, Connected, PointersAgree, TypeOK
<1>2. UNCHANGED <<tasks, opened, alive, monitor, count, servers, server, clients,
                  client, pools, submems, ida, submem, conns, op, oops>>
  BY DEF ClientMmap, taskVars, memVars
<1>3. notif' \in [Task -> Seq(Notification)]
  <2>1. notif' = notification_send("CLIENT", "NEW_CONNECTION", c, notif)
    BY DEF ClientMmap
  <2>. HIDE DEF c
  <2>. QED
    BY <1>1, <2>1, SendType DEF TypeOK
<1>4. conn' = [d \in Conn |-> IF d = c THEN r ELSE conn[d]]
  BY DEF ClientMmap, TypeOK
<1>5. /\ r \in ConnRecord
      /\ r.client = conn[c].client /\ r.server = conn[c].server /\ r.mem = conn[c].mem
  <2>1. conn[c] \in ConnRecord
    BY <1>1 DEF TypeOK
  <2>. QED
    BY <2>1 DEF ConnRecord
<1>. HIDE DEF c, r
<1>6. /\ conn' \in [Conn -> ConnRecord]
      /\ \A d \in Conn : /\ conn'[d].client = conn[d].client
                         /\ conn'[d].server = conn[d].server
                         /\ conn'[d].mem = conn[d].mem
  BY <1>4, <1>5 DEF TypeOK
<1>7. TypeOK'
  BY <1>2, <1>3, <1>6 DEF TypeOK
<1>8. PointersAgree'
  <2>1. \A d \in conns : /\ conn'[d].client = conn[d].client
                         /\ conn'[d].server = conn[d].server
                         /\ conn'[d].mem = conn[d].mem
    BY <1>6 DEF TypeOK
  <2>. QED
    BY <1>2, <2>1 DEF PointersAgree
<1>9. OwnersRegistered' /\ IdsExact' /\ OpenTasks'
  BY <1>2 DEF OwnersRegistered, IdsExact, OpenTasks
<1>10. QED
  BY <1>7, <1>8, <1>9

(* The calls that only append to a queue or pop its head, and the one that *)
(* has nothing to append.                                                  *)
LEMMA EndWritingStep ==
    ASSUME IInv, NEW t \in Task,
           \/ \E k \in clients : ClientEndWriting(t, k)
           \/ \E s \in servers, m \in submems :
                ServerEndWriting(t, s, m) \/ ServerEndWritingNull(t, s, m)
           \/ Read(t)
    PROVE  IInv'
<1>1. TypeOK /\ PointersAgree /\ OwnersRegistered
  BY DEF IInv
<1>2. ASSUME NEW k \in clients, ClientEndWriting(t, k) PROVE IInv'
  <2>1. client[k].conn \in conns
    BY <1>1, <1>2 DEF ClientEndWriting, Connected, PointersAgree
  <2>2. notif' = notification_send("CLIENT", "NEW_MESSAGE", client[k].conn, notif)
    BY <1>2 DEF ClientEndWriting
  <2>3. notif' \in [Task -> Seq(Notification)]
    BY <1>1, <2>1, <2>2, SendType DEF TypeOK
  <2>4. oops' \in {"none", "end_writing"}
    BY <1>1, <1>2 DEF ClientEndWriting, TypeOK
  <2>. QED
    BY <1>2, <2>3, <2>4, QueueStep DEF ClientEndWriting
<1>3. ASSUME NEW s \in servers, NEW m \in submems, ServerEndWriting(t, s, m)
      PROVE  IInv'
  <2>1. PICK c \in ConnsByMem(s, m) :
          notif' = notification_send("SERVER", "NEW_MESSAGE", c, notif)
    BY <1>3 DEF ServerEndWriting
  <2>2. c \in conns
    BY <1>1, <2>1 DEF ConnsByMem, PointersAgree
  <2>3. notif' \in [Task -> Seq(Notification)]
    BY <1>1, <2>1, <2>2, SendType DEF TypeOK
  <2>4. oops' \in {"none", "end_writing"}
    BY <1>1, <1>3 DEF ServerEndWriting, TypeOK
  <2>. QED
    BY <1>3, <2>3, <2>4, QueueStep DEF ServerEndWriting
<1>4. ASSUME NEW s \in servers, NEW m \in submems, ServerEndWritingNull(t, s, m)
      PROVE  IInv'
  <2>1. notif' \in [Task -> Seq(Notification)] /\ oops' \in {"none", "end_writing"}
    BY <1>1, <1>4 DEF ServerEndWritingNull, TypeOK
  <2>. QED
    BY <1>4, <2>1, QueueStep DEF ServerEndWritingNull
<1>5. ASSUME Read(t) PROVE IInv'
  <2>1. notif[t] \in Seq(Notification) /\ notif[t] # <<>>
    BY <1>1, <1>5 DEF Read, TypeOK
  <2>2. Tail(notif[t]) \in Seq(Notification)
    BY <2>1
  <2>3. notif' \in [Task -> Seq(Notification)] /\ oops' \in {"none", "end_writing"}
    BY <1>1, <1>5, <2>2 DEF Read, TypeOK
  <2>. QED
    BY <1>5, <2>3, QueueStep DEF Read
<1>6. QED
  BY <1>2, <1>3, <1>4, <1>5

-----------------------------------------------------------------------------
(* CONNECT_TO_SERVER.  Whether the sub-area is free in an old pool or the  *)
(* first of a new one, it belonged to no connection, it now belongs to c,  *)
(* the other old sub-areas are untouched and the other new ones are free;  *)
(* and the ids a new pool takes were nobody's.                             *)
LEMMA TakeEffect ==
    ASSUME IInv, ConstantsAssumption, NEW m \in Id, NEW c \in Conn,
           TakeSubmem(m, c) \/ CreatePool(m, c),
           UNCHANGED <<servers, clients>>
    PROVE  /\ submem' \in [Id -> SubmemRecord]
           /\ submems' \subseteq Id /\ pools' \subseteq Id /\ ida' \subseteq Id
           /\ submems \subseteq submems' /\ m \in submems'
           /\ submem'[m].conn = c
           /\ m \in submems => submem[m].conn = NULL
           /\ \A i \in submems' : i # m => submem'[i].conn =
                IF i \in submems THEN submem[i].conn ELSE NULL
           /\ IdsExact'
<1>1. /\ submem \in [Id -> SubmemRecord]
      /\ submems \subseteq Id /\ pools \subseteq Id /\ ida \subseteq Id
      /\ IdsExact
  BY DEF IInv, TypeOK
<1>2. CASE TakeSubmem(m, c)
  <2>. DEFINE r == [submem[m] EXCEPT !.conn = c]
  <2>1. m \in submems /\ submem[m].conn = NULL
    BY <1>2 DEF TakeSubmem, IsFirstFree, FreeSubmems
  <2>2. UNCHANGED <<pools, submems, ida>>
    BY <1>2 DEF TakeSubmem, memVars
  <2>3. r \in SubmemRecord /\ r.conn = c
    <3>1. submem[m] \in SubmemRecord
      BY <1>1
    <3>. QED
      BY <3>1 DEF SubmemRecord
  <2>4. submem' = [i \in Id |-> IF i = m THEN r ELSE submem[i]]
    BY <1>1, <1>2 DEF TakeSubmem
  <2>5. IdsExact'
    BY <1>1, <2>2 DEF IdsExact
  <2>. HIDE DEF r
  <2>6. submem' \in [Id -> SubmemRecord]
    BY <1>1, <2>3, <2>4
  <2>7. submem'[m].conn = c
    BY <2>3, <2>4
  <2>8. \A i \in submems : i # m => submem'[i].conn = submem[i].conn
    BY <1>1, <2>4
  <2>. QED
    BY <1>1, <2>1, <2>2, <2>5, <2>6, <2>7, <2>8
<1>3. CASE CreatePool(m, c)
  <2>0. PICK I \in SUBSET Id : \E p \in I :
          /\ AreLowestFree(I, SHM_POOL_SIZE + 1)
          /\ m \in I \ {p}
          /\ ida' = ida \cup I
          /\ pools' = pools \cup {p}
          /\ submems' = submems \cup (I \ {p})
          /\ submem' = [i \in Id |->
                          IF i \in I \ {p}
                          THEN [rank |-> Cardinality(pools) + 1,
                                conn |-> IF i = m THEN c ELSE NULL]
                          ELSE submem[i]]
    BY <1>3 DEF CreatePool
  <2>1. PICK p \in I :
          /\ AreLowestFree(I, SHM_POOL_SIZE + 1)
          /\ m \in I \ {p}
          /\ ida' = ida \cup I
          /\ pools' = pools \cup {p}
          /\ submems' = submems \cup (I \ {p})
          /\ submem' = [i \in Id |->
                          IF i \in I \ {p}
                          THEN [rank |-> Cardinality(pools) + 1,
                                conn |-> IF i = m THEN c ELSE NULL]
                          ELSE submem[i]]
    BY <2>0
  <2>2. I \cap ida = {}
    BY <2>1 DEF AreLowestFree
  <2>3. Cardinality(pools) \in Nat
    <3>1. IsFiniteSet(Id)
      BY FS_Interval DEF Id, ConstantsAssumption
    <3>2. IsFiniteSet(pools)
      BY <1>1, <3>1, FS_Subset
    <3>. QED
      BY <3>2, FS_CardinalityType
  <2>4. submem' \in [Id -> SubmemRecord]
    BY <1>1, <2>1, <2>3 DEF SubmemRecord
  <2>5. \A i \in I : i \notin servers /\ i \notin clients /\ i \notin submems
                     /\ i \notin pools
    BY <1>1, <2>2 DEF IdsExact
  <2>6. \A i \in Id : submem'[i].conn =
          IF i \in I \ {p} THEN (IF i = m THEN c ELSE NULL) ELSE submem[i].conn
    BY <2>1
  <2>7. IdsExact'
    BY <1>1, <2>1, <2>5 DEF IdsExact
  <2>8. submem'[m].conn = c /\ m \in submems' /\ m \notin submems
    BY <2>1, <2>5, <2>6
  <2>9. \A i \in submems' : i # m => submem'[i].conn =
          IF i \in submems THEN submem[i].conn ELSE NULL
    BY <1>1, <2>1, <2>5, <2>6
  <2>. QED
    BY <1>1, <2>1, <2>4, <2>7, <2>8, <2>9
<1>4. QED
  BY <1>2, <1>3

(* A new connection is linked from its client, server and sub-area, and    *)
(* each of them was free for it or, the server, keeps its other ones.      *)
LEMMA ConnectStep ==
    ASSUME IInv, ConstantsAssumption, NEW t \in Task, NEW k \in clients,
           NEW n \in Name, Connect(t, k, n)
    PROVE  IInv'
<1>1. /\ TypeOK /\ PointersAgree /\ OwnersRegistered /\ OpenTasks
      /\ k \in Id /\ client[k].conn = NULL
  BY DEF IInv, Connect, TypeOK
<1>2. PICK s \in ServersNamed(n), m \in Id, c \in Conn \ conns :
        /\ TakeSubmem(m, c) \/ CreatePool(m, c)
        /\ conns' = conns \cup {c}
        /\ conn' = [conn EXCEPT ![c] = [client |-> k, server |-> s, mem |-> m,
                                        mmaped |-> FALSE]]
        /\ client' = [client EXCEPT ![k].conn = c]
        /\ server' = [server EXCEPT ![s].conns = @ \cup {c}]
  BY DEF Connect
<1>3. UNCHANGED <<tasks, opened, alive, monitor, count, notif, servers, clients,
                  op, oops>>
  BY DEF Connect, taskVars
<1>4. s \in servers /\ s \in Id /\ c \in Conn /\ c \notin conns /\ c # NULL
  BY <1>1 DEF ServersNamed, TypeOK, ConstantsAssumption
<1>5. /\ client' \in [Id -> ClientRecord]
      /\ \A i \in Id : /\ client'[i].conn = IF i = k THEN c ELSE client[i].conn
                       /\ client'[i].task = client[i].task
  <2>. DEFINE r == [client[k] EXCEPT !.conn = c]
  <2>1. client[k] \in ClientRecord
    BY <1>1 DEF TypeOK
  <2>2. r \in ClientRecord /\ r.conn = c /\ r.task = client[k].task
    BY <1>4, <2>1 DEF ClientRecord
  <2>3. client' = [i \in Id |-> IF i = k THEN r ELSE client[i]]
    BY <1>1, <1>2 DEF TypeOK
  <2>. HIDE DEF r
  <2>. QED
    BY <1>1, <2>2, <2>3 DEF TypeOK
<1>6. /\ server' \in [Id -> ServerRecord]
      /\ \A i \in Id : /\ server'[i].task = server[i].task
                       /\ server'[i].conns = IF i = s THEN server[i].conns \cup {c}
                                                      ELSE server[i].conns
  <2>. DEFINE r == [server[s] EXCEPT !.conns = @ \cup {c}]
  <2>1. server[s] \in ServerRecord
    BY <1>1, <1>4 DEF TypeOK
  <2>2. /\ r \in ServerRecord /\ r.task = server[s].task
        /\ r.conns = server[s].conns \cup {c}
    BY <1>4, <2>1 DEF ServerRecord
  <2>3. server' = [i \in Id |-> IF i = s THEN r ELSE server[i]]
    BY <1>1, <1>2 DEF TypeOK
  <2>. HIDE DEF r
  <2>. QED
    BY <1>1, <2>2, <2>3 DEF TypeOK
<1>7. /\ conn' \in [Conn -> ConnRecord]
      /\ conn'[c] = [client |-> k, server |-> s, mem |-> m, mmaped |-> FALSE]
      /\ \A d \in conns : conn'[d] = conn[d]
  BY <1>1, <1>2, <1>4 DEF TypeOK, ConnRecord
<1>8. /\ submem' \in [Id -> SubmemRecord]
      /\ submems' \subseteq Id /\ pools' \subseteq Id /\ ida' \subseteq Id
      /\ submems \subseteq submems' /\ m \in submems'
      /\ submem'[m].conn = c
      /\ m \in submems => submem[m].conn = NULL
      /\ \A i \in submems' : i # m => submem'[i].conn =
           IF i \in submems THEN submem[i].conn ELSE NULL
      /\ IdsExact'
  BY <1>2, <1>3, <1>4, TakeEffect
<1>9. TypeOK'
  <2>1. conns' \subseteq Conn
    BY <1>1, <1>2, <1>4 DEF TypeOK
  <2>. QED
    BY <1>1, <1>3, <1>5, <1>6, <1>7, <1>8, <2>1 DEF TypeOK
<1>10. PointersAgree'
  <2>1. ASSUME NEW d \in conns'
        PROVE  /\ conn'[d].client \in clients' /\ client'[conn'[d].client].conn = d
               /\ conn'[d].server \in servers' /\ d \in server'[conn'[d].server].conns
               /\ conn'[d].mem \in submems'    /\ submem'[conn'[d].mem].conn = d
    <3>1. CASE d = c
      <4>1. conn'[c].client = k /\ conn'[c].server = s /\ conn'[c].mem = m
        BY <1>7
      <4>2. client'[k].conn = c /\ submem'[m].conn = c /\ c \in server'[s].conns
        BY <1>1, <1>4, <1>5, <1>6, <1>8
      <4>. QED
        BY <1>3, <1>4, <1>8, <3>1, <4>1, <4>2
    <3>2. CASE d # c
      <4>1. d \in conns /\ conn'[d] = conn[d] /\ d # NULL
        BY <1>1, <1>2, <1>7, <3>2 DEF TypeOK, ConstantsAssumption
      <4>2. /\ conn[d].client \in clients /\ client[conn[d].client].conn = d
            /\ conn[d].server \in servers /\ d \in server[conn[d].server].conns
            /\ conn[d].mem \in submems    /\ submem[conn[d].mem].conn = d
        BY <1>1, <4>1 DEF PointersAgree
      <4>3. conn[d].client # k /\ conn[d].mem # m
        BY <1>1, <1>8, <4>1, <4>2
      <4>4. conn[d].client \in Id /\ conn[d].server \in Id /\ conn[d].mem \in Id
        BY <1>1, <4>2 DEF TypeOK
      <4>. QED
        BY <1>3, <1>5, <1>6, <1>8, <4>1, <4>2, <4>3, <4>4
    <3>. QED
      BY <3>1, <3>2
  <2>2. ASSUME NEW i \in clients', client'[i].conn # NULL
        PROVE  client'[i].conn \in conns' /\ conn'[client'[i].conn].client = i
    <3>1. i \in clients /\ i \in Id
      BY <1>1, <1>3 DEF TypeOK
    <3>2. CASE i = k
      BY <1>2, <1>5, <1>7, <3>1, <3>2
    <3>3. CASE i # k
      <4>1. client'[i].conn = client[i].conn
        BY <1>5, <3>1, <3>3
      <4>2. client[i].conn \in conns /\ conn[client[i].conn].client = i
        BY <1>1, <2>2, <3>1, <4>1 DEF PointersAgree
      <4>. QED
        BY <1>2, <1>7, <4>1, <4>2
    <3>. QED
      BY <3>2, <3>3
  <2>3. ASSUME NEW i \in servers', NEW d \in server'[i].conns
        PROVE  d \in conns' /\ conn'[d].server = i
    <3>1. i \in servers /\ i \in Id
      BY <1>1, <1>3 DEF TypeOK
    <3>2. \A e \in server[i].conns : e \in conns /\ conn[e].server = i
      BY <1>1, <3>1 DEF PointersAgree
    <3>3. d \in server[i].conns \/ (d = c /\ i = s)
      BY <1>6, <3>1
    <3>. QED
      BY <1>2, <1>7, <3>2, <3>3
  <2>4. ASSUME NEW i \in submems', submem'[i].conn # NULL
        PROVE  submem'[i].conn \in conns' /\ conn'[submem'[i].conn].mem = i
    <3>1. CASE i = m
      BY <1>2, <1>7, <1>8, <3>1
    <3>2. CASE i # m
      <4>1. i \in submems /\ submem'[i].conn = submem[i].conn
        BY <1>8, <2>4, <3>2
      <4>2. submem[i].conn \in conns /\ conn[submem[i].conn].mem = i
        BY <1>1, <2>4, <4>1 DEF PointersAgree
      <4>. QED
        BY <1>2, <1>7, <4>1, <4>2
    <3>. QED
      BY <3>1, <3>2
  <2>. QED
    BY <2>1, <2>2, <2>3, <2>4 DEF PointersAgree
<1>11. OwnersRegistered'
  BY <1>1, <1>3, <1>5, <1>6 DEF OwnersRegistered, TypeOK
<1>12. OpenTasks'
  BY <1>1, <1>3 DEF OpenTasks
<1>13. QED
  BY <1>8, <1>9, <1>10, <1>11, <1>12 DEF IInv

-----------------------------------------------------------------------------
(* CLIENT_UNREGISTER and the ends of the two looping calls.                *)

(* The client's connection is unlinked and the client goes with its id.    *)
LEMMA ClientUnregisterStep ==
    ASSUME IInv, ConstantsAssumption, NEW t \in Task, NEW k \in clients,
           ClientUnregister(t, k)
    PROVE  IInv'
<1>. DEFINE c == client[k].conn
<1>1. TypeOK /\ PointersAgree /\ OwnersRegistered /\ IdsExact /\ OpenTasks
  BY DEF IInv
<1>2. /\ c \in conns /\ conn[c].client = k /\ k \in Id
      /\ Unlink(c) /\ client' = [ClientsWithout(c) EXCEPT ![k] = NoClient]
      /\ clients' = clients \ {k} /\ ida' = ida \ {k}
      /\ notif' = AnnounceDelete(c,
                    notification_send("CLIENT", "REMOTE_DISCONNECT", c, notif))
  BY <1>1 DEF ClientUnregister, Connected, PointersAgree, TypeOK
<1>3. UNCHANGED <<tasks, opened, alive, monitor, servers, pools, submems, op, oops>>
  BY DEF ClientUnregister
<1>4. count' \in [Task -> [servers : Int, clients : Int]]
  <2>. DEFINE o == client[k].task
              r == [count[o] EXCEPT !.clients = @ - 1]
  <2>1. count \in [Task -> [servers : Int, clients : Int]] /\ o \in Task
    BY <1>1, <1>2 DEF TypeOK, OwnersRegistered
  <2>2. r \in [servers : Int, clients : Int]
    BY <2>1
  <2>3. count' = [u \in Task |-> IF u = o THEN r ELSE count[u]]
    BY <2>1 DEF ClientUnregister
  <2>. HIDE DEF o, r
  <2>. QED
    BY <2>1, <2>2, <2>3
<1>. HIDE DEF c
<1>5. /\ server' \in [Id -> ServerRecord] /\ submem' \in [Id -> SubmemRecord]
      /\ conns' \subseteq Conn /\ conn' \in [Conn -> ConnRecord]
      /\ ClientsWithout(c) \in [Id -> ClientRecord]
      /\ \A i \in Id : server'[i].task = server[i].task
                       /\ ClientsWithout(c)[i].task = client[i].task
  BY <1>1, <1>2, UnlinkEffect
<1>6. /\ client' \in [Id -> ClientRecord]
      /\ \A i \in clients' : client'[i] = ClientsWithout(c)[i]
  <2>1. NoClient \in ClientRecord
    BY DEF NoClient, ClientRecord
  <2>. QED
    BY <1>1, <1>2, <1>5, <2>1 DEF TypeOK
<1>7. TypeOK'
  <2>1. notification_send("CLIENT", "REMOTE_DISCONNECT", c, notif)
          \in [Task -> Seq(Notification)]
    BY <1>1, <1>2, SendType DEF TypeOK
  <2>2. notif' \in [Task -> Seq(Notification)]
    BY <1>1, <1>2, <2>1, AnnounceType
  <2>. QED
    BY <1>1, <1>2, <1>3, <1>4, <1>5, <1>6, <2>2 DEF TypeOK
<1>8. PointersAgree'
  <2>1. \A i \in clients' : client'[i].conn = ClientsWithout(c)[i].conn
    BY <1>6
  <2>2. clients' \subseteq clients /\ clients \ {conn[c].client} \subseteq clients'
    BY <1>2
  <2>. QED
    BY <1>1, <1>2, <1>3, <2>1, <2>2, UnlinkPointers
<1>9. OwnersRegistered'
  BY <1>1, <1>2, <1>3, <1>5, <1>6 DEF OwnersRegistered, TypeOK
<1>10. IdsExact' /\ OpenTasks'
  BY <1>1, <1>2, <1>3 DEF IdsExact, OpenTasks
<1>11. QED
  BY <1>7, <1>8, <1>9, <1>10 DEF IInv

(* A server without connections goes with its id: nothing points at it.    *)
LEMMA UnregisterFinishStep ==
    ASSUME IInv, ConstantsAssumption, UnregisterFinish PROVE IInv'
<1>. DEFINE s == op.srv
            t == op.task
<1>1. TypeOK /\ PointersAgree /\ OwnersRegistered /\ IdsExact /\ OpenTasks
  BY DEF IInv
<1>2. /\ s \in servers /\ s \in Id /\ server[s].conns = {}
      /\ servers' = servers \ {s} /\ ida' = ida \ {s}
      /\ server' = [server EXCEPT ![s] = NoServer]
      /\ op' = NoOp
      /\ t \in Task
  BY <1>1 DEF UnregisterFinish, OwnersRegistered, TypeOK
<1>3. UNCHANGED <<tasks, opened, alive, monitor, notif, clients, client, pools,
                  submems, submem, conns, conn, oops>>
  BY DEF UnregisterFinish
<1>4. count' \in [Task -> [servers : Int, clients : Int]]
  <2>. DEFINE r == [count[t] EXCEPT !.servers = @ - 1]
  <2>1. count \in [Task -> [servers : Int, clients : Int]]
    BY <1>1 DEF TypeOK
  <2>2. r \in [servers : Int, clients : Int]
    BY <1>2, <2>1
  <2>3. count' = [u \in Task |-> IF u = t THEN r ELSE count[u]]
    BY <2>1 DEF UnregisterFinish
  <2>. QED
    BY <2>1, <2>2, <2>3
<1>. HIDE DEF s, t
<1>5. /\ server' \in [Id -> ServerRecord]
      /\ \A i \in servers' : server'[i] = server[i]
  <2>1. NoServer \in ServerRecord
    BY DEF NoServer, ServerRecord
  <2>. QED
    BY <1>1, <1>2, <2>1 DEF TypeOK
<1>6. TypeOK'
  <2>1. NoOp \in [kind : {"none", "unregister", "release"},
                  task : Task \cup {NULL}, srv : Id \cup {NULL}]
    BY DEF NoOp
  <2>. QED
    BY <1>1, <1>2, <1>3, <1>4, <1>5, <2>1 DEF TypeOK
<1>7. PointersAgree'
  <2>1. \A c \in conns : conn[c].server # s
    BY <1>1, <1>2 DEF PointersAgree
  <2>. QED
    BY <1>1, <1>2, <1>3, <1>5, <2>1 DEF PointersAgree
<1>8. OwnersRegistered'
  BY <1>1, <1>2, <1>3, <1>5 DEF OwnersRegistered, NoOp
<1>9. IdsExact' /\ OpenTasks'
  BY <1>1, <1>2, <1>3 DEF IdsExact, OpenTasks, NoOp
<1>10. QED
  BY <1>6, <1>7, <1>8, <1>9 DEF IInv

(* The servers and clients of the closing task have lost all their         *)
(* connections, so their removal leaves no dangling pointer or id.         *)
LEMMA ReleaseFinishStep ==
    ASSUME IInv, ConstantsAssumption, ReleaseFinish PROVE IInv'
<1>. DEFINE t == op.task
            S == OwnServers(op.task)
            K == OwnClients(op.task)
<1>1. TypeOK /\ PointersAgree /\ OwnersRegistered /\ IdsExact /\ OpenTasks
  BY DEF IInv
<1>2. /\ t \in tasks /\ t \in Task /\ t \notin opened
      /\ S \subseteq servers /\ K \subseteq clients
      /\ \A i \in servers \ S : server[i].task # t
      /\ \A i \in clients \ K : client[i].task # t
      /\ \A i \in S : server[i].conns = {}
      /\ \A i \in K : client[i].conn = NULL
  BY <1>1 DEF ReleaseFinish, OwnersRegistered, OpenTasks, OwnServers, OwnClients, TypeOK
<1>3. /\ servers' = servers \ S /\ clients' = clients \ K
      /\ ida' = ida \ (S \cup K)
      /\ server' = [i \in Id |-> IF i \in S THEN NoServer ELSE server[i]]
      /\ client' = [i \in Id |-> IF i \in K THEN NoClient ELSE client[i]]
      /\ count' = [count EXCEPT ![t] = [servers |-> 0, clients |-> 0]]
      /\ notif' = [notif EXCEPT ![t] = <<>>]
      /\ tasks' = tasks \ {t} /\ monitor' = monitor \ {t}
      /\ op' = NoOp
      /\ UNCHANGED <<opened, alive, pools, submems, submem, conns, conn, oops>>
  BY DEF ReleaseFinish
<1>. HIDE DEF S, K, t
<1>4. \A c \in conns : conn[c].server \notin S /\ conn[c].client \notin K
  <2>1. \A c \in conns : c # NULL
    BY <1>1 DEF TypeOK, ConstantsAssumption
  <2>. QED
    BY <1>1, <1>2, <2>1 DEF PointersAgree
<1>5. /\ server' \in [Id -> ServerRecord] /\ client' \in [Id -> ClientRecord]
      /\ \A i \in servers' : server'[i] = server[i]
      /\ \A i \in clients' : client'[i] = client[i]
  <2>1. NoServer \in ServerRecord /\ NoClient \in ClientRecord
    BY DEF NoServer, NoClient, ServerRecord, ClientRecord
  <2>. QED
    BY <1>1, <1>3, <2>1 DEF TypeOK
<1>6. TypeOK'
  <2>1. NoOp \in [kind : {"none", "unregister", "release"},
                  task : Task \cup {NULL}, srv : Id \cup {NULL}]
    BY DEF NoOp
  <2>2. notif' \in [Task -> Seq(Notification)]
    <3>1. <<>> \in Seq(Notification)
      OBVIOUS
    <3>. QED
      BY <1>1, <1>3, <3>1 DEF TypeOK
  <2>3. count' \in [Task -> [servers : Int, clients : Int]]
    <3>1. [servers |-> 0, clients |-> 0] \in [servers : Int, clients : Int]
      OBVIOUS
    <3>2. count \in [Task -> [servers : Int, clients : Int]]
      BY <1>1 DEF TypeOK
    <3>. QED
      BY <1>3, <3>1, <3>2
  <2>. QED
    BY <1>1, <1>3, <1>5, <2>1, <2>2, <2>3 DEF TypeOK
<1>7. PointersAgree'
  BY <1>1, <1>3, <1>4, <1>5 DEF PointersAgree
<1>8. OwnersRegistered'
  BY <1>1, <1>2, <1>3, <1>5 DEF OwnersRegistered, NoOp
<1>9. IdsExact' /\ OpenTasks'
  BY <1>1, <1>2, <1>3 DEF IdsExact, OpenTasks, NoOp
<1>10. QED
  BY <1>6, <1>7, <1>8, <1>9 DEF IInv

-----------------------------------------------------------------------------
(* Every step of the driver preserves the invariant.                       *)
LEMMA StepIInv ==
    ASSUME ConstantsAssumption, IInv, [Next]_vars PROVE IInv'
<1>1. TypeOK /\ PointersAgree /\ OwnersRegistered
  BY DEF IInv
<1>2. CASE UNCHANGED vars
  <2>1. notif' \in [Task -> Seq(Notification)] /\ oops' \in {"none", "end_writing"}
    BY <1>1, <1>2 DEF vars, TypeOK
  <2>. QED
    BY <1>2, <2>1, QueueStep DEF vars
<1>3. CASE OpStep
  <2>1. CASE UnregisterConn
    <3>1. PICK c \in server[op.srv].conns : delete_connection(c, notif)
      BY <2>1 DEF UnregisterConn
    <3>2. c \in conns
      BY <1>1, <2>1, <3>1 DEF UnregisterConn, OwnersRegistered, PointersAgree
    <3>3. notif \in [Task -> Seq(Notification)]
      BY <1>1 DEF TypeOK
    <3>. QED
      BY <2>1, <3>1, <3>2, <3>3, DeleteStep DEF UnregisterConn
  <2>2. CASE UnregisterFinish
    BY <2>2, UnregisterFinishStep
  <2>3. CASE ReleaseServerConn
    <3>1. PICK s \in OwnServers(op.task) :
            \E c \in server[s].conns : delete_connection(c, notif)
      BY <2>3 DEF ReleaseServerConn
    <3>2. PICK c \in server[s].conns : delete_connection(c, notif)
      BY <3>1
    <3>3. c \in conns
      BY <1>1, <3>1, <3>2 DEF OwnServers, PointersAgree
    <3>4. notif \in [Task -> Seq(Notification)]
      BY <1>1 DEF TypeOK
    <3>. QED
      BY <2>3, <3>2, <3>3, <3>4, DeleteStep DEF ReleaseServerConn
  <2>4. CASE ReleaseClientConn
    <3>1. PICK k \in OwnClients(op.task) :
            client[k].conn # NULL /\ delete_connection(client[k].conn, notif)
      BY <2>4 DEF ReleaseClientConn
    <3>2. client[k].conn \in conns
      BY <1>1, <3>1 DEF OwnClients, PointersAgree
    <3>3. notif \in [Task -> Seq(Notification)]
      BY <1>1 DEF TypeOK
    <3>. QED
      BY <2>4, <3>1, <3>2, <3>3, DeleteStep DEF ReleaseClientConn
  <2>5. CASE ReleaseFinish
    BY <2>5, ReleaseFinishStep
  <2>. QED
    BY <1>3, <2>1, <2>2, <2>3, <2>4, <2>5 DEF OpStep
<1>4. ASSUME NEW t \in Task, NEW k \in clients, ClientDisconnect(t, k) PROVE IInv'
  <2>. DEFINE c == client[k].conn
              q == notification_send("CLIENT", "REMOTE_DISCONNECT", c, notif)
  <2>1. c \in conns /\ delete_connection(c, q)
    BY <1>1, <1>4 DEF ClientDisconnect, Connected, PointersAgree
  <2>. HIDE DEF c
  <2>2. q \in [Task -> Seq(Notification)]
    BY <1>1, <2>1, SendType DEF TypeOK
  <2>. HIDE DEF q
  <2>. QED
    BY <1>4, <2>1, <2>2, DeleteStep DEF ClientDisconnect
<1>5. ASSUME NEW t \in Task, NEW s \in servers, NEW m \in submems,
             ServerDisconnect(t, s, m)
      PROVE  IInv'
  <2>1. PICK c \in ConnsByMem(s, m) :
          delete_connection(c,
            notification_send("SERVER", "REMOTE_DISCONNECT", c, notif))
    BY <1>5 DEF ServerDisconnect
  <2>. DEFINE q == notification_send("SERVER", "REMOTE_DISCONNECT", c, notif)
  <2>2. c \in conns
    BY <1>1, <2>1 DEF ConnsByMem, PointersAgree
  <2>3. q \in [Task -> Seq(Notification)]
    BY <1>1, <2>2, SendType DEF TypeOK
  <2>4. delete_connection(c, q)
    BY <2>1
  <2>. HIDE DEF q
  <2>. QED
    BY <1>5, <2>2, <2>3, <2>4, DeleteStep DEF ServerDisconnect
<1>6. ASSUME NEW t \in Task,
             \/ Open(t) \/ ThreadExit(t) \/ ReleaseStart(t) \/ ReleaseOrphan(t)
             \/ RegisterClient(t) \/ RegisterMonitor(t)
             \/ \E n \in Name : RegisterServer(t, n)
             \/ \E k \in clients, n \in Name : Connect(t, k, n)
             \/ \E k \in clients : ClientMmap(t, k) \/ ClientUnregister(t, k)
             \/ \E s \in servers : ServerUnregister(t, s)
      PROVE  IInv'
  BY <1>6, OpenStep, ExitStep, ReleaseStartStep, ReleaseOrphanStep,
     RegisterClientStep, MonitorStep, RegisterServerStep, ConnectStep,
     ClientMmapStep, ClientUnregisterStep, ServerUnregisterStep
<1>7. ASSUME NEW t \in Task,
             \/ \E k \in clients : ClientEndWriting(t, k)
             \/ \E s \in servers, m \in submems :
                  ServerEndWriting(t, s, m) \/ ServerEndWritingNull(t, s, m)
             \/ Read(t)
      PROVE  IInv'
  BY <1>7, EndWritingStep
<1>8. QED
  BY <1>2, <1>3, <1>4, <1>5, <1>6, <1>7 DEF Next

(* The inductive invariant holds in every reachable state of the driver,   *)
(* for any number of tasks, names, connections and ids and any limits.     *)
THEOREM InductiveInvariant == Spec => []IInv
<1>1. Init => IInv
  BY InitIInv
<1>2. IInv /\ [Next]_vars => IInv'
  BY ConstantsAssumption, StepIInv
<1>3. QED
  BY <1>1, <1>2, PTL DEF Spec

(* Every variable keeps its type: in particular no notification is ever    *)
(* built from the empty fields of a connection that is already unlinked.   *)
THEOREM TypeCorrect == Spec => []TypeOK
<1>1. IInv => TypeOK
  BY DEF IInv
<1>2. QED
  BY <1>1, InductiveInvariant, PTL

(* The pointer graph is consistent after every call.                       *)
THEOREM GraphConsistent == Spec => []PointersAgree
<1>1. IInv => PointersAgree
  BY DEF IInv
<1>2. QED
  BY <1>1, InductiveInvariant, PTL

(* Servers and clients are owned by registered tasks.                      *)
THEOREM OwnersAlive == Spec => []OwnersRegistered
<1>1. IInv => OwnersRegistered
  BY DEF IInv
<1>2. QED
  BY <1>1, InductiveInvariant, PTL

(* The id generator has handed out exactly the ids of the living objects.  *)
THEOREM IdsCorrect == Spec => []IdsExact
<1>1. IInv => IdsExact
  BY DEF IInv
<1>2. QED
  BY <1>1, InductiveInvariant, PTL

=============================================================================
