------------------------ MODULE RipcDriverLimitsProofs ------------------------
(* Theorems about what RipcDriver counts, limits and announces: names,     *)
(* servers and clients of a task, the monitor, what a release leaves       *)
(* behind, and what both ends of a connection are told of it.              *)
EXTENDS RipcDriverProofs

(* The invariants of the runs, strengthened: counters are also right for   *)
(* tasks that are not registered, and the monitor is registered.           *)
CountsKept ==
    \A t \in Task :
        /\ count[t].servers = Cardinality(OwnServers(t))
        /\ count[t].clients = Cardinality(OwnClients(t))
        /\ count[t].servers <= MAX_SERVERS_PER_PID
        /\ count[t].clients <= MAX_CLIENTS_PER_PID

MonitorKept ==
    /\ monitor \subseteq tasks
    /\ \A t, u \in monitor : t = u
    /\ \A t \in monitor : OwnServers(t) = {} /\ OwnClients(t) = {}

Released ==
    \A t \in alive \ opened : t \in tasks => op.kind = "release" /\ op.task = t

Limits == NamesUnique /\ CountsKept /\ MonitorKept /\ Released

(* Nobody gains or loses a server or a client.                             *)
OwnersSame ==
    /\ servers' = servers /\ clients' = clients /\ count' = count
    /\ \A i \in servers : /\ server'[i].name = server[i].name
                          /\ server'[i].task = server[i].task
    /\ \A i \in clients : client'[i].task = client[i].task

-----------------------------------------------------------------------------
(* The limits are numbers.                                                 *)
LEMMA LimitsNat ==
    ASSUME ConstantsAssumption
    PROVE  /\ MAX_SERVERS_PER_PID \in Nat /\ MAX_CLIENTS_PER_PID \in Nat
           /\ MAX_SERVERS_PER_PID > 0 /\ MAX_CLIENTS_PER_PID > 0
BY DEF ConstantsAssumption

(* What a task owns is a finite set of ids.                                *)
LEMMA OwnFinite ==
    ASSUME TypeOK, ConstantsAssumption, NEW t
    PROVE  IsFiniteSet(OwnServers(t)) /\ IsFiniteSet(OwnClients(t))
<1>1. IsFiniteSet(Id)
  BY FS_Interval DEF Id, ConstantsAssumption
<1>2. OwnServers(t) \subseteq Id /\ OwnClients(t) \subseteq Id
  BY DEF OwnServers, OwnClients, TypeOK
<1>3. QED
  BY <1>1, <1>2, FS_Subset

(* Deleting a connection leaves all owners as they are.                    *)
LEMMA DeleteKeepsOwners ==
    ASSUME IInv, ConstantsAssumption, NEW c \in conns, NEW q, delete_connection(c, q),
           UNCHANGED <<taskVars, servers, clients>>
    PROVE  OwnersSame
<1>1. Unlink(c) /\ client' = ClientsWithout(c)
  BY DEF delete_connection
<1>2. \A i \in Id : /\ server'[i].name = server[i].name
                    /\ server'[i].task = server[i].task
                    /\ client'[i].task = client[i].task
  BY <1>1, UnlinkEffect DEF IInv
<1>3. QED
  BY <1>2 DEF OwnersSame, IInv, TypeOK, taskVars

(* So does a new connection.                                               *)
LEMMA ConnectKeepsOwners ==
    ASSUME IInv, NEW t \in Task, NEW k \in clients, NEW n \in Name, Connect(t, k, n)
    PROVE  OwnersSame
<1>1. TypeOK /\ k \in Id
  BY DEF IInv, TypeOK
<1>2. PICK s \in ServersNamed(n), c \in Conn \ conns :
        /\ client' = [client EXCEPT ![k].conn = c]
        /\ server' = [server EXCEPT ![s].conns = @ \cup {c}]
  BY DEF Connect
<1>3. \A i \in clients : client'[i].task = client[i].task
  <2>. DEFINE r == [client[k] EXCEPT !.conn = c]
  <2>1. client[k] \in ClientRecord
    BY <1>1 DEF TypeOK
  <2>2. r.task = client[k].task
    BY <2>1 DEF ClientRecord
  <2>3. client' = [i \in Id |-> IF i = k THEN r ELSE client[i]]
    BY <1>1, <1>2 DEF TypeOK
  <2>. HIDE DEF r
  <2>. QED
    BY <1>1, <2>2, <2>3 DEF TypeOK
<1>4. \A i \in servers : server'[i].name = server[i].name /\ server'[i].task = server[i].task
  <2>. DEFINE r == [server[s] EXCEPT !.conns = @ \cup {c}]
  <2>1. server[s] \in ServerRecord
    BY <1>1 DEF TypeOK, ServersNamed
  <2>2. r.name = server[s].name /\ r.task = server[s].task
    BY <2>1 DEF ServerRecord
  <2>3. server' = [i \in Id |-> IF i = s THEN r ELSE server[i]]
    BY <1>1, <1>2 DEF TypeOK
  <2>. HIDE DEF r
  <2>. QED
    BY <1>1, <2>2, <2>3 DEF TypeOK
<1>5. QED
  BY <1>3, <1>4 DEF OwnersSame, Connect, taskVars

(* The calls that change who owns what, and the rest.                      *)
Gains ==
    \E t \in Task : RegisterClient(t) \/ \E n \in Name : RegisterServer(t, n)

Losses ==
    \/ \E t \in Task, k \in clients : ClientUnregister(t, k)
    \/ UnregisterFinish \/ ReleaseFinish

(* Every step adds to what a process owns, takes from it, or leaves it and *)
(* the monitor alone.                                                      *)
LEMMA StepKinds ==
    ASSUME IInv, ConstantsAssumption, [Next]_vars
    PROVE  \/ Gains \/ Losses
           \/ OwnersSame /\ monitor' = monitor /\ tasks \subseteq tasks'
           \/ OwnersSame /\ \E t \in Task : RegisterMonitor(t)
<1>. DEFINE Quiet == OwnersSame /\ monitor' = monitor /\ tasks \subseteq tasks'
<1>1. TypeOK /\ PointersAgree /\ OwnersRegistered
  BY DEF IInv
<1>2. ASSUME UNCHANGED <<servers, server, clients, client, count, monitor>>,
             tasks \subseteq tasks'
      PROVE  Quiet
  BY <1>2 DEF OwnersSame
<1>3. ASSUME NEW c \in conns, NEW q, delete_connection(c, q),
             UNCHANGED <<taskVars, servers, clients>>
      PROVE  Quiet
  BY <1>3, DeleteKeepsOwners DEF taskVars
<1>4. CASE UNCHANGED vars
  BY <1>2, <1>4 DEF vars, taskVars
<1>5. CASE UnregisterConn
  <2>1. PICK c \in server[op.srv].conns : delete_connection(c, notif)
    BY <1>5 DEF UnregisterConn
  <2>2. c \in conns
    BY <1>1, <1>5, <2>1 DEF UnregisterConn, OwnersRegistered, PointersAgree
  <2>. QED
    BY <1>3, <1>5, <2>1, <2>2 DEF UnregisterConn
<1>6. CASE ReleaseServerConn
  <2>1. PICK s \in OwnServers(op.task) : \E c \in server[s].conns : delete_connection(c, notif)
    BY <1>6 DEF ReleaseServerConn
  <2>2. PICK c \in server[s].conns : delete_connection(c, notif)
    BY <2>1
  <2>3. c \in conns
    BY <1>1, <2>1, <2>2 DEF OwnServers, PointersAgree
  <2>. QED
    BY <1>3, <1>6, <2>2, <2>3 DEF ReleaseServerConn
<1>7. CASE ReleaseClientConn
  <2>1. PICK k \in OwnClients(op.task) :
          client[k].conn # NULL /\ delete_connection(client[k].conn, notif)
    BY <1>7 DEF ReleaseClientConn
  <2>2. client[k].conn \in conns
    BY <1>1, <2>1 DEF OwnClients, PointersAgree
  <2>. QED
    BY <1>3, <1>7, <2>1, <2>2 DEF ReleaseClientConn
<1>8. ASSUME NEW t \in Task, NEW k \in clients, ClientDisconnect(t, k)
      PROVE  Quiet
  <2>1. client[k].conn \in conns
    BY <1>1, <1>8 DEF ClientDisconnect, Connected, PointersAgree
  <2>. QED
    BY <1>3, <1>8, <2>1 DEF ClientDisconnect
<1>9. ASSUME NEW t \in Task, NEW s \in servers, NEW m \in submems,
             ServerDisconnect(t, s, m)
      PROVE  Quiet
  <2>1. PICK c \in ConnsByMem(s, m) :
          delete_connection(c, notification_send("SERVER", "REMOTE_DISCONNECT", c, notif))
    BY <1>9 DEF ServerDisconnect
  <2>2. c \in conns
    BY <1>1, <2>1 DEF ConnsByMem, PointersAgree
  <2>. QED
    BY <1>3, <1>9, <2>1, <2>2 DEF ServerDisconnect
<1>10. ASSUME NEW t \in Task, NEW k \in clients, NEW n \in Name, Connect(t, k, n)
       PROVE  Quiet
  <2>1. OwnersSame
    BY <1>10, ConnectKeepsOwners
  <2>2. UNCHANGED taskVars
    BY <1>10 DEF Connect
  <2>. QED
    BY <2>1, <2>2 DEF taskVars
<1>11. ASSUME NEW t \in Task, RegisterMonitor(t) PROVE OwnersSame
  BY <1>11 DEF RegisterMonitor, OwnersSame
<1>12. ASSUME NEW t \in Task,
              \/ Open(t) \/ ThreadExit(t) \/ ReleaseStart(t) \/ ReleaseOrphan(t)
              \/ Read(t)
              \/ \E k \in clients : ClientMmap(t, k) \/ ClientEndWriting(t, k)
              \/ \E s \in servers : ServerUnregister(t, s)
              \/ \E s \in servers, m \in submems :
                   ServerEndWriting(t, s, m) \/ ServerEndWritingNull(t, s, m)
       PROVE  Quiet
  BY <1>2, <1>12 DEF Open, ThreadExit, ReleaseStart, ReleaseOrphan, Read, ClientMmap,
       ClientEndWriting, ServerUnregister, ServerEndWriting,
       ServerEndWritingNull, taskVars
<1>. HIDE DEF Quiet
<1>13. CASE OpStep
  BY <1>5, <1>6, <1>7, <1>13 DEF OpStep, Losses, Quiet
<1>14. ASSUME NEW t \in Task, ~Gains, ~Losses, ~Quiet, ~RegisterMonitor(t)
       PROVE  /\ ~Open(t) /\ ~ThreadExit(t) /\ ~ReleaseStart(t) /\ ~ReleaseOrphan(t)
              /\ ~RegisterClient(t) /\ ~Read(t)
              /\ \A n \in Name : ~RegisterServer(t, n)
              /\ \A k \in clients, n \in Name : ~Connect(t, k, n)
              /\ \A k \in clients :
                   /\ ~ClientMmap(t, k) /\ ~ClientEndWriting(t, k)
                   /\ ~ClientDisconnect(t, k) /\ ~ClientUnregister(t, k)
              /\ \A s \in servers : ~ServerUnregister(t, s)
              /\ \A s \in servers, m \in submems :
                   /\ ~ServerEndWriting(t, s, m) /\ ~ServerEndWritingNull(t, s, m)
                   /\ ~ServerDisconnect(t, s, m)
  BY <1>8, <1>9, <1>10, <1>12, <1>14 DEF Gains, Losses
<1>15. QED
  BY <1>4, <1>11, <1>13, <1>14 DEF Next, Quiet

-----------------------------------------------------------------------------
(* find_server_by_name runs before server_create, in the same call.        *)
LEMMA NamesStep ==
    ASSUME IInv, ConstantsAssumption, NamesUnique, [Next]_vars PROVE NamesUnique'
<1>1. TypeOK /\ OwnersRegistered
  BY DEF IInv
<1>2. ASSUME servers' \subseteq servers,
             \A i \in servers' : server'[i].name = server[i].name
      PROVE  NamesUnique'
  BY <1>2 DEF NamesUnique
<1>3. ASSUME NEW t \in Task, RegisterClient(t) PROVE NamesUnique'
  BY <1>2, <1>3 DEF RegisterClient
<1>4. ASSUME NEW t \in Task, NEW n \in Name, RegisterServer(t, n) PROVE NamesUnique'
  <2>1. PICK s \in Id :
          /\ servers' = servers \cup {s}
          /\ server' = [server EXCEPT ![s] = [name |-> n, task |-> t, conns |-> {}]]
    BY <1>4 DEF RegisterServer
  <2>2. \A i \in servers : server[i].name # n
    BY <1>4 DEF RegisterServer, ServersNamed
  <2>3. server'[s].name = n /\ \A i \in servers \ {s} : server'[i].name = server[i].name
    BY <1>1, <2>1 DEF TypeOK
  <2>4. \A i \in servers' : i = s \/ (i \in servers \ {s} /\ server'[i].name # n)
    BY <2>1, <2>2, <2>3
  <2>. QED
    BY <2>3, <2>4 DEF NamesUnique
<1>5. ASSUME NEW t \in Task, NEW k \in clients, ClientUnregister(t, k) PROVE NamesUnique'
  <2>1. client[k].conn \in conns /\ Unlink(client[k].conn)
    BY <1>5 DEF ClientUnregister, Connected, IInv, PointersAgree
  <2>2. \A i \in Id : server'[i].name = server[i].name
    BY <2>1, UnlinkEffect DEF IInv
  <2>. QED
    BY <1>1, <1>2, <1>5, <2>2 DEF ClientUnregister, TypeOK
<1>6. CASE UnregisterFinish
  BY <1>1, <1>2, <1>6 DEF UnregisterFinish, TypeOK
<1>7. CASE ReleaseFinish
  BY <1>1, <1>2, <1>7 DEF ReleaseFinish, TypeOK
<1>8. CASE OwnersSame
  BY <1>2, <1>8 DEF OwnersSame
<1>9. QED
  BY <1>3, <1>4, <1>5, <1>6, <1>7, <1>8, StepKinds DEF Gains, Losses

(* The counters move with the lists, whichever of the two paths removes.   *)
LEMMA CountsStep ==
    ASSUME IInv, ConstantsAssumption, CountsKept, [Next]_vars PROVE CountsKept'
<1>1. TypeOK /\ PointersAgree /\ OwnersRegistered
  BY DEF IInv
<1>2. \A u : /\ IsFiniteSet(OwnServers(u)) /\ IsFiniteSet(OwnClients(u))
             /\ Cardinality(OwnServers(u)) \in Nat /\ Cardinality(OwnClients(u)) \in Nat
  BY <1>1, OwnFinite, FS_CardinalityType
<1>3. CASE OwnersSame
  <2>1. \A u \in Task : OwnServers(u)' = OwnServers(u) /\ OwnClients(u)' = OwnClients(u)
    BY <1>3 DEF OwnersSame, OwnServers, OwnClients
  <2>. QED
    BY <1>3, <2>1 DEF CountsKept, OwnersSame
<1>4. ASSUME NEW t \in Task, RegisterClient(t) PROVE CountsKept'
  <2>1. PICK k \in Id :
          /\ IsLowestFree(k) /\ clients' = clients \cup {k}
          /\ client' = [client EXCEPT ![k] = [task |-> t, conn |-> NULL]]
    BY <1>4 DEF RegisterClient
  <2>2. k \notin clients
    BY <2>1 DEF IInv, IdsExact, IsLowestFree
  <2>3. client'[k].task = t /\ \A i \in clients : client'[i] = client[i]
    BY <1>1, <2>1, <2>2 DEF TypeOK
  <2>4. \A u \in Task : OwnServers(u)' = OwnServers(u)
    BY <1>4 DEF RegisterClient, OwnServers
  <2>5. \A u \in Task : OwnClients(u)' = IF u = t THEN OwnClients(u) \cup {k} ELSE OwnClients(u)
    BY <2>1, <2>2, <2>3 DEF OwnClients
  <2>6. Cardinality(OwnClients(t) \cup {k}) = Cardinality(OwnClients(t)) + 1
    <3>1. k \notin OwnClients(t)
      BY <2>2 DEF OwnClients
    <3>. QED
      BY <1>2, <3>1, FS_AddElement
  <2>7. \A u \in Task : /\ count'[u].servers = count[u].servers
                        /\ count'[u].clients = IF u = t THEN count[u].clients + 1
                                                         ELSE count[u].clients
    <3>1. count' = [count EXCEPT ![t].clients = @ + 1]
      BY <1>4 DEF RegisterClient
    <3>2. count \in [Task -> [servers : Int, clients : Int]]
      BY <1>1 DEF TypeOK
    <3>. QED
      BY <3>1, <3>2
  <2>8. count[t].clients + 1 <= MAX_CLIENTS_PER_PID
    BY <1>2, <1>4 DEF RegisterClient, CanAddClient, CountsKept, ConstantsAssumption
  <2>9. ASSUME NEW u \in Task
        PROVE  /\ count'[u].servers = Cardinality(OwnServers(u)')
               /\ count'[u].clients = Cardinality(OwnClients(u)')
               /\ count'[u].servers <= MAX_SERVERS_PER_PID
               /\ count'[u].clients <= MAX_CLIENTS_PER_PID
    <3>1. CASE u = t
      BY <2>4, <2>5, <2>6, <2>7, <2>8, <3>1 DEF CountsKept
    <3>2. CASE u # t
      BY <2>4, <2>5, <2>7, <3>2 DEF CountsKept
    <3>. QED
      BY <3>1, <3>2
  <2>. QED
    BY <2>9 DEF CountsKept
<1>5. ASSUME NEW t \in Task, NEW n \in Name, RegisterServer(t, n) PROVE CountsKept'
  <2>1. PICK s \in Id :
          /\ IsLowestFree(s) /\ servers' = servers \cup {s}
          /\ server' = [server EXCEPT ![s] = [name |-> n, task |-> t, conns |-> {}]]
    BY <1>5 DEF RegisterServer
  <2>2. s \notin servers
    BY <2>1 DEF IInv, IdsExact, IsLowestFree
  <2>3. server'[s].task = t /\ \A i \in servers : server'[i] = server[i]
    BY <1>1, <2>1, <2>2 DEF TypeOK
  <2>4. \A u \in Task : OwnClients(u)' = OwnClients(u)
    BY <1>5 DEF RegisterServer, OwnClients
  <2>5. \A u \in Task : OwnServers(u)' = IF u = t THEN OwnServers(u) \cup {s} ELSE OwnServers(u)
    BY <2>1, <2>2, <2>3 DEF OwnServers
  <2>6. Cardinality(OwnServers(t) \cup {s}) = Cardinality(OwnServers(t)) + 1
    <3>1. s \notin OwnServers(t)
      BY <2>2 DEF OwnServers
    <3>. QED
      BY <1>2, <3>1, FS_AddElement
  <2>7. \A u \in Task : /\ count'[u].clients = count[u].clients
                        /\ count'[u].servers = IF u = t THEN count[u].servers + 1
                                                         ELSE count[u].servers
    <3>1. count' = [count EXCEPT ![t].servers = @ + 1]
      BY <1>5 DEF RegisterServer
    <3>2. count \in [Task -> [servers : Int, clients : Int]]
      BY <1>1 DEF TypeOK
    <3>. QED
      BY <3>1, <3>2
  <2>8. count[t].servers + 1 <= MAX_SERVERS_PER_PID
    BY <1>2, <1>5 DEF RegisterServer, CanAddServer, CountsKept, ConstantsAssumption
  <2>9. ASSUME NEW u \in Task
        PROVE  /\ count'[u].servers = Cardinality(OwnServers(u)')
               /\ count'[u].clients = Cardinality(OwnClients(u)')
               /\ count'[u].servers <= MAX_SERVERS_PER_PID
               /\ count'[u].clients <= MAX_CLIENTS_PER_PID
    <3>1. CASE u = t
      BY <2>4, <2>5, <2>6, <2>7, <2>8, <3>1 DEF CountsKept
    <3>2. CASE u # t
      BY <2>4, <2>5, <2>7, <3>2 DEF CountsKept
    <3>. QED
      BY <3>1, <3>2
  <2>. QED
    BY <2>9 DEF CountsKept
<1>6. ASSUME NEW t \in Task, NEW k \in clients, ClientUnregister(t, k) PROVE CountsKept'
  <2>. DEFINE c == client[k].conn
              o == client[k].task
  <2>1. c \in conns /\ Unlink(c) /\ conn[c].client = k /\ k \in Id /\ o \in Task
    BY <1>1, <1>6 DEF ClientUnregister, Connected, PointersAgree, TypeOK, OwnersRegistered
  <2>2. \A i \in Id : /\ server'[i].task = server[i].task
                      /\ ClientsWithout(c)[i].task = client[i].task
    BY <1>1, <2>1, UnlinkEffect
  <2>3. \A i \in clients \ {k} : client'[i].task = client[i].task
    BY <1>1, <1>6, <2>1, <2>2 DEF ClientUnregister, ClientsWithout, TypeOK
  <2>4. \A u \in Task : OwnServers(u)' = OwnServers(u)
    BY <1>1, <1>6, <2>2 DEF ClientUnregister, OwnServers, TypeOK
  <2>5. \A u \in Task : OwnClients(u)' = IF u = o THEN OwnClients(u) \ {k} ELSE OwnClients(u)
    BY <1>6, <2>3 DEF ClientUnregister, OwnClients
  <2>6. Cardinality(OwnClients(o) \ {k}) = Cardinality(OwnClients(o)) - 1
    <3>1. k \in OwnClients(o)
      BY DEF OwnClients
    <3>. QED
      BY <1>2, <3>1, FS_RemoveElement
  <2>7. \A u \in Task : /\ count'[u].servers = count[u].servers
                        /\ count'[u].clients = IF u = o THEN count[u].clients - 1
                                                         ELSE count[u].clients
    <3>1. count' = [count EXCEPT ![o].clients = @ - 1]
      BY <1>6 DEF ClientUnregister
    <3>2. count \in [Task -> [servers : Int, clients : Int]]
      BY <1>1 DEF TypeOK
    <3>. HIDE DEF o
    <3>. QED
      BY <3>1, <3>2
  <2>. HIDE DEF c, o
  <2>8. /\ MAX_CLIENTS_PER_PID \in Nat /\ count[o].clients \in Nat
        /\ count[o].servers = Cardinality(OwnServers(o))
        /\ count[o].clients = Cardinality(OwnClients(o))
        /\ count[o].servers <= MAX_SERVERS_PER_PID
        /\ count[o].clients <= MAX_CLIENTS_PER_PID
    BY <1>2, <2>1, LimitsNat DEF CountsKept
  <2>9. ASSUME NEW u \in Task
        PROVE  /\ count'[u].servers = Cardinality(OwnServers(u)')
               /\ count'[u].clients = Cardinality(OwnClients(u)')
               /\ count'[u].servers <= MAX_SERVERS_PER_PID
               /\ count'[u].clients <= MAX_CLIENTS_PER_PID
    <3>1. CASE u = o
      <4>1. /\ OwnServers(u)' = OwnServers(o) /\ OwnClients(u)' = OwnClients(o) \ {k}
            /\ count'[u].servers = count[o].servers
            /\ count'[u].clients = count[o].clients - 1
        BY <2>4, <2>5, <2>7, <3>1
      <4>. QED
        BY <2>6, <2>8, <4>1
    <3>2. CASE u # o
      BY <2>4, <2>5, <2>7, <3>2 DEF CountsKept
    <3>. QED
      BY <3>1, <3>2
  <2>. QED
    BY <2>9 DEF CountsKept
<1>7. CASE UnregisterFinish
  <2>. DEFINE s == op.srv
              o == op.task
  <2>1. s \in servers /\ s \in Id /\ server[s].task = o /\ o \in Task
    BY <1>1, <1>7 DEF UnregisterFinish, OwnersRegistered, TypeOK
  <2>2. servers' = servers \ {s} /\ \A i \in servers' : server'[i] = server[i]
    BY <1>1, <1>7 DEF UnregisterFinish, TypeOK
  <2>3. \A u \in Task : OwnClients(u)' = OwnClients(u)
    BY <1>7 DEF UnregisterFinish, OwnClients
  <2>4. \A u \in Task : OwnServers(u)' = IF u = o THEN OwnServers(u) \ {s} ELSE OwnServers(u)
    BY <2>1, <2>2 DEF OwnServers
  <2>5. Cardinality(OwnServers(o) \ {s}) = Cardinality(OwnServers(o)) - 1
    BY <1>2, <2>1, FS_RemoveElement DEF OwnServers
  <2>6. \A u \in Task : /\ count'[u].clients = count[u].clients
                        /\ count'[u].servers = IF u = o THEN count[u].servers - 1
                                                         ELSE count[u].servers
    BY <1>1, <1>7 DEF UnregisterFinish, TypeOK
  <2>. HIDE DEF s, o
  <2>7. /\ MAX_SERVERS_PER_PID \in Nat /\ count[o].servers \in Nat
        /\ count[o].servers = Cardinality(OwnServers(o))
        /\ count[o].clients = Cardinality(OwnClients(o))
        /\ count[o].servers <= MAX_SERVERS_PER_PID
        /\ count[o].clients <= MAX_CLIENTS_PER_PID
    BY <1>2, <2>1, LimitsNat DEF CountsKept
  <2>8. ASSUME NEW u \in Task
        PROVE  /\ count'[u].servers = Cardinality(OwnServers(u)')
               /\ count'[u].clients = Cardinality(OwnClients(u)')
               /\ count'[u].servers <= MAX_SERVERS_PER_PID
               /\ count'[u].clients <= MAX_CLIENTS_PER_PID
    <3>1. CASE u = o
      <4>1. /\ OwnServers(u)' = OwnServers(o) \ {s} /\ OwnClients(u)' = OwnClients(o)
            /\ count'[u].servers = count[o].servers - 1
            /\ count'[u].clients = count[o].clients
        BY <2>3, <2>4, <2>6, <3>1
      <4>. QED
        BY <2>5, <2>7, <4>1
    <3>2. CASE u # o
      BY <2>3, <2>4, <2>6, <3>2 DEF CountsKept
    <3>. QED
      BY <3>1, <3>2
  <2>. QED
    BY <2>8 DEF CountsKept
<1>8. CASE ReleaseFinish
  <2>. DEFINE o == op.task
  <2>1. /\ servers' = servers \ OwnServers(o) /\ clients' = clients \ OwnClients(o)
        /\ \A i \in servers' : server'[i] = server[i]
        /\ \A i \in clients' : client'[i] = client[i]
    BY <1>1, <1>8 DEF ReleaseFinish, TypeOK
  <2>2. \A u \in Task : /\ OwnServers(u)' = IF u = o THEN {} ELSE OwnServers(u)
                        /\ OwnClients(u)' = IF u = o THEN {} ELSE OwnClients(u)
    <3>1. \A i \in servers' : server'[i].task # o
      BY <2>1 DEF OwnServers
    <3>2. \A i \in clients' : client'[i].task # o
      BY <2>1 DEF OwnClients
    <3>3. \A i \in servers : i \notin servers' => server[i].task = o
      BY <2>1 DEF OwnServers
    <3>4. \A i \in clients : i \notin clients' => client[i].task = o
      BY <2>1 DEF OwnClients
    <3>. HIDE DEF o
    <3>5. ASSUME NEW u \in Task
          PROVE  OwnServers(u)' = IF u = o THEN {} ELSE OwnServers(u)
      <4>1. CASE u = o
        BY <3>1, <4>1 DEF OwnServers
      <4>2. CASE u # o
        BY <2>1, <3>3, <4>2 DEF OwnServers
      <4>. QED
        BY <4>1, <4>2
    <3>6. ASSUME NEW u \in Task
          PROVE  OwnClients(u)' = IF u = o THEN {} ELSE OwnClients(u)
      <4>1. CASE u = o
        BY <3>2, <4>1 DEF OwnClients
      <4>2. CASE u # o
        BY <2>1, <3>4, <4>2 DEF OwnClients
      <4>. QED
        BY <4>1, <4>2
    <3>. QED
      BY <3>5, <3>6
  <2>3. \A u \in Task : count'[u] = IF u = o THEN [servers |-> 0, clients |-> 0] ELSE count[u]
    BY <1>1, <1>8 DEF ReleaseFinish, TypeOK
  <2>4. Cardinality({}) = 0
    BY FS_EmptySet
  <2>. HIDE DEF o
  <2>5. ASSUME NEW u \in Task
        PROVE  /\ count'[u].servers = Cardinality(OwnServers(u)')
               /\ count'[u].clients = Cardinality(OwnClients(u)')
               /\ count'[u].servers <= MAX_SERVERS_PER_PID
               /\ count'[u].clients <= MAX_CLIENTS_PER_PID
    <3>1. CASE u = o
      <4>1. OwnServers(u)' = {} /\ OwnClients(u)' = {}
        BY <2>2, <3>1
      <4>2. count'[u].servers = 0 /\ count'[u].clients = 0
        BY <2>3, <3>1
      <4>. QED
        BY <2>4, <4>1, <4>2, LimitsNat
    <3>2. CASE u # o
      <4>1. OwnServers(u)' = OwnServers(u) /\ OwnClients(u)' = OwnClients(u)
        BY <2>2, <3>2
      <4>2. count'[u] = count[u]
        BY <2>3, <3>2
      <4>. QED
        BY <4>1, <4>2 DEF CountsKept
    <3>. QED
      BY <3>1, <3>2
  <2>. QED
    BY <2>5 DEF CountsKept
<1>9. QED
  BY <1>3, <1>4, <1>5, <1>6, <1>7, <1>8, StepKinds DEF Gains, Losses

(* A monitor keeps both of its promises: nobody else becomes one, and it   *)
(* registers nothing.                                                      *)
LEMMA MonitorKeptStep ==
    ASSUME IInv, ConstantsAssumption, CountsKept, MonitorKept, [Next]_vars
    PROVE  MonitorKept'
<1>1. TypeOK /\ PointersAgree /\ OwnersRegistered /\ opened \subseteq tasks
  BY DEF IInv, OpenTasks
<1>2. ASSUME OwnersSame
      PROVE  \A u : OwnServers(u)' = OwnServers(u) /\ OwnClients(u)' = OwnClients(u)
  BY <1>2 DEF OwnersSame, OwnServers, OwnClients
<1>3. CASE OwnersSame /\ monitor' = monitor /\ tasks \subseteq tasks'
  BY <1>2, <1>3 DEF MonitorKept
<1>4. ASSUME OwnersSame, NEW t \in Task, RegisterMonitor(t) PROVE MonitorKept'
  <2>1. monitor = {} /\ monitor' = {t} /\ t \in tasks'
    BY <1>1, <1>4 DEF RegisterMonitor, MonitorExists, MonitorKept, Call
  <2>2. OwnServers(t) = {} /\ OwnClients(t) = {}
    <3>1. Cardinality(OwnServers(t)) <= 0 /\ Cardinality(OwnClients(t)) <= 0
      BY <1>4 DEF RegisterMonitor, CountsKept
    <3>2. /\ IsFiniteSet(OwnServers(t)) /\ IsFiniteSet(OwnClients(t))
          /\ Cardinality(OwnServers(t)) \in Nat /\ Cardinality(OwnClients(t)) \in Nat
      BY <1>1, OwnFinite, FS_CardinalityType
    <3>3. Cardinality(OwnServers(t)) = 0 /\ Cardinality(OwnClients(t)) = 0
      BY <3>1, <3>2
    <3>. QED
      BY <3>2, <3>3, FS_EmptySet
  <2>. QED
    BY <1>2, <1>4, <2>1, <2>2 DEF MonitorKept
<1>5. ASSUME NEW t \in Task, RegisterClient(t) PROVE MonitorKept'
  <2>1. t \notin monitor /\ monitor' = monitor /\ tasks' = tasks
    BY <1>5 DEF RegisterClient, CanAddClient
  <2>2. \A u \in monitor : OwnServers(u)' = OwnServers(u) /\ OwnClients(u)' = OwnClients(u)
    <3>1. PICK k \in Id :
            /\ k \notin clients /\ clients' = clients \cup {k}
            /\ client' = [client EXCEPT ![k] = [task |-> t, conn |-> NULL]]
      BY <1>5 DEF RegisterClient, IInv, IdsExact, IsLowestFree
    <3>2. client'[k].task = t /\ \A i \in clients : client'[i] = client[i]
      BY <1>1, <3>1 DEF TypeOK
    <3>. QED
      BY <1>5, <2>1, <3>1, <3>2 DEF OwnServers, OwnClients, RegisterClient
  <2>. QED
    BY <2>1, <2>2 DEF MonitorKept
<1>6. ASSUME NEW t \in Task, NEW n \in Name, RegisterServer(t, n) PROVE MonitorKept'
  <2>1. t \notin monitor /\ monitor' = monitor /\ tasks' = tasks
    BY <1>6 DEF RegisterServer, CanAddServer
  <2>2. \A u \in monitor : OwnServers(u)' = OwnServers(u) /\ OwnClients(u)' = OwnClients(u)
    <3>1. PICK s \in Id :
            /\ s \notin servers /\ servers' = servers \cup {s}
            /\ server' = [server EXCEPT ![s] = [name |-> n, task |-> t, conns |-> {}]]
      BY <1>6 DEF RegisterServer, IInv, IdsExact, IsLowestFree
    <3>2. server'[s].task = t /\ \A i \in servers : server'[i] = server[i]
      BY <1>1, <3>1 DEF TypeOK
    <3>. QED
      BY <1>6, <2>1, <3>1, <3>2 DEF OwnServers, OwnClients, RegisterServer
  <2>. QED
    BY <2>1, <2>2 DEF MonitorKept
<1>7. ASSUME \A u \in Task : /\ OwnServers(u)' \subseteq OwnServers(u)
                             /\ OwnClients(u)' \subseteq OwnClients(u),
             monitor' \subseteq monitor, monitor' \subseteq tasks'
      PROVE  MonitorKept'
  BY <1>1, <1>7 DEF MonitorKept, TypeOK
<1>8. ASSUME NEW t \in Task, NEW k \in clients, ClientUnregister(t, k) PROVE MonitorKept'
  <2>. DEFINE c == client[k].conn
  <2>1. c \in conns /\ Unlink(c) /\ conn[c].client = k /\ k \in Id
    BY <1>1, <1>8 DEF ClientUnregister, Connected, PointersAgree, TypeOK
  <2>2. \A i \in Id : /\ server'[i].task = server[i].task
                      /\ ClientsWithout(c)[i].task = client[i].task
    BY <1>1, <2>1, UnlinkEffect
  <2>3. \A i \in clients \ {k} : client'[i].task = client[i].task
    BY <1>1, <1>8, <2>1, <2>2 DEF ClientUnregister, ClientsWithout, TypeOK
  <2>4. \A u \in Task : OwnServers(u)' \subseteq OwnServers(u)
    BY <1>1, <1>8, <2>2 DEF ClientUnregister, OwnServers, TypeOK
  <2>5. \A u \in Task : OwnClients(u)' \subseteq OwnClients(u)
    BY <1>8, <2>3 DEF ClientUnregister, OwnClients
  <2>. QED
    BY <1>7, <1>8, <2>4, <2>5 DEF ClientUnregister, MonitorKept
<1>9. CASE UnregisterFinish
  <2>1. servers' = servers \ {op.srv} /\ \A i \in servers' : server'[i] = server[i]
    BY <1>1, <1>9 DEF UnregisterFinish, TypeOK
  <2>. QED
    BY <1>7, <1>9, <2>1 DEF UnregisterFinish, OwnServers, OwnClients, MonitorKept
<1>10. CASE ReleaseFinish
  <2>1. /\ servers' \subseteq servers /\ clients' \subseteq clients
        /\ \A i \in servers' : server'[i] = server[i]
        /\ \A i \in clients' : client'[i] = client[i]
    BY <1>1, <1>10 DEF ReleaseFinish, TypeOK
  <2>2. \A u \in Task : /\ OwnServers(u)' \subseteq OwnServers(u)
                        /\ OwnClients(u)' \subseteq OwnClients(u)
    BY <2>1 DEF OwnServers, OwnClients
  <2>. QED
    BY <1>7, <1>10, <2>2 DEF ReleaseFinish, MonitorKept
<1>11. QED
  BY <1>3, <1>4, <1>5, <1>6, <1>8, <1>9, <1>10, StepKinds DEF Gains, Losses

(* release takes the task off the list unless the opener has ended before. *)
LEMMA ReleasedStep ==
    ASSUME IInv, ConstantsAssumption, Released, [Next]_vars PROVE Released'
<1>1. TypeOK /\ OpenTasks
  BY DEF IInv
<1>2. ASSUME UNCHANGED <<taskVars, op>> PROVE Released'
  BY <1>2 DEF Released, taskVars
<1>3. ASSUME NEW t \in Task,
             \/ Open(t) \/ ThreadExit(t) \/ ReleaseStart(t) \/ ReleaseOrphan(t)
      PROVE  Released'
  BY <1>3 DEF Released, Open, ThreadExit, ReleaseStart, ReleaseOrphan, Call, NoOp
<1>4. ASSUME NEW s \in servers, NEW t \in Task, ServerUnregister(t, s) PROVE Released'
  BY <1>4 DEF Released, ServerUnregister, Call, NoOp, taskVars
<1>5. CASE UnregisterFinish
  BY <1>5 DEF Released, UnregisterFinish
<1>6. CASE ReleaseFinish
  BY <1>6 DEF Released, ReleaseFinish
<1>7. ASSUME UnregisterConn \/ ReleaseServerConn \/ ReleaseClientConn PROVE Released'
  BY <1>2, <1>7 DEF UnregisterConn, ReleaseServerConn, ReleaseClientConn
<1>8. ASSUME NEW t \in Task, NEW k \in clients,
             \/ ClientMmap(t, k) \/ ClientEndWriting(t, k) \/ ClientDisconnect(t, k)
             \/ \E n \in Name : Connect(t, k, n)
      PROVE  Released'
  BY <1>2, <1>8 DEF ClientMmap, ClientEndWriting, ClientDisconnect, Connect
<1>9. ASSUME NEW t \in Task, NEW s \in servers, NEW m \in submems,
             \/ ServerEndWriting(t, s, m) \/ ServerEndWritingNull(t, s, m)
             \/ ServerDisconnect(t, s, m)
      PROVE  Released'
  BY <1>2, <1>9 DEF ServerEndWriting, ServerEndWritingNull, ServerDisconnect
<1>10. ASSUME UNCHANGED <<tasks, opened, alive, op>> PROVE Released'
  BY <1>10 DEF Released
<1>11. ASSUME NEW t \in Task,
              \/ RegisterClient(t) \/ RegisterMonitor(t) \/ Read(t)
              \/ \E n \in Name : RegisterServer(t, n)
              \/ \E k \in clients : ClientUnregister(t, k)
       PROVE  Released'
  BY <1>10, <1>11 DEF RegisterClient, RegisterMonitor, Read,
       RegisterServer, ClientUnregister, taskVars
<1>12. CASE UNCHANGED vars
  BY <1>2, <1>12 DEF vars
<1>13. QED
  BY <1>3, <1>4, <1>5, <1>6, <1>7, <1>8, <1>9, <1>11, <1>12 DEF Next, OpStep

-----------------------------------------------------------------------------
(* Before anything is opened the limits are kept.                          *)
LEMMA InitLimits == ASSUME ConstantsAssumption, Init PROVE Limits
<1>1. \A t : OwnServers(t) = {} /\ OwnClients(t) = {}
  BY DEF Init, OwnServers, OwnClients
<1>2. Cardinality({}) = 0
  BY FS_EmptySet
<1>3. CountsKept
  <2>1. \A t \in Task : count[t].servers = 0 /\ count[t].clients = 0
    BY DEF Init
  <2>. QED
    BY <1>1, <1>2, <2>1, LimitsNat DEF CountsKept
<1>4. QED
  BY <1>3 DEF Init, Limits, NamesUnique, MonitorKept, Released

(* Names, counters, the monitor and releases stay right together.          *)
THEOREM LimitsKept == Spec => []Limits
<1>1. Init => Limits
  BY ConstantsAssumption, InitLimits
<1>2. IInv /\ Limits /\ [Next]_vars => Limits'
  BY ConstantsAssumption, NamesStep, CountsStep, MonitorKeptStep, ReleasedStep DEF Limits
<1>3. QED
  BY <1>1, <1>2, InductiveInvariant, PTL DEF Spec

(* No two servers have one name, so find_server_by_name finds the only one.*)
THEOREM NameFindsOneServer == Spec => []NamesUnique
<1>1. Limits => NamesUnique
  BY DEF Limits
<1>2. QED
  BY <1>1, LimitsKept, PTL

(* The counters of every registered task are the lengths of its lists, and *)
(* both are within the limits of ripc.h.                                   *)
THEOREM CountersExact == Spec => []CountsExact
<1>1. IInv /\ Limits => CountsExact
  BY DEF Limits, CountsKept, CountsExact, IInv, TypeOK
<1>2. QED
  BY <1>1, LimitsKept, InductiveInvariant, PTL

(* There is at most one monitor and it has no servers and no clients.      *)
THEOREM OneMonitor == Spec => []MonitorAlone
<1>1. ASSUME MonitorKept PROVE MonitorAlone
  <2>1. ASSUME monitor = {} PROVE Cardinality(monitor) = 0
    BY <2>1, FS_EmptySet
  <2>2. ASSUME NEW t \in monitor PROVE Cardinality(monitor) = 1
    <3>1. monitor = {t}
      BY <1>1 DEF MonitorKept
    <3>. QED
      BY <3>1, FS_Singleton
  <2>3. Cardinality(monitor) <= 1
    BY <2>1, <2>2, FS_EmptySet
  <2>. QED
    BY <1>1, <2>3 DEF MonitorKept, MonitorAlone
<1>2. Limits => MonitorAlone
  BY <1>1 DEF Limits
<1>3. QED
  BY <1>2, LimitsKept, PTL

(* A task whose file was closed by a living opener is gone, unless its     *)
(* release is still under way.                                             *)
THEOREM ReleaseLeavesNothing == Spec => []ReleaseClean
<1>1. Limits => ReleaseClean
  BY DEF Limits, Released, ReleaseClean
<1>2. QED
  BY <1>1, LimitsKept, PTL

-----------------------------------------------------------------------------
(* Pools.  When a pool is made every sub-area is in use, each by a         *)
(* connection of its own, and one address is still free.                   *)
LEMMA PoolMade ==
    ASSUME IInv, ConstantsAssumption, IsFiniteSet(Conn),
           NEW m \in Id, NEW c \in Conn \ conns, CreatePool(m, c),
           Cardinality(submems) = SHM_POOL_SIZE * Cardinality(pools)
    PROVE  PoolsBounded'
<1>1. TypeOK /\ PointersAgree /\ IdsExact /\ SHM_POOL_SIZE \in Nat /\ SHM_POOL_SIZE > 0
  BY DEF IInv, ConstantsAssumption
<1>2. /\ IsFiniteSet(Id) /\ IsFiniteSet(submems) /\ IsFiniteSet(pools)
      /\ Cardinality(submems) \in Nat /\ Cardinality(pools) \in Nat
  <2>1. IsFiniteSet(Id)
    BY FS_Interval DEF Id, ConstantsAssumption
  <2>2. IsFiniteSet(submems) /\ IsFiniteSet(pools)
    BY <1>1, <2>1, FS_Subset DEF TypeOK
  <2>. QED
    BY <2>1, <2>2, FS_CardinalityType
<1>3. Cardinality(submems) < Cardinality(Conn)
  <2>. DEFINE f == [i \in submems |-> submem[i].conn]
  <2>1. \A i \in submems : submem[i].conn \in conns /\ conn[submem[i].conn].mem = i
    BY <1>1 DEF CreatePool, FreeSubmems, PointersAgree
  <2>2. f \in [submems -> conns] /\ \A i, j \in submems : f[i] = f[j] => i = j
    BY <2>1
  <2>3. f \in Injection(submems, conns)
    BY <2>2 DEF Injection, IsInjective
  <2>4. IsFiniteSet(Conn \ {c}) /\ Cardinality(Conn \ {c}) = Cardinality(Conn) - 1
    BY FS_RemoveElement
  <2>5. IsFiniteSet(conns) /\ Cardinality(conns) <= Cardinality(Conn \ {c})
    <3>1. conns \subseteq Conn \ {c}
      BY <1>1 DEF TypeOK
    <3>. QED
      BY <2>4, <3>1, FS_Subset
  <2>6. Cardinality(submems) <= Cardinality(conns)
    <3>. HIDE DEF f
    <3>. QED
      BY <2>3, <2>5, FS_Injection
  <2>7. Cardinality(Conn) \in Nat /\ Cardinality(conns) \in Nat
    BY <2>5, FS_CardinalityType
  <2>. QED
    BY <1>2, <2>4, <2>5, <2>6, <2>7
<1>4. PICK I \in SUBSET Id : \E p \in I :
        /\ AreLowestFree(I, SHM_POOL_SIZE + 1)
        /\ pools' = pools \cup {p}
        /\ submems' = submems \cup (I \ {p})
  BY DEF CreatePool
<1>5. PICK p \in I :
        /\ AreLowestFree(I, SHM_POOL_SIZE + 1)
        /\ pools' = pools \cup {p}
        /\ submems' = submems \cup (I \ {p})
  BY <1>4
<1>6. p \notin pools /\ submems \cap (I \ {p}) = {}
  BY <1>1, <1>5 DEF AreLowestFree, IdsExact
<1>7. Cardinality(pools') = Cardinality(pools) + 1
  BY <1>2, <1>5, <1>6, FS_AddElement
<1>8. IsFiniteSet(I \ {p}) /\ Cardinality(I \ {p}) = SHM_POOL_SIZE
  <2>1. IsFiniteSet(I) /\ Cardinality(I) = SHM_POOL_SIZE + 1
    BY <1>2, <1>5, FS_Subset DEF AreLowestFree
  <2>2. Cardinality(I \ {p}) = (SHM_POOL_SIZE + 1) - 1 /\ IsFiniteSet(I \ {p})
    BY <2>1, FS_RemoveElement
  <2>. QED
    BY <1>1, <2>2
<1>9. Cardinality(submems') = Cardinality(submems) + SHM_POOL_SIZE
  <2>1. /\ Cardinality(submems \cup (I \ {p}))
            = Cardinality(submems) + Cardinality(I \ {p}) - Cardinality(submems \cap (I \ {p}))
    BY <1>2, <1>8, FS_Union
  <2>2. Cardinality(submems \cap (I \ {p})) = 0
    BY <1>6, FS_EmptySet
  <2>. QED
    BY <1>1, <1>2, <1>5, <1>8, <2>1, <2>2
<1>10. Cardinality(Conn) \in Nat
  BY FS_CardinalityType
<1>11. SHM_POOL_SIZE * (Cardinality(pools) + 1) = SHM_POOL_SIZE * Cardinality(pools) + SHM_POOL_SIZE
  BY <1>1, <1>2
<1>12. QED
  BY <1>1, <1>2, <1>3, <1>7, <1>9, <1>10, <1>11 DEF PoolsBounded

(* There are never more sub-areas than the largest possible number of      *)
(* connections, rounded up to whole pools.                                 *)
THEOREM PoolsStayBounded ==
    ASSUME IsFiniteSet(Conn) PROVE Spec => []PoolsBounded
<1>1. Init => PoolsBounded
  <2>1. ASSUME Init PROVE Cardinality(submems) = 0 /\ Cardinality(pools) = 0
    BY <2>1, FS_EmptySet DEF Init
  <2>2. Cardinality(Conn) \in Nat /\ SHM_POOL_SIZE \in Nat /\ SHM_POOL_SIZE > 0
    BY ConstantsAssumption, FS_CardinalityType DEF ConstantsAssumption
  <2>. QED
    BY <2>1, <2>2 DEF PoolsBounded
<1>2. ASSUME IInv, PoolsBounded, [Next]_vars PROVE PoolsBounded'
  <2>1. CASE UNCHANGED <<pools, submems>>
    BY <1>2, <2>1 DEF PoolsBounded
  <2>2. ASSUME NEW t \in Task, NEW k \in clients, NEW n \in Name, Connect(t, k, n)
        PROVE  PoolsBounded'
    <3>1. PICK m \in Id, c \in Conn \ conns : TakeSubmem(m, c) \/ CreatePool(m, c)
      BY <2>2 DEF Connect
    <3>2. CASE TakeSubmem(m, c)
      BY <2>1, <3>2 DEF TakeSubmem, memVars
    <3>3. CASE CreatePool(m, c)
      BY <1>2, <3>3, PoolMade, ConstantsAssumption DEF PoolsBounded
    <3>. QED
      BY <3>1, <3>2, <3>3
  <2>3. ASSUME ~(\E t \in Task, k \in clients, n \in Name : Connect(t, k, n))
        PROVE  UNCHANGED <<pools, submems>>
    BY <1>2, <2>3 DEF Next, OpStep, UnregisterConn, UnregisterFinish, ReleaseServerConn,
         ReleaseClientConn, ReleaseFinish, Open, ThreadExit, ReleaseStart, ReleaseOrphan,
         RegisterClient, RegisterMonitor, Read,
         RegisterServer, ClientMmap, ClientEndWriting, ClientDisconnect, ClientUnregister,
         ServerUnregister, ServerEndWriting, ServerEndWritingNull, ServerDisconnect,
         memVars, vars
  <2>. QED
    BY <2>1, <2>2, <2>3
<1>3. QED
  BY <1>1, <1>2, InductiveInvariant, PTL DEF Spec

-----------------------------------------------------------------------------
(* Announcements.                                                          *)

Holds(queues, t, n) == \E i \in 1..Len(queues[t]) : queues[t][i] = n

(* A notification reaches its receiver and displaces none.                 *)
LEMMA SendTells ==
    ASSUME TypeOK, PointersAgree, OwnersRegistered,
           NEW c \in conns,
           NEW who \in {"SERVER", "CLIENT"}, NEW other \in {"SERVER", "CLIENT"},
           who # other,
           NEW q \in [Task -> Seq(Notification)]
    PROVE  LET r == notification_send(who, "REMOTE_DISCONNECT", c, q)
           IN  /\ r \in [Task -> Seq(Notification)]
               /\ Owner(c, other) \in Task
               /\ Holds(r, Owner(c, other), Note(who, "REMOTE_DISCONNECT", c))
               /\ \A t \in Task : \A n : Holds(q, t, n) => Holds(r, t, n)
<1>. DEFINE r == notification_send(who, "REMOTE_DISCONNECT", c, q)
            n == Note(who, "REMOTE_DISCONNECT", c)
            o == Owner(c, other)
<1>1. r \in [Task -> Seq(Notification)]
  BY SendType
<1>2. o \in Task
  BY DEF Owner, TypeOK, PointersAgree, OwnersRegistered
<1>3. r = [q EXCEPT ![o] = Append(@, n)]
  <2>1. other = IF who = "CLIENT" THEN "SERVER" ELSE "CLIENT"
    OBVIOUS
  <2>. QED
    BY <2>1 DEF notification_send, Enqueued
<1>. HIDE DEF r, n, o
<1>4. /\ q[o] \in Seq(Notification)
      /\ r[o] = Append(q[o], n)
      /\ \A t \in Task \ {o} : r[t] = q[t]
  BY <1>2, <1>3
<1>5. /\ Len(r[o]) = Len(q[o]) + 1 /\ Len(q[o]) \in Nat
      /\ r[o][Len(q[o]) + 1] = n
      /\ \A i \in 1..Len(q[o]) : r[o][i] = q[o][i]
  BY <1>4
<1>6. Holds(r, o, n)
  BY <1>5 DEF Holds
<1>7. ASSUME NEW t \in Task, NEW x, Holds(q, t, x) PROVE Holds(r, t, x)
  <2>1. CASE t = o
    <3>1. PICK i \in 1..Len(q[o]) : q[o][i] = x
      BY <1>7, <2>1 DEF Holds
    <3>2. i \in 1..Len(r[o]) /\ r[o][i] = x
      BY <1>5, <3>1
    <3>. QED
      BY <2>1, <3>2 DEF Holds
  <2>2. CASE t # o
    BY <1>4, <1>7, <2>2 DEF Holds
  <2>. QED
    BY <2>1, <2>2
<1>8. QED
  BY <1>1, <1>2, <1>6, <1>7 DEF r, n, o

(* So delete_connection tells both sides.                                  *)
BothTold(c) ==
    /\ Told(Owner(c, "CLIENT"), Note("SERVER", "REMOTE_DISCONNECT", c))
    /\ Told(Owner(c, "SERVER"), Note("CLIENT", "REMOTE_DISCONNECT", c))

(* delete_connection announces the end to both sides before it unlinks.    *)
LEMMA DeleteTells ==
    ASSUME IInv, NEW c \in conns, NEW q \in [Task -> Seq(Notification)],
           notif' = AnnounceDelete(c, q), Unlink(c)
    PROVE  \A d \in conns \ conns' : BothTold(d)
<1>1. TypeOK /\ PointersAgree /\ OwnersRegistered
  BY DEF IInv
<1>. DEFINE p == notification_send("SERVER", "REMOTE_DISCONNECT", c, q)
<1>2. /\ p \in [Task -> Seq(Notification)]
      /\ Owner(c, "CLIENT") \in Task
      /\ Holds(p, Owner(c, "CLIENT"), Note("SERVER", "REMOTE_DISCONNECT", c))
  BY <1>1, SendTells
<1>3. notif' = notification_send("CLIENT", "REMOTE_DISCONNECT", c, p)
  BY DEF AnnounceDelete
<1>. HIDE DEF p
<1>4. /\ Holds(notif', Owner(c, "SERVER"), Note("CLIENT", "REMOTE_DISCONNECT", c))
      /\ \A t \in Task : \A n : Holds(p, t, n) => Holds(notif', t, n)
  BY <1>1, <1>2, <1>3, SendTells
<1>5. BothTold(c)
  BY <1>2, <1>4 DEF BothTold, Told, Holds
<1>6. conns \ conns' \subseteq {c}
  BY DEF Unlink
<1>7. QED
  BY <1>5, <1>6

(* Whichever call ends a connection, both ends are told in the same step.  *)
THEOREM EndsAreAnnounced == Spec => EndIsAnnounced
<1>. DEFINE A == \A c \in conns \ conns' : BothTold(c)
<1>1. ASSUME IInv, [Next]_vars PROVE A
  <2>1. TypeOK /\ PointersAgree /\ OwnersRegistered /\ notif \in [Task -> Seq(Notification)]
    BY <1>1 DEF IInv, TypeOK
  <2>2. ASSUME conns \subseteq conns' PROVE A
    BY <2>2
  <2>3. ASSUME NEW c \in conns, NEW q \in [Task -> Seq(Notification)], delete_connection(c, q)
        PROVE  A
    BY <1>1, <2>3, DeleteTells DEF delete_connection
  <2>. HIDE DEF A
  <2>4. CASE UnregisterConn
    <3>1. PICK c \in server[op.srv].conns : delete_connection(c, notif)
      BY <2>4 DEF UnregisterConn
    <3>2. c \in conns
      BY <2>1, <2>4, <3>1 DEF UnregisterConn, OwnersRegistered, PointersAgree
    <3>. QED
      BY <2>1, <2>3, <3>1, <3>2
  <2>5. CASE ReleaseServerConn
    <3>1. PICK s \in OwnServers(op.task) : \E c \in server[s].conns : delete_connection(c, notif)
      BY <2>5 DEF ReleaseServerConn
    <3>2. PICK c \in server[s].conns : delete_connection(c, notif)
      BY <3>1
    <3>3. c \in conns
      BY <2>1, <3>1, <3>2 DEF OwnServers, PointersAgree
    <3>. QED
      BY <2>1, <2>3, <3>2, <3>3
  <2>6. CASE ReleaseClientConn
    <3>1. PICK k \in OwnClients(op.task) :
            client[k].conn # NULL /\ delete_connection(client[k].conn, notif)
      BY <2>6 DEF ReleaseClientConn
    <3>2. client[k].conn \in conns
      BY <2>1, <3>1 DEF OwnClients, PointersAgree
    <3>. QED
      BY <2>1, <2>3, <3>1, <3>2
  <2>7. ASSUME NEW t \in Task, NEW k \in clients, ClientDisconnect(t, k) \/ ClientUnregister(t, k)
        PROVE  A
    <3>. DEFINE c == client[k].conn
                q == notification_send("CLIENT", "REMOTE_DISCONNECT", c, notif)
    <3>1. c \in conns
      BY <2>1, <2>7 DEF ClientDisconnect, ClientUnregister, Connected, PointersAgree
    <3>2. notif' = AnnounceDelete(c, q) /\ Unlink(c)
      BY <2>7 DEF ClientDisconnect, ClientUnregister, delete_connection
    <3>. HIDE DEF c
    <3>3. q \in [Task -> Seq(Notification)]
      BY <2>1, <3>1, SendType
    <3>. HIDE DEF q
    <3>. QED
      BY <1>1, <3>1, <3>2, <3>3, DeleteTells DEF A
  <2>8. ASSUME NEW t \in Task, NEW s \in servers, NEW m \in submems, ServerDisconnect(t, s, m)
        PROVE  A
    <3>1. PICK c \in ConnsByMem(s, m) :
            delete_connection(c, notification_send("SERVER", "REMOTE_DISCONNECT", c, notif))
      BY <2>8 DEF ServerDisconnect
    <3>. DEFINE q == notification_send("SERVER", "REMOTE_DISCONNECT", c, notif)
    <3>2. c \in conns
      BY <2>1, <3>1 DEF ConnsByMem, PointersAgree
    <3>3. q \in [Task -> Seq(Notification)]
      BY <2>1, <3>2, SendType
    <3>4. delete_connection(c, q)
      BY <3>1
    <3>. HIDE DEF q
    <3>. QED
      BY <2>3, <3>2, <3>3, <3>4
  <2>9. CASE UNCHANGED vars \/ UnregisterFinish \/ ReleaseFinish
    BY <2>2, <2>9 DEF vars, UnregisterFinish, ReleaseFinish
  <2>10. ASSUME NEW t \in Task,
                \/ Open(t) \/ ThreadExit(t) \/ ReleaseStart(t) \/ ReleaseOrphan(t)
                \/ RegisterClient(t) \/ RegisterMonitor(t) \/ Read(t)
                \/ \E n \in Name : RegisterServer(t, n)
                \/ \E k \in clients, n \in Name : Connect(t, k, n)
                \/ \E k \in clients : ClientMmap(t, k) \/ ClientEndWriting(t, k)
                \/ \E s \in servers : ServerUnregister(t, s)
                \/ \E s \in servers, m \in submems :
                     ServerEndWriting(t, s, m) \/ ServerEndWritingNull(t, s, m)
         PROVE  A
    BY <2>2, <2>10 DEF Open, ThreadExit, ReleaseStart, ReleaseOrphan, RegisterClient,
         RegisterMonitor, Read, RegisterServer, Connect,
         ClientMmap, ClientEndWriting, ServerUnregister, ServerEndWriting,
         ServerEndWritingNull
  <2>11. QED
    BY <1>1, <2>4, <2>5, <2>6, <2>7, <2>8, <2>9, <2>10 DEF Next, OpStep
<1>2. IInv /\ [Next]_vars => [\A c \in conns \ conns' :
         /\ Told(Owner(c, "CLIENT"), Note("SERVER", "REMOTE_DISCONNECT", c))
         /\ Told(Owner(c, "SERVER"), Note("CLIENT", "REMOTE_DISCONNECT", c))]_vars
  BY <1>1 DEF BothTold
<1>3. QED
  BY <1>2, InductiveInvariant, PTL DEF Spec, EndIsAnnounced

-----------------------------------------------------------------------------
(* What a server hears last of a connection that its client has mapped.    *)

(* Whatever entry n there is in the queue, an entry m is behind it.        *)
Behind(queue, n, m) ==
    \A i \in 1..Len(queue) : queue[i] = n => \E j \in i+1..Len(queue) : queue[j] = m

Gone(c) == Note("CLIENT", "REMOTE_DISCONNECT", c)
Come(c) == Note("CLIENT", "NEW_CONNECTION", c)

(* The invariant that ServerLastWord needs: it speaks of the connections   *)
(* and not of what is queued, so that a step which queues nothing about a  *)
(* connection cannot break it.  The ids of c may have been those of a      *)
(* connection that is gone, whose REMOTE_DISCONNECT was not read yet.      *)
HeardLast ==
    \A c \in conns : conn[c].mmaped => Behind(notif[Owner(c, "SERVER")], Gone(c), Come(c))

(* An entry of another kind than n can be queued.                          *)
LEMMA BehindAppend ==
    ASSUME NEW S, NEW queue \in Seq(S), NEW n, NEW m, NEW x \in S,
           Behind(queue, n, m), x # n
    PROVE  Behind(Append(queue, x), n, m)
<1>1. /\ Len(Append(queue, x)) = Len(queue) + 1 /\ Len(queue) \in Nat
      /\ Append(queue, x)[Len(queue) + 1] = x
      /\ \A i \in 1..Len(queue) : Append(queue, x)[i] = queue[i]
  OBVIOUS
<1>. DEFINE r == Append(queue, x)
<1>. HIDE DEF r
<1>2. ASSUME NEW i \in 1..Len(r), r[i] = n PROVE \E j \in i+1..Len(r) : r[j] = m
  <2>1. i \in 1..Len(queue) /\ queue[i] = n
    BY <1>1, <1>2 DEF r
  <2>2. PICK j \in i+1..Len(queue) : queue[j] = m
    BY <2>1 DEF Behind
  <2>3. j \in i+1..Len(r) /\ r[j] = m
    BY <1>1, <2>1, <2>2 DEF r
  <2>. QED
    BY <2>3
<1>3. QED
  BY <1>2 DEF Behind, r

(* Behind m itself, every n has its m.                                     *)
LEMMA BehindLast ==
    ASSUME NEW S, NEW queue \in Seq(S), NEW n, NEW m \in S, n # m
    PROVE  Behind(Append(queue, m), n, m)
<1>1. /\ Len(Append(queue, m)) = Len(queue) + 1 /\ Len(queue) \in Nat
      /\ Append(queue, m)[Len(queue) + 1] = m
  OBVIOUS
<1>. DEFINE r == Append(queue, m)
<1>. HIDE DEF r
<1>2. ASSUME NEW i \in 1..Len(r), r[i] = n PROVE \E j \in i+1..Len(r) : r[j] = m
  <2>1. i # Len(queue) + 1
    BY <1>1, <1>2 DEF r
  <2>2. Len(queue) + 1 \in i+1..Len(r)
    BY <1>1, <2>1 DEF r
  <2>. QED
    BY <1>1, <2>2 DEF r
<1>3. QED
  BY <1>2 DEF Behind, r

(* Reading the head takes nothing from behind.                             *)
LEMMA BehindTail ==
    ASSUME NEW S, NEW queue \in Seq(S), NEW n, NEW m, queue # <<>>, Behind(queue, n, m)
    PROVE  Behind(Tail(queue), n, m)
<1>1. /\ Len(Tail(queue)) = Len(queue) - 1 /\ Len(queue) \in Nat
      /\ \A i \in 1..Len(queue)-1 : Tail(queue)[i] = queue[i + 1]
  OBVIOUS
<1>. DEFINE r == Tail(queue)
<1>. HIDE DEF r
<1>2. ASSUME NEW i \in 1..Len(r), r[i] = n PROVE \E j \in i+1..Len(r) : r[j] = m
  <2>1. i + 1 \in 1..Len(queue) /\ queue[i + 1] = n
    BY <1>1, <1>2 DEF r
  <2>2. PICK j \in i+2..Len(queue) : queue[j] = m
    <3>1. \E j \in (i + 1)+1..Len(queue) : queue[j] = m
      BY <2>1 DEF Behind
    <3>. QED
      BY <3>1
  <2>3. j - 1 \in i+1..Len(r) /\ r[j - 1] = m
    BY <1>1, <2>1, <2>2 DEF r
  <2>. QED
    BY <2>3
<1>3. QED
  BY <1>2 DEF Behind, r

(* Sending anything but a farewell of c keeps what is known of c.          *)
LEMMA SendKeepsBehind ==
    ASSUME TypeOK, PointersAgree, OwnersRegistered,
           NEW c \in conns, NEW d \in conns, NEW o \in Task,
           NEW who \in {"SERVER", "CLIENT"},
           NEW type \in {"NEW_CONNECTION", "NEW_MESSAGE", "REMOTE_DISCONNECT"},
           NEW q \in [Task -> Seq(Notification)],
           Note(who, type, d) # Gone(c), Behind(q[o], Gone(c), Come(c))
    PROVE  Behind(notification_send(who, type, d, q)[o], Gone(c), Come(c))
<1>. DEFINE x == Note(who, type, d)
            p == Owner(d, IF who = "CLIENT" THEN "SERVER" ELSE "CLIENT")
<1>1. x \in Notification
  <2>1. conn[d].client \in Id /\ conn[d].server \in Id /\ conn[d].mem \in Id
    BY DEF TypeOK, PointersAgree
  <2>. QED
    BY <2>1 DEF Note, Notification
<1>2. notification_send(who, type, d, q) = [q EXCEPT ![p] = Append(@, x)]
  BY DEF notification_send, Enqueued
<1>. HIDE DEF x, p
<1>3. CASE o = p
  <2>1. notification_send(who, type, d, q)[o] = Append(q[o], x)
    BY <1>2, <1>3
  <2>2. x # Gone(c)
    BY DEF x
  <2>. QED
    BY <1>1, <2>1, <2>2, BehindAppend
<1>4. CASE o # p
  BY <1>2, <1>4
<1>5. QED
  BY <1>3, <1>4

(* Two connections never speak of the same sub-area.                       *)
LEMMA NotesDiffer ==
    ASSUME PointersAgree, NEW c \in conns, NEW d \in conns, c # d, NEW who, NEW type
    PROVE  Note(who, type, d) # Gone(c)
<1>1. conn[c].mem # conn[d].mem
  BY DEF PointersAgree
<1>2. Note(who, type, d).mem = conn[d].mem /\ Gone(c).mem = conn[c].mem
  BY DEF Note, Gone
<1>3. QED
  BY <1>1, <1>2

(* Connection c is what it was, and so is the owner of its server.         *)
Same(c) ==
    /\ c \in conns
    /\ conn'[c].client = conn[c].client /\ conn'[c].server = conn[c].server
    /\ conn'[c].mem = conn[c].mem
    /\ server'[conn[c].server].task = server[conn[c].server].task

(* What a step has to keep.                                                *)
LEMMA HeardKept ==
    ASSUME \A c \in conns' : conn'[c].mmaped =>
             Same(c) /\ Behind(notif'[Owner(c, "SERVER")], Gone(c), Come(c))
    PROVE  HeardLast'
<1>1. ASSUME NEW c \in conns', Same(c)
      PROVE  /\ Owner(c, "SERVER")' = Owner(c, "SERVER")
             /\ Gone(c)' = Gone(c) /\ Come(c)' = Come(c)
  BY <1>1 DEF Same, Owner, Gone, Come, Note
<1>2. ASSUME NEW c \in conns', conn'[c].mmaped
      PROVE  Behind(notif[Owner(c, "SERVER")], Gone(c), Come(c))'
  BY <1>1, <1>2
<1>3. QED
  BY <1>2 DEF HeardLast

(* Deleting connection d says nothing of the others.                       *)
LEMMA DeleteHeard ==
    ASSUME IInv, ConstantsAssumption, NEW d \in conns,
           NEW q \in [Task -> Seq(Notification)],
           \A c \in conns \ {d} : conn[c].mmaped =>
               Behind(q[Owner(c, "SERVER")], Gone(c), Come(c)),
           notif' = AnnounceDelete(d, q), Unlink(d)
    PROVE  HeardLast'
<1>1. TypeOK /\ PointersAgree /\ OwnersRegistered
  BY DEF IInv
<1>2. ASSUME NEW c \in conns', conn'[c].mmaped
      PROVE  Same(c) /\ Behind(notif'[Owner(c, "SERVER")], Gone(c), Come(c))
  <2>1. c \in conns \ {d} /\ conn'[c] = conn[c]
    BY <1>1, <1>2, UnlinkEffect DEF PointersCut
  <2>2. conn[c].server \in Id /\ Owner(c, "SERVER") \in Task
    BY <1>1, <2>1 DEF TypeOK, PointersAgree, OwnersRegistered, Owner
  <2>3. Same(c)
    BY <1>1, <2>1, <2>2, UnlinkEffect DEF Same
  <2>. DEFINE p == notification_send("SERVER", "REMOTE_DISCONNECT", d, q)
  <2>4. p \in [Task -> Seq(Notification)]
    BY <1>1, SendType
  <2>5. /\ Note("SERVER", "REMOTE_DISCONNECT", d) # Gone(c)
        /\ Note("CLIENT", "REMOTE_DISCONNECT", d) # Gone(c)
    BY <1>1, <2>1, NotesDiffer
  <2>6. Behind(q[Owner(c, "SERVER")], Gone(c), Come(c))
    BY <1>2, <2>1
  <2>7. Behind(p[Owner(c, "SERVER")], Gone(c), Come(c))
    BY <1>1, <2>1, <2>2, <2>5, <2>6, SendKeepsBehind
  <2>8. notif' = notification_send("CLIENT", "REMOTE_DISCONNECT", d, p)
    BY DEF AnnounceDelete
  <2>. HIDE DEF p
  <2>9. Behind(notif'[Owner(c, "SERVER")], Gone(c), Come(c))
    BY <1>1, <2>1, <2>2, <2>4, <2>5, <2>7, <2>8, SendKeepsBehind
  <2>. QED
    BY <2>3, <2>9
<1>3. QED
  BY <1>2, HeardKept

(* Sending over connection d, without deleting it.                         *)
LEMMA SayHeard ==
    ASSUME IInv, HeardLast, NEW d \in conns,
           NEW who \in {"SERVER", "CLIENT"},
           NEW type \in {"NEW_CONNECTION", "NEW_MESSAGE"},
           notif' = notification_send(who, type, d, notif),
           UNCHANGED <<servers, server, conns>>,
           \A c \in conns : /\ conn'[c].client = conn[c].client
                            /\ conn'[c].server = conn[c].server
                            /\ conn'[c].mem = conn[c].mem,
           \A c \in conns : \/ conn'[c].mmaped = conn[c].mmaped
                            \/ c = d /\ who = "CLIENT" /\ type = "NEW_CONNECTION"
    PROVE  HeardLast'
<1>1. TypeOK /\ PointersAgree /\ OwnersRegistered /\ notif \in [Task -> Seq(Notification)]
  BY DEF IInv, TypeOK
<1>2. ASSUME NEW c \in conns', conn'[c].mmaped
      PROVE  Same(c) /\ Behind(notif'[Owner(c, "SERVER")], Gone(c), Come(c))
  <2>1. c \in conns
    OBVIOUS
  <2>2. Same(c)
    BY <2>1 DEF Same
  <2>3. Owner(c, "SERVER") \in Task
    BY <1>1, <2>1 DEF TypeOK, PointersAgree, OwnersRegistered, Owner
  <2>4. CASE conn'[c].mmaped = conn[c].mmaped
    <3>1. Note(who, type, d).type = type /\ Gone(c).type = "REMOTE_DISCONNECT"
      BY DEF Note, Gone
    <3>2. Note(who, type, d) # Gone(c)
      BY <3>1
    <3>3. Behind(notif[Owner(c, "SERVER")], Gone(c), Come(c))
      BY <1>2, <2>1, <2>4 DEF HeardLast
    <3>. QED
      BY <1>1, <2>1, <2>2, <2>3, <3>2, <3>3, SendKeepsBehind
  <2>5. CASE c = d /\ who = "CLIENT" /\ type = "NEW_CONNECTION"
    <3>1. Come(c) \in Notification
      <4>1. conn[c].client \in Id /\ conn[c].server \in Id /\ conn[c].mem \in Id
        BY <1>1, <2>1 DEF TypeOK, PointersAgree
      <4>. QED
        BY <4>1 DEF Come, Note, Notification
    <3>2. notif' = [notif EXCEPT ![Owner(c, "SERVER")] = Append(@, Come(c))]
      BY <2>5 DEF notification_send, Enqueued, Come
    <3>3. notif'[Owner(c, "SERVER")] = Append(notif[Owner(c, "SERVER")], Come(c))
      BY <1>1, <2>3, <3>2
    <3>4. Gone(c) # Come(c)
      <4>1. Gone(c).type = "REMOTE_DISCONNECT" /\ Come(c).type = "NEW_CONNECTION"
        BY DEF Note, Gone, Come
      <4>. QED
        BY <4>1
    <3>5. notif[Owner(c, "SERVER")] \in Seq(Notification)
      BY <1>1, <2>3
    <3>. QED
      BY <2>2, <3>1, <3>3, <3>4, <3>5, BehindLast
  <2>. QED
    BY <1>2, <2>1, <2>4, <2>5
<1>3. QED
  BY <1>2, HeardKept

(* Nothing is queued, no mapped connection is added, and the servers that  *)
(* have connections keep their owners.                                     *)
LEMMA QuietHeard ==
    ASSUME HeardLast, notif' = notif,
           \A c \in conns' : conn'[c].mmaped => Same(c) /\ conn[c].mmaped
    PROVE  HeardLast'
<1>1. ASSUME NEW c \in conns', conn'[c].mmaped
      PROVE  Same(c) /\ Behind(notif'[Owner(c, "SERVER")], Gone(c), Come(c))
  BY <1>1 DEF HeardLast, Same
<1>2. QED
  BY <1>1, HeardKept

(* Every step.                                                             *)
LEMMA HeardStep ==
    ASSUME IInv, ConstantsAssumption, HeardLast, [Next]_vars
    PROVE  HeardLast'
<1>1. TypeOK /\ PointersAgree /\ OwnersRegistered /\ notif \in [Task -> Seq(Notification)]
  BY DEF IInv, TypeOK
<1>2. \A c \in conns : conn[c].server \in servers /\ conn[c].server \in Id
                       /\ c \in server[conn[c].server].conns
                       /\ Owner(c, "SERVER") \in Task
  BY <1>1 DEF TypeOK, PointersAgree, OwnersRegistered, Owner
<1>3. ASSUME UNCHANGED <<notif, server, conns, conn>> PROVE HeardLast'
  BY <1>3, QuietHeard DEF Same
<1>4. ASSUME NEW d \in conns, delete_connection(d, notif) PROVE HeardLast'
  <2>1. \A c \in conns \ {d} : conn[c].mmaped =>
            Behind(notif[Owner(c, "SERVER")], Gone(c), Come(c))
    BY DEF HeardLast
  <2>. QED
    BY <1>1, <1>4, <2>1, DeleteHeard DEF delete_connection
<1>5. ASSUME NEW d \in conns, NEW who \in {"SERVER", "CLIENT"},
             notif' = AnnounceDelete(d, notification_send(who, "REMOTE_DISCONNECT", d, notif)),
             Unlink(d)
      PROVE  HeardLast'
  <2>. DEFINE q == notification_send(who, "REMOTE_DISCONNECT", d, notif)
  <2>1. q \in [Task -> Seq(Notification)]
    BY <1>1, SendType
  <2>2. ASSUME NEW c \in conns \ {d}, conn[c].mmaped
        PROVE  Behind(q[Owner(c, "SERVER")], Gone(c), Come(c))
    <3>1. Note(who, "REMOTE_DISCONNECT", d) # Gone(c)
      BY <1>1, NotesDiffer
    <3>2. Behind(notif[Owner(c, "SERVER")], Gone(c), Come(c))
      BY <2>2 DEF HeardLast
    <3>. QED
      BY <1>1, <1>2, <3>1, <3>2, SendKeepsBehind
  <2>3. notif' = AnnounceDelete(d, q)
    BY <1>5
  <2>. HIDE DEF q
  <2>. QED
    BY <1>5, <2>1, <2>2, <2>3, DeleteHeard
<1>6. CASE UnregisterConn
  <2>1. PICK c \in server[op.srv].conns : delete_connection(c, notif)
    BY <1>6 DEF UnregisterConn
  <2>2. c \in conns
    BY <1>1, <1>6, <2>1 DEF UnregisterConn, OwnersRegistered, PointersAgree
  <2>. QED
    BY <1>4, <2>1, <2>2
<1>7. CASE ReleaseServerConn
  <2>1. PICK s \in OwnServers(op.task) : \E c \in server[s].conns : delete_connection(c, notif)
    BY <1>7 DEF ReleaseServerConn
  <2>2. PICK c \in server[s].conns : delete_connection(c, notif)
    BY <2>1
  <2>3. c \in conns
    BY <1>1, <2>1, <2>2 DEF OwnServers, PointersAgree
  <2>. QED
    BY <1>4, <2>2, <2>3
<1>8. CASE ReleaseClientConn
  <2>1. PICK k \in OwnClients(op.task) :
          client[k].conn # NULL /\ delete_connection(client[k].conn, notif)
    BY <1>8 DEF ReleaseClientConn
  <2>2. client[k].conn \in conns
    BY <1>1, <2>1 DEF OwnClients, PointersAgree
  <2>. QED
    BY <1>4, <2>1, <2>2
<1>9. CASE UnregisterFinish
  <2>1. \A c \in conns : conn[c].server # op.srv
    BY <1>2, <1>9 DEF UnregisterFinish
  <2>2. \A c \in conns : Same(c)
    BY <1>1, <1>2, <1>9, <2>1 DEF UnregisterFinish, Same, TypeOK
  <2>. QED
    BY <1>9, <2>2, QuietHeard DEF UnregisterFinish
<1>10. CASE ReleaseFinish
  <2>1. \A c \in conns : conn[c].server \notin OwnServers(op.task)
    BY <1>2, <1>10 DEF ReleaseFinish
  <2>2. \A c \in conns : Same(c)
    BY <1>2, <1>10, <2>1 DEF ReleaseFinish, Same
  <2>3. \A c \in conns : Owner(c, "SERVER") # op.task
    BY <1>2, <2>1 DEF OwnServers, Owner
  <2>4. \A c \in conns : notif'[Owner(c, "SERVER")] = notif[Owner(c, "SERVER")]
    BY <1>1, <1>2, <1>10, <2>3 DEF ReleaseFinish
  <2>5. conns' = conns /\ conn' = conn
    BY <1>10 DEF ReleaseFinish
  <2>. QED
    BY <2>2, <2>4, <2>5, HeardKept DEF HeardLast
<1>11. ASSUME NEW t \in Task, NEW k \in clients, ClientDisconnect(t, k) \/ ClientUnregister(t, k)
       PROVE  HeardLast'
  <2>1. client[k].conn \in conns
    BY <1>1, <1>11 DEF ClientDisconnect, ClientUnregister, Connected, PointersAgree
  <2>. DEFINE c == client[k].conn
  <2>2. /\ notif' = AnnounceDelete(c, notification_send("CLIENT", "REMOTE_DISCONNECT", c, notif))
        /\ Unlink(c)
    BY <1>11 DEF ClientDisconnect, ClientUnregister, delete_connection
  <2>. HIDE DEF c
  <2>. QED
    BY <1>5, <2>1, <2>2 DEF c
<1>12. ASSUME NEW t \in Task, NEW s \in servers, NEW m \in submems, ServerDisconnect(t, s, m)
       PROVE  HeardLast'
  <2>1. PICK c \in ConnsByMem(s, m) :
          delete_connection(c, notification_send("SERVER", "REMOTE_DISCONNECT", c, notif))
    BY <1>12 DEF ServerDisconnect
  <2>2. c \in conns
    BY <1>1, <2>1 DEF ConnsByMem, PointersAgree
  <2>. QED
    BY <1>5, <2>1, <2>2 DEF delete_connection
<1>13. ASSUME NEW t \in Task, NEW k \in clients, ClientMmap(t, k) PROVE HeardLast'
  <2>. DEFINE d == client[k].conn
  <2>1. d \in conns
    BY <1>1, <1>13 DEF ClientMmap, Connected, PointersAgree
  <2>2. /\ notif' = notification_send("CLIENT", "NEW_CONNECTION", d, notif)
        /\ conn' = [conn EXCEPT ![d].mmaped = TRUE]
        /\ UNCHANGED <<servers, server, conns>>
    BY <1>13 DEF ClientMmap
  <2>. HIDE DEF d
  <2>3. ASSUME NEW c \in conns
        PROVE  /\ conn'[c].client = conn[c].client
               /\ conn'[c].server = conn[c].server
               /\ conn'[c].mem = conn[c].mem
               /\ c # d => conn'[c].mmaped = conn[c].mmaped
    <3>1. c \in Conn /\ d \in Conn /\ conn \in [Conn -> ConnRecord]
      BY <1>1, <2>1 DEF TypeOK
    <3>. DEFINE r == [conn[d] EXCEPT !.mmaped = TRUE]
    <3>2. /\ r.client = conn[d].client /\ r.server = conn[d].server
          /\ r.mem = conn[d].mem
      BY <3>1 DEF ConnRecord
    <3>3. conn' = [conn EXCEPT ![d] = r]
      BY <2>2
    <3>. HIDE DEF r
    <3>. QED
      BY <3>1, <3>2, <3>3
  <2>. QED
    <3>1. \A c \in conns : /\ conn'[c].client = conn[c].client
                           /\ conn'[c].server = conn[c].server
                           /\ conn'[c].mem = conn[c].mem
      BY <2>3
    <3>2. \A c \in conns : \/ conn'[c].mmaped = conn[c].mmaped
                           \/ c = d /\ "CLIENT" = "CLIENT" /\ "NEW_CONNECTION" = "NEW_CONNECTION"
      BY <2>3
    <3>3. UNCHANGED <<servers, server, conns>>
      BY <2>2
    <3>4. notif' = notification_send("CLIENT", "NEW_CONNECTION", d, notif)
      BY <2>2
    <3>. QED
      BY <2>1, <3>1, <3>2, <3>3, <3>4, SayHeard
<1>14. ASSUME NEW t \in Task, NEW k \in clients, ClientEndWriting(t, k) PROVE HeardLast'
  <2>1. client[k].conn \in conns
    BY <1>1, <1>14 DEF ClientEndWriting, Connected, PointersAgree
  <2>. QED
    BY <1>14, <2>1, SayHeard DEF ClientEndWriting
<1>15. ASSUME NEW t \in Task, NEW s \in servers, NEW m \in submems, ServerEndWriting(t, s, m)
       PROVE  HeardLast'
  <2>1. PICK c \in ConnsByMem(s, m) :
          notif' = notification_send("SERVER", "NEW_MESSAGE", c, notif)
    BY <1>15 DEF ServerEndWriting
  <2>2. c \in conns
    BY <1>1, <2>1 DEF ConnsByMem, PointersAgree
  <2>. QED
    BY <1>15, <2>1, <2>2, SayHeard DEF ServerEndWriting
<1>16. ASSUME NEW t \in Task, Read(t) PROVE HeardLast'
  <2>1. /\ notif[t] # <<>> /\ notif' = [notif EXCEPT ![t] = Tail(@)]
        /\ UNCHANGED <<server, conns, conn>>
    BY <1>16 DEF Read
  <2>2. ASSUME NEW c \in conns, conn[c].mmaped
        PROVE  Same(c) /\ Behind(notif'[Owner(c, "SERVER")], Gone(c), Come(c))
    <3>1. Behind(notif[Owner(c, "SERVER")], Gone(c), Come(c))
      BY <2>2 DEF HeardLast
    <3>2. CASE t = Owner(c, "SERVER")
      BY <1>1, <2>1, <3>1, <3>2, BehindTail DEF Same
    <3>3. CASE t # Owner(c, "SERVER")
      BY <1>1, <1>2, <2>1, <3>1, <3>3 DEF Same
    <3>. QED
      BY <3>2, <3>3
  <2>. QED
    BY <2>1, <2>2, HeardKept
<1>17. ASSUME NEW t \in Task, NEW k \in clients, NEW n \in Name, Connect(t, k, n)
       PROVE  HeardLast'
  <2>1. OwnersSame
    BY <1>17, ConnectKeepsOwners
  <2>2. notif' = notif
    BY <1>17 DEF Connect
  <2>3. PICK s \in ServersNamed(n), m \in Id, c \in Conn \ conns :
          /\ conns' = conns \cup {c}
          /\ conn' = [conn EXCEPT ![c] = [client |-> k, server |-> s, mem |-> m,
                                          mmaped |-> FALSE]]
    BY <1>17 DEF Connect
  <2>4. ASSUME NEW d \in conns', conn'[d].mmaped PROVE Same(d) /\ conn[d].mmaped
    <3>1. conns \subseteq Conn /\ conn \in [Conn -> ConnRecord]
      BY <1>1 DEF TypeOK
    <3>2. d # c
      BY <2>3, <2>4, <3>1
    <3>3. d \in conns /\ conn'[d] = conn[d]
      BY <2>3, <3>1, <3>2
    <3>. QED
      BY <1>2, <2>1, <2>4, <3>3 DEF Same, OwnersSame
  <2>. QED
    BY <2>2, <2>4, QuietHeard
<1>18. ASSUME NEW t \in Task, NEW n \in Name, RegisterServer(t, n) PROVE HeardLast'
  <2>1. PICK s \in Id :
          /\ IsLowestFree(s)
          /\ server' = [server EXCEPT ![s] = [name |-> n, task |-> t, conns |-> {}]]
    BY <1>18 DEF RegisterServer
  <2>2. s \notin servers
    BY <2>1 DEF IsLowestFree, IInv, IdsExact
  <2>3. \A c \in conns : server'[conn[c].server] = server[conn[c].server]
    BY <1>1, <1>2, <2>1, <2>2 DEF TypeOK
  <2>. QED
    BY <1>18, <2>3, QuietHeard DEF RegisterServer, Same
<1>19. ASSUME NEW t \in Task,
              \/ Open(t) \/ ThreadExit(t) \/ ReleaseStart(t) \/ ReleaseOrphan(t)
              \/ RegisterClient(t) \/ RegisterMonitor(t)
              \/ \E s \in servers : ServerUnregister(t, s)
              \/ \E s \in servers, m \in submems : ServerEndWritingNull(t, s, m)
       PROVE  HeardLast'
  BY <1>3, <1>19 DEF Open, ThreadExit, ReleaseStart, ReleaseOrphan, RegisterClient,
       RegisterMonitor, ServerUnregister, ServerEndWritingNull
<1>20. CASE UNCHANGED vars
  BY <1>3, <1>20 DEF vars
<1>21. QED
  BY <1>6, <1>7, <1>8, <1>9, <1>10, <1>11, <1>12, <1>13, <1>14, <1>15, <1>16, <1>17,
     <1>18, <1>19, <1>20 DEF Next, OpStep

(* A server that reads its queue to the end does not take a connection for *)
(* over that a client has mapped over the ids of an older one: the         *)
(* NEW_CONNECTION is behind every REMOTE_DISCONNECT with the same ids.     *)
THEOREM ServerHearsOfReuse == Spec => []ServerLastWord
<1>1. Init => HeardLast
  BY DEF Init, HeardLast
<1>2. IInv /\ HeardLast /\ [Next]_vars => HeardLast'
  BY ConstantsAssumption, HeardStep
<1>3. IInv /\ HeardLast => ServerLastWord
  <2>1. ASSUME IInv, HeardLast, NEW t \in tasks, NEW i \in 1..Len(notif[t]), NEW n,
               n = notif[t][i], n.who = "CLIENT", n.type = "REMOTE_DISCONNECT", Live(n, t),
               conn[submem[n.mem].conn].mmaped
        PROVE  \E j \in i+1..Len(notif[t]) :
                  /\ notif[t][j].type = "NEW_CONNECTION"
                  /\ SameEnds(notif[t][j], n)
    <3>1. PICK c \in conns : /\ conn[c].mem = n.mem
                             /\ n = Gone(c)
                             /\ t = Owner(c, "SERVER")
      BY <2>1 DEF Live, Gone
    <3>2. submem[n.mem].conn = c
      BY <2>1, <3>1 DEF IInv, PointersAgree
    <3>3. Behind(notif[t], Gone(c), Come(c))
      BY <2>1, <3>1, <3>2 DEF HeardLast
    <3>4. PICK j \in i+1..Len(notif[t]) : notif[t][j] = Come(c)
      BY <2>1, <3>1, <3>3 DEF Behind
    <3>5. Come(c).type = "NEW_CONNECTION" /\ SameEnds(Come(c), Gone(c))
      BY DEF Come, Gone, Note, SameEnds
    <3>. QED
      BY <3>1, <3>4, <3>5
  <2>. QED
    BY <2>1 DEF ServerLastWord
<1>4. QED
  BY <1>1, <1>2, <1>3, InductiveInvariant, PTL DEF Spec

=============================================================================
