------------------------ MODULE RipcDriverLinksProofs -------------------------
(* The driver implements RipcLinks, for all constants: every call, and     *)
(* every iteration of a clean-up loop, is a step of the abstract           *)
(* specification or does not show.  The invariant of RipcDriverProofs says *)
(* that the pointers the mapping follows lead somewhere.                   *)
EXTENDS RipcDriverLinks, RipcDriverProofs

(* The part of the invariant the mapping needs.                            *)
LEMMA GraphFacts ==
    ASSUME IInv
    PROVE  /\ TypeOK /\ PointersAgree /\ OwnersRegistered /\ IdsExact
           /\ servers \subseteq Id /\ clients \subseteq Id /\ conns \subseteq Conn
           /\ notif \in [Task -> Seq(Notification)]
BY DEF IInv, TypeOK

(* Calls that leave servers, clients, connections and queues alone.        *)
LEMMA ViewUnchanged ==
    ASSUME UNCHANGED <<servers, server, clients, client, conn, notif>>
    PROVE  UNCHANGED <<HostView, GuestView, LinkView, notif>>
BY DEF HostView, GuestView, LinkView

(* A connection is the link of its client.                                 *)
LEMMA ConnIsLink ==
    ASSUME IInv, ConstantsAssumption, NEW c \in conns
    PROVE  /\ conn[c].client \in Id /\ conn[c].server \in Id /\ conn[c].mem \in Id
           /\ conn[c].client \in clients /\ conn[c].server \in servers
           /\ client[conn[c].client].conn = c
           /\ LinkView[conn[c].client] = [server |-> conn[c].server, mem |-> conn[c].mem]
           /\ Links!Linked(conn[c].client)
<1>1. /\ conn[c].client \in clients /\ client[conn[c].client].conn = c
      /\ conn[c].server \in servers /\ conn[c].mem \in submems
      /\ c \in Conn /\ conn[c].client \in Id /\ conn[c].server \in Id
      /\ conn[c].mem \in Id
  BY GraphFacts DEF PointersAgree, TypeOK
<1>2. c # NULL /\ conn[c].server # NULL
  BY <1>1 DEF ConstantsAssumption
<1>3. LinkView[conn[c].client] = [server |-> conn[c].server, mem |-> conn[c].mem]
  BY <1>1, <1>2 DEF LinkView
<1>4. QED
  BY <1>1, <1>2, <1>3 DEF Links!Linked, Links!NoLink

(* What notification_send appends is the note of the link's end.           *)
LEMMA SendIsPost ==
    ASSUME IInv, ConstantsAssumption, NEW c \in conns,
           NEW who \in {"CLIENT", "SERVER"}, NEW type, NEW q
    PROVE  notification_send(who, type, c, q)
             = Links!Post(conn[c].client, who, type, q)
<1>. DEFINE k == conn[c].client
<1>1. /\ k \in clients /\ conn[c].server \in servers
      /\ k \in Id /\ conn[c].server \in Id
      /\ LinkView[k] = [server |-> conn[c].server, mem |-> conn[c].mem]
  BY ConnIsLink
<1>2. HostView[conn[c].server].proc = server[conn[c].server].task
  BY <1>1 DEF HostView
<1>3. GuestView[k] = client[k].task
  BY <1>1 DEF GuestView
<1>4. Links!Note(k, who, type) = Note(who, type, c)
  BY <1>1 DEF Links!Note, Note
<1>5. Links!Reader(k, who) = Owner(c, IF who = "CLIENT" THEN "SERVER" ELSE "CLIENT")
  BY <1>1, <1>2, <1>3 DEF Links!Reader, Owner
<1>6. QED
  BY <1>4, <1>5 DEF Links!Post, notification_send, Enqueued

(* So the announcement of delete_connection is the farewell of the link.   *)
LEMMA AnnounceIsFarewell ==
    ASSUME IInv, ConstantsAssumption, NEW c \in conns, NEW q
    PROVE  AnnounceDelete(c, q) = Links!Farewell(conn[c].client, q)
BY SendIsPost DEF AnnounceDelete, Links!Farewell

(* The end of connection c is the end of its client's link and of no       *)
(* other; servers and the owners of clients show no change.                *)
LEMMA CutIsNoLink ==
    ASSUME IInv, ConstantsAssumption, NEW c \in conns, Unlink(c),
           UNCHANGED servers,
           \A j \in clients' : j \in clients /\ client'[j] = ClientsWithout(c)[j],
           clients \ {conn[c].client} \subseteq clients'
    PROVE  /\ LinkView' = [LinkView EXCEPT ![conn[c].client] = Links!NoLink]
           /\ HostView' = HostView
<1>. DEFINE k == conn[c].client
<1>1. k \in clients /\ k \in Id
  BY ConnIsLink
<1>2. /\ \A i \in Id : /\ server'[i].name = server[i].name
                       /\ server'[i].task = server[i].task
      /\ \A i \in Id : ClientsWithout(c)[i].conn = IF i = k THEN NULL ELSE client[i].conn
      /\ conns' = conns \ {c}
      /\ \A d \in conns' : conn'[d] = conn[d]
  BY GraphFacts, UnlinkEffect DEF PointersCut
<1>3. HostView' = HostView
  BY <1>2 DEF HostView
<1>4. ASSUME NEW j \in Id
      PROVE  LinkView'[j] = IF j = k THEN Links!NoLink ELSE LinkView[j]
  <2>1. CASE j = k
    BY <1>1, <1>2, <2>1 DEF LinkView, Links!NoLink
  <2>2. CASE j # k /\ j \in clients /\ client[j].conn # NULL
    <3>1. j \in clients' /\ client'[j].conn = client[j].conn
      BY <1>2, <2>2
    <3>2. client[j].conn \in conns /\ conn[client[j].conn].client = j
      BY <2>2, GraphFacts DEF PointersAgree
    <3>3. client[j].conn \in conns'
      BY <1>2, <2>2, <3>2
    <3>4. conn'[client'[j].conn] = conn[client[j].conn]
      BY <1>2, <3>1, <3>3
    <3>. QED
      BY <2>2, <3>1, <3>4 DEF LinkView
  <2>3. CASE j # k /\ ~(j \in clients /\ client[j].conn # NULL)
    <3>1. ~(j \in clients' /\ client'[j].conn # NULL)
      BY <1>2, <2>3
    <3>. QED
      BY <2>3, <3>1 DEF LinkView
  <2>. QED
    BY <2>1, <2>2, <2>3
<1>5. LinkView' = [j \in Id |-> LinkView'[j]]
  BY DEF LinkView
<1>6. LinkView = [j \in Id |-> LinkView[j]]
  BY DEF LinkView
<1>7. QED
  BY <1>1, <1>3, <1>4, <1>5, <1>6

(* delete_connection, with whatever the caller has announced before.       *)
LEMMA DeleteIsDisconnect ==
    ASSUME IInv, ConstantsAssumption, NEW c \in conns,
           NEW q \in Links!Announced(conn[c].client),
           delete_connection(c, q), UNCHANGED <<servers, clients>>
    PROVE  Links!Disconnect(conn[c].client)
<1>. DEFINE k == conn[c].client
<1>1. k \in clients /\ k \in Id /\ Links!Linked(k)
  BY ConnIsLink
<1>2. notif' = Links!Farewell(k, q)
  BY AnnounceIsFarewell DEF delete_connection
<1>3. client' = ClientsWithout(c) /\ Unlink(c)
  BY DEF delete_connection
<1>4. /\ LinkView' = [LinkView EXCEPT ![k] = Links!NoLink]
      /\ HostView' = HostView
  BY <1>3, CutIsNoLink
<1>5. GuestView' = GuestView
  <2>1. \A i \in Id : ClientsWithout(c)[i].task = client[i].task
    BY <1>3, GraphFacts, UnlinkEffect
  <2>. QED
    BY <1>3, <2>1 DEF GuestView
<1>6. QED
  BY <1>1, <1>2, <1>4, <1>5 DEF Links!Disconnect

-----------------------------------------------------------------------------
(* The calls.                                                              *)

LEMMA RegisterServerOffers ==
    ASSUME IInv, ConstantsAssumption, NEW t \in Task, NEW n \in Name,
           RegisterServer(t, n)
    PROVE  Links!Offer(t, n)
<1>1. PICK s \in Id :
        /\ s \notin ida
        /\ servers' = servers \cup {s}
        /\ server' = [server EXCEPT ![s] = [name |-> n, task |-> t, conns |-> {}]]
  BY DEF RegisterServer, IsLowestFree
<1>2. UNCHANGED <<notif, clients, client, conn>>
  BY DEF RegisterServer
<1>3. s \notin servers
  BY <1>1, GraphFacts DEF IdsExact
<1>4. \A i \in Id : HostView[i].name # n
  <2>1. n # NULL /\ \A i \in servers : server[i].name # n
    BY DEF ConstantsAssumption, RegisterServer, ServersNamed
  <2>. QED
    BY <2>1 DEF HostView
<1>5. HostView[s] = Links!NoHost
  BY <1>3 DEF HostView, Links!NoHost
<1>6. HostView' = [HostView EXCEPT ![s] = [name |-> n, proc |-> t]]
  <2>1. server \in [Id -> ServerRecord]
    BY GraphFacts DEF TypeOK
  <2>2. server'[s] = [name |-> n, task |-> t, conns |-> {}]
    BY <1>1, <2>1
  <2>3. \A i \in Id : i # s => server'[i] = server[i]
    BY <1>1, <2>1
  <2>4. ASSUME NEW i \in Id
        PROVE  HostView'[i] = IF i = s THEN [name |-> n, proc |-> t] ELSE HostView[i]
    BY <1>1, <2>2, <2>3 DEF HostView
  <2>. QED
    BY <1>1, <2>4 DEF HostView
<1>7. UNCHANGED <<GuestView, LinkView, notif>>
  BY <1>2 DEF GuestView, LinkView
<1>8. QED
  BY <1>4, <1>5, <1>6, <1>7 DEF Links!Offer

LEMMA RegisterClientJoins ==
    ASSUME IInv, ConstantsAssumption, NEW t \in Task, RegisterClient(t)
    PROVE  Links!Join(t)
<1>1. PICK k \in Id :
        /\ k \notin ida
        /\ clients' = clients \cup {k}
        /\ client' = [client EXCEPT ![k] = [task |-> t, conn |-> NULL]]
  BY DEF RegisterClient, IsLowestFree
<1>2. UNCHANGED <<notif, servers, server, conn>>
  BY DEF RegisterClient
<1>3. k \notin clients
  BY <1>1, GraphFacts DEF IdsExact
<1>4. /\ client'[k] = [task |-> t, conn |-> NULL]
      /\ \A i \in Id : i # k => client'[i] = client[i]
  BY <1>1, GraphFacts DEF TypeOK
<1>5. GuestView[k] = NULL /\ GuestView' = [GuestView EXCEPT ![k] = t]
  <2>1. ASSUME NEW i \in Id
        PROVE  GuestView'[i] = IF i = k THEN t ELSE GuestView[i]
    BY <1>1, <1>4 DEF GuestView
  <2>. QED
    BY <1>1, <1>3, <2>1 DEF GuestView
<1>6. LinkView' = LinkView
  <2>1. ASSUME NEW i \in Id PROVE LinkView'[i] = LinkView[i]
    BY <1>1, <1>2, <1>3, <1>4 DEF LinkView
  <2>. QED
    BY <2>1 DEF LinkView
<1>7. HostView' = HostView
  BY <1>2 DEF HostView
<1>8. QED
  BY <1>2, <1>5, <1>6, <1>7 DEF Links!Join

LEMMA ConnectLinks ==
    ASSUME IInv, ConstantsAssumption, NEW t \in Task, NEW k \in clients, NEW n \in Name,
           Connect(t, k, n)
    PROVE  Links!Connect(k, n)
<1>1. PICK s \in ServersNamed(n), m \in Id, c \in Conn \ conns :
         /\ TakeSubmem(m, c) \/ CreatePool(m, c)
         /\ conn' = [conn EXCEPT ![c] = [client |-> k, server |-> s, mem |-> m,
                                         mmaped |-> FALSE]]
         /\ client' = [client EXCEPT ![k].conn = c]
         /\ server' = [server EXCEPT ![s].conns = @ \cup {c}]
  BY DEF Connect
<1>2. UNCHANGED <<notif, servers, clients>> /\ client[k].conn = NULL
  BY DEF Connect
<1>3. /\ k \in Id /\ s \in Id /\ s \in servers /\ server[s].name = n
      /\ c \in Conn /\ c # NULL /\ s # NULL
  BY <1>1, GraphFacts DEF ServersNamed, ConstantsAssumption
<1>4. GuestView[k] # NULL
  BY <1>3, GraphFacts DEF GuestView, OwnersRegistered, TypeOK, ConstantsAssumption
<1>5. ~Links!Linked(k)
  BY <1>2, <1>3 DEF Links!Linked, Links!NoLink, LinkView
<1>6. HostView[s].name = n
  BY <1>3 DEF HostView
<1>7. \A j \in Id : Links!Linked(j) => LinkView[j].mem # m
  <2>1. m \in submems => submem[m].conn = NULL
    BY <1>1, <1>2, TakeEffect
  <2>2. ASSUME NEW j \in Id, Links!Linked(j), LinkView[j].mem = m PROVE FALSE
    <3>1. j \in clients /\ client[j].conn # NULL
      BY <2>2 DEF Links!Linked, Links!NoLink, LinkView
    <3>2. LinkView[j].mem = conn[client[j].conn].mem
      BY <3>1 DEF LinkView
    <3>3. client[j].conn \in conns
      BY <3>1, GraphFacts DEF PointersAgree
    <3>4. m \in submems /\ submem[m].conn = client[j].conn
      BY <2>2, <3>2, <3>3, GraphFacts DEF PointersAgree
    <3>. QED
      BY <2>1, <3>1, <3>4
  <2>. QED
    BY <2>2
<1>8. LinkView' = [LinkView EXCEPT ![k] = [server |-> s, mem |-> m]]
  <2>1. /\ client'[k].conn = c
        /\ \A j \in Id : j # k => client'[j] = client[j]
    <3>1. client \in [Id -> ClientRecord] /\ client[k] \in ClientRecord
      BY <1>3, GraphFacts DEF TypeOK
    <3>2. [client[k] EXCEPT !.conn = c].conn = c
      BY <3>1 DEF ClientRecord
    <3>3. client' = [j \in Id |-> IF j = k THEN [client[k] EXCEPT !.conn = c]
                                           ELSE client[j]]
      BY <1>1, <3>1
    <3>. QED
      BY <1>3, <3>2, <3>3
  <2>2. /\ conn'[c].server = s /\ conn'[c].mem = m
        /\ \A d \in conns : conn'[d] = conn[d]
    BY <1>1, GraphFacts DEF TypeOK
  <2>3. ASSUME NEW j \in Id
        PROVE  LinkView'[j] = IF j = k THEN [server |-> s, mem |-> m] ELSE LinkView[j]
    <3>1. CASE j = k
      BY <1>2, <1>3, <2>1, <2>2, <3>1 DEF LinkView
    <3>2. CASE j # k /\ j \in clients /\ client[j].conn # NULL
      <4>1. client[j].conn \in conns
        BY <3>2, GraphFacts DEF PointersAgree
      <4>. QED
        BY <1>2, <2>1, <2>2, <3>2, <4>1 DEF LinkView
    <3>3. CASE j # k /\ ~(j \in clients /\ client[j].conn # NULL)
      BY <1>2, <2>1, <3>3 DEF LinkView
    <3>. QED
      BY <3>1, <3>2, <3>3
  <2>. QED
    BY <1>3, <2>3 DEF LinkView
<1>9. HostView' = HostView /\ GuestView' = GuestView
  <2>1. \A i \in Id : server'[i].name = server[i].name /\ server'[i].task = server[i].task
    <3>1. server \in [Id -> ServerRecord] /\ server[s] \in ServerRecord
      BY <1>3, GraphFacts DEF TypeOK
    <3>. DEFINE r == [server[s] EXCEPT !.conns = @ \cup {c}]
    <3>2. r.name = server[s].name /\ r.task = server[s].task
      BY <3>1 DEF ServerRecord
    <3>3. server' = [i \in Id |-> IF i = s THEN r ELSE server[i]]
      BY <1>1, <3>1
    <3>. HIDE DEF r
    <3>. QED
      BY <3>2, <3>3
  <2>2. \A i \in Id : client'[i].task = client[i].task
    <3>1. client \in [Id -> ClientRecord] /\ client[k] \in ClientRecord
      BY <1>3, GraphFacts DEF TypeOK
    <3>. DEFINE r == [client[k] EXCEPT !.conn = c]
    <3>2. r.task = client[k].task
      BY <3>1 DEF ClientRecord
    <3>3. client' = [i \in Id |-> IF i = k THEN r ELSE client[i]]
      BY <1>1, <3>1
    <3>. HIDE DEF r
    <3>. QED
      BY <3>2, <3>3
  <2>. QED
    BY <1>2, <2>1, <2>2 DEF HostView, GuestView
<1>10. QED
  BY <1>2, <1>3, <1>4, <1>5, <1>6, <1>7, <1>8, <1>9 DEF Links!Connect

(* mmap by a client and both END_WRITING calls.                            *)
LEMMA SendIsSay ==
    ASSUME IInv, ConstantsAssumption, NEW c \in conns,
           NEW who \in {"CLIENT", "SERVER"}, NEW type,
           notif' = notification_send(who, type, c, notif),
           UNCHANGED <<servers, server, clients, client>>,
           \A d \in conns : conn'[d].server = conn[d].server /\ conn'[d].mem = conn[d].mem
    PROVE  Links!Say(conn[c].client, who, type)
<1>1. Links!Linked(conn[c].client)
  BY ConnIsLink
<1>2. notif' = Links!Post(conn[c].client, who, type, notif)
  BY SendIsPost
<1>3. UNCHANGED <<HostView, GuestView>>
  BY DEF HostView, GuestView
<1>4. UNCHANGED LinkView
  <2>1. \A k \in clients : client[k].conn # NULL => client[k].conn \in conns
    BY GraphFacts DEF PointersAgree
  <2>. QED
    BY <2>1 DEF LinkView
<1>5. QED
  BY <1>1, <1>2, <1>3, <1>4 DEF Links!Say

(* CLIENT_UNREGISTER of a connected client.                                *)
LEMMA ClientUnregisterLeaves ==
    ASSUME IInv, ConstantsAssumption, NEW t \in Task, NEW k \in clients,
           ClientUnregister(t, k)
    PROVE  Links!Leave(k)
<1>. DEFINE c == client[k].conn
            q == notification_send("CLIENT", "REMOTE_DISCONNECT", c, notif)
<1>1. c \in conns /\ conn[c].client = k /\ k \in Id
  BY GraphFacts DEF ClientUnregister, Connected, PointersAgree
<1>2. /\ notif' = AnnounceDelete(c, q) /\ Unlink(c)
      /\ client' = [ClientsWithout(c) EXCEPT ![k] = NoClient]
      /\ clients' = clients \ {k} /\ UNCHANGED servers
  BY DEF ClientUnregister
<1>. HIDE DEF c
<1>3. q = Links!Post(k, "CLIENT", "REMOTE_DISCONNECT", notif)
  BY <1>1, SendIsPost
<1>4. q \in Links!Announced(k)
  BY <1>3 DEF Links!Announced
<1>. HIDE DEF q
<1>5. notif' = Links!Farewell(k, q)
  BY <1>1, <1>2, AnnounceIsFarewell
<1>6. ClientsWithout(c) \in [Id -> ClientRecord]
  BY <1>1, <1>2, GraphFacts, UnlinkEffect
<1>7. \A j \in clients' : j \in clients /\ client'[j] = ClientsWithout(c)[j]
  BY <1>2, <1>6, GraphFacts
<1>8. /\ LinkView' = [LinkView EXCEPT ![k] = Links!NoLink]
      /\ HostView' = HostView
  BY <1>1, <1>2, <1>7, CutIsNoLink
<1>9. GuestView' = [GuestView EXCEPT ![k] = NULL]
  <2>1. \A i \in Id : ClientsWithout(c)[i].task = client[i].task
    BY <1>1, <1>2, GraphFacts, UnlinkEffect
  <2>. QED
    BY <1>1, <1>2, <1>7, <2>1 DEF GuestView
<1>10. Links!Linked(k)
  BY <1>1, ConnIsLink
<1>11. QED
  BY <1>4, <1>5, <1>8, <1>9, <1>10 DEF Links!Leave

(* The links of a server are its connections.                              *)
LEMMA LinksAreConns ==
    ASSUME IInv, ConstantsAssumption, NEW s \in servers, server[s].conns = {}
    PROVE  Links!LinksOf(s) = {}
<1>1. ASSUME NEW k \in Id, Links!Linked(k), LinkView[k].server = s PROVE FALSE
  <2>1. k \in clients /\ client[k].conn # NULL
    BY <1>1 DEF Links!Linked, Links!NoLink, LinkView
  <2>2. conn[client[k].conn].server = s
    BY <1>1, <2>1 DEF LinkView
  <2>3. client[k].conn \in server[s].conns
    BY <2>1, <2>2, GraphFacts DEF PointersAgree
  <2>. QED
    BY <2>3
<1>2. QED
  BY <1>1 DEF Links!LinksOf

LEMMA UnregisterWithdraws ==
    ASSUME IInv, ConstantsAssumption, UnregisterFinish
    PROVE  \E s \in Id : Links!Withdraw(s)
<1>. DEFINE s == op.srv
<1>1. s \in servers /\ s \in Id /\ server[s].conns = {}
  BY GraphFacts DEF UnregisterFinish, OwnersRegistered
<1>2. /\ servers' = servers \ {s} /\ server' = [server EXCEPT ![s] = NoServer]
      /\ UNCHANGED <<notif, clients, client, conn>>
  BY DEF UnregisterFinish
<1>. HIDE DEF s
<1>3. HostView[s] # Links!NoHost
  BY <1>1, GraphFacts DEF HostView, Links!NoHost, OwnersRegistered, TypeOK,
     ConstantsAssumption
<1>4. HostView' = [HostView EXCEPT ![s] = Links!NoHost]
  BY <1>1, <1>2, GraphFacts DEF HostView, Links!NoHost, TypeOK
<1>5. UNCHANGED <<GuestView, LinkView, notif>>
  BY <1>2 DEF GuestView, LinkView
<1>6. QED
  BY <1>1, <1>3, <1>4, <1>5, LinksAreConns DEF Links!Withdraw

LEMMA ReleaseExits ==
    ASSUME IInv, ConstantsAssumption, ReleaseFinish
    PROVE  \E p \in Task : Links!Exit(p)
<1>. DEFINE t == op.task
<1>1. t \in Task /\ t # NULL
  BY GraphFacts DEF ReleaseFinish, OwnersRegistered, TypeOK, ConstantsAssumption
<1>2. /\ \A s \in OwnServers(t) : server[s].conns = {}
      /\ \A k \in OwnClients(t) : client[k].conn = NULL
      /\ servers' = servers \ OwnServers(t)
      /\ server' = [s \in Id |-> IF s \in OwnServers(t) THEN NoServer ELSE server[s]]
      /\ clients' = clients \ OwnClients(t)
      /\ client' = [k \in Id |-> IF k \in OwnClients(t) THEN NoClient ELSE client[k]]
      /\ notif' = [notif EXCEPT ![t] = <<>>]
      /\ UNCHANGED conn
  BY DEF ReleaseFinish
<1>. HIDE DEF t
<1>3. \A s \in Id : HostView[s].proc = t <=> s \in OwnServers(t)
  BY <1>1 DEF HostView, OwnServers
<1>4. \A k \in Id : GuestView[k] = t <=> k \in OwnClients(t)
  BY <1>1 DEF GuestView, OwnClients
<1>5. \A s \in Id : HostView[s].proc = t => Links!LinksOf(s) = {}
  <2>1. \A s \in OwnServers(t) : s \in servers
    BY DEF OwnServers
  <2>. QED
    BY <1>2, <1>3, <2>1, LinksAreConns
<1>6. \A k \in Id : GuestView[k] = t => ~Links!Linked(k)
  BY <1>2, <1>4 DEF Links!Linked, Links!NoLink, LinkView
<1>7. HostView' = [s \in Id |-> IF HostView[s].proc = t THEN Links!NoHost ELSE HostView[s]]
  BY <1>2, <1>3 DEF HostView, Links!NoHost
<1>8. GuestView' = [k \in Id |-> IF GuestView[k] = t THEN NULL ELSE GuestView[k]]
  BY <1>2, <1>4 DEF GuestView
<1>9. LinkView' = LinkView
  <2>1. ASSUME NEW k \in Id PROVE LinkView'[k] = LinkView[k]
    <3>1. CASE k \in OwnClients(t)
      BY <1>2, <3>1 DEF LinkView
    <3>2. CASE k \notin OwnClients(t)
      BY <1>2, <3>2 DEF LinkView
    <3>. QED
      BY <3>1, <3>2
  <2>. QED
    BY <2>1 DEF LinkView
<1>10. QED
  BY <1>1, <1>2, <1>5, <1>6, <1>7, <1>8, <1>9 DEF Links!Exit

-----------------------------------------------------------------------------
(* The iterations of the clean-up loops, and the calls that end one        *)
(* connection.                                                             *)

LEMMA LoopDisconnects ==
    ASSUME IInv, ConstantsAssumption,
           UnregisterConn \/ ReleaseServerConn \/ ReleaseClientConn
    PROVE  \E k \in Id : Links!Disconnect(k)
<1>1. PICK c \in conns : delete_connection(c, notif)
  <2>1. CASE UnregisterConn
    BY <2>1, GraphFacts DEF UnregisterConn, OwnersRegistered, PointersAgree
  <2>2. CASE ReleaseServerConn
    BY <2>2, GraphFacts DEF ReleaseServerConn, OwnServers, PointersAgree
  <2>3. CASE ReleaseClientConn
    BY <2>3, GraphFacts DEF ReleaseClientConn, OwnClients, PointersAgree
  <2>. QED
    BY <2>1, <2>2, <2>3
<1>2. UNCHANGED <<servers, clients>>
  BY DEF UnregisterConn, ReleaseServerConn, ReleaseClientConn
<1>3. notif \in Links!Announced(conn[c].client)
  BY DEF Links!Announced
<1>4. conn[c].client \in Id
  BY ConnIsLink
<1>5. QED
  BY <1>1, <1>2, <1>3, <1>4, DeleteIsDisconnect

LEMMA CallDisconnects ==
    ASSUME IInv, ConstantsAssumption, NEW c \in conns,
           NEW who \in {"CLIENT", "SERVER"},
           delete_connection(c, notification_send(who, "REMOTE_DISCONNECT", c, notif)),
           UNCHANGED <<servers, clients>>
    PROVE  \E k \in Id : Links!Disconnect(k)
<1>. DEFINE q == notification_send(who, "REMOTE_DISCONNECT", c, notif)
<1>1. conn[c].client \in Id
  BY ConnIsLink
<1>2. q = Links!Post(conn[c].client, who, "REMOTE_DISCONNECT", notif)
  BY SendIsPost
<1>3. q \in Links!Announced(conn[c].client)
  BY <1>2 DEF Links!Announced
<1>. HIDE DEF q
<1>4. QED
  BY <1>1, <1>3, DeleteIsDisconnect DEF q

(* Every step of the driver is a step of RipcLinks or does not show.       *)
LEMMA StepImplements ==
    ASSUME IInv, ConstantsAssumption, [Next]_vars
    PROVE  [Links!Next]_(Links!vars)
<1>1. CASE UNCHANGED vars
  BY <1>1, ViewUnchanged DEF vars, Links!vars
<1>2. CASE OpStep
  BY <1>2, LoopDisconnects, UnregisterWithdraws, ReleaseExits DEF OpStep, Links!Next
<1>3. ASSUME NEW t \in Task,
             \/ Open(t) \/ ThreadExit(t) \/ ReleaseStart(t) \/ ReleaseOrphan(t)
             \/ RegisterMonitor(t)
             \/ \E s \in servers : ServerUnregister(t, s)
             \/ \E s \in servers, m \in submems : ServerEndWritingNull(t, s, m)
      PROVE  [Links!Next]_(Links!vars)
  <2>1. UNCHANGED <<servers, server, clients, client, conn, notif>>
    BY <1>3 DEF Open, ThreadExit, ReleaseStart, ReleaseOrphan, RegisterMonitor,
       ServerUnregister, ServerEndWritingNull
  <2>. QED
    BY <2>1, ViewUnchanged DEF Links!vars
<1>4. ASSUME NEW t \in Task,
             \/ RegisterClient(t)
             \/ \E n \in Name : RegisterServer(t, n)
             \/ \E k \in clients, n \in Name : Connect(t, k, n)
             \/ \E k \in clients : ClientUnregister(t, k)
      PROVE  Links!Next
  BY <1>4, RegisterClientJoins, RegisterServerOffers, ConnectLinks,
     ClientUnregisterLeaves, GraphFacts DEF Links!Next
<1>5. ASSUME NEW t \in Task, NEW k \in clients,
             ClientMmap(t, k) \/ ClientEndWriting(t, k)
      PROVE  Links!Next
  <2>. DEFINE c == client[k].conn
  <2>1. c \in conns /\ conn[c].client = k /\ k \in Id
    BY <1>5, GraphFacts DEF ClientMmap, ClientEndWriting, Connected, PointersAgree
  <2>2. \A d \in conns : conn'[d].server = conn[d].server /\ conn'[d].mem = conn[d].mem
    <3>1. CASE ClientEndWriting(t, k)
      BY <3>1 DEF ClientEndWriting
    <3>2. CASE ClientMmap(t, k)
      <4>1. conn' = [conn EXCEPT ![c].mmaped = TRUE]
        BY <3>2 DEF ClientMmap
      <4>2. conn \in [Conn -> ConnRecord] /\ conn[c] \in ConnRecord /\ conns \subseteq Conn
        BY <2>1, GraphFacts DEF TypeOK
      <4>. HIDE DEF c
      <4>. DEFINE r == [conn[c] EXCEPT !.mmaped = TRUE]
      <4>3. r.server = conn[c].server /\ r.mem = conn[c].mem
        BY <4>2 DEF ConnRecord
      <4>4. conn' = [d \in Conn |-> IF d = c THEN r ELSE conn[d]]
        BY <4>1, <4>2
      <4>. HIDE DEF r
      <4>. QED
        BY <4>2, <4>3, <4>4
    <3>. QED
      BY <1>5, <3>1, <3>2
  <2>3. UNCHANGED <<servers, server, clients, client>>
    BY <1>5 DEF ClientMmap, ClientEndWriting
  <2>4. \/ notif' = notification_send("CLIENT", "NEW_CONNECTION", c, notif)
        \/ notif' = notification_send("CLIENT", "NEW_MESSAGE", c, notif)
    BY <1>5 DEF ClientMmap, ClientEndWriting
  <2>. HIDE DEF c
  <2>5. \/ Links!Say(k, "CLIENT", "NEW_CONNECTION")
        \/ Links!Say(k, "CLIENT", "NEW_MESSAGE")
    BY <2>1, <2>2, <2>3, <2>4, SendIsSay
  <2>. QED
    BY <2>1, <2>5 DEF Links!Next
<1>6. ASSUME NEW t \in Task, NEW s \in servers, NEW m \in submems,
             ServerEndWriting(t, s, m)
      PROVE  Links!Next
  <2>1. PICK c \in ConnsByMem(s, m) :
          notif' = notification_send("SERVER", "NEW_MESSAGE", c, notif)
    BY <1>6 DEF ServerEndWriting
  <2>2. c \in conns
    BY <2>1, GraphFacts DEF ConnsByMem, PointersAgree
  <2>3. UNCHANGED <<servers, server, clients, client, conn>>
    BY <1>6 DEF ServerEndWriting
  <2>4. conn[c].client \in Id
    BY <2>2, ConnIsLink
  <2>5. Links!Say(conn[c].client, "SERVER", "NEW_MESSAGE")
    BY <2>1, <2>2, <2>3, SendIsSay
  <2>. QED
    BY <2>4, <2>5 DEF Links!Next
<1>7. ASSUME NEW t \in Task, NEW k \in clients, ClientDisconnect(t, k)
      PROVE  Links!Next
  <2>1. client[k].conn \in conns
    BY <1>7, GraphFacts DEF ClientDisconnect, Connected, PointersAgree
  <2>2. delete_connection(client[k].conn,
           notification_send("CLIENT", "REMOTE_DISCONNECT", client[k].conn, notif))
    BY <1>7 DEF ClientDisconnect
  <2>3. UNCHANGED <<servers, clients>>
    BY <1>7 DEF ClientDisconnect
  <2>. QED
    BY <2>1, <2>2, <2>3, CallDisconnects DEF Links!Next
<1>8. ASSUME NEW t \in Task, NEW s \in servers, NEW m \in submems,
             ServerDisconnect(t, s, m)
      PROVE  Links!Next
  <2>1. PICK c \in ConnsByMem(s, m) :
          delete_connection(c, notification_send("SERVER", "REMOTE_DISCONNECT", c, notif))
    BY <1>8 DEF ServerDisconnect
  <2>2. c \in conns
    BY <2>1, GraphFacts DEF ConnsByMem, PointersAgree
  <2>3. UNCHANGED <<servers, clients>>
    BY <1>8 DEF ServerDisconnect
  <2>. QED
    BY <2>1, <2>2, <2>3, CallDisconnects DEF Links!Next
<1>9. ASSUME NEW t \in Task, Read(t) PROVE Links!Next
  <2>1. UNCHANGED <<servers, server, clients, client, conn>>
    BY <1>9 DEF Read
  <2>2. UNCHANGED <<HostView, GuestView, LinkView>>
    BY <2>1 DEF HostView, GuestView, LinkView
  <2>3. Links!Read(t)
    BY <1>9, <2>2 DEF Read, Links!Read
  <2>. QED
    BY <2>3 DEF Links!Next
<1>10. QED
  BY <1>1, <1>2, <1>3, <1>4, <1>5, <1>6, <1>7, <1>8, <1>9 DEF Next

(* The driver implements the abstract specification of links, for every    *)
(* set of tasks, names and connections and all limits.                     *)
THEOREM DriverImplementsLinks == Spec => ImplementsLinks
<1>1. Init => Links!Init
  BY DEF Init, Links!Init, HostView, GuestView, LinkView, Links!NoHost, Links!NoLink
<1>2. IInv /\ [Next]_vars => [Links!Next]_(Links!vars)
  BY ConstantsAssumption, StepImplements
<1>3. QED
  BY <1>1, <1>2, InductiveInvariant, PTL DEF Spec, Links!Spec, ImplementsLinks
-----------------------------------------------------------------------------
(* What is proved of the abstract specification holds of the driver.       *)

LinksProofs == INSTANCE RipcLinksProofs WITH
    Proc <- Task,
    host <- HostView, guest <- GuestView, link <- LinkView, inbox <- notif

LEMMA LinksTheorem ==
    ASSUME ConstantsAssumption PROVE Links!Spec => []LinksProofs!NotMisled
<1>1. LinksProofs!LinksAssumption
  BY DEF ConstantsAssumption, LinksProofs!LinksAssumption
<1>2. LinksProofs!Spec => []LinksProofs!NotMisled
  BY <1>1, LinksProofs!LinksDoNotMislead, PTL
<1>3. Links!Init => LinksProofs!Init
  BY DEF Links!Init, Links!NoHost, Links!NoLink,
         LinksProofs!Init, LinksProofs!NoHost, LinksProofs!NoLink
<1>4. [Links!Next]_(Links!vars) => [LinksProofs!Next]_(LinksProofs!vars)
  <2>1. ASSUME NEW k, NEW who, NEW type, NEW q
        PROVE  Links!Post(k, who, type, q) = LinksProofs!Post(k, who, type, q)
    BY DEF Links!Post, Links!Reader, Links!Note,
           LinksProofs!Post, LinksProofs!Reader, LinksProofs!Note
  <2>2. QED
    BY <2>1, Zenon DEF
      Links!Next, Links!vars, Links!Join, Links!Read, Links!Exit, Links!Offer,
      Links!Connect, Links!Say, Links!Disconnect, Links!Leave, Links!Withdraw,
      Links!NoHost, Links!NoLink, Links!Linked, Links!LinksOf, Links!Farewell,
      Links!Announced,
      LinksProofs!Next, LinksProofs!vars, LinksProofs!Join, LinksProofs!Read,
      LinksProofs!Exit, LinksProofs!Offer, LinksProofs!Connect, LinksProofs!Say,
      LinksProofs!Disconnect, LinksProofs!Leave, LinksProofs!Withdraw,
      LinksProofs!NoHost, LinksProofs!NoLink, LinksProofs!Linked,
      LinksProofs!LinksOf, LinksProofs!Farewell, LinksProofs!Announced
<1>5. QED
  BY <1>2, <1>3, <1>4, PTL DEF Links!Spec, LinksProofs!Spec

(* A link whose notes go to a task is a live connection.                   *)
LEMMA LastsIsLive ==
    ASSUME IInv, ConstantsAssumption, NEW n, NEW t, LinksProofs!Lasts(n, t),
           n.who \in {"CLIENT", "SERVER"}
    PROVE  Live(n, t)
<1>1. PICK k \in Id : /\ LinksProofs!Linked(k)
                      /\ t = LinksProofs!Reader(k, n.who)
                      /\ n = LinksProofs!Note(k, n.who, n.type)
  BY DEF LinksProofs!Lasts
<1>2. k \in clients /\ client[k].conn # NULL
  BY <1>1 DEF LinksProofs!Linked, LinksProofs!NoLink, LinkView
<1>. DEFINE c == client[k].conn
<1>3. c \in conns /\ conn[c].client = k
  BY <1>2, GraphFacts DEF PointersAgree
<1>4. /\ conn[c].server \in servers
      /\ conn[c].server \in Id
      /\ LinkView[k] = [server |-> conn[c].server, mem |-> conn[c].mem]
  BY <1>3, ConnIsLink
<1>5. HostView[conn[c].server].proc = server[conn[c].server].task
      /\ GuestView[k] = client[k].task
  BY <1>2, <1>4 DEF HostView, GuestView
<1>6. LinksProofs!Note(k, n.who, n.type) = Note(n.who, n.type, c)
  BY <1>3, <1>4 DEF LinksProofs!Note, Note
<1>7. t = Owner(c, IF n.who = "CLIENT" THEN "SERVER" ELSE "CLIENT")
  <2>1. LinkView[k].server = conn[c].server
    BY <1>4
  <2>2. t = IF n.who = "CLIENT" THEN HostView[LinkView[k].server].proc ELSE GuestView[k]
    BY <1>1 DEF LinksProofs!Reader
  <2>3. t = IF n.who = "CLIENT" THEN server[conn[c].server].task ELSE client[k].task
    BY <1>5, <2>1, <2>2
  <2>. HIDE DEF c
  <2>4. CASE n.who = "CLIENT"
    BY <2>3, <2>4 DEF Owner
  <2>5. CASE n.who # "CLIENT"
    BY <1>3, <2>3, <2>5 DEF Owner
  <2>. QED
    BY <2>4, <2>5
<1>8. n = Note(n.who, n.type, c)
  BY <1>1, <1>6
<1>9. Note(n.who, n.type, c).mem = conn[c].mem
  BY DEF Note
<1>10. conn[c].mem = n.mem
  BY <1>8, <1>9
<1>11. QED
  BY <1>3, <1>7, <1>8, <1>10 DEF Live

(* No process that reads its queue to the end keeps a dead connection: a   *)
(* queued NEW_CONNECTION or NEW_MESSAGE speaks of a connection that        *)
(* exists, or its REMOTE_DISCONNECT follows, for every set of tasks, names *)
(* and connections and all limits, whatever ids are reused.                *)
THEOREM DriverDoesNotMislead == Spec => []PendingIsLive
<1>1. IInv /\ LinksProofs!NotMisled => PendingIsLive
  <2>1. ASSUME IInv, LinksProofs!NotMisled,
               NEW t \in tasks, NEW i \in 1..Len(notif[t]), NEW n,
               n = notif[t][i], n.type # "REMOTE_DISCONNECT"
        PROVE  \/ Live(n, t)
               \/ \E j \in i+1..Len(notif[t]) :
                    /\ notif[t][j].type = "REMOTE_DISCONNECT"
                    /\ SameEnds(notif[t][j], n)
    <3>1. t \in Task /\ notif[t] \in Seq(Notification)
      BY <2>1, GraphFacts DEF TypeOK
    <3>2. n \in Notification
      BY <2>1, <3>1
    <3>3. \/ LinksProofs!Lasts(n, t)
          \/ \E j \in i+1..Len(notif[t]) :
               notif[t][j] = [n EXCEPT !.type = "REMOTE_DISCONNECT"]
      BY <2>1, <3>1 DEF LinksProofs!NotMisled
    <3>4. LinksProofs!Lasts(n, t) => Live(n, t)
      BY <2>1, <3>2, ConstantsAssumption, LastsIsLive DEF Notification
    <3>5. \A m : m = [n EXCEPT !.type = "REMOTE_DISCONNECT"]
                   => m.type = "REMOTE_DISCONNECT" /\ SameEnds(m, n)
      BY <3>2 DEF Notification, SameEnds
    <3>. QED
      BY <3>3, <3>4, <3>5
  <2>. QED
    BY <2>1 DEF PendingIsLive
<1>2. QED
  BY <1>1, ConstantsAssumption, DriverImplementsLinks, LinksTheorem,
     InductiveInvariant, PTL DEF ImplementsLinks

=============================================================================
