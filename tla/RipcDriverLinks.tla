-------------------------- MODULE RipcDriverLinks ---------------------------
(***************************************************************************)
(* The driver implements RipcLinks: its object graph, seen through the     *)
(* mapping below, takes only the steps of that specification.              *)
(***************************************************************************)
EXTENDS RipcDriver

(* The name and the owner of every server on g_servers_list.               *)
HostView ==
    [s \in Id |-> IF s \in servers
                  THEN [name |-> server[s].name, proc |-> server[s].task]
                  ELSE [name |-> NULL, proc |-> NULL]]

(* The owner of every client on g_clients_list.                            *)
GuestView == [k \in Id |-> IF k \in clients THEN client[k].task ELSE NULL]

(* What m_conn_p of a client leads to.                                     *)
LinkView ==
    [k \in Id |-> IF k \in clients /\ client[k].conn # NULL
                  THEN [server |-> conn[client[k].conn].server,
                        mem |-> conn[client[k].conn].mem]
                  ELSE [server |-> NULL, mem |-> NULL]]

Links == INSTANCE RipcLinks WITH
    Proc <- Task,
    host <- HostView, guest <- GuestView, link <- LinkView, inbox <- notif

(* The driver shows its users links that begin and end at once, over       *)
(* sub-areas of their own, with both sides told of the end, however many   *)
(* pointers and loops that takes: connect_client_to_server,                *)
(* delete_connection, server_cleanup_connections and reg_task_delete keep  *)
(* to the abstract specification.                                          *)
ImplementsLinks == Links!Spec

=============================================================================
