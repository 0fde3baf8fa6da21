----------------------------- MODULE RipcLinks ------------------------------
(***************************************************************************)
(* What the driver promises to the processes that use it, without the      *)
(* objects it keeps for that purpose: named servers, clients, a link of a  *)
(* client with a server over a sub-area of its own, and one inbox for each *)
(* process.                                                                *)
(*                                                                         *)
(* A link begins and ends at once for both sides, and its end is told to   *)
(* both, whoever ends it.  A server goes only when it has no link, and a   *)
(* process goes only when nothing of it is linked.  Connection objects,    *)
(* pools, the id generator, counters, monitors and the loops that take the *)
(* links of a server or a process down one by one do not show.             *)
(***************************************************************************)
EXTENDS Naturals, Sequences

CONSTANTS
    Proc,    \* processes
    Name,    \* server names
    Id,      \* what servers, clients and sub-areas are called
    NULL     \* no process, no name, no link

VARIABLES
    host,    \* the name and the process of every server
    guest,   \* the process of every client
    link,    \* the server and the sub-area every client is linked to
    inbox    \* what every process has not read yet

vars == <<host, guest, link, inbox>>

NoHost == [name |-> NULL, proc |-> NULL]
NoLink == [server |-> NULL, mem |-> NULL]

Linked(k)  == link[k] # NoLink
LinksOf(s) == {k \in Id : Linked(k) /\ link[k].server = s}

Init ==
    /\ host = [s \in Id |-> NoHost]
    /\ guest = [k \in Id |-> NULL]
    /\ link = [k \in Id |-> NoLink]
    /\ inbox = [p \in Proc |-> <<>>]

-----------------------------------------------------------------------------
(* A note from one end of the link of client k to the other.               *)

Note(k, who, type) ==
    [who |-> who, type |-> type, mem |-> link[k].mem,
     from |-> IF who = "CLIENT" THEN k ELSE link[k].server,
     to   |-> IF who = "CLIENT" THEN link[k].server ELSE k]

(* The process that a note from the given end goes to.                     *)
Reader(k, who) == IF who = "CLIENT" THEN host[link[k].server].proc ELSE guest[k]

Post(k, who, type, boxes) ==
    [boxes EXCEPT ![Reader(k, who)] = Append(@, Note(k, who, type))]

(* The inboxes when both ends have been told that the link is over.        *)
Farewell(k, boxes) ==
    Post(k, "CLIENT", "REMOTE_DISCONNECT",
        Post(k, "SERVER", "REMOTE_DISCONNECT", boxes))

(* An end that asks for the end of the link announces it once more.        *)
Announced(k) ==
    {inbox} \cup {Post(k, who, "REMOTE_DISCONNECT", inbox) : who \in {"CLIENT", "SERVER"}}

-----------------------------------------------------------------------------
(* A server comes under a name that no other server has.                   *)
Offer(p, n) ==
    /\ \A s \in Id : host[s].name # n
    /\ \E s \in Id : /\ host[s] = NoHost
                     /\ host' = [host EXCEPT ![s] = [name |-> n, proc |-> p]]
    /\ UNCHANGED <<guest, link, inbox>>

Join(p) ==
    /\ \E k \in Id : /\ guest[k] = NULL
                     /\ guest' = [guest EXCEPT ![k] = p]
    /\ UNCHANGED <<host, link, inbox>>

(* A link takes a sub-area that no other link has.                         *)
Connect(k, n) ==
    /\ guest[k] # NULL /\ ~Linked(k)
    /\ \E s, m \in Id :
         /\ host[s].name = n
         /\ \A j \in Id : Linked(j) => link[j].mem # m
         /\ link' = [link EXCEPT ![k] = [server |-> s, mem |-> m]]
    /\ UNCHANGED <<host, guest, inbox>>

(* The two ends talk only while the link lasts.                            *)
Say(k, who, type) ==
    /\ Linked(k)
    /\ inbox' = Post(k, who, type, inbox)
    /\ UNCHANGED <<host, guest, link>>

Disconnect(k) ==
    /\ Linked(k)
    /\ \E boxes \in Announced(k) : inbox' = Farewell(k, boxes)
    /\ link' = [link EXCEPT ![k] = NoLink]
    /\ UNCHANGED <<host, guest>>

(* A linked client takes its leave and its link with it.                   *)
Leave(k) ==
    /\ Linked(k)
    /\ \E boxes \in Announced(k) : inbox' = Farewell(k, boxes)
    /\ link' = [link EXCEPT ![k] = NoLink]
    /\ guest' = [guest EXCEPT ![k] = NULL]
    /\ UNCHANGED host

Withdraw(s) ==
    /\ host[s] # NoHost
    /\ LinksOf(s) = {}
    /\ host' = [host EXCEPT ![s] = NoHost]
    /\ UNCHANGED <<guest, link, inbox>>

Read(p) ==
    /\ inbox[p] # <<>>
    /\ inbox' = [inbox EXCEPT ![p] = Tail(@)]
    /\ UNCHANGED <<host, guest, link>>

(* A process goes with its servers, its clients and what it has not read.  *)
Exit(p) ==
    /\ \A s \in Id : host[s].proc = p => LinksOf(s) = {}
    /\ \A k \in Id : guest[k] = p => ~Linked(k)
    /\ host' = [s \in Id |-> IF host[s].proc = p THEN NoHost ELSE host[s]]
    /\ guest' = [k \in Id |-> IF guest[k] = p THEN NULL ELSE guest[k]]
    /\ inbox' = [inbox EXCEPT ![p] = <<>>]
    /\ UNCHANGED link

Next ==
    \/ \E p \in Proc : Join(p) \/ Read(p) \/ Exit(p)
    \/ \E p \in Proc, n \in Name : Offer(p, n)
    \/ \E k \in Id, n \in Name : Connect(k, n)
    \/ \E k \in Id : \/ Say(k, "CLIENT", "NEW_CONNECTION")
                     \/ Say(k, "CLIENT", "NEW_MESSAGE")
                     \/ Say(k, "SERVER", "NEW_MESSAGE")
                     \/ Disconnect(k) \/ Leave(k)
    \/ \E s \in Id : Withdraw(s)

Spec == Init /\ [][Next]_vars

-----------------------------------------------------------------------------
(* What a process may conclude from its inbox.                             *)

(* A link whose notes of this sender go to process p.                      *)
Lasts(n, p) == \E k \in Id : /\ Linked(k)
                             /\ p = Reader(k, n.who)
                             /\ n = Note(k, n.who, n.type)

(* A process that reads its inbox to the end does not take a link for      *)
(* alive that is over: whatever an unread note says of a link that does    *)
(* not exist any more is taken back by a note of its end that follows,     *)
(* although ids and sub-areas are reused meanwhile.                        *)
NotMisled ==
    \A p \in Proc : \A i \in 1..Len(inbox[p]) :
        LET n == inbox[p][i]
        IN  n.type # "REMOTE_DISCONNECT" =>
              \/ Lasts(n, p)
              \/ \E j \in i+1..Len(inbox[p]) :
                    inbox[p][j] = [n EXCEPT !.type = "REMOTE_DISCONNECT"]

=============================================================================
