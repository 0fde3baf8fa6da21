--------------------------- MODULE RipcLinksProofs ----------------------------
(* What a process reads does not mislead it about its links: NotMisled     *)
(* holds of RipcLinks for all sets of processes, names and ids.  The       *)
(* argument needs that a link has two living ends (EndsExist), so that     *)
(* nobody's arrival or departure turns a note about it to somebody else.   *)
EXTENDS RipcLinks, TLAPS

LinksAssumption == NULL \notin Proc /\ NULL \notin Name /\ NULL \notin Id

Side == {"CLIENT", "SERVER"}
Kind == {"NEW_CONNECTION", "NEW_MESSAGE", "REMOTE_DISCONNECT"}
NoteSet == [who : Side, type : Kind, mem : Id, from : Id, to : Id]

LinksType ==
    /\ host \in [Id -> [name : Name \cup {NULL}, proc : Proc \cup {NULL}]]
    /\ guest \in [Id -> Proc \cup {NULL}]
    /\ link \in [Id -> [server : Id \cup {NULL}, mem : Id \cup {NULL}]]
    /\ inbox \in [Proc -> Seq(NoteSet)]

(* Both ends of a link exist.                                              *)
EndsExist ==
    \A k \in Id : Linked(k) =>
        /\ guest[k] \in Proc
        /\ link[k].server \in Id /\ link[k].mem \in Id
        /\ host[link[k].server].proc \in Proc

(* A server with a name has a process.                                     *)
Served == \A s \in Id : host[s].name \in Name => host[s].proc \in Proc

LInv == LinksType /\ EndsExist /\ Served /\ NotMisled

-----------------------------------------------------------------------------
(* Queues.                                                                 *)

(* Queue c is queue b with announcements of ends behind it.                *)
OnlyEnds(b, c) ==
    /\ Len(b) <= Len(c)
    /\ \A i \in 1..Len(b) : c[i] = b[i]
    /\ \A i \in Len(b)+1..Len(c) : c[i].type = "REMOTE_DISCONNECT"

LEMMA OnlyEndsTransitive ==
    ASSUME NEW a \in Seq(NoteSet), NEW b \in Seq(NoteSet), NEW c \in Seq(NoteSet),
           OnlyEnds(a, b), OnlyEnds(b, c)
    PROVE  OnlyEnds(a, c)
<1>1. Len(a) \in Nat /\ Len(b) \in Nat /\ Len(c) \in Nat
  OBVIOUS
<1>2. Len(a) <= Len(c)
  BY <1>1 DEF OnlyEnds
<1>3. \A i \in 1..Len(a) : c[i] = a[i]
  BY <1>1 DEF OnlyEnds
<1>4. ASSUME NEW i \in Len(a)+1..Len(c) PROVE c[i].type = "REMOTE_DISCONNECT"
  <2>1. CASE i <= Len(b)
    <3>1. i \in Len(a)+1..Len(b) /\ i \in 1..Len(b)
      BY <1>1, <2>1
    <3>2. c[i] = b[i] /\ b[i].type = "REMOTE_DISCONNECT"
      BY <3>1 DEF OnlyEnds
    <3>. QED
      BY <3>2
  <2>2. CASE i > Len(b)
    <3>1. i \in Len(b)+1..Len(c)
      BY <1>1, <2>2
    <3>. QED
      BY <3>1 DEF OnlyEnds
  <2>. QED
    BY <1>1, <2>1, <2>2
<1>5. QED
  BY <1>2, <1>3, <1>4 DEF OnlyEnds

LEMMA AppendEffect ==
    ASSUME NEW q \in Seq(NoteSet), NEW n \in NoteSet
    PROVE  /\ Append(q, n) \in Seq(NoteSet)
           /\ Len(Append(q, n)) = Len(q) + 1
           /\ \A i \in 1..Len(q) : Append(q, n)[i] = q[i]
           /\ Append(q, n)[Len(q) + 1] = n
OBVIOUS

(* A posted note goes to its reader's queue, to the end of it, and no      *)
(* other queue changes.                                                    *)
LEMMA PostEffect ==
    ASSUME LinksType, EndsExist, NEW k \in Id, Linked(k),
           NEW who \in Side, NEW type \in Kind,
           NEW boxes \in [Proc -> Seq(NoteSet)]
    PROVE  /\ Post(k, who, type, boxes) \in [Proc -> Seq(NoteSet)]
           /\ Note(k, who, type) \in NoteSet
           /\ Reader(k, who) \in Proc
           /\ \A p \in Proc :
                Post(k, who, type, boxes)[p] =
                  IF p = Reader(k, who) THEN Append(boxes[p], Note(k, who, type))
                                        ELSE boxes[p]
<1>1. Note(k, who, type) \in NoteSet
  BY DEF EndsExist, Note, NoteSet, Side
<1>2. Reader(k, who) \in Proc
  BY DEF EndsExist, Reader
<1>3. QED
  BY <1>1, <1>2 DEF Post

LEMMA EndPost ==
    ASSUME LinksType, EndsExist, NEW k \in Id, Linked(k), NEW who \in Side,
           NEW boxes \in [Proc -> Seq(NoteSet)], NEW p \in Proc
    PROVE  LET new == Post(k, who, "REMOTE_DISCONNECT", boxes)[p]
           IN  /\ OnlyEnds(boxes[p], new)
               /\ p = Reader(k, who) =>
                    /\ Len(new) = Len(boxes[p]) + 1
                    /\ new[Len(new)] = Note(k, who, "REMOTE_DISCONNECT")
<1>. DEFINE n == Note(k, who, "REMOTE_DISCONNECT")
            new == Post(k, who, "REMOTE_DISCONNECT", boxes)[p]
<1>1. n \in NoteSet /\ new = IF p = Reader(k, who) THEN Append(boxes[p], n) ELSE boxes[p]
  BY PostEffect DEF Kind
<1>2. n.type = "REMOTE_DISCONNECT"
  BY DEF Note
<1>. HIDE DEF n, new
<1>3. boxes[p] \in Seq(NoteSet)
  OBVIOUS
<1>4. CASE p = Reader(k, who)
  <2>1. new = Append(boxes[p], n)
    BY <1>1, <1>4
  <2>2. /\ Len(new) = Len(boxes[p]) + 1
        /\ \A i \in 1..Len(boxes[p]) : new[i] = boxes[p][i]
        /\ new[Len(boxes[p]) + 1] = n
    BY <1>1, <1>3, <2>1, AppendEffect
  <2>3. Len(boxes[p]) \in Nat
    BY <1>3
  <2>4. OnlyEnds(boxes[p], new)
    BY <1>2, <2>2, <2>3 DEF OnlyEnds
  <2>. QED
    BY <2>2, <2>3, <2>4 DEF new, n
<1>5. CASE p # Reader(k, who)
  BY <1>1, <1>3, <1>5 DEF OnlyEnds, new
<1>6. QED
  BY <1>4, <1>5

(* After the farewell each end's reader has, behind what it had before,    *)
(* the note of the end.                                                    *)
LEMMA FarewellTells ==
    ASSUME LinksType, EndsExist, NEW k \in Id, Linked(k), NEW boxes \in Announced(k)
    PROVE  /\ Farewell(k, boxes) \in [Proc -> Seq(NoteSet)]
           /\ \A p \in Proc :
                /\ OnlyEnds(inbox[p], Farewell(k, boxes)[p])
                /\ \A who \in Side : p = Reader(k, who) =>
                     \E j \in Len(inbox[p])+1..Len(Farewell(k, boxes)[p]) :
                       Farewell(k, boxes)[p][j] = Note(k, who, "REMOTE_DISCONNECT")
<1>. DEFINE one == Post(k, "SERVER", "REMOTE_DISCONNECT", boxes)
            two == Post(k, "CLIENT", "REMOTE_DISCONNECT", one)
<1>1. inbox \in [Proc -> Seq(NoteSet)] /\ "CLIENT" \in Side /\ "SERVER" \in Side
      /\ "REMOTE_DISCONNECT" \in Kind
  BY DEF LinksType, Side, Kind
<1>2. boxes \in [Proc -> Seq(NoteSet)] /\ \A p \in Proc : OnlyEnds(inbox[p], boxes[p])
  <2>1. CASE boxes = inbox
    <3>1. \A p \in Proc : Len(inbox[p]) \in Nat
      BY <1>1
    <3>. QED
      BY <1>1, <2>1, <3>1 DEF OnlyEnds
  <2>2. CASE \E who \in Side : boxes = Post(k, who, "REMOTE_DISCONNECT", inbox)
    BY <1>1, <2>2, PostEffect, EndPost
  <2>. QED
    BY <2>1, <2>2 DEF Announced, Side
<1>. HIDE DEF one, two
<1>3. /\ one \in [Proc -> Seq(NoteSet)]
      /\ \A p \in Proc :
           /\ OnlyEnds(boxes[p], one[p])
           /\ p = Reader(k, "SERVER") =>
                /\ Len(one[p]) = Len(boxes[p]) + 1
                /\ one[p][Len(one[p])] = Note(k, "SERVER", "REMOTE_DISCONNECT")
  BY <1>1, <1>2, PostEffect, EndPost DEF one
<1>4. /\ two \in [Proc -> Seq(NoteSet)]
      /\ \A p \in Proc :
           /\ OnlyEnds(one[p], two[p])
           /\ p = Reader(k, "CLIENT") =>
                /\ Len(two[p]) = Len(one[p]) + 1
                /\ two[p][Len(two[p])] = Note(k, "CLIENT", "REMOTE_DISCONNECT")
  BY <1>1, <1>3, PostEffect, EndPost DEF two
<1>5. Farewell(k, boxes) = two
  BY DEF Farewell, one, two
<1>6. ASSUME NEW p \in Proc
      PROVE  /\ OnlyEnds(inbox[p], two[p])
             /\ \A who \in Side : p = Reader(k, who) =>
                  \E j \in Len(inbox[p])+1..Len(two[p]) :
                    two[p][j] = Note(k, who, "REMOTE_DISCONNECT")
  <2>1. /\ inbox[p] \in Seq(NoteSet) /\ boxes[p] \in Seq(NoteSet)
        /\ one[p] \in Seq(NoteSet) /\ two[p] \in Seq(NoteSet)
    BY <1>1, <1>2, <1>3, <1>4
  <2>2. OnlyEnds(inbox[p], one[p]) /\ OnlyEnds(inbox[p], two[p])
    BY <1>2, <1>3, <1>4, <2>1, OnlyEndsTransitive
  <2>3. /\ Len(inbox[p]) \in Nat /\ Len(boxes[p]) \in Nat
        /\ Len(one[p]) \in Nat /\ Len(two[p]) \in Nat
    BY <2>1
  <2>4. Len(inbox[p]) <= Len(boxes[p]) /\ Len(boxes[p]) <= Len(one[p])
        /\ Len(one[p]) <= Len(two[p])
    BY <1>2, <1>3, <1>4 DEF OnlyEnds
  <2>5. ASSUME p = Reader(k, "SERVER")
        PROVE  \E j \in Len(inbox[p])+1..Len(two[p]) :
                 two[p][j] = Note(k, "SERVER", "REMOTE_DISCONNECT")
    <3>. DEFINE j == Len(one[p])
    <3>1. j \in Len(inbox[p])+1..Len(two[p]) /\ j \in 1..Len(one[p])
      BY <1>3, <2>3, <2>4, <2>5
    <3>2. two[p][j] = one[p][j]
      BY <1>4, <3>1 DEF OnlyEnds
    <3>3. one[p][j] = Note(k, "SERVER", "REMOTE_DISCONNECT")
      BY <1>3, <2>5
    <3>. QED
      BY <3>1, <3>2, <3>3
  <2>6. ASSUME p = Reader(k, "CLIENT")
        PROVE  \E j \in Len(inbox[p])+1..Len(two[p]) :
                 two[p][j] = Note(k, "CLIENT", "REMOTE_DISCONNECT")
    <3>1. Len(two[p]) \in Len(inbox[p])+1..Len(two[p])
      BY <1>4, <2>3, <2>4, <2>6
    <3>. QED
      BY <1>4, <2>6, <3>1
  <2>. QED
    BY <2>2, <2>5, <2>6 DEF Side
<1>7. QED
  BY <1>4, <1>5, <1>6

-----------------------------------------------------------------------------
(* The links that a step leaves alone.                                     *)

Kept(k) ==
    /\ link'[k] = link[k] /\ guest'[k] = guest[k]
    /\ host'[link[k].server] = host[link[k].server]

LEMMA KeptLasts ==
    ASSUME NEW k \in Id, Linked(k), Kept(k), NEW n, NEW p,
           p = Reader(k, n.who), n = Note(k, n.who, n.type)
    PROVE  Lasts(n, p)'
BY DEF Kept, Lasts, Linked, Reader, Note

LEMMA KeptEnds ==
    ASSUME EndsExist, \A k \in Id : Linked(k)' => Linked(k) /\ Kept(k)
    PROVE  EndsExist'
BY DEF EndsExist, Kept, Linked

(* A note at place i of a queue is taken back behind it.                   *)
TakenBack(n, q, i) ==
    \E j \in i+1..Len(q) : q[j] = [n EXCEPT !.type = "REMOTE_DISCONNECT"]

LEMMA NotMisledBefore ==
    ASSUME NotMisled, NEW p \in Proc, NEW i \in 1..Len(inbox[p]), NEW n,
           n = inbox[p][i], n.type # "REMOTE_DISCONNECT"
    PROVE  Lasts(n, p) \/ TakenBack(n, inbox[p], i)
BY DEF NotMisled, TakenBack

LEMMA NotMisledAfter ==
    ASSUME \A p \in Proc : \A i \in 1..Len(inbox'[p]) : \A n :
             n = inbox'[p][i] /\ n.type # "REMOTE_DISCONNECT" =>
               Lasts(n, p)' \/ TakenBack(n, inbox'[p], i)
    PROVE  NotMisled'
<1>1. ASSUME NEW p \in Proc, NEW i \in 1..Len(inbox'[p]),
             inbox'[p][i].type # "REMOTE_DISCONNECT"
      PROVE  \/ Lasts(inbox[p][i], p)'
             \/ TakenBack(inbox'[p][i], inbox'[p], i)
  <2>1. PICK n : n = inbox'[p][i]
    OBVIOUS
  <2>2. Lasts(n, p)' \/ TakenBack(n, inbox'[p], i)
    BY <1>1, <2>1
  <2>3. CASE Lasts(n, p)'
    <3>1. Lasts(inbox[p][i], p)'
      BY <2>1, <2>3 DEF Lasts, Linked, Reader, Note
    <3>. QED
      BY <3>1
  <2>4. CASE TakenBack(n, inbox'[p], i)
    BY <2>1, <2>4
  <2>. QED
    BY <2>2, <2>3, <2>4
<1>2. QED
  BY <1>1 DEF NotMisled, TakenBack

(* A link that a step keeps keeps its notes true.                          *)
LEMMA LastsKept ==
    ASSUME NEW n, NEW p, Lasts(n, p), \A k \in Id : Linked(k) => Kept(k)
    PROVE  Lasts(n, p)'
<1>1. PICK k \in Id : Linked(k) /\ p = Reader(k, n.who) /\ n = Note(k, n.who, n.type)
  BY DEF Lasts
<1>2. QED
  BY <1>1, KeptLasts

(* A longer queue takes back what a shorter one does.                      *)
LEMMA TakenBackLonger ==
    ASSUME NEW n, NEW q \in Seq(NoteSet), NEW r \in Seq(NoteSet), NEW i \in 1..Len(q),
           Len(q) <= Len(r), \A j \in 1..Len(q) : r[j] = q[j], TakenBack(n, q, i)
    PROVE  TakenBack(n, r, i)
<1>1. PICK j \in i+1..Len(q) : q[j] = [n EXCEPT !.type = "REMOTE_DISCONNECT"]
  BY DEF TakenBack
<1>2. Len(q) \in Nat /\ Len(r) \in Nat
  OBVIOUS
<1>3. j \in 1..Len(q) /\ j \in i+1..Len(r)
  BY <1>2
<1>4. QED
  BY <1>1, <1>3 DEF TakenBack

-----------------------------------------------------------------------------
(* What the actions do to NotMisled.                                       *)

(* Steps that leave the queues and all links alone.                        *)
LEMMA QuietStep ==
    ASSUME NotMisled, inbox' = inbox, \A k \in Id : Linked(k) => Kept(k)
    PROVE  NotMisled'
<1>1. ASSUME NEW p \in Proc, NEW i \in 1..Len(inbox'[p]), NEW n,
             n = inbox'[p][i], n.type # "REMOTE_DISCONNECT"
      PROVE  Lasts(n, p)' \/ TakenBack(n, inbox'[p], i)
  <2>1. Lasts(n, p) \/ TakenBack(n, inbox[p], i)
    BY <1>1, NotMisledBefore
  <2>2. Lasts(n, p) => Lasts(n, p)'
    BY LastsKept
  <2>. QED
    BY <2>1, <2>2
<1>2. QED
  BY <1>1, NotMisledAfter

(* A step that ends the link of k, tells both sides and leaves the other   *)
(* links alone.                                                            *)
LEMMA EndStep ==
    ASSUME LInv, NEW k \in Id, Linked(k), NEW boxes \in Announced(k),
           inbox' = Farewell(k, boxes),
           \A j \in Id : Linked(j) /\ j # k => Kept(j)
    PROVE  NotMisled' /\ inbox' \in [Proc -> Seq(NoteSet)]
<1>1. LinksType /\ EndsExist /\ NotMisled
  BY DEF LInv
<1>2. /\ inbox' \in [Proc -> Seq(NoteSet)]
      /\ \A p \in Proc :
           /\ OnlyEnds(inbox[p], inbox'[p])
           /\ \A who \in Side : p = Reader(k, who) =>
                \E j \in Len(inbox[p])+1..Len(inbox'[p]) :
                  inbox'[p][j] = Note(k, who, "REMOTE_DISCONNECT")
  BY <1>1, FarewellTells
<1>3. ASSUME NEW p \in Proc, NEW i \in 1..Len(inbox'[p]), NEW n,
             n = inbox'[p][i], n.type # "REMOTE_DISCONNECT"
      PROVE  Lasts(n, p)' \/ TakenBack(n, inbox'[p], i)
  <2>1. inbox[p] \in Seq(NoteSet) /\ inbox'[p] \in Seq(NoteSet)
        /\ Len(inbox[p]) \in Nat /\ Len(inbox'[p]) \in Nat
    BY <1>1, <1>2 DEF LinksType
  <2>2. OnlyEnds(inbox[p], inbox'[p])
    BY <1>2
  <2>3. i \in 1..Len(inbox[p])
    <3>1. i \notin Len(inbox[p])+1..Len(inbox'[p])
      BY <1>3, <2>2 DEF OnlyEnds
    <3>. QED
      BY <2>1, <3>1
  <2>4. n = inbox[p][i] /\ n \in NoteSet
    <3>1. n = inbox[p][i]
      BY <1>3, <2>2, <2>3 DEF OnlyEnds
    <3>. QED
      BY <2>1, <2>3, <3>1
  <2>5. CASE TakenBack(n, inbox[p], i)
    BY <2>1, <2>2, <2>3, <2>5, TakenBackLonger DEF OnlyEnds
  <2>6. CASE Lasts(n, p)
    <3>1. PICK j \in Id : Linked(j) /\ p = Reader(j, n.who) /\ n = Note(j, n.who, n.type)
      BY <2>6 DEF Lasts
    <3>2. CASE j # k
      BY <3>1, <3>2, KeptLasts
    <3>3. CASE j = k
      <4>1. n.who \in Side
        BY <2>4 DEF NoteSet
      <4>2. PICK l \in Len(inbox[p])+1..Len(inbox'[p]) :
              inbox'[p][l] = Note(k, n.who, "REMOTE_DISCONNECT")
        BY <1>2, <3>1, <3>3, <4>1
      <4>3. l \in i+1..Len(inbox'[p])
        BY <2>1, <2>3
      <4>4. Note(k, n.who, "REMOTE_DISCONNECT") = [n EXCEPT !.type = "REMOTE_DISCONNECT"]
        <5>1. n = Note(k, n.who, n.type)
          BY <3>1, <3>3
        <5>2. \A t, u : [Note(k, n.who, t) EXCEPT !.type = u] = Note(k, n.who, u)
          BY DEF Note
        <5>. QED
          BY <5>1, <5>2
      <4>. QED
        BY <4>2, <4>3, <4>4 DEF TakenBack
    <3>. QED
      BY <3>2, <3>3
  <2>. QED
    BY <1>1, <1>3, <2>3, <2>4, <2>5, <2>6, NotMisledBefore
<1>4. NotMisled'
  BY <1>3, NotMisledAfter
<1>5. QED
  BY <1>2, <1>4

(* A note of a link that lasts does not mislead.                           *)
LEMMA SayStep ==
    ASSUME LInv, NEW k \in Id, NEW who \in Side, NEW type \in Kind, Say(k, who, type)
    PROVE  LInv'
<1>1. LinksType /\ EndsExist /\ NotMisled /\ Linked(k)
  BY DEF LInv, Say
<1>2. inbox' = Post(k, who, type, inbox) /\ UNCHANGED <<host, guest, link>>
  BY DEF Say
<1>3. /\ inbox' \in [Proc -> Seq(NoteSet)] /\ Note(k, who, type) \in NoteSet
      /\ \A p \in Proc :
           inbox'[p] = IF p = Reader(k, who) THEN Append(inbox[p], Note(k, who, type))
                                             ELSE inbox[p]
  BY <1>1, <1>2, PostEffect DEF LinksType
<1>4. LinksType' /\ EndsExist'
  BY <1>1, <1>2, <1>3 DEF LinksType, EndsExist, Linked
<1>5. \A j \in Id : Linked(j) => Kept(j)
  BY <1>2 DEF Kept
<1>6. ASSUME NEW p \in Proc, NEW i \in 1..Len(inbox'[p]), NEW n,
             n = inbox'[p][i], n.type # "REMOTE_DISCONNECT"
      PROVE  Lasts(n, p)' \/ TakenBack(n, inbox'[p], i)
  <2>1. inbox[p] \in Seq(NoteSet) /\ Len(inbox[p]) \in Nat /\ inbox'[p] \in Seq(NoteSet)
    BY <1>1, <1>3 DEF LinksType
  <2>2. /\ Len(inbox[p]) <= Len(inbox'[p]) /\ Len(inbox'[p]) <= Len(inbox[p]) + 1
        /\ \A j \in 1..Len(inbox[p]) : inbox'[p][j] = inbox[p][j]
        /\ i \in 1..Len(inbox[p]) \/ (p = Reader(k, who) /\ n = Note(k, who, type))
    <3>1. CASE p # Reader(k, who)
      <4>1. inbox'[p] = inbox[p]
        BY <1>3, <3>1
      <4>2. i \in 1..Len(inbox[p])
        BY <4>1
      <4>3. Len(inbox[p]) <= Len(inbox'[p]) /\ Len(inbox'[p]) <= Len(inbox[p]) + 1
        BY <2>1, <4>1
      <4>4. \A j \in 1..Len(inbox[p]) : inbox'[p][j] = inbox[p][j]
        BY <4>1, Zenon
      <4>. QED
        BY <4>2, <4>3, <4>4
    <3>2. CASE p = Reader(k, who)
      <4>1. inbox'[p] = Append(inbox[p], Note(k, who, type))
        BY <1>3, <3>2
      <4>2. /\ Len(inbox'[p]) = Len(inbox[p]) + 1
            /\ \A j \in 1..Len(inbox[p]) : inbox'[p][j] = inbox[p][j]
            /\ inbox'[p][Len(inbox[p]) + 1] = Note(k, who, type)
        BY <1>3, <2>1, <4>1, AppendEffect
      <4>3. i \in 1..Len(inbox[p]) \/ i = Len(inbox[p]) + 1
        BY <2>1, <4>2
      <4>4. i = Len(inbox[p]) + 1 => n = Note(k, who, type)
        BY <1>6, <4>2
      <4>5. Len(inbox[p]) <= Len(inbox'[p]) /\ Len(inbox'[p]) <= Len(inbox[p]) + 1
        BY <2>1, <4>2
      <4>. QED
        BY <3>2, <4>2, <4>3, <4>4, <4>5
    <3>. QED
      BY <3>1, <3>2
  <2>3. CASE i \in 1..Len(inbox[p])
    <3>1. n = inbox[p][i]
      BY <1>6, <2>2, <2>3
    <3>2. Lasts(n, p) \/ TakenBack(n, inbox[p], i)
      BY <1>1, <1>6, <2>3, <3>1, NotMisledBefore
    <3>3. CASE Lasts(n, p)
      BY <1>5, <3>3, LastsKept
    <3>4. CASE TakenBack(n, inbox[p], i)
      BY <2>1, <2>2, <2>3, <3>4, TakenBackLonger
    <3>. QED
      BY <3>2, <3>3, <3>4
  <2>4. CASE p = Reader(k, who) /\ n = Note(k, who, type)
    <3>1. n.who = who /\ n.type = type
      BY <2>4 DEF Note
    <3>2. Lasts(n, p)
      BY <1>1, <2>4, <3>1 DEF Lasts
    <3>. QED
      BY <1>5, <3>2, LastsKept
  <2>. QED
    BY <2>2, <2>3, <2>4
<1>7. Served'
  BY <1>2 DEF LInv, Served
<1>8. NotMisled'
  BY <1>6, NotMisledAfter
<1>9. QED
  BY <1>4, <1>7, <1>8 DEF LInv

(* Reading the first note takes nothing from what is known of the rest.    *)
LEMMA ReadStep ==
    ASSUME LInv, NEW r \in Proc, Read(r)
    PROVE  LInv'
<1>1. LinksType /\ EndsExist /\ NotMisled /\ inbox[r] # <<>>
  BY DEF LInv, Read
<1>2. inbox' = [inbox EXCEPT ![r] = Tail(@)] /\ UNCHANGED <<host, guest, link>>
  BY DEF Read
<1>3. \A p \in Proc : inbox[p] \in Seq(NoteSet)
  BY <1>1 DEF LinksType
<1>4. Tail(inbox[r]) \in Seq(NoteSet)
  BY <1>1, <1>3
<1>5. LinksType' /\ EndsExist'
  BY <1>1, <1>2, <1>4 DEF LinksType, EndsExist, Linked
<1>6. \A j \in Id : Linked(j) => Kept(j)
  BY <1>2 DEF Kept
<1>7. ASSUME NEW p \in Proc, NEW i \in 1..Len(inbox'[p]), NEW n,
             n = inbox'[p][i], n.type # "REMOTE_DISCONNECT"
      PROVE  Lasts(n, p)' \/ TakenBack(n, inbox'[p], i)
  <2>1. CASE p # r
    <3>1. inbox'[p] = inbox[p]
      BY <1>1, <1>2, <2>1 DEF LinksType
    <3>2. Lasts(n, p) \/ TakenBack(n, inbox[p], i)
      BY <1>1, <1>7, <3>1, NotMisledBefore
    <3>. QED
      BY <1>6, <3>1, <3>2, LastsKept
  <2>2. CASE p = r
    <3>. DEFINE q == inbox[p]
    <3>1. q \in Seq(NoteSet) /\ q # <<>> /\ inbox'[p] = Tail(q)
      BY <1>1, <1>2, <1>3, <2>2 DEF LinksType
    <3>2. /\ Len(q) \in Nat /\ Len(Tail(q)) = Len(q) - 1
          /\ \A j \in 1..Len(Tail(q)) : Tail(q)[j] = q[j + 1]
      BY <3>1
    <3>3. i + 1 \in 1..Len(q) /\ n = q[i + 1]
      BY <1>7, <3>1, <3>2
    <3>4. Lasts(n, p) \/ TakenBack(n, q, i + 1)
      BY <1>1, <1>7, <3>3, NotMisledBefore
    <3>5. ASSUME TakenBack(n, q, i + 1) PROVE TakenBack(n, Tail(q), i)
      <4>1. PICK j \in i+2..Len(q) : q[j] = [n EXCEPT !.type = "REMOTE_DISCONNECT"]
        BY <3>5 DEF TakenBack
      <4>2. j - 1 \in i+1..Len(Tail(q)) /\ j - 1 \in 1..Len(Tail(q)) /\ (j - 1) + 1 = j
        BY <3>2, <3>3
      <4>3. Tail(q)[j - 1] = q[j]
        BY <3>2, <4>2
      <4>. QED
        BY <4>1, <4>2, <4>3 DEF TakenBack
    <3>. QED
      BY <1>6, <3>1, <3>4, <3>5, LastsKept
  <2>. QED
    BY <2>1, <2>2
<1>8. Served'
  BY <1>2 DEF LInv, Served
<1>9. NotMisled'
  BY <1>7, NotMisledAfter
<1>10. QED
  BY <1>5, <1>8, <1>9 DEF LInv

-----------------------------------------------------------------------------
(* The inductive invariant.                                                *)

LEMMA LinksInitially == ASSUME LinksAssumption, Init PROVE LInv
<1>1. LinksType
  BY DEF Init, LinksType, NoHost, NoLink
<1>2. \A k \in Id : ~Linked(k)
  BY DEF Init, Linked
<1>3. \A p \in Proc : Len(inbox[p]) = 0
  BY DEF Init
<1>4. Served
  BY DEF Init, Served, NoHost, LinksAssumption
<1>5. QED
  BY <1>1, <1>2, <1>3, <1>4 DEF LInv, EndsExist, NotMisled

LEMMA OfferStep ==
    ASSUME LinksAssumption, LInv, NEW p \in Proc, NEW n \in Name, Offer(p, n)
    PROVE  LInv'
<1>1. LinksType /\ EndsExist /\ NotMisled
  BY DEF LInv
<1>2. PICK s \in Id : /\ host[s] = NoHost
                      /\ host' = [host EXCEPT ![s] = [name |-> n, proc |-> p]]
  BY DEF Offer
<1>3. UNCHANGED <<guest, link, inbox>>
  BY DEF Offer
<1>4. \A k \in Id : Linked(k) => link[k].server # s /\ link[k].server \in Id
  BY <1>1, <1>2 DEF EndsExist, NoHost, LinksAssumption
<1>5. \A k \in Id : Linked(k) => Kept(k)
  BY <1>1, <1>2, <1>3, <1>4 DEF Kept, LinksType
<1>6. LinksType'
  BY <1>1, <1>2, <1>3 DEF LinksType
<1>7. EndsExist'
  BY <1>1, <1>3, <1>5, KeptEnds DEF Linked
<1>8. Served'
  BY <1>1, <1>2 DEF LInv, Served, LinksType
<1>9. NotMisled'
  BY <1>1, <1>3, <1>5, QuietStep
<1>10. QED
  BY <1>6, <1>7, <1>8, <1>9 DEF LInv

LEMMA JoinStep ==
    ASSUME LinksAssumption, LInv, NEW p \in Proc, Join(p)
    PROVE  LInv'
<1>1. LinksType /\ EndsExist /\ NotMisled
  BY DEF LInv
<1>2. PICK c \in Id : guest[c] = NULL /\ guest' = [guest EXCEPT ![c] = p]
  BY DEF Join
<1>3. UNCHANGED <<host, link, inbox>>
  BY DEF Join
<1>4. \A k \in Id : Linked(k) => Kept(k)
  BY <1>1, <1>2, <1>3 DEF Kept, LinksType, EndsExist, LinksAssumption
<1>5. LinksType'
  BY <1>1, <1>2, <1>3 DEF LinksType
<1>6. EndsExist'
  BY <1>1, <1>3, <1>4, KeptEnds DEF Linked
<1>7. Served'
  BY <1>3 DEF LInv, Served
<1>8. NotMisled'
  BY <1>1, <1>3, <1>4, QuietStep
<1>9. QED
  BY <1>5, <1>6, <1>7, <1>8 DEF LInv

LEMMA ConnectStep ==
    ASSUME LinksAssumption, LInv, NEW k \in Id, NEW n \in Name, Connect(k, n)
    PROVE  LInv'
<1>1. LinksType /\ EndsExist /\ NotMisled /\ guest[k] # NULL /\ ~Linked(k)
  BY DEF LInv, Connect
<1>2. PICK s \in Id, m \in Id :
        host[s].name = n /\ link' = [link EXCEPT ![k] = [server |-> s, mem |-> m]]
  BY DEF Connect
<1>3. UNCHANGED <<host, guest, inbox>>
  BY DEF Connect
<1>4. \A j \in Id : Linked(j) => Kept(j)
  BY <1>1, <1>2, <1>3 DEF Kept, LinksType
<1>5. LinksType'
  BY <1>1, <1>2, <1>3 DEF LinksType
<1>6. guest[k] \in Proc /\ host[s].proc \in Proc
  BY <1>1, <1>2 DEF LinksType, Served, LInv, LinksAssumption
<1>7. EndsExist'
  BY <1>1, <1>2, <1>3, <1>6 DEF EndsExist, Linked, LinksType
<1>8. Served'
  BY <1>3 DEF LInv, Served
<1>9. NotMisled'
  BY <1>1, <1>3, <1>4, QuietStep
<1>10. QED
  BY <1>5, <1>7, <1>8, <1>9 DEF LInv

LEMMA DisconnectStep ==
    ASSUME LinksAssumption, LInv, NEW k \in Id, Disconnect(k)
    PROVE  LInv'
<1>1. LinksType /\ EndsExist /\ NotMisled /\ Linked(k)
  BY DEF LInv, Disconnect
<1>2. PICK boxes \in Announced(k) : inbox' = Farewell(k, boxes)
  BY DEF Disconnect
<1>3. link' = [link EXCEPT ![k] = NoLink] /\ UNCHANGED <<host, guest>>
  BY DEF Disconnect
<1>4. \A j \in Id : Linked(j) /\ j # k => Kept(j)
  BY <1>1, <1>3 DEF Kept, LinksType
<1>5. NotMisled' /\ inbox' \in [Proc -> Seq(NoteSet)]
  BY <1>1, <1>2, <1>4, EndStep
<1>6. LinksType'
  BY <1>1, <1>3, <1>5 DEF LinksType, NoLink
<1>7. EndsExist'
  BY <1>1, <1>3 DEF EndsExist, Linked, LinksType
<1>8. Served'
  BY <1>3 DEF LInv, Served
<1>9. QED
  BY <1>5, <1>6, <1>7, <1>8 DEF LInv

LEMMA LeaveStep ==
    ASSUME LinksAssumption, LInv, NEW k \in Id, Leave(k)
    PROVE  LInv'
<1>1. LinksType /\ EndsExist /\ NotMisled /\ Linked(k)
  BY DEF LInv, Leave
<1>2. PICK boxes \in Announced(k) : inbox' = Farewell(k, boxes)
  BY DEF Leave
<1>3. /\ link' = [link EXCEPT ![k] = NoLink]
      /\ guest' = [guest EXCEPT ![k] = NULL]
      /\ UNCHANGED host
  BY DEF Leave
<1>4. \A j \in Id : Linked(j) /\ j # k => Kept(j)
  BY <1>1, <1>3 DEF Kept, LinksType
<1>5. NotMisled' /\ inbox' \in [Proc -> Seq(NoteSet)]
  BY <1>1, <1>2, <1>4, EndStep
<1>6. LinksType'
  BY <1>1, <1>3, <1>5 DEF LinksType, NoLink
<1>7. EndsExist'
  BY <1>1, <1>3 DEF EndsExist, Linked, LinksType
<1>8. Served'
  BY <1>3 DEF LInv, Served
<1>9. QED
  BY <1>5, <1>6, <1>7, <1>8 DEF LInv

LEMMA WithdrawStep ==
    ASSUME LinksAssumption, LInv, NEW s \in Id, Withdraw(s)
    PROVE  LInv'
<1>1. LinksType /\ EndsExist /\ NotMisled
  BY DEF LInv
<1>2. /\ host' = [host EXCEPT ![s] = NoHost] /\ UNCHANGED <<guest, link, inbox>>
      /\ \A k \in Id : Linked(k) => link[k].server # s
  BY DEF Withdraw, LinksOf
<1>3. \A k \in Id : Linked(k) => Kept(k)
  BY <1>1, <1>2 DEF Kept, LinksType, EndsExist
<1>4. LinksType'
  BY <1>1, <1>2 DEF LinksType, NoHost
<1>5. EndsExist'
  BY <1>1, <1>2, <1>3, KeptEnds DEF Linked
<1>6. Served'
  BY <1>1, <1>2 DEF LInv, Served, LinksType, NoHost, LinksAssumption
<1>7. NotMisled'
  BY <1>1, <1>2, <1>3, QuietStep
<1>8. QED
  BY <1>4, <1>5, <1>6, <1>7 DEF LInv

(* Nobody reads the queue of a process that goes any more, and nothing is  *)
(* linked to it.                                                           *)
LEMMA ExitStep ==
    ASSUME LinksAssumption, LInv, NEW r \in Proc, Exit(r)
    PROVE  LInv'
<1>1. LinksType /\ EndsExist /\ NotMisled
  BY DEF LInv
<1>2. /\ host' = [s \in Id |-> IF host[s].proc = r THEN NoHost ELSE host[s]]
      /\ guest' = [k \in Id |-> IF guest[k] = r THEN NULL ELSE guest[k]]
      /\ inbox' = [inbox EXCEPT ![r] = <<>>] /\ link' = link
  BY DEF Exit
<1>3. \A k \in Id : Linked(k) => /\ guest[k] # r
                                 /\ link[k].server \in Id /\ host[link[k].server].proc # r
  BY <1>1 DEF Exit, LinksOf, EndsExist
<1>4. \A k \in Id : Linked(k) => Kept(k)
  BY <1>2, <1>3 DEF Kept
<1>5. LinksType'
  BY <1>1, <1>2 DEF LinksType, NoHost
<1>6. EndsExist'
  BY <1>1, <1>2, <1>4, KeptEnds DEF Linked
<1>7. ASSUME NEW p \in Proc, NEW i \in 1..Len(inbox'[p]), NEW n,
             n = inbox'[p][i], n.type # "REMOTE_DISCONNECT"
      PROVE  Lasts(n, p)' \/ TakenBack(n, inbox'[p], i)
  <2>1. p # r /\ inbox'[p] = inbox[p]
    BY <1>1, <1>2, <1>7 DEF LinksType
  <2>2. Lasts(n, p) \/ TakenBack(n, inbox[p], i)
    BY <1>1, <1>7, <2>1, NotMisledBefore
  <2>. QED
    BY <1>4, <2>1, <2>2, LastsKept
<1>8. Served'
  BY <1>1, <1>2 DEF LInv, Served, LinksType, NoHost, LinksAssumption
<1>9. NotMisled'
  BY <1>7, NotMisledAfter
<1>10. QED
  BY <1>5, <1>6, <1>8, <1>9 DEF LInv

LEMMA LinksInductive == ASSUME LinksAssumption, LInv, [Next]_vars PROVE LInv'
<1>1. CASE UNCHANGED vars
  <2>1. UNCHANGED <<host, guest, link, inbox>>
    BY <1>1 DEF vars
  <2>2. LinksType' /\ EndsExist' /\ Served'
    BY <2>1 DEF LInv, LinksType, EndsExist, Served, Linked
  <2>3. \A k \in Id : Linked(k) => Kept(k)
    BY <2>1 DEF Kept
  <2>4. NotMisled'
    BY <2>1, <2>3, QuietStep DEF LInv
  <2>. QED
    BY <2>2, <2>4 DEF LInv
<1>2. CASE \E p \in Proc : Join(p) \/ Read(p) \/ Exit(p)
  BY <1>2, JoinStep, ReadStep, ExitStep
<1>3. CASE \E p \in Proc, n \in Name : Offer(p, n)
  BY <1>3, OfferStep
<1>4. CASE \E k \in Id, n \in Name : Connect(k, n)
  BY <1>4, ConnectStep
<1>5. ASSUME NEW k \in Id,
             \/ Say(k, "CLIENT", "NEW_CONNECTION") \/ Say(k, "CLIENT", "NEW_MESSAGE")
             \/ Say(k, "SERVER", "NEW_MESSAGE")
      PROVE  LInv'
  BY <1>5, SayStep DEF Side, Kind
<1>6. CASE \E k \in Id : Disconnect(k) \/ Leave(k)
  BY <1>6, DisconnectStep, LeaveStep
<1>7. CASE \E s \in Id : Withdraw(s)
  BY <1>7, WithdrawStep
<1>8. QED
  BY <1>1, <1>2, <1>3, <1>4, <1>5, <1>6, <1>7 DEF Next

(* A process that reads its inbox to the end never takes a link for alive  *)
(* that is over.                                                           *)
THEOREM LinksDoNotMislead == ASSUME LinksAssumption PROVE Spec => []NotMisled
<1>1. Init => LInv
  BY LinksInitially
<1>2. LInv /\ [Next]_vars => LInv'
  BY LinksInductive
<1>3. LInv => NotMisled
  BY DEF LInv
<1>4. QED
  BY <1>1, <1>2, <1>3, PTL DEF Spec

=============================================================================
