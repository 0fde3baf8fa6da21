---------------------------- MODULE RipcCallProofs ----------------------------
(***************************************************************************)
(* Proofs about RipcCall, for every mode, every set of events and all      *)
(* bounds: types, no lost wakeup, and exclusive use of the shared page.    *)
(***************************************************************************)
EXTENDS RipcCall, SequenceTheorems, TLAPS

(* Numbers stand for calls where the code relies on one being there: the   *)
(* call in progress, the callback about to run, the request being answered. *)
Numbered ==
    /\ apc \notin {"idle", "map", "name", "forget"} => call \in CallId
    /\ lpc = "handler" => callback \in CallId
    /\ spc = "answer" => serving \in CallId

(* Only a client in blocking mode waits.                                   *)
OnlyBlockingWaits ==
    apc \in {"before", "after", "asleep_before", "asleep_after"} => blocking

-----------------------------------------------------------------------------
(* An exchange is a request that is waiting in the server's queue or being *)
(* answered, or its answer that is waiting in the client's queue or being  *)
(* dispatched.                                                             *)

Holds(queue) == \E i \in DOMAIN queue : queue[i] = "NEW_MESSAGE"

AtMostOne(queue) ==
    \A i, j \in DOMAIN queue :
        queue[i] = "NEW_MESSAGE" /\ queue[j] = "NEW_MESSAGE" => i = j

Answering == spc \in {"answer", "send"}

Dispatching == lpc \in {"handler", "drop", "clear"}

Exchange == Holds(sq) \/ Holds(cq) \/ Answering \/ Dispatching

(* There is at most one exchange, and while there is one the flag is set   *)
(* or about to be set, so that no request is written.                      *)
OneExchange ==
    /\ AtMostOne(sq) /\ AtMostOne(cq)
    /\ Holds(sq) => ~Holds(cq) /\ ~Answering /\ ~Dispatching
    /\ Holds(cq) => ~Answering /\ ~Dispatching
    /\ Answering => ~Dispatching
    /\ Exchange => sent \/ apc = "mark"
    /\ apc \in {"write", "post"} => ~sent

IInv ==
    /\ TypeOK
    /\ Numbered
    /\ OnlyBlockingWaits
    /\ NoLostWakeup
    /\ OneExchange

-----------------------------------------------------------------------------
(* Queues.                                                                 *)

(* A notification that is no message leaves the messages as they were.     *)
LEMMA AppendOther ==
    ASSUME NEW queue \in Seq(Type), NEW type \in Type, type # "NEW_MESSAGE"
    PROVE  /\ Append(queue, type) \in Seq(Type)
           /\ Holds(Append(queue, type)) <=> Holds(queue)
           /\ AtMostOne(queue) => AtMostOne(Append(queue, type))
<1>1. /\ Append(queue, type) \in Seq(Type)
      /\ DOMAIN queue = 1..Len(queue) /\ Len(queue) \in Nat
      /\ DOMAIN Append(queue, type) = 1..(Len(queue) + 1)
      /\ \A i \in 1..Len(queue) : Append(queue, type)[i] = queue[i]
      /\ Append(queue, type)[Len(queue) + 1] = type
  OBVIOUS
<1>2. Holds(Append(queue, type)) <=> Holds(queue)
  BY <1>1 DEF Holds
<1>3. AtMostOne(queue) => AtMostOne(Append(queue, type))
  BY <1>1 DEF AtMostOne
<1>4. QED
  BY <1>1, <1>2, <1>3

(* A message joins a queue that holds none.                                *)
LEMMA AppendMessage ==
    ASSUME NEW queue \in Seq(Type), ~Holds(queue)
    PROVE  /\ Append(queue, "NEW_MESSAGE") \in Seq(Type)
           /\ AtMostOne(Append(queue, "NEW_MESSAGE"))
<1>1. /\ DOMAIN queue = 1..Len(queue) /\ Len(queue) \in Nat
      /\ DOMAIN Append(queue, "NEW_MESSAGE") = 1..(Len(queue) + 1)
      /\ \A i \in 1..Len(queue) : Append(queue, "NEW_MESSAGE")[i] = queue[i]
  OBVIOUS
<1>2. "NEW_MESSAGE" \in Type
  BY DEF Type
<1>3. AtMostOne(Append(queue, "NEW_MESSAGE"))
  BY <1>1 DEF AtMostOne, Holds
<1>4. QED
  BY <1>2, <1>3

(* What is left when the first notification is read.                       *)
LEMMA TailQueue ==
    ASSUME NEW queue \in Seq(Type), queue # <<>>, AtMostOne(queue)
    PROVE  /\ Tail(queue) \in Seq(Type)
           /\ AtMostOne(Tail(queue))
           /\ Holds(Tail(queue)) => Holds(queue)
           /\ Head(queue) = "NEW_MESSAGE" => Holds(queue) /\ ~Holds(Tail(queue))
<1>1. /\ Tail(queue) \in Seq(Type)
      /\ DOMAIN queue = 1..Len(queue) /\ Len(queue) \in Nat \ {0}
      /\ DOMAIN Tail(queue) = 1..(Len(queue) - 1)
      /\ \A i \in 1..(Len(queue) - 1) : Tail(queue)[i] = queue[i + 1]
      /\ Head(queue) = queue[1]
  OBVIOUS
<1>2. AtMostOne(Tail(queue))
  BY <1>1 DEF AtMostOne
<1>3. Holds(Tail(queue)) => Holds(queue)
  BY <1>1 DEF Holds
<1>4. ASSUME Head(queue) = "NEW_MESSAGE"
      PROVE  Holds(queue) /\ ~Holds(Tail(queue))
  BY <1>1, <1>4 DEF Holds, AtMostOne
<1>5. QED
  BY <1>1, <1>2, <1>3, <1>4

(* What CLIENT_DISCONNECT sends to the server.                             *)
LEMMA DisconnectQueue ==
    ASSUME NEW queue \in Seq(Type), AtMostOne(queue)
    PROVE  /\ AfterDisconnect(queue) \in Seq(Type)
           /\ AtMostOne(AfterDisconnect(queue))
           /\ Holds(AfterDisconnect(queue)) <=> Holds(queue)
<1>1. AfterDisconnect(queue)
        = Append(Append(queue, "REMOTE_DISCONNECT"), "REMOTE_DISCONNECT")
  BY DEF AfterDisconnect
<1>2. "REMOTE_DISCONNECT" \in Type /\ "REMOTE_DISCONNECT" # "NEW_MESSAGE"
  BY DEF Type
<1>3. QED
  BY <1>1, <1>2, AppendOther

-----------------------------------------------------------------------------
(* Types.                                                                  *)

(* The numbers of calls.                                                   *)
LEMMA CallFacts ==
    /\ CallId \subseteq 0..MaxCall /\ 0 \in 0..MaxCall
    /\ \A i \in 0..MaxCall : i # 0 => i \in CallId
    /\ \A i \in 0..MaxCall : i < MaxCall => i + 1 \in CallId
  BY CallAssumption DEF CallId

(* What the page may hold.                                                 *)
LEMMA PageFacts ==
    /\ Empty \in Page
    /\ \A i \in CallId : [kind |-> "request", call |-> i] \in Page
    /\ \A i \in CallId : [kind |-> "answer", call |-> i] \in Page
    /\ \A p \in Page : p.kind = "request" => p.call \in CallId
  BY DEF Page, Empty

(* The initial state satisfies the invariant.                              *)
LEMMA InitIInv == ASSUME Init PROVE IInv
<1>. USE DEF Init
<1>1. TypeOK
  <2>1. /\ name \in BOOLEAN /\ sent \in BOOLEAN /\ running \in BOOLEAN
        /\ linked \in BOOLEAN /\ shown \in BOOLEAN /\ blocking \in BOOLEAN
    BY CallAssumption
  <2>2. /\ cq \in Seq(Type) /\ sq \in Seq(Type)
        /\ mapping \in Mapping /\ con \in Mapping /\ page \in Page
    BY PageFacts DEF Mapping
  <2>3. /\ call \in 0..MaxCall /\ callback \in 0..MaxCall
        /\ serving \in 0..MaxCall /\ connects \in 0..MaxConnect
    BY CallFacts, CallAssumption
  <2>4. /\ returned \in [CallId -> {"no", "0", "sent", "answered"}]
        /\ ran \subseteq CallId \X Page
    OBVIOUS
  <2>5. /\ apc = "idle" /\ lpc = "idle" /\ spc = "idle"
        /\ up = "present" /\ fault = "none"
    OBVIOUS
  <2>6. QED
    BY <2>1, <2>2, <2>3, <2>4, <2>5 DEF TypeOK
<1>2. Numbered /\ OnlyBlockingWaits /\ NoLostWakeup
  BY DEF Numbered, OnlyBlockingWaits, NoLostWakeup, Asleep
<1>3. OneExchange
  BY DEF OneExchange, Exchange, Holds, AtMostOne, Answering, Dispatching
<1>4. QED
  BY <1>1, <1>2, <1>3 DEF IInv

(* Every step keeps the types.                                             *)
LEMMA TypeStep ==
    ASSUME TypeOK, Numbered, [Next]_vars
    PROVE  TypeOK' /\ Numbered'
<1>. USE DEF TypeOK, Numbered, Mapping, object, serverVars, link, history
<1>q. /\ {"NEW_CONNECTION", "NEW_MESSAGE", "REMOTE_DISCONNECT"} = Type
      /\ \A queue \in Seq(Type) :
           /\ \A type \in Type : Append(queue, type) \in Seq(Type)
           /\ queue # <<>> => Tail(queue) \in Seq(Type)
           /\ AfterDisconnect(queue) \in Seq(Type)
  BY DEF Type, AfterDisconnect
<1>1. CASE Connect
  <2>1. /\ name' \in BOOLEAN /\ sent' \in BOOLEAN /\ running' \in BOOLEAN
        /\ linked' \in BOOLEAN /\ shown' \in BOOLEAN /\ blocking' \in BOOLEAN
    BY <1>1 DEF Connect, App
  <2>2. cq' \in Seq(Type) /\ sq' \in Seq(Type)
    BY <1>1, <1>q DEF Connect, App
  <2>3. /\ mapping' \in Mapping /\ con' \in Mapping /\ page' \in Page
        /\ call' \in 0..MaxCall /\ callback' \in 0..MaxCall
        /\ serving' \in 0..MaxCall /\ connects' \in 0..MaxConnect
    BY <1>1, CallAssumption DEF Connect, App
  <2>4. /\ returned' \in [CallId -> {"no", "0", "sent", "answered"}]
        /\ ran' \subseteq CallId \X Page
    BY <1>1, CallAssumption DEF Connect, App
  <2>5. QED
    BY <1>1, <2>1, <2>2, <2>3, <2>4, CallAssumption DEF Connect, App
<1>2. CASE ConnectMap
  <2>1. /\ name' \in BOOLEAN /\ sent' \in BOOLEAN /\ running' \in BOOLEAN
        /\ linked' \in BOOLEAN /\ shown' \in BOOLEAN /\ blocking' \in BOOLEAN
    BY <1>2 DEF ConnectMap, App
  <2>2. cq' \in Seq(Type) /\ sq' \in Seq(Type)
    BY <1>2, <1>q DEF ConnectMap, App
  <2>3. /\ mapping' \in Mapping /\ con' \in Mapping /\ page' \in Page
        /\ call' \in 0..MaxCall /\ callback' \in 0..MaxCall
        /\ serving' \in 0..MaxCall /\ connects' \in 0..MaxConnect
    BY <1>2 DEF ConnectMap, App
  <2>4. /\ returned' \in [CallId -> {"no", "0", "sent", "answered"}]
        /\ ran' \subseteq CallId \X Page
    BY <1>2 DEF ConnectMap, App
  <2>5. QED
    BY <1>2, <2>1, <2>2, <2>3, <2>4 DEF ConnectMap, App
<1>3. CASE ConnectName
  BY <1>3 DEF ConnectName, App
<1>4. CASE Disconnect
  <2>1. /\ name' \in BOOLEAN /\ sent' \in BOOLEAN /\ running' \in BOOLEAN
        /\ linked' \in BOOLEAN /\ shown' \in BOOLEAN /\ blocking' \in BOOLEAN
    BY <1>4 DEF Disconnect, App, Connected
  <2>2. cq' \in Seq(Type) /\ sq' \in Seq(Type)
    BY <1>4, <1>q DEF Disconnect, App, Connected
  <2>3. /\ mapping' \in Mapping /\ con' \in Mapping /\ page' \in Page
        /\ call' \in 0..MaxCall /\ callback' \in 0..MaxCall
        /\ serving' \in 0..MaxCall /\ connects' \in 0..MaxConnect
    BY <1>4 DEF Disconnect, App, Connected
  <2>4. /\ returned' \in [CallId -> {"no", "0", "sent", "answered"}]
        /\ ran' \subseteq CallId \X Page
    BY <1>4 DEF Disconnect, App, Connected
  <2>5. QED
    BY <1>4, <2>1, <2>2, <2>3, <2>4 DEF Disconnect, App, Connected
<1>5. CASE Forget
  <2>1. /\ name' \in BOOLEAN /\ sent' \in BOOLEAN /\ running' \in BOOLEAN
        /\ linked' \in BOOLEAN /\ shown' \in BOOLEAN /\ blocking' \in BOOLEAN
    BY <1>5 DEF Forget, App, Unmapped
  <2>2. cq' \in Seq(Type) /\ sq' \in Seq(Type)
    BY <1>5, <1>q DEF Forget, App, Unmapped
  <2>3. /\ mapping' \in Mapping /\ con' \in Mapping /\ page' \in Page
        /\ call' \in 0..MaxCall /\ callback' \in 0..MaxCall
        /\ serving' \in 0..MaxCall /\ connects' \in 0..MaxConnect
    BY <1>5 DEF Forget, App, Unmapped
  <2>4. /\ returned' \in [CallId -> {"no", "0", "sent", "answered"}]
        /\ ran' \subseteq CallId \X Page
    BY <1>5 DEF Forget, App, Unmapped
  <2>5. QED
    BY <1>5, <2>1, <2>2, <2>3, <2>4 DEF Forget, App, Unmapped
<1>6. CASE BeginCall
  BY <1>6, CallFacts DEF BeginCall, App, Return, MayWrite, Mapped
<1>7. CASE Write
  BY <1>7, PageFacts DEF Write, App
<1>8. CASE Post
  <2>1. /\ name' \in BOOLEAN /\ sent' \in BOOLEAN /\ running' \in BOOLEAN
        /\ linked' \in BOOLEAN /\ shown' \in BOOLEAN /\ blocking' \in BOOLEAN
    BY <1>8 DEF Post, App
  <2>2. cq' \in Seq(Type) /\ sq' \in Seq(Type)
    BY <1>8, <1>q DEF Post, App
  <2>3. /\ mapping' \in Mapping /\ con' \in Mapping /\ page' \in Page
        /\ call' \in 0..MaxCall /\ callback' \in 0..MaxCall
        /\ serving' \in 0..MaxCall /\ connects' \in 0..MaxConnect
    BY <1>8, CallFacts DEF Post, App
  <2>4. /\ returned' \in [CallId -> {"no", "0", "sent", "answered"}]
        /\ ran' \subseteq CallId \X Page
    BY <1>8, CallFacts DEF Post, App
  <2>5. QED
    BY <1>8, <2>1, <2>2, <2>3, <2>4, CallFacts DEF Post, App
<1>9. CASE Mark
  BY <1>9 DEF Mark, App
<1>10. CASE Store
  BY <1>10, CallFacts DEF Store, App
<1>11. CASE Test
  BY <1>11 DEF Test, App, Return
<1>12. CASE WaitBefore
  BY <1>12 DEF WaitBefore, App, Return, WaitOver
<1>13. CASE WaitAfter
  BY <1>13 DEF WaitAfter, App, Return, WaitOver
<1>14. CASE SpuriousWakeup
  BY <1>14 DEF SpuriousWakeup, Woken, Asleep
<1>15. CASE Ignore
  BY <1>15, <1>q DEF Ignore, Arrived, Mapped, Listener
<1>16. CASE DispatchNewMessage
  BY <1>16, <1>q, CallFacts DEF DispatchNewMessage, Arrived, Mapped, Listener
<1>17. CASE Handle
  BY <1>17, PageFacts DEF Handle, Listener
<1>18. CASE Drop
  BY <1>18, CallFacts DEF Drop, Listener
<1>19. CASE ClearSent
  <2>1. /\ name' \in BOOLEAN /\ sent' \in BOOLEAN /\ running' \in BOOLEAN
        /\ linked' \in BOOLEAN /\ shown' \in BOOLEAN /\ blocking' \in BOOLEAN
    BY <1>19 DEF ClearSent, Listener
  <2>2. cq' \in Seq(Type) /\ sq' \in Seq(Type)
    BY <1>19, <1>q DEF ClearSent, Listener
  <2>3. /\ mapping' \in Mapping /\ con' \in Mapping /\ page' \in Page
        /\ call' \in 0..MaxCall /\ callback' \in 0..MaxCall
        /\ serving' \in 0..MaxCall /\ connects' \in 0..MaxConnect
    BY <1>19 DEF ClearSent, Listener
  <2>4. /\ returned' \in [CallId -> {"no", "0", "sent", "answered"}]
        /\ ran' \subseteq CallId \X Page
    BY <1>19 DEF ClearSent, Listener
  <2>5. QED
    BY <1>19, <2>1, <2>2, <2>3, <2>4 DEF ClearSent, Listener
<1>20. CASE Notify
  BY <1>20 DEF Notify, Listener, NotifyAll, Woken
<1>21. CASE DispatchRemoteDisconnect
  <2>1. /\ name' \in BOOLEAN /\ sent' \in BOOLEAN /\ running' \in BOOLEAN
        /\ linked' \in BOOLEAN /\ shown' \in BOOLEAN /\ blocking' \in BOOLEAN
    BY <1>21 DEF DispatchRemoteDisconnect, Arrived, Mapped, Listener
  <2>2. cq' \in Seq(Type) /\ sq' \in Seq(Type)
    BY <1>21, <1>q DEF DispatchRemoteDisconnect, Arrived, Mapped, Listener
  <2>3. /\ mapping' \in Mapping /\ con' \in Mapping /\ page' \in Page
        /\ call' \in 0..MaxCall /\ callback' \in 0..MaxCall
        /\ serving' \in 0..MaxCall /\ connects' \in 0..MaxConnect
    BY <1>21 DEF DispatchRemoteDisconnect, Arrived, Mapped, Listener
  <2>4. /\ returned' \in [CallId -> {"no", "0", "sent", "answered"}]
        /\ ran' \subseteq CallId \X Page
    BY <1>21 DEF DispatchRemoteDisconnect, Arrived, Mapped, Listener
  <2>5. QED
    BY <1>21, <2>1, <2>2, <2>3, <2>4 DEF DispatchRemoteDisconnect, Arrived, Mapped, Listener
<1>22. CASE ForgetName
  <2>1. /\ name' \in BOOLEAN /\ sent' \in BOOLEAN /\ running' \in BOOLEAN
        /\ linked' \in BOOLEAN /\ shown' \in BOOLEAN /\ blocking' \in BOOLEAN
    BY <1>22 DEF ForgetName, Listener
  <2>2. cq' \in Seq(Type) /\ sq' \in Seq(Type)
    BY <1>22, <1>q DEF ForgetName, Listener
  <2>3. /\ mapping' \in Mapping /\ con' \in Mapping /\ page' \in Page
        /\ call' \in 0..MaxCall /\ callback' \in 0..MaxCall
        /\ serving' \in 0..MaxCall /\ connects' \in 0..MaxConnect
    BY <1>22 DEF ForgetName, Listener
  <2>4. /\ returned' \in [CallId -> {"no", "0", "sent", "answered"}]
        /\ ran' \subseteq CallId \X Page
    BY <1>22 DEF ForgetName, Listener
  <2>5. QED
    BY <1>22, <2>1, <2>2, <2>3, <2>4 DEF ForgetName, Listener
<1>23. CASE ForgetMemory
  BY <1>23 DEF ForgetMemory, Listener, Unmapped
<1>24. CASE ServerGone
  BY <1>24, <1>q DEF ServerGone, ServerArrived, Server
<1>25. CASE AddConnection
  BY <1>25, <1>q DEF AddConnection, ServerArrived, Server
<1>26. CASE DisconnectFromClient
  BY <1>26, <1>q DEF DisconnectFromClient, ServerArrived, EntryAfterDisconnect,
     Server
<1>27. CASE TakeRequest
  <2>1. /\ name' \in BOOLEAN /\ sent' \in BOOLEAN /\ running' \in BOOLEAN
        /\ linked' \in BOOLEAN /\ shown' \in BOOLEAN /\ blocking' \in BOOLEAN
    BY <1>27 DEF TakeRequest, ServerArrived, HasUrl,
       Server
  <2>2. cq' \in Seq(Type) /\ sq' \in Seq(Type)
    BY <1>27, <1>q DEF TakeRequest, ServerArrived, HasUrl,
       Server
  <2>3. /\ mapping' \in Mapping /\ con' \in Mapping /\ page' \in Page
        /\ call' \in 0..MaxCall /\ callback' \in 0..MaxCall
        /\ serving' \in 0..MaxCall /\ connects' \in 0..MaxConnect
    BY <1>27, CallFacts, PageFacts DEF TakeRequest, ServerArrived, HasUrl,
       Server
  <2>4. /\ returned' \in [CallId -> {"no", "0", "sent", "answered"}]
        /\ ran' \subseteq CallId \X Page
    BY <1>27, CallFacts, PageFacts DEF TakeRequest, ServerArrived, HasUrl,
       Server
  <2>5. QED
    BY <1>27, <2>1, <2>2, <2>3, <2>4, CallFacts, PageFacts DEF TakeRequest, ServerArrived, HasUrl,
       Server
<1>28. CASE RefuseRequest
  BY <1>28, <1>q DEF RefuseRequest, ServerArrived, HasUrl, Server
<1>29. CASE ReadNothing
  BY <1>29, <1>q DEF ReadNothing, ServerArrived, Server
<1>30. CASE WriteAnswer
  BY <1>30, PageFacts DEF WriteAnswer, Server
<1>31. CASE UseErased
  BY <1>31 DEF UseErased, Server
<1>32. CASE WriteToClient
  <2>1. /\ name' \in BOOLEAN /\ sent' \in BOOLEAN /\ running' \in BOOLEAN
        /\ linked' \in BOOLEAN /\ shown' \in BOOLEAN /\ blocking' \in BOOLEAN
    BY <1>32 DEF WriteToClient, Server
  <2>2. cq' \in Seq(Type) /\ sq' \in Seq(Type)
    BY <1>32, <1>q DEF WriteToClient, Server
  <2>3. /\ mapping' \in Mapping /\ con' \in Mapping /\ page' \in Page
        /\ call' \in 0..MaxCall /\ callback' \in 0..MaxCall
        /\ serving' \in 0..MaxCall /\ connects' \in 0..MaxConnect
    BY <1>32, CallFacts DEF WriteToClient, Server
  <2>4. /\ returned' \in [CallId -> {"no", "0", "sent", "answered"}]
        /\ ran' \subseteq CallId \X Page
    BY <1>32, CallFacts DEF WriteToClient, Server
  <2>5. QED
    BY <1>32, <2>1, <2>2, <2>3, <2>4, CallFacts DEF WriteToClient, Server
<1>33. CASE ServerEnd
  <2>1. /\ name' \in BOOLEAN /\ sent' \in BOOLEAN /\ running' \in BOOLEAN
        /\ linked' \in BOOLEAN /\ shown' \in BOOLEAN /\ blocking' \in BOOLEAN
    BY <1>33 DEF ServerEnd, Server
  <2>2. cq' \in Seq(Type) /\ sq' \in Seq(Type)
    BY <1>33, <1>q DEF ServerEnd, Server
  <2>3. /\ mapping' \in Mapping /\ con' \in Mapping /\ page' \in Page
        /\ call' \in 0..MaxCall /\ callback' \in 0..MaxCall
        /\ serving' \in 0..MaxCall /\ connects' \in 0..MaxConnect
    BY <1>33 DEF ServerEnd, Server
  <2>4. /\ returned' \in [CallId -> {"no", "0", "sent", "answered"}]
        /\ ran' \subseteq CallId \X Page /\ intact' \in BOOLEAN
    BY <1>33 DEF ServerEnd, Server
  <2>5. /\ up' = "absent"
        /\ apc' = apc /\ lpc' = lpc /\ spc' = spc /\ fault' = fault
        /\ callback' = callback /\ call' = call /\ serving' = serving
    BY <1>33 DEF ServerEnd, Server
  <2>6. TypeOK'
    BY <2>1, <2>2, <2>3, <2>4, <2>5
  <2>7. QED
    BY <2>5, <2>6
<1>34. CASE RegisterServer
  BY <1>34 DEF RegisterServer
<1>35. CASE AddServer
  BY <1>35 DEF AddServer, Server
<1>36. CASE ServerDrop
  <2>1. con' \in Mapping /\ intact' \in BOOLEAN
    BY <1>36 DEF ServerDrop
  <2>2. /\ UNCHANGED <<object, apc, call, lpc, up, spc, serving, link>>
        /\ UNCHANGED <<cq, sq, page, fault, returned, ran>>
    BY <1>36 DEF ServerDrop
  <2>3. TypeOK'
    BY <2>1, <2>2
  <2>4. QED
    BY <2>2, <2>3
<1>37. CASE SetBlockingMode
  BY <1>37, CallAssumption DEF SetBlockingMode, App
<1>38. CASE TestMode
  BY <1>38 DEF TestMode, Listener
<1>39. CASE UNCHANGED vars
  BY <1>39 DEF vars
<1>40. QED
  BY <1>1, <1>2, <1>3, <1>4, <1>5, <1>6, <1>7, <1>8, <1>9, <1>10, <1>11, <1>12,
     <1>13, <1>14, <1>15, <1>16, <1>17, <1>18, <1>19, <1>20, <1>21, <1>22,
     <1>23, <1>24, <1>25, <1>26, <1>27, <1>28, <1>29, <1>30, <1>31, <1>32,
     <1>33, <1>34, <1>35, <1>36, <1>37, <1>38, <1>39
     DEF Next, AppStep, ListenerStep, ServerStep

-----------------------------------------------------------------------------
(* Waiting.                                                                *)

(* Every step leaves a sleeping caller with a pending request or with a    *)
(* listener that is about to notify it.                                    *)
LEMMA WakeStep ==
    ASSUME TypeOK, OnlyBlockingWaits, NoLostWakeup, [Next]_vars
    PROVE  OnlyBlockingWaits' /\ NoLostWakeup'
<1>. USE DEF OnlyBlockingWaits, NoLostWakeup, Asleep, object, serverVars, link,
             history
<1>1. CASE Connect
  BY <1>1 DEF Connect, App
<1>2. CASE ConnectMap
  BY <1>2 DEF ConnectMap, App
<1>3. CASE ConnectName
  BY <1>3 DEF ConnectName, App
<1>4. CASE Disconnect
  BY <1>4 DEF Disconnect, App, Connected
<1>5. CASE Forget
  BY <1>5 DEF Forget, App, Unmapped
<1>6. CASE BeginCall
  BY <1>6 DEF BeginCall, App, Return, MayWrite, Mapped
<1>7. CASE Write
  BY <1>7 DEF Write, App
<1>8. CASE Post
  BY <1>8 DEF Post, App
<1>9. CASE Mark
  BY <1>9 DEF Mark, App
<1>10. CASE Store
  BY <1>10 DEF Store, App
<1>11. CASE Test
  BY <1>11 DEF Test, App, Return
<1>12. CASE WaitBefore
  BY <1>12 DEF WaitBefore, App, Return, WaitOver
<1>13. CASE WaitAfter
  BY <1>13 DEF WaitAfter, App, Return, WaitOver
<1>14. CASE SpuriousWakeup
  BY <1>14 DEF SpuriousWakeup, Woken
<1>15. CASE Ignore
  BY <1>15 DEF Ignore, Arrived, Mapped, Listener
<1>16. CASE DispatchNewMessage
  BY <1>16 DEF DispatchNewMessage, Arrived, Mapped, Listener
<1>17. CASE Handle
  BY <1>17 DEF Handle, Listener
<1>18. CASE Drop
  BY <1>18 DEF Drop, Listener
<1>19. CASE ClearSent
  BY <1>19, CallAssumption DEF ClearSent, Listener
<1>20. CASE Notify
  BY <1>20 DEF Notify, Listener, NotifyAll, Woken
<1>21. CASE DispatchRemoteDisconnect
  BY <1>21 DEF DispatchRemoteDisconnect, Arrived, Mapped, Listener
<1>22. CASE ForgetName
  BY <1>22 DEF ForgetName, Listener
<1>23. CASE ForgetMemory
  BY <1>23 DEF ForgetMemory, Listener, Unmapped
<1>24. CASE ServerGone
  BY <1>24 DEF ServerGone, ServerArrived, Server
<1>25. CASE AddConnection
  BY <1>25 DEF AddConnection, ServerArrived, Server
<1>26. CASE DisconnectFromClient
  BY <1>26 DEF DisconnectFromClient, ServerArrived, EntryAfterDisconnect,
     Server
<1>27. CASE TakeRequest
  BY <1>27 DEF TakeRequest, ServerArrived, HasUrl, Server
<1>28. CASE RefuseRequest
  BY <1>28 DEF RefuseRequest, ServerArrived, HasUrl, Server
<1>29. CASE ReadNothing
  BY <1>29 DEF ReadNothing, ServerArrived, Server
<1>30. CASE WriteAnswer
  BY <1>30 DEF WriteAnswer, Server
<1>31. CASE UseErased
  BY <1>31 DEF UseErased, Server
<1>32. CASE WriteToClient
  BY <1>32 DEF WriteToClient, Server
<1>33. CASE ServerEnd
  BY <1>33 DEF ServerEnd, Server
<1>34. CASE RegisterServer
  BY <1>34 DEF RegisterServer
<1>35. CASE AddServer
  BY <1>35 DEF AddServer, Server
<1>36. CASE ServerDrop
  BY <1>36 DEF ServerDrop
<1>37. CASE SetBlockingMode
  BY <1>37, CallAssumption DEF SetBlockingMode, App
<1>38. CASE TestMode
  BY <1>38 DEF TestMode, Listener
<1>39. CASE UNCHANGED vars
  BY <1>39 DEF vars
<1>40. QED
  BY <1>1, <1>2, <1>3, <1>4, <1>5, <1>6, <1>7, <1>8, <1>9, <1>10, <1>11, <1>12,
     <1>13, <1>14, <1>15, <1>16, <1>17, <1>18, <1>19, <1>20, <1>21, <1>22,
     <1>23, <1>24, <1>25, <1>26, <1>27, <1>28, <1>29, <1>30, <1>31, <1>32,
     <1>33, <1>34, <1>35, <1>36, <1>37, <1>38, <1>39
     DEF Next, AppStep, ListenerStep, ServerStep

-----------------------------------------------------------------------------
(* The page.                                                               *)

(* Every step keeps it to one exchange.                                    *)
LEMMA ExchangeStep ==
    ASSUME TypeOK, OneExchange, [Next]_vars
    PROVE  OneExchange'
<1>. USE DEF OneExchange, Exchange, Answering, Dispatching, object, serverVars,
             link, history
<1>t. cq \in Seq(Type) /\ sq \in Seq(Type) /\ sent \in BOOLEAN
  BY DEF TypeOK
<1>c. ASSUME NEW queue \in {cq, sq},
             NEW type \in {"NEW_CONNECTION", "REMOTE_DISCONNECT"}
      PROVE  /\ Holds(Append(queue, type)) <=> Holds(queue)
             /\ AtMostOne(Append(queue, type))
  BY <1>t, AppendOther DEF Type
<1>m. ASSUME NEW queue \in {cq, sq}, ~Holds(queue)
      PROVE  AtMostOne(Append(queue, "NEW_MESSAGE"))
  BY <1>t, <1>m, AppendMessage
<1>h. ASSUME NEW queue \in {cq, sq}, queue # <<>>
      PROVE  /\ AtMostOne(Tail(queue))
             /\ Holds(Tail(queue)) => Holds(queue)
             /\ Head(queue) = "NEW_MESSAGE" => Holds(queue) /\ ~Holds(Tail(queue))
  BY <1>t, <1>h, TailQueue
<1>d. Holds(AfterDisconnect(sq)) <=> Holds(sq)
  BY <1>t, DisconnectQueue
<1>e. AtMostOne(AfterDisconnect(sq))
  BY <1>t, DisconnectQueue
<1>1. CASE Connect
  BY <1>1 DEF Connect, App
<1>2. CASE ConnectMap
  BY <1>2, <1>c DEF ConnectMap, App
<1>3. CASE ConnectName
  BY <1>3 DEF ConnectName, App
<1>4. CASE Disconnect
  BY <1>4, <1>c, <1>d, <1>e DEF Disconnect, App, Connected
<1>5. CASE Forget
  BY <1>5 DEF Forget, App, Unmapped
<1>6. CASE BeginCall
  BY <1>6 DEF BeginCall, App, Return, MayWrite, Mapped
<1>7. CASE Write
  BY <1>7 DEF Write, App
<1>8. CASE Post
  BY <1>8, <1>m DEF Post, App
<1>9. CASE Mark
  BY <1>9 DEF Mark, App
<1>10. CASE Store
  BY <1>10 DEF Store, App
<1>11. CASE Test
  BY <1>11 DEF Test, App, Return
<1>12. CASE WaitBefore
  BY <1>12 DEF WaitBefore, App, Return, WaitOver
<1>13. CASE WaitAfter
  BY <1>13 DEF WaitAfter, App, Return, WaitOver
<1>14. CASE SpuriousWakeup
  BY <1>14 DEF SpuriousWakeup, Woken, Asleep
<1>15. CASE Ignore
  BY <1>15, <1>h DEF Ignore, Arrived, Mapped, Listener
<1>16. CASE DispatchNewMessage
  BY <1>16, <1>h DEF DispatchNewMessage, Arrived, Mapped, Listener
<1>17. CASE Handle
  BY <1>17 DEF Handle, Listener
<1>18. CASE Drop
  BY <1>18 DEF Drop, Listener
<1>19. CASE ClearSent
  BY <1>19 DEF ClearSent, Listener
<1>20. CASE Notify
  BY <1>20 DEF Notify, Listener, NotifyAll, Woken
<1>21. CASE DispatchRemoteDisconnect
  BY <1>21, <1>h DEF DispatchRemoteDisconnect, Arrived, Mapped, Listener
<1>22. CASE ForgetName
  BY <1>22 DEF ForgetName, Listener
<1>23. CASE ForgetMemory
  BY <1>23 DEF ForgetMemory, Listener, Unmapped
<1>24. CASE ServerGone
  BY <1>24, <1>h DEF ServerGone, ServerArrived, Server
<1>25. CASE AddConnection
  BY <1>25, <1>h DEF AddConnection, ServerArrived, Server
<1>26. CASE DisconnectFromClient
  BY <1>26, <1>h DEF DisconnectFromClient, ServerArrived, EntryAfterDisconnect,
     Server
<1>27. CASE TakeRequest
  BY <1>27, <1>h DEF TakeRequest, ServerArrived, HasUrl, Server
<1>28. CASE RefuseRequest
  BY <1>28, <1>h DEF RefuseRequest, ServerArrived, HasUrl, Server
<1>29. CASE ReadNothing
  BY <1>29, <1>h DEF ReadNothing, ServerArrived, Server
<1>30. CASE WriteAnswer
  BY <1>30 DEF WriteAnswer, Server
<1>31. CASE UseErased
  BY <1>31 DEF UseErased, Server
<1>32. CASE WriteToClient
  BY <1>32, <1>m DEF WriteToClient, Server
<1>33. CASE ServerEnd
  BY <1>33, <1>c DEF ServerEnd, Server
<1>34. CASE RegisterServer
  BY <1>34 DEF RegisterServer
<1>35. CASE AddServer
  BY <1>35 DEF AddServer, Server
<1>36. CASE ServerDrop
  BY <1>36 DEF ServerDrop
<1>37. CASE SetBlockingMode
  BY <1>37, CallAssumption DEF SetBlockingMode, App
<1>38. CASE TestMode
  BY <1>38 DEF TestMode, Listener
<1>39. CASE UNCHANGED vars
  BY <1>39 DEF vars
<1>40. QED
  BY <1>1, <1>2, <1>3, <1>4, <1>5, <1>6, <1>7, <1>8, <1>9, <1>10, <1>11, <1>12,
     <1>13, <1>14, <1>15, <1>16, <1>17, <1>18, <1>19, <1>20, <1>21, <1>22,
     <1>23, <1>24, <1>25, <1>26, <1>27, <1>28, <1>29, <1>30, <1>31, <1>32,
     <1>33, <1>34, <1>35, <1>36, <1>37, <1>38, <1>39
     DEF Next, AppStep, ListenerStep, ServerStep

-----------------------------------------------------------------------------
(* Theorems.                                                               *)

(* The invariant holds in every state.                                     *)
THEOREM InductiveInvariant == Spec => []IInv
<1>1. Init => IInv
  BY InitIInv
<1>2. IInv /\ [Next]_vars => IInv'
  BY TypeStep, WakeStep, ExchangeStep DEF IInv
<1>3. QED
  BY <1>1, <1>2, PTL DEF Spec

(* Every variable keeps its type: no callback runs that was not given, no  *)
(* answer is written that nobody asked for.                                *)
THEOREM TypeCorrect == Spec => []TypeOK
<1>1. IInv => TypeOK
  BY DEF IInv
<1>2. QED
  BY <1>1, InductiveInvariant, PTL

(* No caller of Client::call sleeps when its answer has been dispatched,   *)
(* although the flag it waits for is cleared outside the lock.             *)
THEOREM NoWakeupLost == Spec => []NoLostWakeup
<1>1. IInv => NoLostWakeup
  BY DEF IInv
<1>2. QED
  BY <1>1, InductiveInvariant, PTL

(* While a request is written no other message of client or server is in   *)
(* the page, whoever disconnects, ends or refuses meanwhile.               *)
THEOREM PageTakenInTurns == Spec => []PageExclusive
<1>1. IInv => PageExclusive
  <2>1. ASSUME IInv, apc = "write"
        PROVE  ~Exchange
    BY <2>1 DEF IInv, OneExchange
  <2>2. ASSUME TypeOK, ~Answering
        PROVE  spc = "idle"
    BY <2>2 DEF TypeOK, Answering
  <2>3. QED
    BY <2>1, <2>2 DEF IInv, PageExclusive, Exchange, Holds, Dispatching
<1>2. QED
  BY <1>1, InductiveInvariant, PTL

===============================================================================
