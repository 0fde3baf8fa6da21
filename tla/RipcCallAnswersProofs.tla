------------------------ MODULE RipcCallAnswersProofs ------------------------
(***************************************************************************)
(* Proofs about the answers in RipcCall, for every mode, every set of      *)
(* events and all bounds: a callback reads the answer to its own call, a   *)
(* caller that waited returns 1 only after that, and the server's table of *)
(* connections follows the driver's.                                       *)
(*                                                                         *)
(* The first two rest on Early being FALSE: answers that overtake call()   *)
(* break both (run call_early shows how).                                  *)
(***************************************************************************)
EXTENDS RipcCallProofs

-----------------------------------------------------------------------------
(* The connection of a caller.                                             *)

Calling == apc \in {"before", "asleep_before", "write", "post", "mark", "store",
                    "test", "after", "asleep_after"}

(* As long as the client has read of no disconnect, nobody unmaps the page *)
(* in the middle of a call.                                                *)
MappedInCall ==
    running => /\ lpc \notin {"unname", "unmap"}
               /\ Calling => mapping # "none"

(* As long as the server's owner does not interfere, only the application  *)
(* ends a connection, and a call has one from its entry check to its end.  *)
LinkedInCall ==
    intact => /\ up = "present"
              /\ Calling \/ apc \in {"map", "name"} => linked
              /\ name /\ apc # "forget" => linked

-----------------------------------------------------------------------------
(* The request and its answer.                                             *)

(* One of the two: calls write their request, or no request stays behind   *)
(* that was not sent.                                                      *)
Trusted == running \/ intact

(* The call whose request or answer is under way.                          *)
Current == IF apc \in {"mark", "store"} THEN call ELSE callback

Request(i) == [kind |-> "request", call |-> i]
Answer(i)  == [kind |-> "answer", call |-> i]

(* A request that was answered is overwritten by its answer.               *)
NoneLeft ==
    intact /\ ~sent /\ apc \notin {"post", "mark"} => page.kind # "request"

(* What call() sends is its own request, or nothing the server answers.    *)
PostedOwn ==
    Trusted /\ apc = "post" /\ page.kind = "request" => page.call = call

(* The same of all stations of the exchange.                               *)
ExchangeOwn ==
    Trusted =>
        /\ Holds(sq) /\ page.kind = "request" => page.call = Current
        /\ spc = "answer" => page = Request(Current) /\ serving = Current
        /\ spc = "send" => page = Answer(Current)
        /\ Holds(cq) => page = Answer(Current)
        /\ lpc = "handler" => page = Answer(callback)
        /\ Dispatching => page.kind = "answer"

(* Whoever has an answer coming has left a callback for it.                *)
CallbackLeft ==
    Trusted =>
        /\ Exchange /\ lpc # "clear" /\ apc \notin {"mark", "store"} => callback # 0
        /\ sent /\ apc \in {"test", "after", "asleep_after"} =>
               lpc = "clear" \/ callback = call

(* An answer is not dispatched before call() has stored flag and callback. *)
HandledInTime == Dispatching => apc \notin {"write", "post", "mark", "store"}

(* Before the flag is cleared the callback has run.                        *)
Delivered ==
    running =>
        /\ apc \in {"test", "after", "asleep_after"} /\ lpc \in {"drop", "clear"} =>
               <<call, Answer(call)>> \in ran
        /\ apc \in {"after", "asleep_after"} /\ ~sent =>
               <<call, Answer(call)>> \in ran

AnswerInv ==
    /\ MappedInCall /\ LinkedInCall
    /\ NoneLeft /\ PostedOwn /\ ExchangeOwn /\ CallbackLeft /\ HandledInTime
    /\ Delivered
    /\ HandlerMatches /\ AnswerDelivered

-----------------------------------------------------------------------------
(* A client that is running is not unmapped in a call, and a server that   *)
(* is left alone keeps the caller's connection.                            *)
LEMMA ConnectionStep ==
    ASSUME TypeOK, MappedInCall, LinkedInCall, [Next]_vars
    PROVE  MappedInCall' /\ LinkedInCall'
<1>. USE DEF MappedInCall, LinkedInCall, Calling, TypeOK, object, serverVars,
             link, history
<1>1. CASE Connect
  BY <1>1 DEF Connect, App
<1>2. CASE ConnectMap
  BY <1>2 DEF ConnectMap, App
<1>3. CASE ConnectName
  BY <1>3 DEF ConnectName, App
<1>4. CASE Disconnect
  BY <1>4 DEF Disconnect, App, Connected
<1>5. CASE Forget
  BY <1>5 DEF Forget, App, Unmapped
<1>6. CASE BeginCall
  BY <1>6 DEF BeginCall, App, Return, MayWrite, Mapped
<1>7. CASE Write
  BY <1>7 DEF Write, App
<1>8. CASE Post
  BY <1>8 DEF Post, App
<1>9. CASE Mark
  BY <1>9 DEF Mark, App
<1>10. CASE Store
  BY <1>10 DEF Store, App
<1>11. CASE Test
  BY <1>11 DEF Test, App, Return
<1>12. CASE WaitBefore
  BY <1>12 DEF WaitBefore, App, Return, WaitOver
<1>13. CASE WaitAfter
  BY <1>13 DEF WaitAfter, App, Return, WaitOver
<1>14. CASE SpuriousWakeup
  BY <1>14 DEF SpuriousWakeup, Woken, Asleep
<1>15. CASE Ignore
  BY <1>15 DEF Ignore, Arrived, Mapped, Listener
<1>16. CASE DispatchNewMessage
  BY <1>16 DEF DispatchNewMessage, Arrived, Mapped, Listener
<1>17. CASE Handle
  BY <1>17 DEF Handle, Listener
<1>18. CASE Drop
  BY <1>18 DEF Drop, Listener
<1>19. CASE ClearSent
  BY <1>19 DEF ClearSent, Listener
<1>20. CASE Notify
  BY <1>20 DEF Notify, Listener, NotifyAll, Woken
<1>21. CASE DispatchRemoteDisconnect
  BY <1>21 DEF DispatchRemoteDisconnect, Arrived, Mapped, Listener
<1>22. CASE ForgetName
  BY <1>22 DEF ForgetName, Listener
<1>23. CASE ForgetMemory
  BY <1>23 DEF ForgetMemory, Listener, Unmapped
<1>24. CASE ServerGone
  BY <1>24 DEF ServerGone, ServerArrived, Server
<1>25. CASE AddConnection
  BY <1>25 DEF AddConnection, ServerArrived, Server
<1>26. CASE DisconnectFromClient
  BY <1>26 DEF DisconnectFromClient, ServerArrived, EntryAfterDisconnect,
     Server
<1>27. CASE TakeRequest
  BY <1>27 DEF TakeRequest, ServerArrived, HasUrl, Server
<1>28. CASE RefuseRequest
  BY <1>28 DEF RefuseRequest, ServerArrived, HasUrl, Server
<1>29. CASE ReadNothing
  BY <1>29 DEF ReadNothing, ServerArrived, Server
<1>30. CASE WriteAnswer
  BY <1>30 DEF WriteAnswer, Server
<1>31. CASE UseErased
  BY <1>31 DEF UseErased, Server
<1>32. CASE WriteToClient
  BY <1>32 DEF WriteToClient, Server
<1>33. CASE ServerEnd
  BY <1>33 DEF ServerEnd, Server
<1>34. CASE RegisterServer
  BY <1>34 DEF RegisterServer
<1>35. CASE AddServer
  BY <1>35 DEF AddServer, Server
<1>36. CASE ServerDrop
  BY <1>36 DEF ServerDrop
<1>37. CASE SetBlockingMode
  BY <1>37 DEF SetBlockingMode, App
<1>38. CASE TestMode
  BY <1>38 DEF TestMode, Listener
<1>39. CASE UNCHANGED vars
  BY <1>39 DEF vars
<1>40. QED
  BY <1>1, <1>2, <1>3, <1>4, <1>5, <1>6, <1>7, <1>8, <1>9, <1>10, <1>11,
     <1>12, <1>13, <1>14, <1>15, <1>16, <1>17, <1>18, <1>19, <1>20, <1>21,
     <1>22, <1>23, <1>24, <1>25, <1>26, <1>27, <1>28, <1>29, <1>30, <1>31,
     <1>32, <1>33, <1>34, <1>35, <1>36, <1>37, <1>38, <1>39
     DEF Next, AppStep, ListenerStep, ServerStep
-----------------------------------------------------------------------------
(* Every step keeps requests and answers with the calls they belong to.    *)
LEMMA ExchangeOwnStep ==
    ASSUME IInv, AnswerInv, ~Early, [Next]_vars
    PROVE  /\ NoneLeft' /\ PostedOwn' /\ ExchangeOwn' /\ CallbackLeft'
           /\ HandledInTime'
<1>. USE DEF IInv, AnswerInv, NoneLeft, PostedOwn, ExchangeOwn, CallbackLeft,
             HandledInTime, Trusted, Current, Request, Answer, TypeOK,
             OneExchange, Exchange, Answering, Dispatching, object, serverVars,
             link, history
<1>t. cq \in Seq(Type) /\ sq \in Seq(Type) /\ Early = FALSE
  OBVIOUS
<1>c. ASSUME NEW queue \in {cq, sq},
             NEW type \in {"NEW_CONNECTION", "REMOTE_DISCONNECT"}
      PROVE  Holds(Append(queue, type)) <=> Holds(queue)
  BY <1>t, AppendOther DEF Type
<1>h. ASSUME NEW queue \in {cq, sq}, queue # <<>>
      PROVE  /\ Holds(Tail(queue)) => Holds(queue)
             /\ Head(queue) = "NEW_MESSAGE" => Holds(queue) /\ ~Holds(Tail(queue))
  BY <1>t, <1>h, TailQueue
<1>d. Holds(AfterDisconnect(sq)) <=> Holds(sq)
  BY <1>t, DisconnectQueue
<1>1. CASE Connect
  BY <1>1 DEF Connect, App
<1>2. CASE ConnectMap
  BY <1>2, <1>c DEF ConnectMap, App
<1>3. CASE ConnectName
  BY <1>3 DEF ConnectName, App
<1>4. CASE Disconnect
  BY <1>4, <1>c, <1>d DEF Disconnect, App, Connected
<1>5. CASE Forget
  BY <1>5 DEF Forget, App, Unmapped
<1>6. CASE BeginCall
  BY <1>6 DEF BeginCall, App, Return, MayWrite, Mapped
<1>7. CASE Write
  BY <1>7 DEF Write, App, MappedInCall, LinkedInCall, Calling
<1>8. CASE Post
  BY <1>8 DEF Post, App, MappedInCall, LinkedInCall, Calling
<1>9. CASE Mark
  BY <1>9 DEF Mark, App
<1>10. CASE Store
  BY <1>10 DEF Store, App, Numbered, CallId
<1>11. CASE Test
  BY <1>11 DEF Test, App, Return
<1>12. CASE WaitBefore
  BY <1>12 DEF WaitBefore, App, Return, WaitOver
<1>13. CASE WaitAfter
  BY <1>13 DEF WaitAfter, App, Return, WaitOver
<1>14. CASE SpuriousWakeup
  BY <1>14 DEF SpuriousWakeup, Woken, Asleep
<1>15. CASE Ignore
  BY <1>15, <1>h DEF Ignore, Arrived, Mapped, Listener
<1>16. CASE DispatchNewMessage
  BY <1>16, <1>h, <1>t DEF DispatchNewMessage, Arrived, Mapped, Listener
<1>17. CASE Handle
  BY <1>17 DEF Handle, Listener
<1>18. CASE Drop
  BY <1>18 DEF Drop, Listener
<1>19. CASE ClearSent
  BY <1>19 DEF ClearSent, Listener
<1>20. CASE Notify
  BY <1>20 DEF Notify, Listener, NotifyAll, Woken
<1>21. CASE DispatchRemoteDisconnect
  BY <1>21, <1>h DEF DispatchRemoteDisconnect, Arrived, Mapped, Listener
<1>22. CASE ForgetName
  BY <1>22 DEF ForgetName, Listener
<1>23. CASE ForgetMemory
  BY <1>23 DEF ForgetMemory, Listener, Unmapped
<1>24. CASE ServerGone
  BY <1>24, <1>h DEF ServerGone, ServerArrived, Server
<1>25. CASE AddConnection
  BY <1>25, <1>h DEF AddConnection, ServerArrived, Server
<1>26. CASE DisconnectFromClient
  BY <1>26, <1>h DEF DisconnectFromClient, ServerArrived,
     EntryAfterDisconnect, Server
<1>27. CASE TakeRequest
  BY <1>27, <1>h DEF TakeRequest, ServerArrived, HasUrl, Server
<1>28. CASE RefuseRequest
  BY <1>28, <1>h DEF RefuseRequest, ServerArrived, HasUrl, Server
<1>29. CASE ReadNothing
  BY <1>29, <1>h DEF ReadNothing, ServerArrived, Server
<1>30. CASE WriteAnswer
  BY <1>30 DEF WriteAnswer, Server
<1>31. CASE UseErased
  BY <1>31 DEF UseErased, Server
<1>32. CASE WriteToClient
  BY <1>32 DEF WriteToClient, Server
<1>33. CASE ServerEnd
  BY <1>33, <1>c DEF ServerEnd, Server
<1>34. CASE RegisterServer
  BY <1>34 DEF RegisterServer
<1>35. CASE AddServer
  BY <1>35 DEF AddServer, Server
<1>36. CASE ServerDrop
  BY <1>36 DEF ServerDrop
<1>37. CASE SetBlockingMode
  BY <1>37 DEF SetBlockingMode, App
<1>38. CASE TestMode
  BY <1>38 DEF TestMode, Listener
<1>39. CASE UNCHANGED vars
  BY <1>39 DEF vars
<1>40. QED
  BY <1>1, <1>2, <1>3, <1>4, <1>5, <1>6, <1>7, <1>8, <1>9, <1>10, <1>11,
     <1>12, <1>13, <1>14, <1>15, <1>16, <1>17, <1>18, <1>19, <1>20, <1>21,
     <1>22, <1>23, <1>24, <1>25, <1>26, <1>27, <1>28, <1>29, <1>30, <1>31,
     <1>32, <1>33, <1>34, <1>35, <1>36, <1>37, <1>38, <1>39
     DEF Next, AppStep, ListenerStep, ServerStep
-----------------------------------------------------------------------------
(* Every step keeps callbacks with their answers, and callers waiting for  *)
(* theirs.                                                                 *)
LEMMA DeliveredStep ==
    ASSUME IInv, AnswerInv, ~Early, [Next]_vars
    PROVE  Delivered' /\ HandlerMatches' /\ AnswerDelivered'
<1>. USE DEF IInv, AnswerInv, Delivered, HandlerMatches, AnswerDelivered, Answer,
             Trusted, Current, TypeOK, OneExchange, Exchange, Answering,
             Dispatching, object, serverVars, link, history
<1>h. ASSUME NEW queue \in {cq, sq}, queue # <<>>, Head(queue) = "NEW_MESSAGE"
      PROVE  Holds(queue)
  BY <1>h, TailQueue
<1>1. CASE Connect
  BY <1>1 DEF Connect, App
<1>2. CASE ConnectMap
  BY <1>2 DEF ConnectMap, App
<1>3. CASE ConnectName
  BY <1>3 DEF ConnectName, App
<1>4. CASE Disconnect
  BY <1>4 DEF Disconnect, App, Connected
<1>5. CASE Forget
  BY <1>5 DEF Forget, App, Unmapped
<1>6. CASE BeginCall
  BY <1>6 DEF BeginCall, App, Return, MayWrite, Mapped
<1>7. CASE Write
  BY <1>7 DEF Write, App
<1>8. CASE Post
  BY <1>8 DEF Post, App, MappedInCall, ExchangeOwn, CallbackLeft,
     HandledInTime, Numbered, CallId
<1>9. CASE Mark
  BY <1>9 DEF Mark, App, MappedInCall, ExchangeOwn, CallbackLeft,
     HandledInTime, Numbered, CallId
<1>10. CASE Store
  BY <1>10 DEF Store, App, MappedInCall, ExchangeOwn, CallbackLeft,
     HandledInTime, Numbered, CallId
<1>11. CASE Test
  BY <1>11 DEF Test, App, Return, MappedInCall, ExchangeOwn, CallbackLeft,
     HandledInTime, Numbered, CallId
<1>12. CASE WaitBefore
  BY <1>12 DEF WaitBefore, App, Return, WaitOver
<1>13. CASE WaitAfter
  BY <1>13 DEF WaitAfter, App, Return, WaitOver, MappedInCall, ExchangeOwn,
     CallbackLeft, HandledInTime, Numbered, CallId
<1>14. CASE SpuriousWakeup
  BY <1>14 DEF SpuriousWakeup, Woken, Asleep
<1>15. CASE Ignore
  BY <1>15 DEF Ignore, Arrived, Mapped, Listener
<1>16. CASE DispatchNewMessage
  BY <1>16, <1>h DEF DispatchNewMessage, Arrived, Mapped, Listener,
     MappedInCall, ExchangeOwn, CallbackLeft, HandledInTime, Numbered,
     CallId
<1>17. CASE Handle
  <2>1. CASE mapping = "failed"
    BY <1>17, <2>1 DEF Handle, Listener
  <2>2. CASE mapping # "failed"
    <3>1. /\ lpc = "handler" /\ lpc' = "drop"
          /\ ran' = ran \cup {<<callback, IF mapping = "page" THEN page ELSE Empty>>}
          /\ UNCHANGED <<apc, call, sent, running, returned, intact>>
      BY <1>17, <2>2 DEF Handle, Listener
    <3>2. Trusted => page = Answer(callback)
      BY <3>1 DEF ExchangeOwn
    <3>3. HandlerMatches'
      BY <3>1, <3>2
    <3>4. AnswerDelivered'
      BY <3>1
    <3>5. ASSUME running, apc \in {"test", "after", "asleep_after"}
          PROVE  <<call, Answer(call)>> \in ran'
      <4>1. callback = call
        BY <3>1, <3>5 DEF CallbackLeft
      <4>2. mapping = "page"
        BY <2>2, <3>5 DEF MappedInCall, Calling, Mapping
      <4>3. QED
        BY <3>1, <3>2, <3>5, <4>1, <4>2
    <3>6. Delivered'
      BY <3>1, <3>5
    <3>7. QED
      BY <3>3, <3>4, <3>6
  <2>3. QED
    BY <2>1, <2>2
<1>18. CASE Drop
  BY <1>18 DEF Drop, Listener
<1>19. CASE ClearSent
  BY <1>19 DEF ClearSent, Listener
<1>20. CASE Notify
  BY <1>20 DEF Notify, Listener, NotifyAll, Woken
<1>21. CASE DispatchRemoteDisconnect
  BY <1>21 DEF DispatchRemoteDisconnect, Arrived, Mapped, Listener
<1>22. CASE ForgetName
  BY <1>22 DEF ForgetName, Listener
<1>23. CASE ForgetMemory
  BY <1>23 DEF ForgetMemory, Listener, Unmapped
<1>24. CASE ServerGone
  BY <1>24 DEF ServerGone, ServerArrived, Server
<1>25. CASE AddConnection
  BY <1>25 DEF AddConnection, ServerArrived, Server
<1>26. CASE DisconnectFromClient
  BY <1>26 DEF DisconnectFromClient, ServerArrived, EntryAfterDisconnect,
     Server
<1>27. CASE TakeRequest
  BY <1>27 DEF TakeRequest, ServerArrived, HasUrl, Server
<1>28. CASE RefuseRequest
  BY <1>28 DEF RefuseRequest, ServerArrived, HasUrl, Server
<1>29. CASE ReadNothing
  BY <1>29 DEF ReadNothing, ServerArrived, Server
<1>30. CASE WriteAnswer
  BY <1>30 DEF WriteAnswer, Server
<1>31. CASE UseErased
  BY <1>31 DEF UseErased, Server
<1>32. CASE WriteToClient
  BY <1>32 DEF WriteToClient, Server
<1>33. CASE ServerEnd
  BY <1>33 DEF ServerEnd, Server
<1>34. CASE RegisterServer
  BY <1>34 DEF RegisterServer
<1>35. CASE AddServer
  BY <1>35 DEF AddServer, Server
<1>36. CASE ServerDrop
  BY <1>36 DEF ServerDrop
<1>37. CASE SetBlockingMode
  BY <1>37 DEF SetBlockingMode, App
<1>38. CASE TestMode
  BY <1>38 DEF TestMode, Listener
<1>39. CASE UNCHANGED vars
  BY <1>39 DEF vars
<1>40. QED
  BY <1>1, <1>2, <1>3, <1>4, <1>5, <1>6, <1>7, <1>8, <1>9, <1>10, <1>11,
     <1>12, <1>13, <1>14, <1>15, <1>16, <1>17, <1>18, <1>19, <1>20, <1>21,
     <1>22, <1>23, <1>24, <1>25, <1>26, <1>27, <1>28, <1>29, <1>30, <1>31,
     <1>32, <1>33, <1>34, <1>35, <1>36, <1>37, <1>38, <1>39
     DEF Next, AppStep, ListenerStep, ServerStep
-----------------------------------------------------------------------------
(* Theorems about answers.                                                 *)

(* The two invariants together are preserved by every step.                *)
THEOREM AnswerInvariant == ASSUME ~Early PROVE Spec => []AnswerInv
<1>1. Init => AnswerInv
  BY DEF Init, AnswerInv, MappedInCall, LinkedInCall, Calling, NoneLeft, PostedOwn,
         ExchangeOwn, CallbackLeft, HandledInTime, Delivered, HandlerMatches,
         AnswerDelivered, Exchange, Holds, Answering, Dispatching, Empty
<1>2. IInv /\ AnswerInv /\ [Next]_vars => AnswerInv'
  <2>1. ASSUME IInv, AnswerInv, [Next]_vars
        PROVE  AnswerInv'
    <3>1. MappedInCall' /\ LinkedInCall'
      BY <2>1, ConnectionStep DEF IInv, AnswerInv
    <3>2. NoneLeft' /\ PostedOwn' /\ ExchangeOwn' /\ CallbackLeft' /\ HandledInTime'
      BY <2>1, ExchangeOwnStep
    <3>3. Delivered' /\ HandlerMatches' /\ AnswerDelivered'
      BY <2>1, DeliveredStep
    <3>4. QED
      BY <3>1, <3>2, <3>3 DEF AnswerInv
  <2>2. QED
    BY <2>1
<1>3. QED
  BY <1>1, <1>2, InductiveInvariant, PTL DEF Spec

(* Unless the server's owner interferes, the callback of Client::call is   *)
(* given the answer to its own call, whatever the application disconnects. *)
THEOREM OwnAnswerHandled == ASSUME ~Early PROVE Spec => []HandlerMatches
<1>1. AnswerInv => HandlerMatches
  BY DEF AnswerInv
<1>2. QED
  BY <1>1, AnswerInvariant, PTL

(* A call that waited and returned 1 has had its answer handled, whatever  *)
(* disconnects, restarts and spurious wakeups came in between.             *)
THEOREM ReturnsAfterAnswer == ASSUME ~Early PROVE Spec => []AnswerDelivered
<1>1. AnswerInv => AnswerDelivered
  BY DEF AnswerInv
<1>2. QED
  BY <1>1, AnswerInvariant, PTL

-----------------------------------------------------------------------------
(* The server's table.                                                     *)

(* Whether there will be an entry once the queue is read: its last word on *)
(* the connection decides, or the table itself when there is none.         *)
WillBeThere(queue, entry) ==
    \/ /\ entry
       /\ \A i \in DOMAIN queue : queue[i] = "NEW_MESSAGE"
    \/ \E i \in DOMAIN queue :
          /\ queue[i] = "NEW_CONNECTION"
          /\ \A j \in DOMAIN queue : j > i => queue[j] = "NEW_MESSAGE"

InStep ==
    intact => /\ up = "present"
              /\ WillBeThere(sq, con # "none") <=> linked /\ shown

(* What one more notification makes of it.                                 *)
LEMMA AppendNews ==
    ASSUME NEW queue \in Seq(Type), NEW entry \in BOOLEAN
    PROVE  /\ WillBeThere(Append(queue, "NEW_CONNECTION"), entry)
           /\ ~WillBeThere(Append(queue, "REMOTE_DISCONNECT"), entry)
           /\ WillBeThere(Append(queue, "NEW_MESSAGE"), entry)
                  <=> WillBeThere(queue, entry)
<1>1. ASSUME NEW type \in Type
      PROVE  /\ DOMAIN Append(queue, type) = 1..(Len(queue) + 1)
             /\ \A i \in 1..Len(queue) : Append(queue, type)[i] = queue[i]
             /\ Append(queue, type)[Len(queue) + 1] = type
  OBVIOUS
<1>2. DOMAIN queue = 1..Len(queue) /\ Len(queue) \in Nat
  OBVIOUS
<1>3. WillBeThere(Append(queue, "NEW_CONNECTION"), entry)
  BY <1>1, <1>2 DEF WillBeThere, Type
<1>4. ~WillBeThere(Append(queue, "REMOTE_DISCONNECT"), entry)
  BY <1>1, <1>2 DEF WillBeThere, Type
<1>5. WillBeThere(Append(queue, "NEW_MESSAGE"), entry) <=> WillBeThere(queue, entry)
  BY <1>1, <1>2 DEF WillBeThere, Type
<1>6. QED
  BY <1>3, <1>4, <1>5

(* Reading the first one changes the table, not the outcome.               *)
LEMMA ReadNews ==
    ASSUME NEW queue \in Seq(Type), queue # <<>>, NEW entry \in BOOLEAN
    PROVE  WillBeThere(queue, entry)
             <=> WillBeThere(Tail(queue), CASE Head(queue) = "NEW_CONNECTION" -> TRUE
                                            [] Head(queue) = "NEW_MESSAGE" -> entry
                                            [] OTHER -> FALSE)
<1>1. /\ DOMAIN queue = 1..Len(queue) /\ Len(queue) \in Nat \ {0}
      /\ DOMAIN Tail(queue) = 1..(Len(queue) - 1)
      /\ \A i \in 1..(Len(queue) - 1) : Tail(queue)[i] = queue[i + 1]
      /\ Head(queue) = queue[1] /\ queue[1] \in Type
  OBVIOUS
<1>2. DEFINE rest == Tail(queue)
             only(q) == \A i \in DOMAIN q : q[i] = "NEW_MESSAGE"
             last(q, i) == /\ q[i] = "NEW_CONNECTION"
                           /\ \A j \in DOMAIN q : j > i => q[j] = "NEW_MESSAGE"
<1>3. only(queue) <=> queue[1] = "NEW_MESSAGE" /\ only(rest)
  <2>1. ASSUME only(queue) PROVE queue[1] = "NEW_MESSAGE" /\ only(rest)
    BY <1>1, <2>1
  <2>2. ASSUME queue[1] = "NEW_MESSAGE", only(rest), NEW i \in DOMAIN queue
        PROVE  queue[i] = "NEW_MESSAGE"
    <3>1. CASE i = 1
      BY <2>2, <3>1
    <3>2. CASE i # 1
      <4>1. i - 1 \in DOMAIN rest /\ rest[i - 1] = queue[i]
        BY <1>1, <3>2
      <4>2. QED
        BY <2>2, <4>1
    <3>3. QED
      BY <3>1, <3>2
  <2>3. QED
    BY <2>1, <2>2
<1>4. last(queue, 1) <=> queue[1] = "NEW_CONNECTION" /\ only(rest)
  <2>1. ASSUME last(queue, 1) PROVE only(rest)
    BY <1>1, <2>1
  <2>2. ASSUME only(rest), NEW j \in DOMAIN queue, j > 1
        PROVE  queue[j] = "NEW_MESSAGE"
    <3>1. j - 1 \in DOMAIN rest /\ rest[j - 1] = queue[j]
      BY <1>1, <2>2
    <3>2. QED
      BY <2>2, <3>1
  <2>3. QED
    BY <2>1, <2>2
<1>5. ASSUME NEW i \in DOMAIN rest
      PROVE  i + 1 \in DOMAIN queue /\ (last(queue, i + 1) <=> last(rest, i))
  <2>1. i + 1 \in DOMAIN queue /\ queue[i + 1] = rest[i]
    BY <1>1
  <2>2. ASSUME last(queue, i + 1), NEW j \in DOMAIN rest, j > i
        PROVE  rest[j] = "NEW_MESSAGE"
    BY <1>1, <2>2
  <2>3. ASSUME last(rest, i), NEW j \in DOMAIN queue, j > i + 1
        PROVE  queue[j] = "NEW_MESSAGE"
    <3>1. j - 1 \in DOMAIN rest /\ rest[j - 1] = queue[j] /\ j - 1 > i
      BY <1>1, <2>3
    <3>2. QED
      BY <2>3, <3>1
  <2>4. QED
    BY <2>1, <2>2, <2>3
<1>6. \A i \in DOMAIN queue : i = 1 \/ \E k \in DOMAIN rest : i = k + 1
  <2>1. ASSUME NEW i \in DOMAIN queue, i # 1
        PROVE  i - 1 \in DOMAIN rest /\ i = (i - 1) + 1
    BY <1>1, <2>1
  <2>2. QED
    BY <2>1
<1>7. 1 \in DOMAIN queue
  BY <1>1
<1>8. (\E i \in DOMAIN queue : last(queue, i))
        <=> last(queue, 1) \/ \E i \in DOMAIN rest : last(rest, i)
  BY <1>5, <1>6, <1>7
<1>9. /\ WillBeThere(queue, entry)
           <=> (entry /\ only(queue)) \/ \E i \in DOMAIN queue : last(queue, i)
      /\ \A e \in BOOLEAN : WillBeThere(rest, e)
           <=> (e /\ only(rest)) \/ \E i \in DOMAIN rest : last(rest, i)
  BY DEF WillBeThere
<1>10. Head(queue) = queue[1]
  BY <1>1
<1>. HIDE DEF rest, only, last
<1>11. CASE Head(queue) = "NEW_CONNECTION"
  BY <1>3, <1>4, <1>8, <1>9, <1>10, <1>11 DEF rest
<1>12. CASE Head(queue) = "NEW_MESSAGE"
  BY <1>3, <1>4, <1>8, <1>9, <1>10, <1>12 DEF rest
<1>13. CASE Head(queue) \notin {"NEW_CONNECTION", "NEW_MESSAGE"}
  BY <1>3, <1>4, <1>8, <1>9, <1>10, <1>13 DEF rest
<1>14. QED
  BY <1>11, <1>12, <1>13

(* Every step keeps table and link together.                               *)
LEMMA InStepStep ==
    ASSUME TypeOK, InStep, LinkedInCall, [Next]_vars
    PROVE  InStep'
<1>. USE DEF InStep, object, serverVars, link, history
<1>t. sq \in Seq(Type) /\ (con # "none") \in BOOLEAN
  BY DEF TypeOK
<1>c. /\ WillBeThere(Append(sq, "NEW_CONNECTION"), con # "none")
      /\ ~WillBeThere(Append(sq, "REMOTE_DISCONNECT"), con # "none")
      /\ WillBeThere(Append(sq, "NEW_MESSAGE"), con # "none")
           <=> WillBeThere(sq, con # "none")
  BY <1>t, AppendNews
<1>d. ~WillBeThere(AfterDisconnect(sq), con # "none")
  <2>1. AfterDisconnect(sq) = Append(Append(sq, "REMOTE_DISCONNECT"), "REMOTE_DISCONNECT")
    BY <1>t DEF AfterDisconnect
  <2>2. Append(sq, "REMOTE_DISCONNECT") \in Seq(Type)
    BY <1>t DEF Type
  <2>3. \A queue \in Seq(Type) :
            ~WillBeThere(Append(queue, "REMOTE_DISCONNECT"), con # "none")
    BY <1>t, AppendNews
  <2>4. QED
    BY <2>1, <2>2, <2>3
<1>h. ASSUME sq # <<>>
      PROVE  /\ Head(sq) = "NEW_CONNECTION" =>
                   (WillBeThere(sq, con # "none") <=> WillBeThere(Tail(sq), TRUE))
             /\ Head(sq) = "NEW_MESSAGE" =>
                   (WillBeThere(sq, con # "none") <=> WillBeThere(Tail(sq), con # "none"))
             /\ Head(sq) = "REMOTE_DISCONNECT" =>
                   (WillBeThere(sq, con # "none") <=> WillBeThere(Tail(sq), FALSE))
  BY <1>t, <1>h, ReadNews
<1>1. CASE Connect
  BY <1>1 DEF Connect, App, LinkedInCall, TypeOK
<1>2. CASE ConnectMap
  BY <1>2, <1>c DEF ConnectMap, App
<1>3. CASE ConnectName
  BY <1>3 DEF ConnectName, App
<1>4. CASE Disconnect
  BY <1>4, <1>d DEF Disconnect, App, Connected
<1>5. CASE Forget
  BY <1>5 DEF Forget, App, Unmapped
<1>6. CASE BeginCall
  BY <1>6 DEF BeginCall, App, Return, MayWrite, Mapped
<1>7. CASE Write
  BY <1>7 DEF Write, App
<1>8. CASE Post
  BY <1>8, <1>c DEF Post, App
<1>9. CASE Mark
  BY <1>9 DEF Mark, App
<1>10. CASE Store
  BY <1>10 DEF Store, App
<1>11. CASE Test
  BY <1>11 DEF Test, App, Return
<1>12. CASE WaitBefore
  BY <1>12 DEF WaitBefore, App, Return, WaitOver
<1>13. CASE WaitAfter
  BY <1>13 DEF WaitAfter, App, Return, WaitOver
<1>14. CASE SpuriousWakeup
  BY <1>14 DEF SpuriousWakeup, Woken, Asleep
<1>15. CASE Ignore
  BY <1>15 DEF Ignore, Arrived, Mapped, Listener
<1>16. CASE DispatchNewMessage
  BY <1>16 DEF DispatchNewMessage, Arrived, Mapped, Listener
<1>17. CASE Handle
  BY <1>17 DEF Handle, Listener
<1>18. CASE Drop
  BY <1>18 DEF Drop, Listener
<1>19. CASE ClearSent
  BY <1>19 DEF ClearSent, Listener
<1>20. CASE Notify
  BY <1>20 DEF Notify, Listener, NotifyAll, Woken
<1>21. CASE DispatchRemoteDisconnect
  BY <1>21 DEF DispatchRemoteDisconnect, Arrived, Mapped, Listener
<1>22. CASE ForgetName
  BY <1>22 DEF ForgetName, Listener
<1>23. CASE ForgetMemory
  BY <1>23 DEF ForgetMemory, Listener, Unmapped
<1>24. CASE ServerGone
  BY <1>24, <1>h DEF ServerGone, ServerArrived, Server
<1>25. CASE AddConnection
  BY <1>25, <1>h DEF AddConnection, ServerArrived, Server
<1>26. CASE DisconnectFromClient
  BY <1>26, <1>h DEF DisconnectFromClient, ServerArrived,
     EntryAfterDisconnect, Server
<1>27. CASE TakeRequest
  BY <1>27, <1>h DEF TakeRequest, ServerArrived, HasUrl, Server
<1>28. CASE RefuseRequest
  BY <1>28, <1>h DEF RefuseRequest, ServerArrived, HasUrl, Server
<1>29. CASE ReadNothing
  BY <1>29, <1>h DEF ReadNothing, ServerArrived, Server
<1>30. CASE WriteAnswer
  BY <1>30 DEF WriteAnswer, Server
<1>31. CASE UseErased
  BY <1>31 DEF UseErased, Server
<1>32. CASE WriteToClient
  BY <1>32 DEF WriteToClient, Server
<1>33. CASE ServerEnd
  BY <1>33 DEF ServerEnd, Server
<1>34. CASE RegisterServer
  BY <1>34 DEF RegisterServer
<1>35. CASE AddServer
  BY <1>35 DEF AddServer, Server
<1>36. CASE ServerDrop
  BY <1>36 DEF ServerDrop
<1>37. CASE SetBlockingMode
  BY <1>37 DEF SetBlockingMode, App
<1>38. CASE TestMode
  BY <1>38 DEF TestMode, Listener
<1>39. CASE UNCHANGED vars
  BY <1>39 DEF vars
<1>40. QED
  BY <1>1, <1>2, <1>3, <1>4, <1>5, <1>6, <1>7, <1>8, <1>9, <1>10, <1>11,
     <1>12, <1>13, <1>14, <1>15, <1>16, <1>17, <1>18, <1>19, <1>20, <1>21,
     <1>22, <1>23, <1>24, <1>25, <1>26, <1>27, <1>28, <1>29, <1>30, <1>31,
     <1>32, <1>33, <1>34, <1>35, <1>36, <1>37, <1>38, <1>39
     DEF Next, AppStep, ListenerStep, ServerStep

(* The table follows the driver as long as the server's owner keeps off.   *)
THEOREM TableFollows == Spec => []InStep
<1>1. Init => InStep /\ MappedInCall /\ LinkedInCall
  BY DEF Init, InStep, WillBeThere, MappedInCall, LinkedInCall, Calling
<1>2. /\ IInv /\ InStep /\ MappedInCall /\ LinkedInCall
      /\ [Next]_vars
      => (InStep /\ MappedInCall /\ LinkedInCall)'
  BY InStepStep, ConnectionStep DEF IInv
<1>3. QED
  BY <1>1, <1>2, InductiveInvariant, PTL DEF Spec

(* Once its listener has caught up, the server has an entry for the client *)
(* exactly when the driver has a connection that the client has mapped.    *)
THEOREM ServerSeesConnection == Spec => []ServerView
<1>1. ASSUME InStep, intact, sq = <<>>
      PROVE  con # "none" <=> linked /\ shown
  BY <1>1 DEF InStep, WillBeThere
<1>2. InStep => ServerView
  BY <1>1 DEF ServerView
<1>3. QED
  BY <1>2, TableFollows, PTL

===============================================================================
