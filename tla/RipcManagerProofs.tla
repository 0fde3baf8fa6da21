--------------------------- MODULE RipcManagerProofs ---------------------------
(***************************************************************************)
(* What the entity manager keeps for any number of threads, any ids and    *)
(* any number of initializations, by an inductive invariant.  Beside the   *)
(* types it says who holds the mutex, how the listener's life is tied to   *)
(* that of the context, and where every id is on its way between the       *)
(* driver and the maps.                                                    *)
(***************************************************************************)
EXTENDS RipcManager, FiniteSetTheorems, TLAPS

(* Threads that have an id which is not in a map.                          *)
Busy == {"add", "insert", "destroy"}

WorkHasId == \A t \in Thread : pc[t] \in Busy => work[t].id \in Id

Mutex ==
    /\ \A t \in Thread : pc[t] = "destroy" <=> lock = t
    /\ lpc \in {"handle", "stuck"} <=> lock = Listener

(* The listener runs only on an open device, and while it runs without     *)
(* being asked to, the keeper waits for it.                                *)
Keeping ==
    /\ \A t \in Thread : pc[t] \in {"join", "clear"} => t = Keeper
    /\ listener = "running" <=> lpc # "off"
    /\ initialized => context = "open"
    /\ lpc # "off" => initialized
    /\ lpc # "off" /\ ~running => pc[Keeper] = "join"
    /\ pc[Keeper] = "clear" => lpc = "off"

(* An id is loose, registered for a server, registered for a client or     *)
(* free, and no two threads are about the same one.                        *)
Apart ==
    /\ \A k \in Kind : entities[k] \subseteq registered[k]
    /\ \A k \in Kind : registered[k] \cap loose = {}
    /\ registered["server"] \cap registered["client"] = {}
    /\ \A t \in Thread : pc[t] = "add" => work[t].id \in loose
    /\ \A t \in Thread :
          pc[t] \in {"insert", "destroy"} =>
              /\ work[t].id \in registered[work[t].kind]
              /\ work[t].id \notin entities[work[t].kind]
    /\ \A t, u \in Thread :
          t # u /\ pc[t] \in Busy /\ pc[u] \in Busy => work[t].id # work[u].id

(* Registered servers and connected clients are in the maps or on the way. *)
Known ==
    /\ \A i \in registered["server"] \ entities["server"] :
          \E t \in Thread : pc[t] \in {"insert", "destroy"} /\ work[t].id = i
    /\ \A i \in linked \ entities["client"] :
          \E t \in Thread : pc[t] = "destroy" /\ work[t].id = i

Sound == fault = "none" => Apart /\ Known /\ HandlerAlive

IInv == TypeOK /\ WorkHasId /\ Mutex /\ Keeping /\ Sound

-----------------------------------------------------------------------------
(* Before the first initialization.                                        *)
LEMMA InitIInv == ASSUME ManagerAssumption, Init PROVE IInv
<1>1. TypeOK
  <2>1. /\ work \in [Thread -> Work] /\ ntf \in Notification \cup {NoNotification}
        /\ pc \in [Thread -> {"idle", "context", "register", "create", "add",
                             "insert", "destroy", "join", "clear"}]
    BY DEF Init, Work, NoWork, NoId, Kind
  <2>2. /\ entities \in [Kind -> SUBSET Id] /\ registered \in [Kind -> SUBSET Id]
        /\ linked \subseteq registered["client"] /\ loose \subseteq Id
        /\ handlers \subseteq Type /\ lock \in Thread \cup {Nobody, Listener}
    BY DEF Init, Kind
  <2>3. inits \in 0..MaxInit
    BY DEF Init, ManagerAssumption
  <2>4. QED
    BY <2>1, <2>2, <2>3 DEF Init, TypeOK
<1>2. WorkHasId /\ Mutex /\ Keeping
  BY DEF ManagerAssumption, Init, WorkHasId, Busy, Mutex, Keeping, Nobody, Listener
<1>3. Sound
  BY DEF Init, Sound, Apart, Known, HandlerAlive, Loop, Kind, Busy
<1>4. QED
  BY <1>1, <1>2, <1>3 DEF IInv

(* Every variable keeps its type.                                          *)
LEMMA TypeStep ==
    ASSUME ManagerAssumption, TypeOK, WorkHasId, [Next]_vars
    PROVE  TypeOK'
<1>1. CASE OpenFails
  BY <1>1 DEF OpenFails, At, threads, loop, driver, TypeOK, Kind, Work,
         Notification, ManagerAssumption, WorkHasId, Busy, Nobody, Listener
<1>2. CASE StartFails
  BY <1>2 DEF StartFails, At, threads, loop, driver, TypeOK, Kind, Work,
         Notification, ManagerAssumption, WorkHasId, Busy, Nobody, Listener
<1>3. CASE Initialize
  <2>1. inits' \in 0..MaxInit /\ listener' \in {"none", "running", "ended"}
    BY <1>3 DEF Initialize, TypeOK, ManagerAssumption
  <2>2. /\ initialized' \in BOOLEAN /\ running' \in BOOLEAN
        /\ context' \in {"none", "shut", "open"}
        /\ lpc' \in {"off", "start", "poll", "dispatch", "handle", "stuck"}
        /\ fault' \in {"none", "context", "terminate"}
    BY <1>3 DEF Initialize, TypeOK
  <2>3. UNCHANGED <<lock, entities, handlers, pc, work, ntf, registered, loose, linked>>
    BY <1>3 DEF Initialize, threads, driver
  <2>4. QED
    BY <2>1, <2>2, <2>3 DEF TypeOK
<1>4. CASE BeginShutdown
  <2>1. pc' = [pc EXCEPT ![Keeper] = IF MustJoin THEN "join" ELSE "clear"]
    BY <1>4 DEF BeginShutdown, Goto
  <2>2. pc' \in [Thread -> {"idle", "context", "register", "create", "add",
                            "insert", "destroy", "join", "clear"}]
    BY <2>1 DEF TypeOK, ManagerAssumption
  <2>3. /\ running' \in BOOLEAN
        /\ UNCHANGED <<initialized, context, listener, inits, lock, entities,
                       handlers, work, lpc, ntf, registered, loose, linked, fault>>
    BY <1>4 DEF BeginShutdown, loop, driver
  <2>4. QED
    BY <2>2, <2>3 DEF TypeOK
<1>5. CASE Join
  BY <1>5 DEF Join, At, Goto, loop, driver, TypeOK, Kind, Work, Notification,
         ManagerAssumption, WorkHasId, Busy, Nobody, Listener
<1>6. CASE NothingToClear
  BY <1>6 DEF NothingToClear, At, Goto, manager, loop, driver, TypeOK, Kind,
         Work, Notification, ManagerAssumption, WorkHasId, Busy, Nobody,
         Listener
<1>7. CASE Clear
  BY <1>7 DEF Clear, At, Goto, Cleared, loop, TypeOK, Kind, Work,
         Notification, ManagerAssumption, WorkHasId, Busy, Nobody, Listener
<1>8. ASSUME NEW t \in Thread, AskContext(t)
      PROVE  TypeOK'
  BY <1>8 DEF AskContext, At, Goto, manager, loop, driver, TypeOK, Kind, Work,
         Notification, ManagerAssumption, WorkHasId, Busy, Nobody, Listener
<1>9. ASSUME NEW t \in Thread, Register(t)
      PROVE  TypeOK'
  <2>1. /\ pc' \in [Thread -> {"idle", "context", "register", "create", "add",
                               "insert", "destroy", "join", "clear"}]
        /\ work' \in [Thread -> Work]
    BY <1>9 DEF Register, Goto, Return, NoWork, NoId, TypeOK, Work, Kind
  <2>2. UNCHANGED <<manager, lock, entities, handlers, loop, driver, fault>>
    BY <1>9 DEF Register
  <2>3. QED
    BY <2>1, <2>2 DEF TypeOK, manager, loop, driver
<1>10. ASSUME NEW t \in Thread, RegisterShut(t)
      PROVE  TypeOK'
  BY <1>10 DEF RegisterShut, At, Return, Goto, NoWork, NoId, manager, loop,
         driver, TypeOK, Kind, Work, Notification, ManagerAssumption,
         WorkHasId, Busy, Nobody, Listener
<1>11. ASSUME NEW t \in Thread, Allocate(t)
      PROVE  TypeOK'
  BY <1>11 DEF Allocate, At, Goto, Return, MayRegister, FreeIds, TakenIds,
         NoWork, NoId, manager, loop, TypeOK, Kind, Work, Notification,
         ManagerAssumption, WorkHasId, Busy, Nobody, Listener
<1>12. ASSUME NEW t \in Thread, Add(t)
      PROVE  TypeOK'
  <2>1. work[t].kind \in Kind /\ work[t].id \in Id
    BY <1>12 DEF Add, At, WorkHasId, Busy, TypeOK, Work
  <2>2. /\ registered' \in [Kind -> SUBSET Id] /\ loose' \subseteq Id
        /\ registered["client"] \subseteq registered'["client"]
    BY <1>12, <2>1 DEF Add, TypeOK, Kind
  <2>3. pc' \in [Thread -> {"idle", "context", "register", "create", "add",
                            "insert", "destroy", "join", "clear"}]
    BY <1>12 DEF Add, Goto, TypeOK
  <2>4. UNCHANGED <<manager, lock, entities, handlers, work, loop, linked, fault>>
    BY <1>12 DEF Add
  <2>5. QED
    BY <2>2, <2>3, <2>4 DEF TypeOK, manager, loop
<1>13. ASSUME NEW t \in Thread, Insert(t)
      PROVE  TypeOK'
  BY <1>13 DEF Insert, At, Return, Goto, NoWork, NoId, manager, loop, driver,
         TypeOK, Kind, Work, Notification, ManagerAssumption, WorkHasId, Busy,
         Nobody, Listener
<1>14. ASSUME NEW t \in Thread, Destroy(t)
      PROVE  TypeOK'
  <2>1. /\ pc' \in [Thread -> {"idle", "context", "register", "create", "add",
                               "insert", "destroy", "join", "clear"}]
        /\ work' \in [Thread -> Work]
    BY <1>14 DEF Destroy, Goto, Return, NoWork, NoId, TypeOK, Work, Kind
  <2>. DEFINE kind == work[t].kind
              gone == Unregistered(kind, work[t].id)
  <2>2. /\ registered' = [registered EXCEPT ![kind] = @ \ gone]
        /\ linked' = IF kind = "client" THEN linked \ gone ELSE linked
        /\ lock' = Nobody
    BY <1>14 DEF Destroy
  <2>3. kind \in {"server", "client"}
    BY DEF TypeOK, Work, Kind
  <2>. HIDE DEF kind, gone
  <2>4. /\ registered' \in [Kind -> SUBSET Id]
        /\ linked' \subseteq registered'["client"]
    BY <2>2, <2>3 DEF TypeOK, Kind
  <2>5. UNCHANGED <<manager, entities, handlers, loop, loose, fault>>
    BY <1>14 DEF Destroy
  <2>6. QED
    BY <2>1, <2>2, <2>4, <2>5 DEF TypeOK, manager, loop
<1>15. ASSUME NEW t \in Thread, NEW kind \in Kind, BeginCreate(t, kind)
      PROVE  TypeOK'
  BY <1>15 DEF BeginCreate, At, Goto, NoId, manager, loop, driver, TypeOK,
         Kind, Work, Notification, ManagerAssumption, WorkHasId, Busy, Nobody,
         Listener
<1>16. ASSUME NEW t \in Thread, NEW kind \in Kind, NEW i \in Id, Erase(t, kind, i)
      PROVE  TypeOK'
  BY <1>16 DEF Erase, At, Goto, MayErase, manager, loop, driver, TypeOK, Kind,
         Work, Notification, ManagerAssumption, WorkHasId, Busy, Nobody,
         Listener
<1>17. ASSUME NEW t \in Thread, NEW type \in Type, RegisterHandler(t, type)
      PROVE  TypeOK'
  BY <1>17 DEF RegisterHandler, At, manager, threads, loop, driver, TypeOK,
         Kind, Work, Notification, ManagerAssumption, WorkHasId, Busy, Nobody,
         Listener
<1>18. CASE ListenerStart
  BY <1>18 DEF ListenerStart, Loop, manager, threads, driver, TypeOK, Kind,
         Work, Notification, ManagerAssumption, WorkHasId, Busy, Nobody,
         Listener
<1>19. ASSUME NEW n \in Notification, Read(n)
      PROVE  TypeOK'
  BY <1>19 DEF Read, Loop, MayRead, manager, threads, driver, TypeOK, Kind,
         Work, Notification, ManagerAssumption, WorkHasId, Busy, Nobody,
         Listener
<1>20. CASE Dispatch
  BY <1>20 DEF Dispatch, Loop, Handled, manager, threads, driver, TypeOK,
         Kind, Work, Notification, ManagerAssumption, WorkHasId, Busy, Nobody,
         Listener
<1>21. CASE DispatchToNobody
  BY <1>21 DEF DispatchToNobody, Loop, Handled, NoNotification, NoId, manager,
         threads, driver, TypeOK, Kind, Work, Notification, ManagerAssumption,
         WorkHasId, Busy, Nobody, Listener
<1>22. CASE Dispatched
  BY <1>22 DEF Dispatched, Loop, NoNotification, NoId, manager, threads,
         driver, TypeOK, Kind, Work, Notification, ManagerAssumption,
         WorkHasId, Busy, Nobody, Listener
<1>23. CASE CallbackCalls
  BY <1>23 DEF CallbackCalls, Loop, manager, threads, driver, TypeOK, Kind,
         Work, Notification, ManagerAssumption, WorkHasId, Busy, Nobody,
         Listener
<1>24. CASE PollFails
  BY <1>24 DEF PollFails, Loop, threads, driver, TypeOK, Kind, Work,
         Notification, ManagerAssumption, WorkHasId, Busy, Nobody, Listener
<1>25. CASE ListenerEnd
  BY <1>25 DEF ListenerEnd, Loop, threads, driver, TypeOK, Kind, Work,
         Notification, ManagerAssumption, WorkHasId, Busy, Nobody, Listener
<1>26. ASSUME NEW i \in Id, Link(i)
      PROVE  TypeOK'
  BY <1>26 DEF Link, manager, threads, loop, TypeOK, Kind, Work, Notification,
         ManagerAssumption, WorkHasId, Busy, Nobody, Listener
<1>27. ASSUME NEW i \in Id, Unlink(i)
      PROVE  TypeOK'
  BY <1>27 DEF Unlink, manager, threads, loop, TypeOK, Kind, Work,
         Notification, ManagerAssumption, WorkHasId, Busy, Nobody, Listener
<1>28. CASE UNCHANGED vars
  BY <1>28 DEF vars, manager, threads, loop, driver, TypeOK
<1>29. QED
  BY <1>1, <1>2, <1>3, <1>4, <1>5, <1>6, <1>7, <1>8, <1>9, <1>10, <1>11,
     <1>12, <1>13, <1>14, <1>15, <1>16, <1>17, <1>18, <1>19, <1>20, <1>21,
     <1>22, <1>23, <1>24, <1>25, <1>26, <1>27, <1>28
  DEF Next, KeeperStep, CallStep, ListenerStep

(* Who is about an id has one.                                             *)
LEMMA WorkStep ==
    ASSUME TypeOK, WorkHasId, [Next]_vars
    PROVE  WorkHasId'
<1>1. CASE UNCHANGED <<pc, work>>
  BY <1>1 DEF WorkHasId
<1>2. \/ UNCHANGED vars
      \/ \E t \in Thread, type \in Type : RegisterHandler(t, type)
      \/ \E n \in Notification : Read(n)
      \/ OpenFails \/ StartFails \/ Initialize \/ ListenerStart \/ Dispatch
      \/ DispatchToNobody \/ Dispatched \/ CallbackCalls \/ PollFails
      \/ \E i \in Id : Link(i)
      \/ \E i \in Id : Unlink(i)
      \/ ListenerEnd
      => UNCHANGED <<pc, work>>
  BY DEF vars, manager, threads, loop, driver, OpenFails, StartFails,
         Initialize, RegisterHandler, ListenerStart, Read, Dispatch,
         DispatchToNobody, Dispatched, CallbackCalls, PollFails, ListenerEnd,
         Link, Unlink
<1>3. CASE BeginShutdown
  BY <1>3 DEF BeginShutdown, At, Goto, MustJoin, loop, driver, TypeOK,
         WorkHasId, Busy, Work
<1>4. CASE Join
  BY <1>4 DEF Join, At, Goto, loop, driver, TypeOK, WorkHasId, Busy, Work
<1>5. CASE NothingToClear
  BY <1>5 DEF NothingToClear, At, Goto, manager, loop, driver, TypeOK,
         WorkHasId, Busy, Work
<1>6. CASE Clear
  BY <1>6 DEF Clear, At, Goto, Cleared, loop, TypeOK, WorkHasId, Busy, Work
<1>7. ASSUME NEW t \in Thread, AskContext(t)
      PROVE  WorkHasId'
  BY <1>7 DEF AskContext, At, Goto, manager, loop, driver, TypeOK, WorkHasId,
         Busy, Work
<1>8. ASSUME NEW t \in Thread, Register(t)
      PROVE  WorkHasId'
  BY <1>8 DEF Register, At, Goto, Return, MayRegister, NoWork, NoId, manager,
         loop, driver, TypeOK, WorkHasId, Busy, Work
<1>9. ASSUME NEW t \in Thread, RegisterShut(t)
      PROVE  WorkHasId'
  BY <1>9 DEF RegisterShut, At, Return, Goto, NoWork, NoId, manager, loop,
         driver, TypeOK, WorkHasId, Busy, Work
<1>10. ASSUME NEW t \in Thread, Allocate(t)
      PROVE  WorkHasId'
  BY <1>10 DEF Allocate, At, Goto, Return, MayRegister, FreeIds, TakenIds,
         NoWork, NoId, manager, loop, TypeOK, WorkHasId, Busy, Work
<1>11. ASSUME NEW t \in Thread, Add(t)
      PROVE  WorkHasId'
  BY <1>11 DEF Add, At, Goto, manager, loop, TypeOK, WorkHasId, Busy, Work
<1>12. ASSUME NEW t \in Thread, Insert(t)
      PROVE  WorkHasId'
  BY <1>12 DEF Insert, At, Return, Goto, NoWork, NoId, manager, loop, driver,
         TypeOK, WorkHasId, Busy, Work
<1>13. ASSUME NEW t \in Thread, Destroy(t)
      PROVE  WorkHasId'
  BY <1>13 DEF Destroy, At, Return, Unregistered, Goto, NoWork, NoId, manager,
         loop, TypeOK, WorkHasId, Busy, Work
<1>14. ASSUME NEW t \in Thread, NEW kind \in Kind, BeginCreate(t, kind)
      PROVE  WorkHasId'
  BY <1>14 DEF BeginCreate, At, Goto, NoId, manager, loop, driver, TypeOK,
         WorkHasId, Busy, Work
<1>15. ASSUME NEW t \in Thread, NEW kind \in Kind, NEW i \in Id, Erase(t, kind, i)
      PROVE  WorkHasId'
  BY <1>15 DEF Erase, At, Goto, MayErase, manager, loop, driver, TypeOK,
         WorkHasId, Busy, Work
<1>16. QED
  BY <1>1, <1>2, <1>3, <1>4, <1>5, <1>6, <1>7, <1>8, <1>9, <1>10, <1>11,
     <1>12, <1>13, <1>14, <1>15
  DEF Next, KeeperStep, CallStep, ListenerStep

(* The mutex is with the deleting thread or the handling listener.         *)
LEMMA MutexStep ==
    ASSUME ManagerAssumption, TypeOK, Mutex, [Next]_vars
    PROVE  Mutex'
<1>1. CASE UNCHANGED <<pc, lock, lpc>>
  BY <1>1 DEF Mutex
<1>2. \/ UNCHANGED vars
      \/ \E t \in Thread, type \in Type : RegisterHandler(t, type)
      \/ \E i \in Id : Link(i)
      \/ \E i \in Id : Unlink(i)
      \/ OpenFails \/ StartFails
      => UNCHANGED <<pc, lock, lpc>>
  BY DEF vars, manager, threads, loop, driver, OpenFails, StartFails,
         RegisterHandler, Link, Unlink
<1>3. CASE Initialize
  BY <1>3 DEF Initialize, At, threads, driver, TypeOK, Mutex, Nobody,
         Listener, ManagerAssumption
<1>4. CASE BeginShutdown
  BY <1>4 DEF BeginShutdown, At, Goto, MustJoin, loop, driver, TypeOK, Mutex,
         Nobody, Listener, ManagerAssumption
<1>5. CASE Join
  BY <1>5 DEF Join, At, Goto, loop, driver, TypeOK, Mutex, Nobody, Listener,
         ManagerAssumption
<1>6. CASE NothingToClear
  BY <1>6 DEF NothingToClear, At, Goto, manager, loop, driver, TypeOK, Mutex,
         Nobody, Listener, ManagerAssumption
<1>7. CASE Clear
  BY <1>7 DEF Clear, At, Goto, Cleared, loop, TypeOK, Mutex, Nobody, Listener,
         ManagerAssumption
<1>8. ASSUME NEW t \in Thread, AskContext(t)
      PROVE  Mutex'
  BY <1>8 DEF AskContext, At, Goto, manager, loop, driver, TypeOK, Mutex,
         Nobody, Listener, ManagerAssumption
<1>9. ASSUME NEW t \in Thread, Register(t)
      PROVE  Mutex'
  BY <1>9 DEF Register, At, Goto, Return, MayRegister, NoWork, NoId, manager,
         loop, driver, TypeOK, Mutex, Nobody, Listener, ManagerAssumption
<1>10. ASSUME NEW t \in Thread, RegisterShut(t)
      PROVE  Mutex'
  BY <1>10 DEF RegisterShut, At, Return, Goto, NoWork, NoId, manager, loop,
         driver, TypeOK, Mutex, Nobody, Listener, ManagerAssumption
<1>11. ASSUME NEW t \in Thread, Allocate(t)
      PROVE  Mutex'
  BY <1>11 DEF Allocate, At, Goto, Return, MayRegister, FreeIds, TakenIds,
         NoWork, NoId, manager, loop, TypeOK, Mutex, Nobody, Listener,
         ManagerAssumption
<1>12. ASSUME NEW t \in Thread, Add(t)
      PROVE  Mutex'
  BY <1>12 DEF Add, At, Goto, manager, loop, TypeOK, Mutex, Nobody, Listener,
         ManagerAssumption
<1>13. ASSUME NEW t \in Thread, Insert(t)
      PROVE  Mutex'
  BY <1>13 DEF Insert, At, Return, Goto, NoWork, NoId, manager, loop, driver,
         TypeOK, Mutex, Nobody, Listener, ManagerAssumption
<1>14. ASSUME NEW t \in Thread, Destroy(t)
      PROVE  Mutex'
  BY <1>14 DEF Destroy, At, Return, Unregistered, Goto, NoWork, NoId, manager,
         loop, TypeOK, Mutex, Nobody, Listener, ManagerAssumption
<1>15. ASSUME NEW t \in Thread, NEW kind \in Kind, BeginCreate(t, kind)
      PROVE  Mutex'
  BY <1>15 DEF BeginCreate, At, Goto, NoId, manager, loop, driver, TypeOK,
         Mutex, Nobody, Listener, ManagerAssumption
<1>16. ASSUME NEW t \in Thread, NEW kind \in Kind, NEW i \in Id, Erase(t, kind, i)
      PROVE  Mutex'
  BY <1>16 DEF Erase, At, Goto, MayErase, manager, loop, driver, TypeOK,
         Mutex, Nobody, Listener, ManagerAssumption
<1>17. CASE ListenerStart
  BY <1>17 DEF ListenerStart, Loop, manager, threads, driver, TypeOK, Mutex,
         Nobody, Listener, ManagerAssumption
<1>18. ASSUME NEW n \in Notification, Read(n)
      PROVE  Mutex'
  BY <1>18 DEF Read, Loop, MayRead, manager, threads, driver, TypeOK, Mutex,
         Nobody, Listener, ManagerAssumption
<1>19. CASE Dispatch
  BY <1>19 DEF Dispatch, Loop, Handled, manager, threads, driver, TypeOK,
         Mutex, Nobody, Listener, ManagerAssumption
<1>20. CASE DispatchToNobody
  BY <1>20 DEF DispatchToNobody, Loop, Handled, NoNotification, NoId, manager,
         threads, driver, TypeOK, Mutex, Nobody, Listener, ManagerAssumption
<1>21. CASE Dispatched
  BY <1>21 DEF Dispatched, Loop, NoNotification, NoId, manager, threads,
         driver, TypeOK, Mutex, Nobody, Listener, ManagerAssumption
<1>22. CASE CallbackCalls
  BY <1>22 DEF CallbackCalls, Loop, manager, threads, driver, TypeOK, Mutex,
         Nobody, Listener, ManagerAssumption
<1>23. CASE PollFails
  BY <1>23 DEF PollFails, Loop, threads, driver, TypeOK, Mutex, Nobody,
         Listener, ManagerAssumption
<1>24. CASE ListenerEnd
  BY <1>24 DEF ListenerEnd, Loop, threads, driver, TypeOK, Mutex, Nobody,
         Listener, ManagerAssumption
<1>25. QED
  BY <1>1, <1>2, <1>3, <1>4, <1>5, <1>6, <1>7, <1>8, <1>9, <1>10, <1>11,
     <1>12, <1>13, <1>14, <1>15, <1>16, <1>17, <1>18, <1>19, <1>20, <1>21,
     <1>22, <1>23, <1>24
  DEF Next, KeeperStep, CallStep, ListenerStep

(* The listener and the context end in the order the keeper wants.         *)
LEMMA KeepingStep ==
    ASSUME ManagerAssumption, TypeOK, Keeping, [Next]_vars
    PROVE  Keeping'
<1>1. CASE UNCHANGED <<pc, initialized, context, running, listener, lpc>>
  BY <1>1 DEF Keeping
<1>2. \/ UNCHANGED vars
      \/ \E t \in Thread, type \in Type : RegisterHandler(t, type)
      \/ \E i \in Id : Link(i)
      \/ \E i \in Id : Unlink(i)
      => UNCHANGED <<pc, initialized, context, running, listener, lpc>>
  BY DEF vars, manager, threads, loop, driver, RegisterHandler, Link, Unlink
<1>3. CASE OpenFails
  BY <1>3 DEF OpenFails, At, threads, loop, driver, TypeOK, Keeping,
         ManagerAssumption
<1>4. CASE StartFails
  BY <1>4 DEF StartFails, At, threads, loop, driver, TypeOK, Keeping,
         ManagerAssumption
<1>5. CASE Initialize
  BY <1>5 DEF Initialize, At, threads, driver, TypeOK, Keeping,
         ManagerAssumption
<1>6. CASE BeginShutdown
  BY <1>6 DEF BeginShutdown, At, Goto, MustJoin, loop, driver, TypeOK,
         Keeping, ManagerAssumption
<1>7. CASE Join
  BY <1>7 DEF Join, At, Goto, loop, driver, TypeOK, Keeping, ManagerAssumption
<1>8. CASE NothingToClear
  BY <1>8 DEF NothingToClear, At, Goto, manager, loop, driver, TypeOK,
         Keeping, ManagerAssumption
<1>9. CASE Clear
  BY <1>9 DEF Clear, At, Goto, Cleared, loop, TypeOK, Keeping,
         ManagerAssumption
<1>10. ASSUME NEW t \in Thread, AskContext(t)
      PROVE  Keeping'
  BY <1>10 DEF AskContext, At, Goto, manager, loop, driver, TypeOK, Keeping,
         ManagerAssumption
<1>11. ASSUME NEW t \in Thread, Register(t)
      PROVE  Keeping'
  BY <1>11 DEF Register, At, Goto, Return, MayRegister, NoWork, NoId, manager,
         loop, driver, TypeOK, Keeping, ManagerAssumption
<1>12. ASSUME NEW t \in Thread, RegisterShut(t)
      PROVE  Keeping'
  BY <1>12 DEF RegisterShut, At, Return, Goto, NoWork, NoId, manager, loop,
         driver, TypeOK, Keeping, ManagerAssumption
<1>13. ASSUME NEW t \in Thread, Allocate(t)
      PROVE  Keeping'
  BY <1>13 DEF Allocate, At, Goto, Return, MayRegister, FreeIds, TakenIds,
         NoWork, NoId, manager, loop, TypeOK, Keeping, ManagerAssumption
<1>14. ASSUME NEW t \in Thread, Add(t)
      PROVE  Keeping'
  BY <1>14 DEF Add, At, Goto, manager, loop, TypeOK, Keeping,
         ManagerAssumption
<1>15. ASSUME NEW t \in Thread, Insert(t)
      PROVE  Keeping'
  BY <1>15 DEF Insert, At, Return, Goto, NoWork, NoId, manager, loop, driver,
         TypeOK, Keeping, ManagerAssumption
<1>16. ASSUME NEW t \in Thread, Destroy(t)
      PROVE  Keeping'
  BY <1>16 DEF Destroy, At, Return, Unregistered, Goto, NoWork, NoId, manager,
         loop, TypeOK, Keeping, ManagerAssumption
<1>17. ASSUME NEW t \in Thread, NEW kind \in Kind, BeginCreate(t, kind)
      PROVE  Keeping'
  BY <1>17 DEF BeginCreate, At, Goto, NoId, manager, loop, driver, TypeOK,
         Keeping, ManagerAssumption
<1>18. ASSUME NEW t \in Thread, NEW kind \in Kind, NEW i \in Id, Erase(t, kind, i)
      PROVE  Keeping'
  BY <1>18 DEF Erase, At, Goto, MayErase, manager, loop, driver, TypeOK,
         Keeping, ManagerAssumption
<1>19. CASE ListenerStart
  BY <1>19 DEF ListenerStart, Loop, manager, threads, driver, TypeOK, Keeping,
         ManagerAssumption
<1>20. ASSUME NEW n \in Notification, Read(n)
      PROVE  Keeping'
  BY <1>20 DEF Read, Loop, MayRead, manager, threads, driver, TypeOK, Keeping,
         ManagerAssumption
<1>21. CASE Dispatch
  BY <1>21 DEF Dispatch, Loop, Handled, manager, threads, driver, TypeOK,
         Keeping, ManagerAssumption
<1>22. CASE DispatchToNobody
  BY <1>22 DEF DispatchToNobody, Loop, Handled, NoNotification, NoId, manager,
         threads, driver, TypeOK, Keeping, ManagerAssumption
<1>23. CASE Dispatched
  BY <1>23 DEF Dispatched, Loop, NoNotification, NoId, manager, threads,
         driver, TypeOK, Keeping, ManagerAssumption
<1>24. CASE CallbackCalls
  BY <1>24 DEF CallbackCalls, Loop, manager, threads, driver, TypeOK, Keeping,
         ManagerAssumption
<1>25. CASE PollFails
  BY <1>25 DEF PollFails, Loop, threads, driver, TypeOK, Keeping,
         ManagerAssumption
<1>26. CASE ListenerEnd
  BY <1>26 DEF ListenerEnd, Loop, threads, driver, TypeOK, Keeping,
         ManagerAssumption
<1>27. QED
  BY <1>1, <1>2, <1>3, <1>4, <1>5, <1>6, <1>7, <1>8, <1>9, <1>10, <1>11,
     <1>12, <1>13, <1>14, <1>15, <1>16, <1>17, <1>18, <1>19, <1>20, <1>21,
     <1>22, <1>23, <1>24, <1>25, <1>26
  DEF Next, KeeperStep, CallStep, ListenerStep

(* Ids are taken, passed on and given back one at a time.                  *)
LEMMA ApartStep ==
    ASSUME ManagerAssumption, TypeOK, WorkHasId, Mutex, Apart, [Next]_vars,
           fault' = "none"
    PROVE  Apart'
<1>1. CASE UNCHANGED <<pc, work, entities, registered, loose>>
  BY <1>1 DEF Apart
<1>2. \/ UNCHANGED vars
      \/ \E t \in Thread, type \in Type : RegisterHandler(t, type)
      \/ \E n \in Notification : Read(n)
      \/ OpenFails \/ StartFails \/ Initialize \/ ListenerStart \/ Dispatch
      \/ DispatchToNobody \/ Dispatched \/ CallbackCalls \/ PollFails
      \/ \E i \in Id : Link(i)
      \/ \E i \in Id : Unlink(i)
      \/ ListenerEnd
      => UNCHANGED <<pc, work, entities, registered, loose>>
  BY DEF vars, manager, threads, loop, driver, OpenFails, StartFails,
         Initialize, RegisterHandler, ListenerStart, Read, Dispatch,
         DispatchToNobody, Dispatched, CallbackCalls, PollFails, ListenerEnd,
         Link, Unlink
<1>3. CASE BeginShutdown
  BY <1>3 DEF BeginShutdown, At, Goto, MustJoin, loop, driver, TypeOK,
         WorkHasId, Mutex, Apart, Busy, Kind, Work, Nobody, ManagerAssumption
<1>4. CASE Join
  BY <1>4 DEF Join, At, Goto, loop, driver, TypeOK, WorkHasId, Mutex, Apart,
         Busy, Kind, Work, Nobody, ManagerAssumption
<1>5. CASE NothingToClear
  BY <1>5 DEF NothingToClear, At, Goto, manager, loop, driver, TypeOK,
         WorkHasId, Mutex, Apart, Busy, Kind, Work, Nobody, ManagerAssumption
<1>6. CASE Clear
  BY <1>6 DEF Clear, At, Goto, Cleared, loop, TypeOK, WorkHasId, Mutex, Apart,
         Busy, Kind, Work, Nobody, ManagerAssumption
<1>7. ASSUME NEW t \in Thread, AskContext(t)
      PROVE  Apart'
  BY <1>7 DEF AskContext, At, Goto, manager, loop, driver, TypeOK, WorkHasId,
         Mutex, Apart, Busy, Kind, Work, Nobody, ManagerAssumption
<1>8. ASSUME NEW t \in Thread, Register(t)
      PROVE  Apart'
  <2>1. UNCHANGED <<entities, registered, loose>> /\ pc'[t] \notin Busy
    BY <1>8 DEF Register, Return, Goto, manager, driver, TypeOK, Busy
  <2>2. \A u \in Thread \ {t} : pc'[u] = pc[u] /\ work'[u] = work[u]
    BY <1>8 DEF Register, Return, Goto, TypeOK
  <2>3. QED
    BY <2>1, <2>2 DEF Apart, Busy
<1>9. ASSUME NEW t \in Thread, RegisterShut(t)
      PROVE  Apart'
  BY <1>9 DEF RegisterShut, At, Return, Goto, NoWork, NoId, manager, loop,
         driver, TypeOK, WorkHasId, Mutex, Apart, Busy, Kind, Work, Nobody,
         ManagerAssumption
<1>10. ASSUME NEW t \in Thread, Allocate(t)
      PROVE  Apart'
  <2>1. PICK i \in FreeIds :
           /\ loose' = loose \cup {i}
           /\ IF MayRegister(work[t].kind)
              THEN work' = [work EXCEPT ![t].id = i] /\ Goto(t, "add")
              ELSE Return(t)
    BY <1>10 DEF Allocate
  <2>2. UNCHANGED <<entities, registered>>
    BY <1>10 DEF Allocate, manager
  <2>3. i \notin loose /\ \A k \in Kind : i \notin registered[k]
    BY DEF FreeIds, TakenIds
  <2>4. \A u \in Thread \ {t} : pc'[u] = pc[u] /\ work'[u] = work[u]
    BY <2>1 DEF Goto, Return, TypeOK
  <2>5. CASE MayRegister(work[t].kind)
    <3>1. pc'[t] = "add" /\ work'[t].id = i
      BY <2>1, <2>5 DEF Goto, TypeOK, Work
    <3>2. \A u \in Thread : pc[u] \in Busy => work[u].id # i
      BY <2>3 DEF Apart, Busy, TypeOK, Work
    <3>3. QED
      BY <2>1, <2>2, <2>3, <2>4, <3>1, <3>2 DEF Apart, Busy, Kind
  <2>6. CASE ~MayRegister(work[t].kind)
    <3>1. pc'[t] \notin Busy
      BY <2>1, <2>6 DEF Goto, Return, TypeOK, Busy
    <3>2. QED
      BY <2>1, <2>2, <2>3, <2>4, <3>1 DEF Apart, Busy, Kind
  <2>7. QED
    BY <2>5, <2>6
<1>11. ASSUME NEW t \in Thread, Add(t)
      PROVE  Apart'
  BY <1>11 DEF Add, At, Goto, manager, loop, TypeOK, WorkHasId, Mutex, Apart,
         Busy, Kind, Work, Nobody, ManagerAssumption
<1>12. ASSUME NEW t \in Thread, Insert(t)
      PROVE  Apart'
  BY <1>12 DEF Insert, At, Return, Goto, NoWork, NoId, manager, loop, driver,
         TypeOK, WorkHasId, Mutex, Apart, Busy, Kind, Work, Nobody,
         ManagerAssumption
<1>13. ASSUME NEW t \in Thread, Destroy(t)
      PROVE  Apart'
  BY <1>13 DEF Destroy, At, Return, Unregistered, Goto, NoWork, NoId, manager,
         loop, TypeOK, WorkHasId, Mutex, Apart, Busy, Kind, Work, Nobody,
         ManagerAssumption
<1>14. ASSUME NEW t \in Thread, NEW kind \in Kind, BeginCreate(t, kind)
      PROVE  Apart'
  BY <1>14 DEF BeginCreate, At, Goto, NoId, manager, loop, driver, TypeOK,
         WorkHasId, Mutex, Apart, Busy, Kind, Work, Nobody, ManagerAssumption
<1>15. ASSUME NEW t \in Thread, NEW kind \in Kind, NEW i \in Id, Erase(t, kind, i)
      PROVE  Apart'
  BY <1>15 DEF Erase, At, Goto, MayErase, manager, loop, driver, TypeOK,
         WorkHasId, Mutex, Apart, Busy, Kind, Work, Nobody, ManagerAssumption
<1>16. QED
  BY <1>1, <1>2, <1>3, <1>4, <1>5, <1>6, <1>7, <1>8, <1>9, <1>10, <1>11,
     <1>12, <1>13, <1>14, <1>15
  DEF Next, KeeperStep, CallStep, ListenerStep

(* Nothing is registered or connected that no map and no thread knows of.  *)
LEMMA KnownStep ==
    ASSUME ManagerAssumption, TypeOK, WorkHasId, Mutex, Apart, Known, [Next]_vars,
           fault' = "none"
    PROVE  Known'
<1>1. CASE UNCHANGED <<pc, work, entities, registered, linked>>
  BY <1>1 DEF Known
<1>2. \/ UNCHANGED vars
      \/ \E t \in Thread, type \in Type : RegisterHandler(t, type)
      \/ \E n \in Notification : Read(n)
      \/ OpenFails \/ StartFails \/ Initialize \/ ListenerStart \/ Dispatch
      \/ DispatchToNobody \/ Dispatched \/ CallbackCalls \/ PollFails
      \/ ListenerEnd
      => UNCHANGED <<pc, work, entities, registered, linked>>
  BY DEF vars, manager, threads, loop, driver, OpenFails, StartFails,
         Initialize, RegisterHandler, ListenerStart, Read, Dispatch,
         DispatchToNobody, Dispatched, CallbackCalls, PollFails, ListenerEnd
<1>3. CASE BeginShutdown
  BY <1>3 DEF BeginShutdown, At, Goto, MustJoin, loop, driver, TypeOK,
         WorkHasId, Mutex, Apart, Known, Busy, Kind, Work, Nobody,
         ManagerAssumption
<1>4. CASE Join
  BY <1>4 DEF Join, At, Goto, loop, driver, TypeOK, WorkHasId, Mutex, Apart,
         Known, Busy, Kind, Work, Nobody, ManagerAssumption
<1>5. CASE NothingToClear
  BY <1>5 DEF NothingToClear, At, Goto, manager, loop, driver, TypeOK,
         WorkHasId, Mutex, Apart, Known, Busy, Kind, Work, Nobody,
         ManagerAssumption
<1>6. CASE Clear
  BY <1>6 DEF Clear, Known, Kind
<1>7. ASSUME NEW t \in Thread, AskContext(t)
      PROVE  Known'
  BY <1>7 DEF AskContext, At, Goto, manager, loop, driver, TypeOK, WorkHasId,
         Mutex, Apart, Known, Busy, Kind, Work, Nobody, ManagerAssumption
<1>8. ASSUME NEW t \in Thread, Register(t)
      PROVE  Known'
  <2>1. /\ pc[t] = "register" /\ UNCHANGED <<entities, registered, linked>>
        /\ \A u \in Thread \ {t} : pc'[u] = pc[u] /\ work'[u] = work[u]
    BY <1>8 DEF At, Register, Goto, Return, NoWork, driver, TypeOK
  <2>2. QED
    BY <2>1 DEF Known
<1>9. ASSUME NEW t \in Thread, RegisterShut(t)
      PROVE  Known'
  <2>1. /\ pc[t] = "register" /\ UNCHANGED <<entities, registered, linked>>
        /\ \A u \in Thread \ {t} : pc'[u] = pc[u] /\ work'[u] = work[u]
    BY <1>9 DEF At, RegisterShut, Goto, Return, NoWork, driver, TypeOK
  <2>2. QED
    BY <2>1 DEF Known
<1>10. ASSUME NEW t \in Thread, Allocate(t)
      PROVE  Known'
  <2>1. /\ pc[t] = "create" /\ UNCHANGED <<entities, registered, linked>>
        /\ \A u \in Thread \ {t} : pc'[u] = pc[u] /\ work'[u] = work[u]
    BY <1>10 DEF At, Allocate, Goto, Return, NoWork, TypeOK
  <2>2. QED
    BY <2>1 DEF Known
<1>11. ASSUME NEW t \in Thread, Add(t)
      PROVE  Known'
  BY <1>11 DEF Add, At, Goto, manager, loop, TypeOK, WorkHasId, Mutex, Apart,
         Known, Busy, Kind, Work, Nobody, ManagerAssumption
<1>12. ASSUME NEW t \in Thread, Insert(t)
      PROVE  Known'
  BY <1>12 DEF Insert, At, Return, Goto, NoWork, NoId, manager, loop, driver,
         TypeOK, WorkHasId, Mutex, Apart, Known, Busy, Kind, Work, Nobody,
         ManagerAssumption
<1>13. ASSUME NEW t \in Thread, Destroy(t)
      PROVE  Known'
  BY <1>13 DEF Destroy, At, Return, Unregistered, Goto, NoWork, NoId, manager,
         loop, TypeOK, WorkHasId, Mutex, Apart, Known, Busy, Kind, Work,
         Nobody, ManagerAssumption
<1>14. ASSUME NEW t \in Thread, NEW kind \in Kind, BeginCreate(t, kind)
      PROVE  Known'
  BY <1>14 DEF BeginCreate, At, Goto, NoId, manager, loop, driver, TypeOK,
         WorkHasId, Mutex, Apart, Known, Busy, Kind, Work, Nobody,
         ManagerAssumption
<1>15. ASSUME NEW t \in Thread, NEW kind \in Kind, NEW i \in Id, Erase(t, kind, i)
      PROVE  Known'
  BY <1>15 DEF Erase, At, Goto, MayErase, manager, loop, driver, TypeOK,
         WorkHasId, Mutex, Apart, Known, Busy, Kind, Work, Nobody,
         ManagerAssumption
<1>16. ASSUME NEW i \in Id, Link(i)
      PROVE  Known'
  BY <1>16 DEF Link, manager, threads, loop, TypeOK, WorkHasId, Mutex, Apart,
         Known, Busy, Kind, Work, Nobody, ManagerAssumption
<1>17. ASSUME NEW i \in Id, Unlink(i)
      PROVE  Known'
  BY <1>17 DEF Unlink, manager, threads, loop, TypeOK, WorkHasId, Mutex,
         Apart, Known, Busy, Kind, Work, Nobody, ManagerAssumption
<1>18. QED
  BY <1>1, <1>2, <1>3, <1>4, <1>5, <1>6, <1>7, <1>8, <1>9, <1>10, <1>11,
     <1>12, <1>13, <1>14, <1>15, <1>16, <1>17
  DEF Next, KeeperStep, CallStep, ListenerStep

(* The maps and the handlers stay while the mutex is the listener's.       *)
LEMMA HandlerStep ==
    ASSUME ManagerAssumption, TypeOK, Mutex, HandlerAlive, [Next]_vars
    PROVE  HandlerAlive'
<1>1. CASE UNCHANGED <<entities, handlers, lpc, ntf, fault>>
  BY <1>1 DEF HandlerAlive, Loop, Handled
<1>2. \/ UNCHANGED vars
      \/ \E t \in Thread : Register(t)
      \/ \E t \in Thread : RegisterShut(t)
      \/ \E t \in Thread : Allocate(t)
      \/ \E t \in Thread : Add(t)
      \/ \E t \in Thread : Destroy(t)
      \/ \E t \in Thread, kind \in Kind : BeginCreate(t, kind)
      \/ \E i \in Id : Link(i)
      \/ \E i \in Id : Unlink(i)
      \/ OpenFails \/ StartFails \/ BeginShutdown \/ Join \/ NothingToClear
      => UNCHANGED <<entities, handlers, lpc, ntf, fault>>
  BY DEF vars, manager, threads, loop, driver, OpenFails, StartFails,
         BeginShutdown, Join, NothingToClear, Register, RegisterShut,
         Allocate, Add, Destroy, BeginCreate, Link, Unlink
<1>3. CASE Initialize
  BY <1>3 DEF Initialize, At, threads, driver, TypeOK, Mutex, HandlerAlive,
         Nobody, Listener, ManagerAssumption, Loop, Handled, Kind,
         Notification
<1>4. CASE Clear
  BY <1>4 DEF Clear, At, Goto, Cleared, loop, TypeOK, Mutex, HandlerAlive,
         Nobody, Listener, ManagerAssumption, Loop, Handled, Kind,
         Notification
<1>5. ASSUME NEW t \in Thread, AskContext(t)
      PROVE  HandlerAlive'
  BY <1>5 DEF AskContext, At, Goto, manager, loop, driver, TypeOK, Mutex,
         HandlerAlive, Nobody, Listener, ManagerAssumption, Loop, Handled,
         Kind, Notification
<1>6. ASSUME NEW t \in Thread, Insert(t)
      PROVE  HandlerAlive'
  BY <1>6 DEF Insert, At, Return, Goto, NoWork, NoId, manager, loop, driver,
         TypeOK, Mutex, HandlerAlive, Nobody, Listener, ManagerAssumption,
         Loop, Handled, Kind, Notification
<1>7. ASSUME NEW t \in Thread, NEW kind \in Kind, NEW i \in Id, Erase(t, kind, i)
      PROVE  HandlerAlive'
  BY <1>7 DEF Erase, At, Goto, MayErase, manager, loop, driver, TypeOK, Mutex,
         HandlerAlive, Nobody, Listener, ManagerAssumption, Loop, Handled,
         Kind, Notification
<1>8. ASSUME NEW t \in Thread, NEW type \in Type, RegisterHandler(t, type)
      PROVE  HandlerAlive'
  BY <1>8 DEF RegisterHandler, At, manager, threads, loop, driver, TypeOK,
         Mutex, HandlerAlive, Nobody, Listener, ManagerAssumption, Loop,
         Handled, Kind, Notification
<1>9. CASE ListenerStart
  BY <1>9 DEF ListenerStart, Loop, manager, threads, driver, TypeOK, Mutex,
         HandlerAlive, Nobody, Listener, ManagerAssumption, Loop, Handled,
         Kind, Notification
<1>10. ASSUME NEW n \in Notification, Read(n)
      PROVE  HandlerAlive'
  BY <1>10 DEF Read, Loop, MayRead, manager, threads, driver, TypeOK, Mutex,
         HandlerAlive, Nobody, Listener, ManagerAssumption, Loop, Handled,
         Kind, Notification
<1>11. CASE Dispatch
  BY <1>11 DEF Dispatch, Loop, Handled, manager, threads, driver, TypeOK,
         Mutex, HandlerAlive, Nobody, Listener, ManagerAssumption, Loop,
         Handled, Kind, Notification
<1>12. CASE DispatchToNobody
  BY <1>12 DEF DispatchToNobody, Loop, Handled, NoNotification, NoId, manager,
         threads, driver, TypeOK, Mutex, HandlerAlive, Nobody, Listener,
         ManagerAssumption, Loop, Handled, Kind, Notification
<1>13. CASE Dispatched
  BY <1>13 DEF Dispatched, Loop, NoNotification, NoId, manager, threads,
         driver, TypeOK, Mutex, HandlerAlive, Nobody, Listener,
         ManagerAssumption, Loop, Handled, Kind, Notification
<1>14. CASE CallbackCalls
  BY <1>14 DEF CallbackCalls, Loop, manager, threads, driver, TypeOK, Mutex,
         HandlerAlive, Nobody, Listener, ManagerAssumption, Loop, Handled,
         Kind, Notification
<1>15. CASE PollFails
  BY <1>15 DEF PollFails, Loop, threads, driver, TypeOK, Mutex, HandlerAlive,
         Nobody, Listener, ManagerAssumption, Loop, Handled, Kind,
         Notification
<1>16. CASE ListenerEnd
  BY <1>16 DEF ListenerEnd, Loop, threads, driver, TypeOK, Mutex,
         HandlerAlive, Nobody, Listener, ManagerAssumption, Loop, Handled,
         Kind, Notification
<1>17. QED
  BY <1>1, <1>2, <1>3, <1>4, <1>5, <1>6, <1>7, <1>8, <1>9, <1>10, <1>11,
     <1>12, <1>13, <1>14, <1>15, <1>16
  DEF Next, KeeperStep, CallStep, ListenerStep

-----------------------------------------------------------------------------
(* The parts together: a fault ends the program, so that the invariant of  *)
(* the ids need not survive it.                                            *)
LEMMA IInvStep == ASSUME ManagerAssumption, IInv, [Next]_vars PROVE IInv'
<1>1. TypeOK' /\ WorkHasId' /\ Mutex' /\ Keeping'
  BY TypeStep, WorkStep, MutexStep, KeepingStep DEF IInv
<1>2. ASSUME fault' = "none" PROVE Apart' /\ Known' /\ HandlerAlive'
  <2>1. fault = "none"
    <3>1. CASE UNCHANGED vars
      BY <3>1, <1>2 DEF vars
    <3>2. CASE Next
      BY <3>2 DEF Next, KeeperStep, CallStep, ListenerStep, At, Loop, OpenFails,
         StartFails, Initialize, BeginShutdown, Join, NothingToClear, Clear,
         AskContext, Register, RegisterShut, Allocate, Add, Insert, Destroy,
         BeginCreate, Erase, RegisterHandler, ListenerStart, Read, Dispatch,
         DispatchToNobody, Dispatched, CallbackCalls, PollFails, ListenerEnd,
         Link, Unlink
    <3>3. QED
      BY <3>1, <3>2
  <2>2. Apart /\ Known /\ HandlerAlive
    BY <2>1 DEF IInv, Sound
  <2>3. QED
    BY <1>2, <2>2, ApartStep, KnownStep, HandlerStep DEF IInv
<1>3. QED
  BY <1>1, <1>2 DEF IInv, Sound

(* The invariant holds for any threads, ids, limits and initializations.   *)
THEOREM ManagerInvariant == Spec => []IInv
<1>1. Init => IInv
  BY ManagerAssumption, InitIInv
<1>2. IInv /\ [Next]_vars => IInv'
  BY ManagerAssumption, IInvStep
<1>3. QED
  BY <1>1, <1>2, PTL DEF Spec

(* Every variable of the manager keeps its type; every id in a map is one  *)
(* the driver gave out.                                                    *)
THEOREM TypeCorrect == Spec => []TypeOK
<1>1. IInv => TypeOK
  BY DEF IInv
<1>2. QED
  BY <1>1, ManagerInvariant, PTL

(* The maps hold nothing the driver has forgotten, and between calls every *)
(* registered server and every connected client is in its map.             *)
THEOREM MapsFollowDriver == Spec => []MapsAgree
<1>1. IInv => MapsAgree
  BY DEF IInv, Sound, Apart, Known, MapsAgree, Kind, TypeOK
<1>2. QED
  BY <1>1, ManagerInvariant, PTL

(* An id is never in the map already when its entity is added, so that the *)
(* test createServer makes for it outside the mutex does not matter.       *)
THEOREM NeverCollides == Spec => []NoCollision
<1>1. IInv => NoCollision
  BY DEF IInv, Sound, Apart, NoCollision, At
<1>2. QED
  BY <1>1, ManagerInvariant, PTL

(* What handles a notification is in its map until it has done so.         *)
THEOREM HandlersLive == Spec => []HandlerAlive
<1>1. IInv => HandlerAlive
  BY DEF IInv, Sound, HandlerAlive, Loop
<1>2. QED
  BY <1>1, ManagerInvariant, PTL

(* The listener never polls or reads a closed descriptor.                  *)
THEOREM ListenerHasDevice == Spec => []DeviceHeld
<1>1. IInv => DeviceHeld
  BY DEF IInv, Keeping, DeviceHeld
<1>2. QED
  BY <1>1, ManagerInvariant, PTL

-----------------------------------------------------------------------------
(* Threads that have passed the driver's last test and are not counted.    *)
Adders(k) == {t \in Thread : pc[t] = "add" /\ work[t].kind = k}

Room(k) ==
    /\ IsFiniteSet(registered[k])
    /\ Cardinality(registered[k]) + Cardinality(Adders(k))
           < LimitOf(k) + Cardinality(Thread)

(* What is given back, or not taken, leaves room.                          *)
LEMMA RoomStays ==
    ASSUME IsFiniteSet(Thread), ManagerAssumption, NEW k \in Kind, Room(k),
           registered'[k] \subseteq registered[k], Adders(k)' \subseteq Adders(k)
    PROVE  Room(k)'
<1>1. IsFiniteSet(Adders(k)) /\ IsFiniteSet(registered[k])
  BY FS_Subset DEF Adders, Room
<1>2. /\ IsFiniteSet(registered'[k])
      /\ Cardinality(registered'[k]) <= Cardinality(registered[k])
      /\ Cardinality(Adders(k)') <= Cardinality(Adders(k))
      /\ IsFiniteSet(Adders(k)')
  BY <1>1, FS_Subset
<1>3. /\ Cardinality(registered'[k]) \in Nat /\ Cardinality(registered[k]) \in Nat
      /\ Cardinality(Adders(k)') \in Nat /\ Cardinality(Adders(k)) \in Nat
      /\ Cardinality(Thread) \in Nat /\ LimitOf(k) \in Nat
  BY <1>1, <1>2, FS_CardinalityType DEF LimitOf, ManagerAssumption
<1>4. Cardinality(registered'[k]) + Cardinality(Adders(k)')
          < LimitOf(k) + Cardinality(Thread)
  BY <1>2, <1>3 DEF Room
<1>5. QED
  BY <1>2, <1>4 DEF Room, LimitOf

(* No thread comes closer to being counted, unless it allocates or adds.  *)
LEMMA RoomOtherwise ==
    ASSUME TypeOK, [Next]_vars, NEW k \in Kind,
           \A t \in Thread : work[t].kind = k => ~Allocate(t) /\ ~Add(t)
    PROVE  registered'[k] \subseteq registered[k] /\ Adders(k)' \subseteq Adders(k)
<1>1. CASE UNCHANGED <<pc, work, registered>>
  BY <1>1 DEF Adders
<1>2. \/ UNCHANGED vars
      \/ \E t \in Thread, type \in Type : RegisterHandler(t, type)
      \/ \E n \in Notification : Read(n)
      \/ OpenFails \/ StartFails \/ Initialize \/ ListenerStart \/ Dispatch
      \/ DispatchToNobody \/ Dispatched \/ CallbackCalls \/ PollFails
      \/ \E i \in Id : Link(i)
      \/ \E i \in Id : Unlink(i)
      \/ ListenerEnd
      => UNCHANGED <<pc, work, registered>>
  BY DEF vars, manager, threads, loop, driver, OpenFails, StartFails,
         Initialize, RegisterHandler, ListenerStart, Read, Dispatch,
         DispatchToNobody, Dispatched, CallbackCalls, PollFails, ListenerEnd,
         Link, Unlink
<1>3. CASE BeginShutdown
  BY <1>3 DEF BeginShutdown, At, Goto, MustJoin, loop, driver, Adders, TypeOK,
         Kind, Work
<1>4. CASE Join
  BY <1>4 DEF Join, At, Goto, loop, driver, Adders, TypeOK, Kind, Work
<1>5. CASE NothingToClear
  BY <1>5 DEF NothingToClear, At, Goto, manager, loop, driver, Adders, TypeOK,
         Kind, Work
<1>6. CASE Clear
  BY <1>6 DEF Clear, At, Goto, Cleared, loop, Adders, TypeOK, Kind, Work
<1>7. ASSUME NEW t \in Thread, AskContext(t)
      PROVE  registered'[k] \subseteq registered[k] /\ Adders(k)' \subseteq Adders(k)
  BY <1>7 DEF AskContext, At, Goto, manager, loop, driver, Adders, TypeOK,
         Kind, Work
<1>8. ASSUME NEW t \in Thread, Register(t)
      PROVE  registered'[k] \subseteq registered[k] /\ Adders(k)' \subseteq Adders(k)
  BY <1>8 DEF Register, At, Goto, Return, MayRegister, NoWork, NoId, manager,
         loop, driver, Adders, TypeOK, Kind, Work
<1>9. ASSUME NEW t \in Thread, RegisterShut(t)
      PROVE  registered'[k] \subseteq registered[k] /\ Adders(k)' \subseteq Adders(k)
  BY <1>9 DEF RegisterShut, At, Return, Goto, NoWork, NoId, manager, loop,
         driver, Adders, TypeOK, Kind, Work
<1>10. ASSUME NEW t \in Thread, Allocate(t)
      PROVE  registered'[k] \subseteq registered[k] /\ Adders(k)' \subseteq Adders(k)
  BY <1>10 DEF Allocate, At, Goto, Return, MayRegister, FreeIds, TakenIds,
         NoWork, NoId, manager, loop, Adders, TypeOK, Kind, Work
<1>11. ASSUME NEW t \in Thread, Add(t)
      PROVE  registered'[k] \subseteq registered[k] /\ Adders(k)' \subseteq Adders(k)
  BY <1>11 DEF Add, At, Goto, manager, loop, Adders, TypeOK, Kind, Work
<1>12. ASSUME NEW t \in Thread, Insert(t)
      PROVE  registered'[k] \subseteq registered[k] /\ Adders(k)' \subseteq Adders(k)
  BY <1>12 DEF Insert, At, Return, Goto, NoWork, NoId, manager, loop, driver,
         Adders, TypeOK, Kind, Work
<1>13. ASSUME NEW t \in Thread, Destroy(t)
      PROVE  registered'[k] \subseteq registered[k] /\ Adders(k)' \subseteq Adders(k)
  BY <1>13 DEF Destroy, At, Return, Unregistered, Goto, NoWork, NoId, manager,
         loop, Adders, TypeOK, Kind, Work
<1>14. ASSUME NEW t \in Thread, NEW kind \in Kind, BeginCreate(t, kind)
      PROVE  registered'[k] \subseteq registered[k] /\ Adders(k)' \subseteq Adders(k)
  BY <1>14 DEF BeginCreate, At, Goto, NoId, manager, loop, driver, Adders,
         TypeOK, Kind, Work
<1>15. ASSUME NEW t \in Thread, NEW kind \in Kind, NEW i \in Id, Erase(t, kind, i)
      PROVE  registered'[k] \subseteq registered[k] /\ Adders(k)' \subseteq Adders(k)
  BY <1>15 DEF Erase, At, Goto, MayErase, manager, loop, driver, Adders,
         TypeOK, Kind, Work
<1>16. QED
  BY <1>1, <1>2, <1>3, <1>4, <1>5, <1>6, <1>7, <1>8, <1>9, <1>10, <1>11,
     <1>12, <1>13, <1>14, <1>15
  DEF Next, KeeperStep, CallStep, ListenerStep

(* An allocating thread goes on only if it has seen that there is room.    *)
LEMMA RoomToAllocate ==
    ASSUME IsFiniteSet(Thread), ManagerAssumption, TypeOK, NEW k \in Kind,
           NEW t \in Thread, Allocate(t), work[t].kind = k, Room(k)
    PROVE  Room(k)'
<1>1. registered' = registered
  BY DEF Allocate
<1>2. CASE MayRegister(k)
  <2>1. IsFiniteSet(Adders(k)') /\ Cardinality(Adders(k)') <= Cardinality(Thread)
    <3>1. Adders(k)' \subseteq Thread
      BY DEF Adders
    <3>2. QED
      BY <3>1, FS_Subset
  <2>2. Cardinality(registered[k]) < LimitOf(k)
    BY <1>2 DEF MayRegister
  <2>3. /\ Cardinality(registered[k]) \in Nat /\ Cardinality(Adders(k)') \in Nat
        /\ Cardinality(Thread) \in Nat /\ LimitOf(k) \in Nat
    BY <2>1, FS_CardinalityType DEF LimitOf, ManagerAssumption, Room
  <2>4. Cardinality(registered[k]) + Cardinality(Adders(k)')
            < LimitOf(k) + Cardinality(Thread)
    BY <2>1, <2>2, <2>3
  <2>5. QED
    BY <1>1, <2>4 DEF Room, LimitOf
<1>3. CASE ~MayRegister(k)
  <2>1. Return(t)
    BY <1>3 DEF Allocate
  <2>2. Adders(k)' \subseteq Adders(k)
    BY <2>1 DEF Return, Goto, Adders, TypeOK
  <2>3. QED
    BY <1>1, <2>2, RoomStays
<1>4. QED
  BY <1>2, <1>3

(* Who is counted was among those that would be.                           *)
LEMMA RoomToAdd ==
    ASSUME IsFiniteSet(Thread), ManagerAssumption, TypeOK, NEW k \in Kind,
           NEW t \in Thread, Add(t), work[t].kind = k, Room(k)
    PROVE  Room(k)'
<1>. DEFINE R == registered[k]
            A == Adders(k)
<1>1. /\ registered'[k] = R \cup {work[t].id}
      /\ t \in A /\ Adders(k)' = A \ {t}
  BY DEF Add, At, Goto, Adders, TypeOK
<1>2. IsFiniteSet(A) /\ IsFiniteSet(R) /\ t \in A
  BY <1>1, FS_Subset DEF Adders, Room
<1>3. Cardinality(R) + Cardinality(A) < LimitOf(k) + Cardinality(Thread)
  BY DEF Room
<1>. HIDE DEF A, R
<1>4. Cardinality(A \ {t}) = Cardinality(A) - 1
  BY <1>2, FS_RemoveElement
<1>5. \A i : /\ IsFiniteSet(R \cup {i})
             /\ Cardinality(R \cup {i}) \in {Cardinality(R), Cardinality(R) + 1}
  BY <1>2, FS_AddElement
<1>6. /\ Cardinality(R) \in Nat /\ Cardinality(A) \in Nat
      /\ Cardinality(Thread) \in Nat /\ LimitOf(k) \in Nat
  BY <1>2, FS_CardinalityType DEF LimitOf, ManagerAssumption
<1>7. PICK i : registered'[k] = R \cup {i}
  BY <1>1
<1>8. /\ IsFiniteSet(registered'[k])
      /\ Cardinality(registered'[k]) \in {Cardinality(R), Cardinality(R) + 1}
  BY <1>5, <1>7
<1>9. Cardinality(Adders(k)') = Cardinality(A) - 1
  BY <1>1, <1>4
<1>10. Cardinality(registered'[k]) + Cardinality(Adders(k)')
           < LimitOf(k) + Cardinality(Thread)
  BY <1>3, <1>6, <1>8, <1>9
<1>11. QED
  BY <1>8, <1>10 DEF Room, LimitOf

(* Threads that create at once pass a limit by fewer than there are of     *)
(* them, although the limit is tested three times and never together with  *)
(* the count (createServer, createClient, reg_task_add_server).            *)
THEOREM LimitsNearlyHeld ==
    ASSUME IsFiniteSet(Thread) PROVE Spec => []LimitsHeld
<1>. DEFINE Rooms == \A k \in Kind : Room(k)
<1>1. Init => Rooms
  <2>1. ASSUME Init, NEW k \in Kind PROVE Room(k)
    <3>1. registered[k] = {} /\ Adders(k) = {}
      BY <2>1 DEF Init, Adders
    <3>2. Cardinality(Thread) \in Nat /\ Cardinality(Thread) # 0 /\ LimitOf(k) \in Nat
      BY FS_CardinalityType, FS_EmptySet, ManagerAssumption DEF LimitOf, ManagerAssumption
    <3>3. QED
      BY <3>1, <3>2, FS_EmptySet DEF Room
  <2>2. QED
    BY <2>1
<1>2. TypeOK /\ Rooms /\ [Next]_vars => Rooms'
  <2>1. ASSUME TypeOK, Rooms, [Next]_vars, NEW k \in Kind PROVE Room(k)'
    <3>1. CASE \E t \in Thread : work[t].kind = k /\ Allocate(t)
      BY <2>1, <3>1, RoomToAllocate, ManagerAssumption
    <3>2. CASE \E t \in Thread : work[t].kind = k /\ Add(t)
      BY <2>1, <3>2, RoomToAdd, ManagerAssumption
    <3>3. CASE \A t \in Thread : work[t].kind = k => ~Allocate(t) /\ ~Add(t)
      BY <2>1, <3>3, RoomOtherwise, RoomStays, ManagerAssumption
    <3>4. QED
      BY <3>1, <3>2, <3>3
  <2>2. QED
    BY <2>1
<1>3. Rooms => LimitsHeld
  <2>1. ASSUME NEW k \in Kind, Room(k)
        PROVE  Cardinality(registered[k]) < LimitOf(k) + Cardinality(Thread)
    <3>1. IsFiniteSet(Adders(k))
      BY FS_Subset DEF Adders
    <3>2. /\ Cardinality(registered[k]) \in Nat /\ Cardinality(Adders(k)) \in Nat
          /\ Cardinality(Thread) \in Nat /\ LimitOf(k) \in Nat
      BY <2>1, <3>1, FS_CardinalityType, ManagerAssumption
      DEF LimitOf, ManagerAssumption, Room
    <3>3. QED
      BY <2>1, <3>2 DEF Room
  <2>2. QED
    BY <2>1 DEF LimitsHeld
<1>4. QED
  BY <1>1, <1>2, <1>3, TypeCorrect, PTL DEF Spec

===============================================================================
