------------------------------ MODULE ServerProof --------------------------
(***************************************************************************)
(* Theorems about Server, for every set of clients, every size of a batch  *)
(* of events, and kernel calls that fail or do not.                        *)
(***************************************************************************)
EXTENDS Server, TLAPS

\* The connection that the acceptor has made and not yet pushed.
Pushing == IF accPc \in {"push", "pushing"} THEN {accConn} ELSE {}

\* Who is inside the vector is told by where the threads are, one at a time.
Deleting == {s \in Stoppers : stopPc[s] = "deleting"}

InsideInv ==
  /\ inside = (IF accPc = "pushing" THEN {"acceptor"} ELSE {})
                \cup (IF workPc = "erasing" THEN {"worker"} ELSE {}) \cup Deleting
  /\ \A t, u \in inside : t = u

\* The acceptor's client is its own until it is pushed.
AcceptorInv ==
  /\ accPc \in {"connect", "push", "pushing"} => accConn \in Clients
  /\ accPc = "connect" => heap[accConn] = "none" /\ accConn \notin backlog
  /\ accPc \in {"push", "pushing"} => heap[accConn] = "live"
  /\ \A c \in backlog : heap[c] = "none"

\* Between operations the vector is what lives; while everything is deleted, what
\* is still to go is what lives.
VectorInv ==
  /\ Deleting = {} => connections = Live \ Pushing
  /\ Deleting # {} => victims = Live \ Pushing
  /\ workPc = "erasing" => workConn \in connections

\* Where the main thread is before it has started each of the others.
BeforeWorkers  == {"begin", "socket", "workers"}
BeforeWorker   == BeforeWorkers \cup {"start_workers"}
BeforeAcceptor == BeforeWorker \cup {"start_acceptor"}
BeforeChat     == BeforeAcceptor \cup {"start_chat"}

\* The threads are started once, and the flag falls before anything is deleted.
StopInv ==
  /\ \A s \in Stoppers : stopPc[s] \notin {"off", "idle"} => ~ running
  /\ mainPc \in BeforeWorker => workPc = "off"
  /\ mainPc \in BeforeAcceptor => accPc = "off"
  /\ mainPc \in BeforeChat => stopPc["chat"] = "off"
  /\ workPc = "off" => batch = {}
  /\ mainPc \notin BeforeWorker \cup {"returned"} => workPc # "off"
  /\ stopPc["chat"] # "off" => workPc # "off"
  /\ workers = "freed" =>
       workPc = "done" \/ (workPc = "off" /\ stopPc["signal"] \notin {"off", "idle"})
  /\ workers = "no_epoll" => KernelMayFail

\* While the server runs, what the worker still has to do with is alive.
WorkerInv ==
  /\ interest \subseteq Live
  /\ workPc \in {"process", "handle", "disconnect", "erasing"} => workConn \notin batch
  /\ running => /\ batch \ {NoConn} \subseteq Live
                /\ workPc \in {"process", "handle", "disconnect"} => workConn \in Live

SafeInv == ServerTypeOK /\ InsideInv /\ AcceptorInv /\ VectorInv /\ StopInv /\ WorkerInv

(* What the life of the server as a whole needs on top. *)

\* A stop has begun.
Stopping == \E s \in Stoppers : stopPc[s] \notin {"off", "idle"}

\* The main thread has made what the threads use before it starts them.
StartInv ==
  /\ mainPc \notin BeforeWorkers \cup {"returned"} => workers # "none"
  /\ mainPc \notin BeforeAcceptor \cup {"returned"} => accPc # "off"
  /\ accPc # "off" => workers # "none" /\ workPc # "off"
  /\ stopPc["chat"] # "off" => accPc # "off"
  /\ mainPc \in BeforeChat \ {"begin"} /\ stopPc["signal"] = "idle" => running

\* Threads end because of a stop, the worker before its memory, both before the
\* stop; and a stop on its own does each of these things once.
DownInv ==
  /\ wakeup \/ NoConn \in batch => Stopping
  /\ running => workPc # "done" /\ accPc \notin {"done", "joined"}
  /\ \A s \in Stoppers : stopPc[s] = "join_acceptor" => workers = "freed" \/ accPc = "off"
  /\ accPc = "joined" => workers = "freed"
  /\ stopPc["signal"] = "idle" =>
       /\ workers = "freed" => stopPc["chat"] \in {"join_acceptor", "done"}
       /\ accPc = "joined" => stopPc["chat"] = "done"

\* The worker has events of clients only, and disconnects the unruly only.
ClientInv ==
  /\ batch \ {NoConn} \subseteq Live \cup Freed
  /\ workPc \in {"process", "handle", "disconnect", "erasing"} => workConn \in Live \cup Freed
  /\ \A c \in Clients : input[c] = "eof" => c \in unruly
  /\ \A c \in batch \ {NoConn} : input[c] # "none"
  /\ workPc = "process" => input[workConn] # "none"
  /\ workPc \in {"disconnect", "erasing"} => unruly # {}

LifeInv == StartInv /\ DownInv /\ ClientInv
------------------------------------------------------------------------------

\* The destructor of the worker array moves only the thread that runs it.
LEMMA DeleteWorkersMoves ==
  ASSUME ServerTypeOK, NEW s \in Stoppers, DeleteWorkers(s)
  PROVE  /\ stopPc[s] = "delete"
         /\ \/ stopPc' = stopPc
            \/ \E to \in {"join_worker", "join_acceptor"} : stopPc' = [stopPc EXCEPT ![s] = to]
         /\ wakeup' \in BOOLEAN
         /\ \/ workers' = workers
            \/ /\ workers = "no_epoll" /\ workPc = "off" /\ workers' = "freed"
               /\ stopPc' = [stopPc EXCEPT ![s] = "join_acceptor"]
         /\ fault' \in {fault, "bad_join", "double_free", "terminate"}
         /\ UNCHANGED <<running, listening, clientVars, connVars, mainPc, accVars,
                         workVars, victims>>
<1>1. (IF KernelMayFail THEN BOOLEAN ELSE {TRUE}) \subseteq BOOLEAN
  OBVIOUS
<1> DEFINE W == IF KernelMayFail THEN BOOLEAN ELSE {TRUE}
<1>2. wakeup' \in W \/ wakeup' = wakeup
  BY DEF DeleteWorkers, At
<1>3. wakeup' \in BOOLEAN
  BY <1>1, <1>2 DEF ServerTypeOK
<1>4. QED
  BY <1>3 DEF DeleteWorkers, At

\* Every variable keeps its type.
LEMMA TypeStep ==
  ASSUME SafeInv, Next
  PROVE  ServerTypeOK'
<1> USE ServerAssumption
    DEF ServerAssumption, SafeInv, ServerTypeOK, InsideInv, AcceptorInv, VectorInv, StopInv,
        WorkerInv, Pushing, Deleting, BeforeWorkers, BeforeWorker, BeforeAcceptor, BeforeChat, Live,
        Stoppers, NoConn, clientVars, accVars, workVars, stopVars, sockVars, connVars
<1>1. ASSUME NEW c \in Clients, ClientConnects(c) PROVE ServerTypeOK'
  BY <1>1 DEF ClientConnects
<1>2. ASSUME NEW c \in Clients, ClientSends(c) PROVE ServerTypeOK'
  BY <1>2 DEF ClientSends
<1>3. ASSUME NEW c \in Clients, ClientCloses(c) PROVE ServerTypeOK'
  BY <1>3 DEF ClientCloses
<1>4. CASE AccLoop
  BY <1>4 DEF AccLoop
<1>5. CASE Accept
  BY <1>5 DEF Accept
<1>6. CASE Connect
  BY <1>6 DEF Connect
<1>7. CASE ConnectFails
  BY <1>7 DEF ConnectFails
<1>8. CASE PushBegin
  BY <1>8 DEF PushBegin, BeginOp
<1>9. CASE PushEnd
  BY <1>9 DEF PushEnd
<1>10. CASE WorkLoop
  BY <1>10 DEF WorkLoop
<1>11. CASE EpollWait
  BY <1>11 DEF EpollWait, Readable
<1>12. CASE NextEvent
  BY <1>12 DEF NextEvent
<1>13. CASE Process
  BY <1>13 DEF Process, Freed
<1>14. CASE Handle
  BY <1>14 DEF Handle, Freed
<1>15. CASE ReplyAfterReset
  BY <1>15 DEF ReplyAfterReset, Freed
<1>16. CASE UseAfterFree
  BY <1>16 DEF UseAfterFree, Freed
<1>17. CASE DisconnectBegin
  BY <1>17 DEF DisconnectBegin, BeginOp
<1>18. CASE DisconnectMissing
  BY <1>18 DEF DisconnectMissing
<1>19. CASE DisconnectEnd
  BY <1>19 DEF DisconnectEnd, InterestWithout
<1>20. CASE SetRunning
  BY <1>20 DEF SetRunning, MainAt
<1>21. CASE InitSocket
  BY <1>21 DEF InitSocket, MainAt
<1>22. CASE InitWorkers
  BY <1>22 DEF InitWorkers, MainAt
<1>23. CASE StartWorkers
  BY <1>23 DEF StartWorkers, MainAt
<1>24. CASE StartAcceptor
  BY <1>24 DEF StartAcceptor, MainAt
<1>25. CASE StartChat
  BY <1>25 DEF StartChat, MainAt
<1>26. CASE LoopEnds
  BY <1>26 DEF LoopEnds, MainAt
<1>27. CASE JoinChat
  BY <1>27 DEF JoinChat, MainAt
<1>28. CASE ChatQuits
  BY <1>28 DEF ChatQuits, At
<1>29. CASE Race
  BY <1>29 DEF Race
<1>30. ASSUME NEW s \in Stoppers, StopBegins(s) PROVE ServerTypeOK'
  <2>1. running' = FALSE /\ UNCHANGED <<listening, clientVars, connVars, wakeup, workers, mainPc,
                                        accVars, workVars, victims, fault>>
    BY <1>30 DEF StopBegins
  <2>2. stopPc' = [stopPc EXCEPT ![s] = "shutdown"]
    BY <1>30 DEF StopBegins, At
  <2>3. running' \in BOOLEAN
    BY <2>1, Zenon
  <2>4. stopPc' \in [Stoppers -> {"off", "idle", "shutdown", "disconnect", "deleting", "close",
                                 "delete", "join_worker", "join_acceptor", "exit", "done"}]
    BY <2>2
  <2>5. QED
    BY <2>1, <2>3, <2>4
<1>31. ASSUME NEW s \in Stoppers, StopListening(s) PROVE ServerTypeOK'
  BY <1>31 DEF StopListening, At
<1>32. ASSUME NEW s \in Stoppers, DisconnectAllBegin(s) PROVE ServerTypeOK'
  BY <1>32 DEF DisconnectAllBegin, At, BeginOp
<1>33. ASSUME NEW s \in Stoppers, DeleteOne(s) PROVE ServerTypeOK'
  BY <1>33 DEF DeleteOne, InterestWithout
<1>34. ASSUME NEW s \in Stoppers, DisconnectAllEnd(s) PROVE ServerTypeOK'
  BY <1>34 DEF DisconnectAllEnd, At
<1>35. ASSUME NEW s \in Stoppers, StopClose(s) PROVE ServerTypeOK'
  BY <1>35 DEF StopClose, At
<1>36. ASSUME NEW s \in Stoppers, DeleteWorkers(s) PROVE ServerTypeOK'
  BY <1>36, DeleteWorkersMoves
<1>37. ASSUME NEW s \in Stoppers, JoinWorker(s) PROVE ServerTypeOK'
  BY <1>37 DEF JoinWorker, At, WorkerJoined
<1>38. ASSUME NEW s \in Stoppers, JoinAcceptor(s) PROVE ServerTypeOK'
  BY <1>38 DEF JoinAcceptor, At
<1>39. CASE EpollFails
  BY <1>39 DEF EpollFails
<1> HIDE DEF ServerAssumption, SafeInv, ServerTypeOK, InsideInv, AcceptorInv, VectorInv, StopInv,
             WorkerInv, Pushing, Deleting, BeforeWorkers, BeforeWorker, BeforeAcceptor, BeforeChat,
             Live, Stoppers, NoConn, clientVars, accVars, workVars, stopVars, sockVars, connVars
<1>40. QED
  BY <1>1, <1>2, <1>3, <1>4, <1>5, <1>6, <1>7, <1>8, <1>9, <1>10, <1>11, <1>12, <1>13, <1>14,
     <1>15, <1>16, <1>17, <1>18, <1>19, <1>20, <1>21, <1>22, <1>23, <1>24, <1>25, <1>26,
     <1>27, <1>28, <1>29, <1>30, <1>31, <1>32, <1>33, <1>34, <1>35, <1>36, <1>37, <1>38, <1>39
     DEF Next, Client, Acceptor, Worker, Main, Stop

\* At most one thread is inside the vector: a second one would be the race.
LEMMA InsideStep ==
  ASSUME SafeInv, Next
  PROVE  InsideInv'
<1> USE ServerAssumption
    DEF ServerAssumption, SafeInv, ServerTypeOK, InsideInv, AcceptorInv, VectorInv, StopInv,
        WorkerInv, Pushing, Deleting, BeforeWorkers, BeforeWorker, BeforeAcceptor, BeforeChat, Live,
        Stoppers, NoConn, clientVars, accVars, workVars, stopVars, sockVars, connVars
<1>1. ASSUME NEW c \in Clients, ClientConnects(c) PROVE InsideInv'
  BY <1>1 DEF ClientConnects
<1>2. ASSUME NEW c \in Clients, ClientSends(c) PROVE InsideInv'
  BY <1>2 DEF ClientSends
<1>3. ASSUME NEW c \in Clients, ClientCloses(c) PROVE InsideInv'
  BY <1>3 DEF ClientCloses
<1>4. CASE AccLoop
  BY <1>4 DEF AccLoop
<1>5. CASE Accept
  BY <1>5 DEF Accept
<1>6. CASE Connect
  BY <1>6 DEF Connect
<1>7. CASE ConnectFails
  BY <1>7 DEF ConnectFails
<1>8. CASE PushBegin
  BY <1>8 DEF PushBegin, BeginOp
<1>9. CASE PushEnd
  BY <1>9 DEF PushEnd
<1>10. CASE WorkLoop
  BY <1>10 DEF WorkLoop
<1>11. CASE EpollWait
  BY <1>11 DEF EpollWait, Readable
<1>12. CASE NextEvent
  BY <1>12 DEF NextEvent
<1>13. CASE Process
  BY <1>13 DEF Process, Freed
<1>14. CASE Handle
  BY <1>14 DEF Handle, Freed
<1>15. CASE ReplyAfterReset
  BY <1>15 DEF ReplyAfterReset, Freed
<1>16. CASE UseAfterFree
  BY <1>16 DEF UseAfterFree, Freed
<1>17. CASE DisconnectBegin
  BY <1>17 DEF DisconnectBegin, BeginOp
<1>18. CASE DisconnectMissing
  BY <1>18 DEF DisconnectMissing
<1>19. CASE DisconnectEnd
  BY <1>19 DEF DisconnectEnd, InterestWithout
<1>20. CASE SetRunning
  BY <1>20 DEF SetRunning, MainAt
<1>21. CASE InitSocket
  BY <1>21 DEF InitSocket, MainAt
<1>22. CASE InitWorkers
  BY <1>22 DEF InitWorkers, MainAt
<1>23. CASE StartWorkers
  BY <1>23 DEF StartWorkers, MainAt
<1>24. CASE StartAcceptor
  BY <1>24 DEF StartAcceptor, MainAt
<1>25. CASE StartChat
  BY <1>25 DEF StartChat, MainAt
<1>26. CASE LoopEnds
  BY <1>26 DEF LoopEnds, MainAt
<1>27. CASE JoinChat
  BY <1>27 DEF JoinChat, MainAt
<1>28. CASE ChatQuits
  BY <1>28 DEF ChatQuits, At
<1>29. CASE Race
  BY <1>29 DEF Race
<1>30. ASSUME NEW s \in Stoppers, StopBegins(s) PROVE InsideInv'
  BY <1>30 DEF StopBegins, At
<1>31. ASSUME NEW s \in Stoppers, StopListening(s) PROVE InsideInv'
  BY <1>31 DEF StopListening, At
<1>32. ASSUME NEW s \in Stoppers, DisconnectAllBegin(s) PROVE InsideInv'
  BY <1>32 DEF DisconnectAllBegin, At, BeginOp
<1>33. ASSUME NEW s \in Stoppers, DeleteOne(s) PROVE InsideInv'
  BY <1>33 DEF DeleteOne, InterestWithout
<1>34. ASSUME NEW s \in Stoppers, DisconnectAllEnd(s) PROVE InsideInv'
  BY <1>34 DEF DisconnectAllEnd, At
<1>35. ASSUME NEW s \in Stoppers, StopClose(s) PROVE InsideInv'
  BY <1>35 DEF StopClose, At
<1>36. ASSUME NEW s \in Stoppers, DeleteWorkers(s) PROVE InsideInv'
  BY <1>36, DeleteWorkersMoves
<1>37. ASSUME NEW s \in Stoppers, JoinWorker(s) PROVE InsideInv'
  BY <1>37 DEF JoinWorker, At, WorkerJoined
<1>38. ASSUME NEW s \in Stoppers, JoinAcceptor(s) PROVE InsideInv'
  BY <1>38 DEF JoinAcceptor, At
<1>39. CASE EpollFails
  BY <1>39 DEF EpollFails
<1> HIDE DEF ServerAssumption, SafeInv, ServerTypeOK, InsideInv, AcceptorInv, VectorInv, StopInv,
             WorkerInv, Pushing, Deleting, BeforeWorkers, BeforeWorker, BeforeAcceptor, BeforeChat,
             Live, Stoppers, NoConn, clientVars, accVars, workVars, stopVars, sockVars, connVars
<1>40. QED
  BY <1>1, <1>2, <1>3, <1>4, <1>5, <1>6, <1>7, <1>8, <1>9, <1>10, <1>11, <1>12, <1>13, <1>14,
     <1>15, <1>16, <1>17, <1>18, <1>19, <1>20, <1>21, <1>22, <1>23, <1>24, <1>25, <1>26,
     <1>27, <1>28, <1>29, <1>30, <1>31, <1>32, <1>33, <1>34, <1>35, <1>36, <1>37, <1>38, <1>39
     DEF Next, Client, Acceptor, Worker, Main, Stop

\* No other thread touches the client that the acceptor is about to connect or push.
LEMMA AcceptorStep ==
  ASSUME SafeInv, Next
  PROVE  AcceptorInv'
<1> USE ServerAssumption
    DEF ServerAssumption, SafeInv, ServerTypeOK, InsideInv, AcceptorInv, VectorInv, StopInv,
        WorkerInv, Pushing, Deleting, BeforeWorkers, BeforeWorker, BeforeAcceptor, BeforeChat, Live,
        Stoppers, NoConn, clientVars, accVars, workVars, stopVars, sockVars, connVars
<1>1. ASSUME NEW c \in Clients, ClientConnects(c) PROVE AcceptorInv'
  BY <1>1 DEF ClientConnects
<1>2. ASSUME NEW c \in Clients, ClientSends(c) PROVE AcceptorInv'
  BY <1>2 DEF ClientSends
<1>3. ASSUME NEW c \in Clients, ClientCloses(c) PROVE AcceptorInv'
  BY <1>3 DEF ClientCloses
<1>4. CASE AccLoop
  BY <1>4 DEF AccLoop
<1>5. CASE Accept
  BY <1>5 DEF Accept
<1>6. CASE Connect
  BY <1>6 DEF Connect
<1>7. CASE ConnectFails
  BY <1>7 DEF ConnectFails
<1>8. CASE PushBegin
  BY <1>8 DEF PushBegin, BeginOp
<1>9. CASE PushEnd
  BY <1>9 DEF PushEnd
<1>10. CASE WorkLoop
  BY <1>10 DEF WorkLoop
<1>11. CASE EpollWait
  BY <1>11 DEF EpollWait, Readable
<1>12. CASE NextEvent
  BY <1>12 DEF NextEvent
<1>13. CASE Process
  BY <1>13 DEF Process, Freed
<1>14. CASE Handle
  BY <1>14 DEF Handle, Freed
<1>15. CASE ReplyAfterReset
  BY <1>15 DEF ReplyAfterReset, Freed
<1>16. CASE UseAfterFree
  BY <1>16 DEF UseAfterFree, Freed
<1>17. CASE DisconnectBegin
  BY <1>17 DEF DisconnectBegin, BeginOp
<1>18. CASE DisconnectMissing
  BY <1>18 DEF DisconnectMissing
<1>19. CASE DisconnectEnd
  BY <1>19 DEF DisconnectEnd, InterestWithout
<1>20. CASE SetRunning
  BY <1>20 DEF SetRunning, MainAt
<1>21. CASE InitSocket
  BY <1>21 DEF InitSocket, MainAt
<1>22. CASE InitWorkers
  BY <1>22 DEF InitWorkers, MainAt
<1>23. CASE StartWorkers
  BY <1>23 DEF StartWorkers, MainAt
<1>24. CASE StartAcceptor
  BY <1>24 DEF StartAcceptor, MainAt
<1>25. CASE StartChat
  BY <1>25 DEF StartChat, MainAt
<1>26. CASE LoopEnds
  BY <1>26 DEF LoopEnds, MainAt
<1>27. CASE JoinChat
  BY <1>27 DEF JoinChat, MainAt
<1>28. CASE ChatQuits
  BY <1>28 DEF ChatQuits, At
<1>29. CASE Race
  BY <1>29 DEF Race
<1>30. ASSUME NEW s \in Stoppers, StopBegins(s) PROVE AcceptorInv'
  BY <1>30 DEF StopBegins, At
<1>31. ASSUME NEW s \in Stoppers, StopListening(s) PROVE AcceptorInv'
  BY <1>31 DEF StopListening, At
<1>32. ASSUME NEW s \in Stoppers, DisconnectAllBegin(s) PROVE AcceptorInv'
  BY <1>32 DEF DisconnectAllBegin, At, BeginOp
<1>33. ASSUME NEW s \in Stoppers, DeleteOne(s) PROVE AcceptorInv'
  BY <1>33 DEF DeleteOne, InterestWithout
<1>34. ASSUME NEW s \in Stoppers, DisconnectAllEnd(s) PROVE AcceptorInv'
  BY <1>34 DEF DisconnectAllEnd, At
<1>35. ASSUME NEW s \in Stoppers, StopClose(s) PROVE AcceptorInv'
  BY <1>35 DEF StopClose, At
<1>36. ASSUME NEW s \in Stoppers, DeleteWorkers(s) PROVE AcceptorInv'
  BY <1>36, DeleteWorkersMoves
<1>37. ASSUME NEW s \in Stoppers, JoinWorker(s) PROVE AcceptorInv'
  BY <1>37 DEF JoinWorker, At, WorkerJoined
<1>38. ASSUME NEW s \in Stoppers, JoinAcceptor(s) PROVE AcceptorInv'
  BY <1>38 DEF JoinAcceptor, At
<1>39. CASE EpollFails
  BY <1>39 DEF EpollFails
<1> HIDE DEF ServerAssumption, SafeInv, ServerTypeOK, InsideInv, AcceptorInv, VectorInv, StopInv,
             WorkerInv, Pushing, Deleting, BeforeWorkers, BeforeWorker, BeforeAcceptor, BeforeChat,
             Live, Stoppers, NoConn, clientVars, accVars, workVars, stopVars, sockVars, connVars
<1>40. QED
  BY <1>1, <1>2, <1>3, <1>4, <1>5, <1>6, <1>7, <1>8, <1>9, <1>10, <1>11, <1>12, <1>13, <1>14,
     <1>15, <1>16, <1>17, <1>18, <1>19, <1>20, <1>21, <1>22, <1>23, <1>24, <1>25, <1>26,
     <1>27, <1>28, <1>29, <1>30, <1>31, <1>32, <1>33, <1>34, <1>35, <1>36, <1>37, <1>38, <1>39
     DEF Next, Client, Acceptor, Worker, Main, Stop

\* What is made and pushed, and what is erased and freed, go together.
LEMMA VectorStep ==
  ASSUME SafeInv, Next
  PROVE  VectorInv'
<1> USE ServerAssumption
    DEF ServerAssumption, SafeInv, ServerTypeOK, InsideInv, AcceptorInv, VectorInv, StopInv,
        WorkerInv, Pushing, Deleting, BeforeWorkers, BeforeWorker, BeforeAcceptor, BeforeChat, Live,
        Stoppers, NoConn, clientVars, accVars, workVars, stopVars, sockVars, connVars
<1>1. ASSUME NEW c \in Clients, ClientConnects(c) PROVE VectorInv'
  BY <1>1 DEF ClientConnects
<1>2. ASSUME NEW c \in Clients, ClientSends(c) PROVE VectorInv'
  BY <1>2 DEF ClientSends
<1>3. ASSUME NEW c \in Clients, ClientCloses(c) PROVE VectorInv'
  BY <1>3 DEF ClientCloses
<1>4. CASE AccLoop
  BY <1>4 DEF AccLoop
<1>5. CASE Accept
  BY <1>5 DEF Accept
<1>6. CASE Connect
  BY <1>6 DEF Connect
<1>7. CASE ConnectFails
  BY <1>7 DEF ConnectFails
<1>8. CASE PushBegin
  BY <1>8 DEF PushBegin, BeginOp
<1>9. CASE PushEnd
  BY <1>9 DEF PushEnd
<1>10. CASE WorkLoop
  BY <1>10 DEF WorkLoop
<1>11. CASE EpollWait
  BY <1>11 DEF EpollWait, Readable
<1>12. CASE NextEvent
  BY <1>12 DEF NextEvent
<1>13. CASE Process
  BY <1>13 DEF Process, Freed
<1>14. CASE Handle
  BY <1>14 DEF Handle, Freed
<1>15. CASE ReplyAfterReset
  BY <1>15 DEF ReplyAfterReset, Freed
<1>16. CASE UseAfterFree
  BY <1>16 DEF UseAfterFree, Freed
<1>17. CASE DisconnectBegin
  BY <1>17 DEF DisconnectBegin, BeginOp
<1>18. CASE DisconnectMissing
  BY <1>18 DEF DisconnectMissing
<1>19. CASE DisconnectEnd
  BY <1>19 DEF DisconnectEnd, InterestWithout
<1>20. CASE SetRunning
  BY <1>20 DEF SetRunning, MainAt
<1>21. CASE InitSocket
  BY <1>21 DEF InitSocket, MainAt
<1>22. CASE InitWorkers
  BY <1>22 DEF InitWorkers, MainAt
<1>23. CASE StartWorkers
  BY <1>23 DEF StartWorkers, MainAt
<1>24. CASE StartAcceptor
  BY <1>24 DEF StartAcceptor, MainAt
<1>25. CASE StartChat
  BY <1>25 DEF StartChat, MainAt
<1>26. CASE LoopEnds
  BY <1>26 DEF LoopEnds, MainAt
<1>27. CASE JoinChat
  BY <1>27 DEF JoinChat, MainAt
<1>28. CASE ChatQuits
  BY <1>28 DEF ChatQuits, At
<1>29. CASE Race
  BY <1>29 DEF Race
<1>30. ASSUME NEW s \in Stoppers, StopBegins(s) PROVE VectorInv'
  BY <1>30 DEF StopBegins, At
<1>31. ASSUME NEW s \in Stoppers, StopListening(s) PROVE VectorInv'
  BY <1>31 DEF StopListening, At
<1>32. ASSUME NEW s \in Stoppers, DisconnectAllBegin(s) PROVE VectorInv'
  BY <1>32 DEF DisconnectAllBegin, At, BeginOp
<1>33. ASSUME NEW s \in Stoppers, DeleteOne(s) PROVE VectorInv'
  BY <1>33 DEF DeleteOne, InterestWithout
<1>34. ASSUME NEW s \in Stoppers, DisconnectAllEnd(s) PROVE VectorInv'
  BY <1>34 DEF DisconnectAllEnd, At
<1>35. ASSUME NEW s \in Stoppers, StopClose(s) PROVE VectorInv'
  BY <1>35 DEF StopClose, At
<1>36. ASSUME NEW s \in Stoppers, DeleteWorkers(s) PROVE VectorInv'
  BY <1>36, DeleteWorkersMoves
<1>37. ASSUME NEW s \in Stoppers, JoinWorker(s) PROVE VectorInv'
  BY <1>37 DEF JoinWorker, At, WorkerJoined
<1>38. ASSUME NEW s \in Stoppers, JoinAcceptor(s) PROVE VectorInv'
  BY <1>38 DEF JoinAcceptor, At
<1>39. CASE EpollFails
  BY <1>39 DEF EpollFails
<1> HIDE DEF ServerAssumption, SafeInv, ServerTypeOK, InsideInv, AcceptorInv, VectorInv, StopInv,
             WorkerInv, Pushing, Deleting, BeforeWorkers, BeforeWorker, BeforeAcceptor, BeforeChat,
             Live, Stoppers, NoConn, clientVars, accVars, workVars, stopVars, sockVars, connVars
<1>40. QED
  BY <1>1, <1>2, <1>3, <1>4, <1>5, <1>6, <1>7, <1>8, <1>9, <1>10, <1>11, <1>12, <1>13, <1>14,
     <1>15, <1>16, <1>17, <1>18, <1>19, <1>20, <1>21, <1>22, <1>23, <1>24, <1>25, <1>26,
     <1>27, <1>28, <1>29, <1>30, <1>31, <1>32, <1>33, <1>34, <1>35, <1>36, <1>37, <1>38, <1>39
     DEF Next, Client, Acceptor, Worker, Main, Stop

\* No thread is started after it was joined, and the worker's memory goes last.
LEMMA StopStep ==
  ASSUME SafeInv, Next
  PROVE  StopInv'
<1> USE ServerAssumption
    DEF ServerAssumption, SafeInv, ServerTypeOK, InsideInv, AcceptorInv, VectorInv, StopInv,
        WorkerInv, Pushing, Deleting, BeforeWorkers, BeforeWorker, BeforeAcceptor, BeforeChat, Live,
        Stoppers, NoConn, clientVars, accVars, workVars, stopVars, sockVars, connVars
<1>1. ASSUME NEW c \in Clients, ClientConnects(c) PROVE StopInv'
  BY <1>1 DEF ClientConnects
<1>2. ASSUME NEW c \in Clients, ClientSends(c) PROVE StopInv'
  BY <1>2 DEF ClientSends
<1>3. ASSUME NEW c \in Clients, ClientCloses(c) PROVE StopInv'
  BY <1>3 DEF ClientCloses
<1>4. CASE AccLoop
  BY <1>4 DEF AccLoop
<1>5. CASE Accept
  BY <1>5 DEF Accept
<1>6. CASE Connect
  BY <1>6 DEF Connect
<1>7. CASE ConnectFails
  BY <1>7 DEF ConnectFails
<1>8. CASE PushBegin
  BY <1>8 DEF PushBegin, BeginOp
<1>9. CASE PushEnd
  BY <1>9 DEF PushEnd
<1>10. CASE WorkLoop
  BY <1>10 DEF WorkLoop
<1>11. CASE EpollWait
  BY <1>11 DEF EpollWait, Readable
<1>12. CASE NextEvent
  BY <1>12 DEF NextEvent
<1>13. CASE Process
  BY <1>13 DEF Process, Freed
<1>14. CASE Handle
  BY <1>14 DEF Handle, Freed
<1>15. CASE ReplyAfterReset
  BY <1>15 DEF ReplyAfterReset, Freed
<1>16. CASE UseAfterFree
  BY <1>16 DEF UseAfterFree, Freed
<1>17. CASE DisconnectBegin
  BY <1>17 DEF DisconnectBegin, BeginOp
<1>18. CASE DisconnectMissing
  BY <1>18 DEF DisconnectMissing
<1>19. CASE DisconnectEnd
  BY <1>19 DEF DisconnectEnd, InterestWithout
<1>20. CASE SetRunning
  BY <1>20 DEF SetRunning, MainAt
<1>21. CASE InitSocket
  BY <1>21 DEF InitSocket, MainAt
<1>22. CASE InitWorkers
  BY <1>22 DEF InitWorkers, MainAt
<1>23. CASE StartWorkers
  BY <1>23 DEF StartWorkers, MainAt
<1>24. CASE StartAcceptor
  BY <1>24 DEF StartAcceptor, MainAt
<1>25. CASE StartChat
  BY <1>25 DEF StartChat, MainAt
<1>26. CASE LoopEnds
  BY <1>26 DEF LoopEnds, MainAt
<1>27. CASE JoinChat
  BY <1>27 DEF JoinChat, MainAt
<1>28. CASE ChatQuits
  BY <1>28 DEF ChatQuits, At
<1>29. CASE Race
  BY <1>29 DEF Race
<1>30. ASSUME NEW s \in Stoppers, StopBegins(s) PROVE StopInv'
  BY <1>30 DEF StopBegins, At
<1>31. ASSUME NEW s \in Stoppers, StopListening(s) PROVE StopInv'
  BY <1>31 DEF StopListening, At
<1>32. ASSUME NEW s \in Stoppers, DisconnectAllBegin(s) PROVE StopInv'
  BY <1>32 DEF DisconnectAllBegin, At, BeginOp
<1>33. ASSUME NEW s \in Stoppers, DeleteOne(s) PROVE StopInv'
  BY <1>33 DEF DeleteOne, InterestWithout
<1>34. ASSUME NEW s \in Stoppers, DisconnectAllEnd(s) PROVE StopInv'
  BY <1>34 DEF DisconnectAllEnd, At
<1>35. ASSUME NEW s \in Stoppers, StopClose(s) PROVE StopInv'
  BY <1>35 DEF StopClose, At
<1>36. ASSUME NEW s \in Stoppers, DeleteWorkers(s) PROVE StopInv'
  BY <1>36, DeleteWorkersMoves
<1>37. ASSUME NEW s \in Stoppers, JoinWorker(s) PROVE StopInv'
  BY <1>37 DEF JoinWorker, At, WorkerJoined
<1>38. ASSUME NEW s \in Stoppers, JoinAcceptor(s) PROVE StopInv'
  BY <1>38 DEF JoinAcceptor, At
<1>39. CASE EpollFails
  BY <1>39 DEF EpollFails
<1> HIDE DEF ServerAssumption, SafeInv, ServerTypeOK, InsideInv, AcceptorInv, VectorInv, StopInv,
             WorkerInv, Pushing, Deleting, BeforeWorkers, BeforeWorker, BeforeAcceptor, BeforeChat,
             Live, Stoppers, NoConn, clientVars, accVars, workVars, stopVars, sockVars, connVars
<1>40. QED
  BY <1>1, <1>2, <1>3, <1>4, <1>5, <1>6, <1>7, <1>8, <1>9, <1>10, <1>11, <1>12, <1>13, <1>14,
     <1>15, <1>16, <1>17, <1>18, <1>19, <1>20, <1>21, <1>22, <1>23, <1>24, <1>25, <1>26,
     <1>27, <1>28, <1>29, <1>30, <1>31, <1>32, <1>33, <1>34, <1>35, <1>36, <1>37, <1>38, <1>39
     DEF Next, Client, Acceptor, Worker, Main, Stop

\* The worker alone deletes while the server runs.
LEMMA WorkerStep ==
  ASSUME SafeInv, Next
  PROVE  WorkerInv'
<1> USE ServerAssumption
    DEF ServerAssumption, SafeInv, ServerTypeOK, InsideInv, AcceptorInv, VectorInv, StopInv,
        WorkerInv, Pushing, Deleting, BeforeWorkers, BeforeWorker, BeforeAcceptor, BeforeChat, Live,
        Stoppers, NoConn, clientVars, accVars, workVars, stopVars, sockVars, connVars
<1>1. ASSUME NEW c \in Clients, ClientConnects(c) PROVE WorkerInv'
  BY <1>1 DEF ClientConnects
<1>2. ASSUME NEW c \in Clients, ClientSends(c) PROVE WorkerInv'
  BY <1>2 DEF ClientSends
<1>3. ASSUME NEW c \in Clients, ClientCloses(c) PROVE WorkerInv'
  BY <1>3 DEF ClientCloses
<1>4. CASE AccLoop
  BY <1>4 DEF AccLoop
<1>5. CASE Accept
  BY <1>5 DEF Accept
<1>6. CASE Connect
  BY <1>6 DEF Connect
<1>7. CASE ConnectFails
  BY <1>7 DEF ConnectFails
<1>8. CASE PushBegin
  BY <1>8 DEF PushBegin, BeginOp
<1>9. CASE PushEnd
  BY <1>9 DEF PushEnd
<1>10. CASE WorkLoop
  BY <1>10 DEF WorkLoop
<1>11. CASE EpollWait
  BY <1>11 DEF EpollWait, Readable
<1>12. CASE NextEvent
  BY <1>12 DEF NextEvent
<1>13. CASE Process
  BY <1>13 DEF Process, Freed
<1>14. CASE Handle
  BY <1>14 DEF Handle, Freed
<1>15. CASE ReplyAfterReset
  BY <1>15 DEF ReplyAfterReset, Freed
<1>16. CASE UseAfterFree
  BY <1>16 DEF UseAfterFree, Freed
<1>17. CASE DisconnectBegin
  BY <1>17 DEF DisconnectBegin, BeginOp
<1>18. CASE DisconnectMissing
  BY <1>18 DEF DisconnectMissing
<1>19. CASE DisconnectEnd
  BY <1>19 DEF DisconnectEnd, InterestWithout
<1>20. CASE SetRunning
  BY <1>20 DEF SetRunning, MainAt
<1>21. CASE InitSocket
  BY <1>21 DEF InitSocket, MainAt
<1>22. CASE InitWorkers
  BY <1>22 DEF InitWorkers, MainAt
<1>23. CASE StartWorkers
  BY <1>23 DEF StartWorkers, MainAt
<1>24. CASE StartAcceptor
  BY <1>24 DEF StartAcceptor, MainAt
<1>25. CASE StartChat
  BY <1>25 DEF StartChat, MainAt
<1>26. CASE LoopEnds
  BY <1>26 DEF LoopEnds, MainAt
<1>27. CASE JoinChat
  BY <1>27 DEF JoinChat, MainAt
<1>28. CASE ChatQuits
  BY <1>28 DEF ChatQuits, At
<1>29. CASE Race
  BY <1>29 DEF Race
<1>30. ASSUME NEW s \in Stoppers, StopBegins(s) PROVE WorkerInv'
  BY <1>30 DEF StopBegins, At
<1>31. ASSUME NEW s \in Stoppers, StopListening(s) PROVE WorkerInv'
  BY <1>31 DEF StopListening, At
<1>32. ASSUME NEW s \in Stoppers, DisconnectAllBegin(s) PROVE WorkerInv'
  BY <1>32 DEF DisconnectAllBegin, At, BeginOp
<1>33. ASSUME NEW s \in Stoppers, DeleteOne(s) PROVE WorkerInv'
  BY <1>33 DEF DeleteOne, InterestWithout
<1>34. ASSUME NEW s \in Stoppers, DisconnectAllEnd(s) PROVE WorkerInv'
  BY <1>34 DEF DisconnectAllEnd, At
<1>35. ASSUME NEW s \in Stoppers, StopClose(s) PROVE WorkerInv'
  BY <1>35 DEF StopClose, At
<1>36. ASSUME NEW s \in Stoppers, DeleteWorkers(s) PROVE WorkerInv'
  BY <1>36, DeleteWorkersMoves
<1>37. ASSUME NEW s \in Stoppers, JoinWorker(s) PROVE WorkerInv'
  BY <1>37 DEF JoinWorker, At, WorkerJoined
<1>38. ASSUME NEW s \in Stoppers, JoinAcceptor(s) PROVE WorkerInv'
  BY <1>38 DEF JoinAcceptor, At
<1>39. CASE EpollFails
  BY <1>39 DEF EpollFails
<1> HIDE DEF ServerAssumption, SafeInv, ServerTypeOK, InsideInv, AcceptorInv, VectorInv, StopInv,
             WorkerInv, Pushing, Deleting, BeforeWorkers, BeforeWorker, BeforeAcceptor, BeforeChat,
             Live, Stoppers, NoConn, clientVars, accVars, workVars, stopVars, sockVars, connVars
<1>40. QED
  BY <1>1, <1>2, <1>3, <1>4, <1>5, <1>6, <1>7, <1>8, <1>9, <1>10, <1>11, <1>12, <1>13, <1>14,
     <1>15, <1>16, <1>17, <1>18, <1>19, <1>20, <1>21, <1>22, <1>23, <1>24, <1>25, <1>26,
     <1>27, <1>28, <1>29, <1>30, <1>31, <1>32, <1>33, <1>34, <1>35, <1>36, <1>37, <1>38, <1>39
     DEF Next, Client, Acceptor, Worker, Main, Stop

\* Each thing is started after the things that it uses.
LEMMA StartStep ==
  ASSUME SafeInv, LifeInv, Next
  PROVE  StartInv'
<1> USE ServerAssumption
    DEF ServerAssumption, SafeInv, ServerTypeOK, InsideInv, AcceptorInv, VectorInv, StopInv,
        WorkerInv, Pushing, Deleting, BeforeWorkers, BeforeWorker, BeforeAcceptor, BeforeChat, Live,
        Stoppers, NoConn, clientVars, accVars, workVars, stopVars, sockVars, connVars, Freed, LifeInv,
        StartInv, DownInv, ClientInv, Stopping
<1>1. ASSUME NEW c \in Clients, ClientConnects(c) PROVE StartInv'
  BY <1>1 DEF ClientConnects
<1>2. ASSUME NEW c \in Clients, ClientSends(c) PROVE StartInv'
  BY <1>2 DEF ClientSends
<1>3. ASSUME NEW c \in Clients, ClientCloses(c) PROVE StartInv'
  BY <1>3 DEF ClientCloses
<1>4. CASE AccLoop
  BY <1>4 DEF AccLoop
<1>5. CASE Accept
  BY <1>5 DEF Accept
<1>6. CASE Connect
  BY <1>6 DEF Connect
<1>7. CASE ConnectFails
  BY <1>7 DEF ConnectFails
<1>8. CASE PushBegin
  BY <1>8 DEF PushBegin, BeginOp
<1>9. CASE PushEnd
  BY <1>9 DEF PushEnd
<1>10. CASE WorkLoop
  BY <1>10 DEF WorkLoop
<1>11. CASE EpollWait
  BY <1>11 DEF EpollWait, Readable
<1>12. CASE NextEvent
  BY <1>12 DEF NextEvent
<1>13. CASE Process
  BY <1>13 DEF Process
<1>14. CASE Handle
  BY <1>14 DEF Handle
<1>15. CASE ReplyAfterReset
  BY <1>15 DEF ReplyAfterReset
<1>16. CASE UseAfterFree
  BY <1>16 DEF UseAfterFree
<1>17. CASE DisconnectBegin
  BY <1>17 DEF DisconnectBegin, BeginOp
<1>18. CASE DisconnectMissing
  BY <1>18 DEF DisconnectMissing
<1>19. CASE DisconnectEnd
  BY <1>19 DEF DisconnectEnd, InterestWithout
<1>20. CASE SetRunning
  BY <1>20 DEF SetRunning, MainAt
<1>21. CASE InitSocket
  BY <1>21 DEF InitSocket, MainAt
<1>22. CASE InitWorkers
  BY <1>22 DEF InitWorkers, MainAt
<1>23. CASE StartWorkers
  BY <1>23 DEF StartWorkers, MainAt
<1>24. CASE StartAcceptor
  BY <1>24 DEF StartAcceptor, MainAt
<1>25. CASE StartChat
  BY <1>25 DEF StartChat, MainAt
<1>26. CASE LoopEnds
  BY <1>26 DEF LoopEnds, MainAt
<1>27. CASE JoinChat
  BY <1>27 DEF JoinChat, MainAt
<1>28. CASE ChatQuits
  BY <1>28 DEF ChatQuits, At
<1>29. CASE Race
  BY <1>29 DEF Race
<1>30. ASSUME NEW s \in Stoppers, StopBegins(s) PROVE StartInv'
  BY <1>30 DEF StopBegins, At
<1>31. ASSUME NEW s \in Stoppers, StopListening(s) PROVE StartInv'
  BY <1>31 DEF StopListening, At
<1>32. ASSUME NEW s \in Stoppers, DisconnectAllBegin(s) PROVE StartInv'
  BY <1>32 DEF DisconnectAllBegin, At, BeginOp
<1>33. ASSUME NEW s \in Stoppers, DeleteOne(s) PROVE StartInv'
  BY <1>33 DEF DeleteOne, InterestWithout
<1>34. ASSUME NEW s \in Stoppers, DisconnectAllEnd(s) PROVE StartInv'
  BY <1>34 DEF DisconnectAllEnd, At
<1>35. ASSUME NEW s \in Stoppers, StopClose(s) PROVE StartInv'
  BY <1>35 DEF StopClose, At
<1>36. ASSUME NEW s \in Stoppers, DeleteWorkers(s) PROVE StartInv'
  BY <1>36, DeleteWorkersMoves
<1>37. ASSUME NEW s \in Stoppers, JoinWorker(s) PROVE StartInv'
  BY <1>37 DEF JoinWorker, At, WorkerJoined
<1>38. ASSUME NEW s \in Stoppers, JoinAcceptor(s) PROVE StartInv'
  BY <1>38 DEF JoinAcceptor, At
<1>39. CASE EpollFails
  BY <1>39 DEF EpollFails
<1> HIDE DEF ServerAssumption, SafeInv, ServerTypeOK, InsideInv, AcceptorInv, VectorInv, StopInv,
             WorkerInv, Pushing, Deleting, BeforeWorkers, BeforeWorker, BeforeAcceptor, BeforeChat,
             Live, Stoppers, NoConn, clientVars, accVars, workVars, stopVars, sockVars, connVars,
             Freed, LifeInv, StartInv, DownInv, ClientInv, Stopping
<1>40. QED
  BY <1>1, <1>2, <1>3, <1>4, <1>5, <1>6, <1>7, <1>8, <1>9, <1>10, <1>11, <1>12, <1>13, <1>14,
     <1>15, <1>16, <1>17, <1>18, <1>19, <1>20, <1>21, <1>22, <1>23, <1>24, <1>25, <1>26,
     <1>27, <1>28, <1>29, <1>30, <1>31, <1>32, <1>33, <1>34, <1>35, <1>36, <1>37, <1>38, <1>39
     DEF Next, Client, Acceptor, Worker, Main, Stop

\* The joins and deletions of a stop come in their order.
LEMMA DownStep ==
  ASSUME SafeInv, LifeInv, Next
  PROVE  DownInv'
<1> USE ServerAssumption
    DEF ServerAssumption, SafeInv, ServerTypeOK, InsideInv, AcceptorInv, VectorInv, StopInv,
        WorkerInv, Pushing, Deleting, BeforeWorkers, BeforeWorker, BeforeAcceptor, BeforeChat, Live,
        Stoppers, NoConn, clientVars, accVars, workVars, stopVars, sockVars, connVars, Freed, LifeInv,
        StartInv, DownInv, ClientInv, Stopping
<1>1. ASSUME NEW c \in Clients, ClientConnects(c) PROVE DownInv'
  BY <1>1 DEF ClientConnects
<1>2. ASSUME NEW c \in Clients, ClientSends(c) PROVE DownInv'
  BY <1>2 DEF ClientSends
<1>3. ASSUME NEW c \in Clients, ClientCloses(c) PROVE DownInv'
  BY <1>3 DEF ClientCloses
<1>4. CASE AccLoop
  BY <1>4 DEF AccLoop
<1>5. CASE Accept
  BY <1>5 DEF Accept
<1>6. CASE Connect
  BY <1>6 DEF Connect
<1>7. CASE ConnectFails
  BY <1>7 DEF ConnectFails
<1>8. CASE PushBegin
  BY <1>8 DEF PushBegin, BeginOp
<1>9. CASE PushEnd
  BY <1>9 DEF PushEnd
<1>10. CASE WorkLoop
  BY <1>10 DEF WorkLoop
<1>11. CASE EpollWait
  BY <1>11 DEF EpollWait, Readable
<1>12. CASE NextEvent
  BY <1>12 DEF NextEvent
<1>13. CASE Process
  BY <1>13 DEF Process
<1>14. CASE Handle
  BY <1>14 DEF Handle
<1>15. CASE ReplyAfterReset
  BY <1>15 DEF ReplyAfterReset
<1>16. CASE UseAfterFree
  BY <1>16 DEF UseAfterFree
<1>17. CASE DisconnectBegin
  BY <1>17 DEF DisconnectBegin, BeginOp
<1>18. CASE DisconnectMissing
  BY <1>18 DEF DisconnectMissing
<1>19. CASE DisconnectEnd
  BY <1>19 DEF DisconnectEnd, InterestWithout
<1>20. CASE SetRunning
  BY <1>20 DEF SetRunning, MainAt
<1>21. CASE InitSocket
  BY <1>21 DEF InitSocket, MainAt
<1>22. CASE InitWorkers
  BY <1>22 DEF InitWorkers, MainAt
<1>23. CASE StartWorkers
  BY <1>23 DEF StartWorkers, MainAt
<1>24. CASE StartAcceptor
  BY <1>24 DEF StartAcceptor, MainAt
<1>25. CASE StartChat
  BY <1>25 DEF StartChat, MainAt
<1>26. CASE LoopEnds
  BY <1>26 DEF LoopEnds, MainAt
<1>27. CASE JoinChat
  BY <1>27 DEF JoinChat, MainAt
<1>28. CASE ChatQuits
  BY <1>28 DEF ChatQuits, At
<1>29. CASE Race
  BY <1>29 DEF Race
<1>30. ASSUME NEW s \in Stoppers, StopBegins(s) PROVE DownInv'
  BY <1>30 DEF StopBegins, At
<1>31. ASSUME NEW s \in Stoppers, StopListening(s) PROVE DownInv'
  BY <1>31 DEF StopListening, At
<1>32. ASSUME NEW s \in Stoppers, DisconnectAllBegin(s) PROVE DownInv'
  BY <1>32 DEF DisconnectAllBegin, At, BeginOp
<1>33. ASSUME NEW s \in Stoppers, DeleteOne(s) PROVE DownInv'
  BY <1>33 DEF DeleteOne, InterestWithout
<1>34. ASSUME NEW s \in Stoppers, DisconnectAllEnd(s) PROVE DownInv'
  BY <1>34 DEF DisconnectAllEnd, At
<1>35. ASSUME NEW s \in Stoppers, StopClose(s) PROVE DownInv'
  BY <1>35 DEF StopClose, At
<1>36. ASSUME NEW s \in Stoppers, DeleteWorkers(s) PROVE DownInv'
  <2>1. CASE stopPc' = stopPc
    BY <1>36, <2>1, DeleteWorkersMoves
  <2>2. CASE workers = "none" /\ stopPc' = [stopPc EXCEPT ![s] = "join_acceptor"]
    BY <1>36, <2>2, DeleteWorkersMoves
  <2>3. CASE workers = "live" /\ stopPc' = [stopPc EXCEPT ![s] = "join_worker"]
    BY <1>36, <2>3, DeleteWorkersMoves
  <2>4. CASE /\ workers = "no_epoll" /\ workPc = "off" /\ workers' = "freed"
             /\ stopPc' = [stopPc EXCEPT ![s] = "join_acceptor"]
    BY <1>36, <2>4, DeleteWorkersMoves
  <2>5. QED
    BY <1>36, <2>1, <2>2, <2>3, <2>4 DEF DeleteWorkers, At
<1>37. ASSUME NEW s \in Stoppers, JoinWorker(s) PROVE DownInv'
  BY <1>37 DEF JoinWorker, At, WorkerJoined
<1>38. ASSUME NEW s \in Stoppers, JoinAcceptor(s) PROVE DownInv'
  BY <1>38 DEF JoinAcceptor, At
<1>39. CASE EpollFails
  BY <1>39 DEF EpollFails
<1> HIDE DEF ServerAssumption, SafeInv, ServerTypeOK, InsideInv, AcceptorInv, VectorInv, StopInv,
             WorkerInv, Pushing, Deleting, BeforeWorkers, BeforeWorker, BeforeAcceptor, BeforeChat,
             Live, Stoppers, NoConn, clientVars, accVars, workVars, stopVars, sockVars, connVars,
             Freed, LifeInv, StartInv, DownInv, ClientInv, Stopping
<1>40. QED
  BY <1>1, <1>2, <1>3, <1>4, <1>5, <1>6, <1>7, <1>8, <1>9, <1>10, <1>11, <1>12, <1>13, <1>14,
     <1>15, <1>16, <1>17, <1>18, <1>19, <1>20, <1>21, <1>22, <1>23, <1>24, <1>25, <1>26,
     <1>27, <1>28, <1>29, <1>30, <1>31, <1>32, <1>33, <1>34, <1>35, <1>36, <1>37, <1>38, <1>39
     DEF Next, Client, Acceptor, Worker, Main, Stop

\* Only who was unruly is disconnected.
LEMMA ClientStep ==
  ASSUME SafeInv, LifeInv, Next
  PROVE  ClientInv'
<1> USE ServerAssumption
    DEF ServerAssumption, SafeInv, ServerTypeOK, InsideInv, AcceptorInv, VectorInv, StopInv,
        WorkerInv, Pushing, Deleting, BeforeWorkers, BeforeWorker, BeforeAcceptor, BeforeChat, Live,
        Stoppers, NoConn, clientVars, accVars, workVars, stopVars, sockVars, connVars, Freed, LifeInv,
        StartInv, DownInv, ClientInv, Stopping
<1>1. ASSUME NEW c \in Clients, ClientConnects(c) PROVE ClientInv'
  BY <1>1 DEF ClientConnects
<1>2. ASSUME NEW c \in Clients, ClientSends(c) PROVE ClientInv'
  BY <1>2 DEF ClientSends
<1>3. ASSUME NEW c \in Clients, ClientCloses(c) PROVE ClientInv'
  BY <1>3 DEF ClientCloses
<1>4. CASE AccLoop
  BY <1>4 DEF AccLoop
<1>5. CASE Accept
  BY <1>5 DEF Accept
<1>6. CASE Connect
  BY <1>6 DEF Connect
<1>7. CASE ConnectFails
  BY <1>7 DEF ConnectFails
<1>8. CASE PushBegin
  BY <1>8 DEF PushBegin, BeginOp
<1>9. CASE PushEnd
  BY <1>9 DEF PushEnd
<1>10. CASE WorkLoop
  BY <1>10 DEF WorkLoop
<1>11. CASE EpollWait
  BY <1>11 DEF EpollWait, Readable
<1>12. CASE NextEvent
  BY <1>12 DEF NextEvent
<1>13. CASE Process
  BY <1>13 DEF Process
<1>14. CASE Handle
  BY <1>14 DEF Handle
<1>15. CASE ReplyAfterReset
  BY <1>15 DEF ReplyAfterReset
<1>16. CASE UseAfterFree
  BY <1>16 DEF UseAfterFree
<1>17. CASE DisconnectBegin
  BY <1>17 DEF DisconnectBegin, BeginOp
<1>18. CASE DisconnectMissing
  BY <1>18 DEF DisconnectMissing
<1>19. CASE DisconnectEnd
  BY <1>19 DEF DisconnectEnd, InterestWithout
<1>20. CASE SetRunning
  BY <1>20 DEF SetRunning, MainAt
<1>21. CASE InitSocket
  BY <1>21 DEF InitSocket, MainAt
<1>22. CASE InitWorkers
  BY <1>22 DEF InitWorkers, MainAt
<1>23. CASE StartWorkers
  BY <1>23 DEF StartWorkers, MainAt
<1>24. CASE StartAcceptor
  BY <1>24 DEF StartAcceptor, MainAt
<1>25. CASE StartChat
  BY <1>25 DEF StartChat, MainAt
<1>26. CASE LoopEnds
  BY <1>26 DEF LoopEnds, MainAt
<1>27. CASE JoinChat
  BY <1>27 DEF JoinChat, MainAt
<1>28. CASE ChatQuits
  BY <1>28 DEF ChatQuits, At
<1>29. CASE Race
  BY <1>29 DEF Race
<1>30. ASSUME NEW s \in Stoppers, StopBegins(s) PROVE ClientInv'
  BY <1>30 DEF StopBegins, At
<1>31. ASSUME NEW s \in Stoppers, StopListening(s) PROVE ClientInv'
  BY <1>31 DEF StopListening, At
<1>32. ASSUME NEW s \in Stoppers, DisconnectAllBegin(s) PROVE ClientInv'
  BY <1>32 DEF DisconnectAllBegin, At, BeginOp
<1>33. ASSUME NEW s \in Stoppers, DeleteOne(s) PROVE ClientInv'
  BY <1>33 DEF DeleteOne, InterestWithout
<1>34. ASSUME NEW s \in Stoppers, DisconnectAllEnd(s) PROVE ClientInv'
  BY <1>34 DEF DisconnectAllEnd, At
<1>35. ASSUME NEW s \in Stoppers, StopClose(s) PROVE ClientInv'
  BY <1>35 DEF StopClose, At
<1>36. ASSUME NEW s \in Stoppers, DeleteWorkers(s) PROVE ClientInv'
  BY <1>36, DeleteWorkersMoves
<1>37. ASSUME NEW s \in Stoppers, JoinWorker(s) PROVE ClientInv'
  BY <1>37 DEF JoinWorker, At, WorkerJoined
<1>38. ASSUME NEW s \in Stoppers, JoinAcceptor(s) PROVE ClientInv'
  BY <1>38 DEF JoinAcceptor, At
<1>39. CASE EpollFails
  BY <1>39 DEF EpollFails
<1> HIDE DEF ServerAssumption, SafeInv, ServerTypeOK, InsideInv, AcceptorInv, VectorInv, StopInv,
             WorkerInv, Pushing, Deleting, BeforeWorkers, BeforeWorker, BeforeAcceptor, BeforeChat,
             Live, Stoppers, NoConn, clientVars, accVars, workVars, stopVars, sockVars, connVars,
             Freed, LifeInv, StartInv, DownInv, ClientInv, Stopping
<1>40. QED
  BY <1>1, <1>2, <1>3, <1>4, <1>5, <1>6, <1>7, <1>8, <1>9, <1>10, <1>11, <1>12, <1>13, <1>14,
     <1>15, <1>16, <1>17, <1>18, <1>19, <1>20, <1>21, <1>22, <1>23, <1>24, <1>25, <1>26,
     <1>27, <1>28, <1>29, <1>30, <1>31, <1>32, <1>33, <1>34, <1>35, <1>36, <1>37, <1>38, <1>39
     DEF Next, Client, Acceptor, Worker, Main, Stop

------------------------------------------------------------------------------
\* Nothing has been started yet.
LEMMA ServerInit == Init => SafeInv /\ LifeInv
<1> SUFFICES ASSUME Init PROVE SafeInv /\ LifeInv
  OBVIOUS
<1> USE ServerAssumption DEF ServerAssumption, Init, Stoppers, NoConn
<1>1. ServerTypeOK
  <2>1. running \in BOOLEAN /\ wakeup \in BOOLEAN
    BY Zenon
  <2>2. stopPc \in [Stoppers -> {"off", "idle", "shutdown", "disconnect", "deleting", "close",
                               "delete", "join_worker", "join_acceptor", "exit", "done"}]
    OBVIOUS
  <2>3. QED
    BY <2>1, <2>2 DEF ServerTypeOK
<1>2. Deleting = {} /\ Pushing = {} /\ Live = {} /\ Freed = {}
  BY DEF Deleting, Pushing, Live, Freed
<1>3. InsideInv /\ AcceptorInv /\ VectorInv
  BY <1>2 DEF InsideInv, AcceptorInv, VectorInv
<1>4. StopInv /\ WorkerInv
  BY <1>2 DEF StopInv, WorkerInv, BeforeWorkers, BeforeWorker, BeforeAcceptor, BeforeChat
<1>5. StartInv /\ DownInv /\ ClientInv
  BY <1>2 DEF StartInv, DownInv, ClientInv, BeforeWorkers, BeforeWorker, BeforeAcceptor,
              BeforeChat, Stopping
<1>6. QED
  BY <1>1, <1>3, <1>4, <1>5 DEF SafeInv, LifeInv

\* The invariant, and the two safety properties, need the step out of a state
\* without a fault: a fault is the last thing that happens.
ServerInv == SafeInv /\ LifeInv /\ FaultsNeedCause /\ QuietStopSafe

\* A step that leaves everything as it is keeps every invariant.
LEMMA ServerStutters ==
  ASSUME ServerInv, UNCHANGED vars
  PROVE  ServerInv'
BY DEF ServerInv, SafeInv, LifeInv, vars, clientVars, accVars, workVars, stopVars, sockVars,
       connVars, ServerTypeOK, InsideInv, AcceptorInv, VectorInv, StopInv, WorkerInv, StartInv,
       DownInv, ClientInv, FaultsNeedCause, RunningFaults, StopFaults, QuietStopSafe, Pushing,
       Deleting, Live, Freed, Stopping, BeforeWorkers, BeforeWorker, BeforeAcceptor, BeforeChat

\* The steps that can end in a fault, and the state each of them needs.
LEMMA FaultSteps ==
  ASSUME SafeInv, LifeInv, Next, fault' # "none"
  PROVE  /\ fault = "none"
         /\ UNCHANGED <<accPc, accConn, workPc, workConn, workers, running, unruly, heap>>
         /\ \/ fault' = "freed_worker" /\ accPc = "connect" /\ workers = "freed"
            \/ fault' = "erase_end" /\ accPc = "connect" /\ KernelMayFail
            \/ fault' = "erase_end" /\ DisconnectMissing
            \/ fault' = "sigpipe" /\ ReplyAfterReset
            \/ fault' = "use_after_free" /\ UseAfterFree
            \/ fault' = "race" /\ Race
            \/ \E s \in Stoppers :
                 /\ DeleteWorkers(s) \/ JoinWorker(s) \/ JoinAcceptor(s)
                 /\ \/ fault' \in {"bad_join", "double_free"}
                    \/ fault' = "terminate" /\ workers = "no_epoll"
<1> USE DEF clientVars, accVars, workVars, stopVars, sockVars, connVars
<1>1. fault = "none" /\ fault' # fault
  BY DEF Next
<1>2. CASE Client
  BY <1>1, <1>2 DEF Client, ClientConnects, ClientSends, ClientCloses
<1>3. CASE Acceptor
  BY <1>1, <1>3 DEF Acceptor, AccLoop, Accept, Connect, ConnectFails, PushBegin, PushEnd,
                    SafeInv, StopInv
<1>4. CASE Worker
  BY <1>1, <1>4 DEF Worker, WorkLoop, EpollWait, EpollFails, NextEvent, Process, Handle, ReplyAfterReset,
                    UseAfterFree, DisconnectBegin, DisconnectMissing, DisconnectEnd
<1>5. CASE Main
  BY <1>1, <1>5 DEF Main, SetRunning, InitSocket, InitWorkers, StartWorkers, StartAcceptor,
                    StartChat, LoopEnds, JoinChat
<1>6. CASE ChatQuits
  BY <1>1, <1>6 DEF ChatQuits
<1>7. CASE Race
  BY <1>1, <1>7 DEF Race
<1>8. ASSUME NEW s \in Stoppers, StopBegins(s) PROVE FALSE
  BY <1>1, <1>8 DEF StopBegins
<1>9. ASSUME NEW s \in Stoppers, Stop(s)
      PROVE  /\ DeleteWorkers(s) \/ JoinWorker(s) \/ JoinAcceptor(s)
             /\ \/ fault' \in {"bad_join", "double_free"}
                \/ fault' = "terminate" /\ workers = "no_epoll"
             /\ UNCHANGED <<accPc, accConn, workPc, workConn, workers, running, unruly, heap>>
  BY <1>1, <1>9 DEF Stop, StopListening, DisconnectAllBegin, DeleteOne, DisconnectAllEnd,
                    StopClose, DeleteWorkers, JoinWorker, JoinAcceptor
<1>10. QED
  BY <1>1, <1>2, <1>3, <1>4, <1>5, <1>6, <1>7, <1>8, <1>9 DEF Next

\* A running server has no stop under way, so no join and no second deletion.
LEMMA StopFaultsNeedStop ==
  ASSUME SafeInv, NEW s \in Stoppers, DeleteWorkers(s) \/ JoinWorker(s) \/ JoinAcceptor(s)
  PROVE  ~ running
BY DEF SafeInv, StopInv, DeleteWorkers, JoinWorker, JoinAcceptor, At

\* A connection that the worker cannot find is one the acceptor has yet to push.
LEMMA MissingIsPushing ==
  ASSUME SafeInv, running, DisconnectMissing
  PROVE  accPc = "push" /\ accConn = workConn
<1>1. Deleting = {}
  BY DEF Deleting, SafeInv, StopInv
<1>2. workConn \in Live /\ workConn \notin Live \ Pushing
  BY <1>1 DEF DisconnectMissing, SafeInv, VectorInv, WorkerInv
<1>3. accPc # "pushing"
  BY DEF DisconnectMissing, SafeInv, InsideInv, Collides
<1>4. QED
  BY <1>2, <1>3 DEF Pushing

\* While the server runs, nobody is stopping it.
LEMMA RunningHasNoStop ==
  ASSUME SafeInv, LifeInv, running
  PROVE  /\ \A s \in Stoppers : stopPc[s] \in {"off", "idle"}
         /\ workers # "freed"
         /\ inside = (IF accPc = "pushing" THEN {"acceptor"} ELSE {})
                       \cup (IF workPc = "erasing" THEN {"worker"} ELSE {})
<1>1. \A s \in Stoppers : stopPc[s] \in {"off", "idle"}
  BY DEF SafeInv, StopInv
<1>2. workers # "freed"
  BY <1>1 DEF Stoppers, SafeInv, StopInv, LifeInv, DownInv
<1>3. Deleting = {}
  BY <1>1 DEF Deleting
<1>4. QED
  BY <1>1, <1>2, <1>3 DEF SafeInv, InsideInv

\* While the server runs, only the worker frees, and not what it is busy with; and it
\* is only the acceptor that the worker can run into.
LEMMA RunningStep ==
  ASSUME SafeInv, LifeInv, Next
  PROVE  RunningFaults'
<1> SUFFICES ASSUME running', fault' # "none" PROVE RunningFaults'
  BY DEF RunningFaults
<1>1. running
  BY FaultSteps
<1>2. ~ UseAfterFree
  BY <1>1 DEF UseAfterFree, SafeInv, WorkerInv, Live, Freed
<1>3. \A s \in Stoppers : ~ (DeleteWorkers(s) \/ JoinWorker(s) \/ JoinAcceptor(s))
  BY <1>1, StopFaultsNeedStop
<1>4. ASSUME Race
      PROVE  /\ unruly # {}
             /\ \/ accPc = "push" /\ workPc = "erasing"
                \/ accPc = "pushing" /\ workPc = "disconnect"
  BY <1>1, <1>4, RunningHasNoStop DEF Race, Collides, WantsVector, Stoppers, LifeInv, ClientInv
<1>5. ReplyAfterReset => workConn \in unruly
  BY DEF ReplyAfterReset, SafeInv, ServerTypeOK, LifeInv, ClientInv
<1>6. DisconnectMissing => /\ accPc = "push" /\ accConn = workConn /\ workPc = "disconnect"
                           /\ unruly # {}
  BY <1>1, MissingIsPushing DEF DisconnectMissing, LifeInv, ClientInv
<1>7. CASE fault' = "erase_end"
  BY <1>6, <1>7, FaultSteps DEF RunningFaults
<1>8. CASE fault' = "race"
  BY <1>4, <1>8, FaultSteps DEF RunningFaults
<1>9. CASE fault' = "sigpipe"
  BY <1>5, <1>9, FaultSteps DEF RunningFaults
<1>10. QED
  BY <1>1, <1>2, <1>3, <1>7, <1>8, <1>9, FaultSteps, RunningHasNoStop

\* The console's stop joins threads that were started, and nobody has joined before.
LEMMA LoneStopJoinsOnce ==
  ASSUME SafeInv, LifeInv, stopPc["signal"] = "idle", fault = "none",
         fault' \in {"double_free", "bad_join"}, NEW s \in Stoppers
  PROVE  ~ (DeleteWorkers(s) \/ JoinWorker(s) \/ JoinAcceptor(s))
<1> USE DEF Stoppers, SafeInv, StopInv, LifeInv, StartInv, DownInv
<1>1. CASE s = "signal"
  BY <1>1 DEF DeleteWorkers, JoinWorker, JoinAcceptor, At
<1>2. CASE s = "chat"
  <2>1. ~ DeleteWorkers(s)
    BY <1>2 DEF DeleteWorkers, At
  <2>2. ~ JoinWorker(s)
    BY <1>2 DEF JoinWorker, At
  <2>3. ~ JoinAcceptor(s)
    BY <1>2 DEF JoinAcceptor, At
  <2>4. QED
    BY <2>1, <2>2, <2>3
<1>3. QED
  BY <1>1, <1>2

\* A stop on the console alone joins and deletes once.
LEMMA StopFaultsStep ==
  ASSUME SafeInv, LifeInv, Next
  PROVE  StopFaults'
<1>1. CASE fault' \in {"double_free", "bad_join"}
  <2>1. PICK s \in Stoppers : DeleteWorkers(s) \/ JoinWorker(s) \/ JoinAcceptor(s)
    BY <1>1, FaultSteps
  <2>2. stopPc["signal"] # "idle"
    BY <1>1, <2>1, FaultSteps, LoneStopJoinsOnce
  <2>3. stopPc'["signal"] # "idle"
    BY <2>1, <2>2 DEF DeleteWorkers, JoinWorker, JoinAcceptor, At, Stoppers, SafeInv, ServerTypeOK
  <2>4. QED
    BY <1>1, <2>3 DEF StopFaults
<1>2. CASE fault' = "terminate"
  <2>1. PICK s \in Stoppers : DeleteWorkers(s) \/ JoinWorker(s) \/ JoinAcceptor(s)
    BY <1>2, FaultSteps
  <2>2. ~ running /\ workers' = "no_epoll" /\ running' = running
    BY <1>2, <2>1, FaultSteps, StopFaultsNeedStop
  <2>3. QED
    BY <1>2, <2>2 DEF StopFaults
<1>3. QED
  BY <1>1, <1>2 DEF StopFaults

\* Every fault has its cause.
LEMMA FaultsStep ==
  ASSUME SafeInv, LifeInv, Next
  PROVE  FaultsNeedCause'
BY RunningStep, StopFaultsStep DEF FaultsNeedCause

\* With no client there is nothing to free or to reply to, and only the two stops
\* to collide.
LEMMA QuietStep ==
  ASSUME SafeInv, LifeInv, Next
  PROVE  QuietStopSafe'
<1> SUFFICES ASSUME (Live \cup Freed)' = {}, accConn' = NoConn, fault' # "none"
             PROVE  \/ fault' = "terminate" /\ workers' = "no_epoll"
                    \/ fault' \in {"race", "double_free", "bad_join"} /\ stopPc'["signal"] # "idle"
  BY DEF QuietStopSafe
<1>1. Live \cup Freed = {} /\ accConn = NoConn
  BY FaultSteps DEF Live, Freed
<1>2. accPc \notin {"connect", "push", "pushing"}
  BY <1>1, ServerAssumption DEF SafeInv, AcceptorInv, ServerAssumption, NoConn
<1>3. workPc \notin {"process", "handle", "disconnect", "erasing"}
  BY <1>1 DEF LifeInv, ClientInv
<1>4. ~ DisconnectMissing /\ ~ ReplyAfterReset /\ ~ UseAfterFree
  BY <1>3 DEF DisconnectMissing, ReplyAfterReset, UseAfterFree
<1>5. CASE fault' = "race"
  <2>1. Race
    BY <1>5, FaultSteps
  <2>2. stopPc' = stopPc /\ inside = Deleting
    BY <1>2, <1>3, <2>1 DEF Race, SafeInv, InsideInv, stopVars
  <2>3. stopPc["signal"] # "idle"
    BY <1>2, <1>3, <2>1, <2>2 DEF Race, Collides, WantsVector, Deleting, Stoppers
  <2>4. QED
    BY <1>5, <2>2, <2>3
<1>6. CASE fault' \in {"double_free", "bad_join", "terminate"}
  BY <1>6, FaultSteps, StopFaultsStep DEF StopFaults
<1>7. QED
  BY <1>2, <1>4, <1>5, <1>6, FaultSteps

\* Every step of a server that is not stopped by a fault keeps all of it.
LEMMA ServerStep == ServerInv /\ [Next]_vars => ServerInv'
<1> SUFFICES ASSUME ServerInv, [Next]_vars PROVE ServerInv'
  OBVIOUS
<1>1. CASE Next
  <2>1. SafeInv /\ LifeInv
    BY DEF ServerInv
  <2>2. SafeInv'
    BY <1>1, <2>1, TypeStep, InsideStep, AcceptorStep, VectorStep, StopStep, WorkerStep DEF SafeInv
  <2>3. LifeInv'
    BY <1>1, <2>1, StartStep, DownStep, ClientStep DEF LifeInv
  <2>4. QED
    BY <1>1, <2>1, <2>2, <2>3, FaultsStep, QuietStep DEF ServerInv
<1>2. CASE UNCHANGED vars
  BY <1>2, ServerStutters
<1>3. QED
  BY <1>1, <1>2

\* All of it holds in every state of the server.
THEOREM ServerInvariant == Spec => []ServerInv
<1>1. Init => ServerInv
  BY ServerInit DEF Init, ServerInv, FaultsNeedCause, RunningFaults, StopFaults, QuietStopSafe
<1>2. QED
  BY <1>1, ServerStep, PTL DEF Spec

\* Type correctness, at every state of the server.
THEOREM ServerTypeCorrect == Spec => []ServerTypeOK
<1>1. ServerInv => ServerTypeOK
  BY DEF ServerInv, SafeInv
<1>2. QED
  BY <1>1, ServerInvariant, PTL

\* Between two operations the vector holds exactly the live connections.
THEOREM VectorHoldsTheLive == Spec => []VectorExact
<1>1. ServerInv => VectorExact
  <2> SUFFICES ASSUME SafeInv, inside = {}
               PROVE  connections = Live \ (IF accPc = "push" THEN {accConn} ELSE {})
    BY DEF ServerInv, VectorExact
  <2>1. Deleting = {} /\ accPc # "pushing"
    BY DEF SafeInv, InsideInv
  <2>2. QED
    BY <2>1 DEF SafeInv, VectorInv, Pushing
<1>2. QED
  BY <1>1, ServerInvariant, PTL

\* What a running server can run into, and a stop, and what each of it takes.
THEOREM RunningFaultsHaveCause == Spec => []FaultsNeedCause
<1>1. ServerInv => FaultsNeedCause
  BY DEF ServerInv
<1>2. QED
  BY <1>1, ServerInvariant, PTL

\* A stop of a server that nobody connected to: what it takes for it to go wrong.
THEOREM QuietServerStopsSafely == Spec => []QuietStopSafe
<1>1. ServerInv => QuietStopSafe
  BY DEF ServerInv
<1>2. QED
  BY <1>1, ServerInvariant, PTL
------------------------------------------------------------------------------
(* A stop on the console is never left waiting. *)

\* A stop, from disconnect_all() on.
PastShutdown == {"disconnect", "deleting", "close", "delete", "join_worker", "join_acceptor"}

\* The socket is made before the chat thread, and shut down before anything is deleted.
ListenInv ==
  /\ mainPc \notin {"begin", "socket", "returned"} => listening # "none"
  /\ stopPc["chat"] # "off" => listening # "none"
  /\ stopPc["chat"] \in PastShutdown => listening \in {"shut", "closed"}

\* The other threads leave the socket and the main and the chat thread as they are.
LEMMA OthersSteps ==
  ASSUME Client \/ Acceptor \/ Worker \/ Race
  PROVE  UNCHANGED <<listening, mainPc, stopPc>>
<1> USE DEF clientVars, connVars, stopVars, sockVars
<1>1. CASE Client
  BY <1>1 DEF Client, ClientConnects, ClientSends, ClientCloses
<1>2. CASE Acceptor
  BY <1>2 DEF Acceptor, AccLoop, Accept, Connect, ConnectFails, PushBegin, PushEnd
<1>3. CASE Worker
  BY <1>3 DEF Worker, WorkLoop, EpollWait, EpollFails, NextEvent, Process, Handle, ReplyAfterReset, UseAfterFree,
              DisconnectBegin, DisconnectMissing, DisconnectEnd
<1>4. QED
  BY <1>1, <1>2, <1>3 DEF Race

\* A step of a stop leaves the main thread alone.  It moves nobody but the thread that
\* runs it, and past shutdown() only when the socket was shut down, or was never made.
LEMMA StopSteps ==
  ASSUME ServerTypeOK, NEW s \in Stoppers, Stop(s)
  PROVE  /\ mainPc' = mainPc
         /\ \A t \in Stoppers \ {s} : stopPc'[t] = stopPc[t]
         /\ stopPc[s] \notin {"off", "idle"} /\ stopPc'[s] # "off"
         /\ \/ listening' \in {"shut", "closed"}
            \/ listening' = listening /\ (stopPc[s] \in PastShutdown \/ listening # "open")
<1> USE DEF ServerTypeOK, PastShutdown, clientVars, connVars, stopVars, sockVars, accVars, workVars
<1>1. CASE StopListening(s)
  BY <1>1 DEF StopListening, At
<1>2. CASE DisconnectAllBegin(s)
  BY <1>2 DEF DisconnectAllBegin, At
<1>3. CASE DeleteOne(s)
  BY <1>3 DEF DeleteOne
<1>4. CASE DisconnectAllEnd(s)
  BY <1>4 DEF DisconnectAllEnd, At
<1>5. CASE StopClose(s)
  BY <1>5 DEF StopClose, At
<1>6. CASE DeleteWorkers(s)
  BY <1>6, DeleteWorkersMoves
<1>7. CASE JoinWorker(s)
  BY <1>7 DEF JoinWorker, At
<1>8. CASE JoinAcceptor(s)
  BY <1>8 DEF JoinAcceptor, At
<1>9. QED
  BY <1>1, <1>2, <1>3, <1>4, <1>5, <1>6, <1>7, <1>8 DEF Stop

\* Every step keeps the socket ahead of the chat thread.
LEMMA ListenStep ==
  ASSUME ServerInv, ListenInv, Next
  PROVE  ListenInv'
<1>1. ServerTypeOK
  BY DEF ServerInv, SafeInv
<1>2. CASE Client \/ Acceptor \/ Worker \/ Race
  BY <1>2, OthersSteps DEF ListenInv
<1>3. CASE Main
  <2>1. mainPc \in BeforeChat => stopPc["chat"] = "off"
    BY DEF ServerInv, SafeInv, StopInv
  <2> USE DEF ListenInv, ServerTypeOK, MainAt, BeforeChat, BeforeAcceptor, BeforeWorker, BeforeWorkers,
              PastShutdown, stopVars
  <2>2. CASE SetRunning \/ InitWorkers \/ StartWorkers \/ StartAcceptor \/ LoopEnds \/ JoinChat
    BY <1>1, <2>1, <2>2 DEF SetRunning, InitWorkers, StartWorkers, StartAcceptor, LoopEnds, JoinChat
  <2>3. CASE InitSocket
    BY <1>1, <2>1, <2>3 DEF InitSocket
  <2>4. CASE StartChat
    BY <1>1, <2>1, <2>4 DEF StartChat, Stoppers
  <2>5. QED
    BY <1>3, <2>2, <2>3, <2>4 DEF Main
<1>4. CASE ChatQuits
  BY <1>1, <1>4 DEF ChatQuits, At, ListenInv, ServerTypeOK, PastShutdown, Stoppers
<1>5. ASSUME NEW s \in Stoppers, StopBegins(s) PROVE ListenInv'
  BY <1>1, <1>5 DEF StopBegins, At, ListenInv, ServerTypeOK, PastShutdown, Stoppers
<1>6. ASSUME NEW s \in Stoppers, Stop(s) PROVE ListenInv'
  BY <1>1, <1>6, StopSteps DEF ListenInv, ServerTypeOK, PastShutdown, Stoppers
<1>7. QED
  BY <1>2, <1>3, <1>4, <1>5, <1>6 DEF Next

\* Whoever a stop on the console waits for is not held up himself: the acceptor comes out
\* of accept() and into the vector, the worker out of epoll_wait().
LEMMA StopMovesOn ==
  ASSUME ServerInv, ListenInv
  PROVE  StopGoesOn
<1> SUFFICES ASSUME fault = "none", stopPc["signal"] = "idle" PROVE StopGoesOn
  BY DEF StopGoesOn
<1> USE DEF Stoppers
<1>1. ServerTypeOK /\ InsideInv /\ StopInv /\ StartInv /\ DownInv
  BY DEF ServerInv, SafeInv, LifeInv
<1>2. stopPc["chat"] # "deleting" => Deleting = {}
  BY DEF Deleting
<1>3. stopPc["chat"] # "deleting" => inside = {} \/ accPc = "pushing" \/ workPc = "erasing"
  BY <1>1, <1>2 DEF InsideInv
<1>4. ASSUME stopPc["chat"] = "join_worker", wakeup
      PROVE  workPc = "done" \/ WorkerMoves \/ accPc = "pushing"
  <2>1. NoConn \in Readable
    BY <1>4 DEF Readable
  <2>2. workPc # "off"
    BY <1>1, <1>4 DEF StopInv
  <2>3. QED
    BY <1>1, <1>3, <1>4, <2>1, <2>2 DEF WorkerMoves, ServerTypeOK
<1>5. ASSUME stopPc["chat"] = "join_acceptor" PROVE accPc = "done" \/ AcceptorMoves
  <2>1. accPc \notin {"off", "joined"} /\ workers # "none"
    BY <1>1, <1>5 DEF StartInv, DownInv
  <2>2. workPc = "done"
    BY <1>1, <1>5, <2>1 DEF DownInv, StopInv, StartInv
  <2>3. listening \in {"shut", "closed"}
    BY <1>5 DEF ListenInv, PastShutdown
  <2>4. QED
    BY <1>1, <1>3, <1>5, <2>1, <2>2, <2>3 DEF AcceptorMoves, ServerTypeOK
<1>6. ASSUME stopPc["chat"] = "done"
      PROVE  mainPc = "returned" \/ (mainPc \in {"tick", "join_chat"} /\ ~ running)
  BY <1>1, <1>6 DEF StopInv, ServerTypeOK, BeforeChat, BeforeAcceptor, BeforeWorker, BeforeWorkers
<1>7. QED
  BY <1>3, <1>4, <1>5, <1>6 DEF StopGoesOn

\* ~NetworkWorker and tcp_stop: each join waits for its thread, and its thread for nobody
\* who waits for the join.
THEOREM JoinsComeToAnEnd == Spec => []JoinsEnd
<1>1. Init => ListenInv
  BY DEF Init, ListenInv, PastShutdown
<1>2. ServerInv /\ ListenInv /\ [Next]_vars => ListenInv'
  <2>1. ASSUME ServerInv, ListenInv, UNCHANGED vars PROVE ListenInv'
    BY <2>1 DEF vars, stopVars, ListenInv
  <2>2. QED
    BY <2>1, ListenStep
<1>3. ServerInv /\ ListenInv => JoinsEnd
  <2>1. ServerInv => WorkerOutlived
    BY DEF ServerInv, SafeInv, StopInv, WorkerOutlived
  <2>2. QED
    BY <2>1, StopMovesOn DEF JoinsEnd
<1>4. QED
  BY <1>1, <1>2, <1>3, ServerInvariant, PTL DEF Spec
------------------------------------------------------------------------------
(* The threads together live the life of ServerLife. *)

\* Steps that neither the operator nor a client can see.
LEMMA HiddenStep ==
  ASSUME SafeInv, LifeInv,
         \/ \E c \in Clients : ClientConnects(c) \/ ClientSends(c) \/ ClientCloses(c)
         \/ Accept \/ ConnectFails \/ PushBegin \/ PushEnd
         \/ EpollWait \/ EpollFails \/ Process \/ Handle \/ ReplyAfterReset \/ UseAfterFree
         \/ DisconnectBegin \/ DisconnectMissing
         \/ InitSocket \/ InitWorkers \/ StartChat \/ LoopEnds \/ JoinChat \/ ChatQuits \/ Race
         \/ \E s \in Stoppers : \/ StopListening(s) \/ DisconnectAllBegin(s)
                               \/ DisconnectAllEnd(s) \/ StopClose(s) \/ DeleteWorkers(s)
                               \/ JoinWorker(s)
  PROVE  UNCHANGED <<LifeOf, Threads, PlaceOf>>
<1> USE DEF SafeInv, ServerTypeOK, LifeOf, Threads, PlaceOf, Stoppers, clientVars, accVars, workVars,
            stopVars, sockVars, connVars
<1>1. ASSUME NEW c \in Clients, ClientConnects(c) PROVE UNCHANGED <<LifeOf, Threads, PlaceOf>>
  BY <1>1 DEF ClientConnects
<1>2. ASSUME NEW c \in Clients, ClientSends(c) PROVE UNCHANGED <<LifeOf, Threads, PlaceOf>>
  BY <1>2 DEF ClientSends
<1>3. ASSUME NEW c \in Clients, ClientCloses(c) PROVE UNCHANGED <<LifeOf, Threads, PlaceOf>>
  BY <1>3 DEF ClientCloses
<1>4. CASE Accept
  BY <1>4 DEF Accept
<1>5. CASE ConnectFails
  BY <1>5 DEF ConnectFails
<1>6. CASE PushBegin
  BY <1>6 DEF PushBegin
<1>7. CASE PushEnd
  BY <1>7 DEF PushEnd
<1>8. CASE EpollWait
  BY <1>8 DEF EpollWait
<1>9. CASE Process
  BY <1>9 DEF Process
<1>10. CASE Handle
  BY <1>10 DEF Handle
<1>11. CASE ReplyAfterReset
  BY <1>11 DEF ReplyAfterReset
<1>12. CASE UseAfterFree
  BY <1>12 DEF UseAfterFree
<1>13. CASE DisconnectBegin
  BY <1>13 DEF DisconnectBegin
<1>14. CASE DisconnectMissing
  BY <1>14 DEF DisconnectMissing
<1>15. CASE InitSocket
  BY <1>15 DEF InitSocket, MainAt
<1>16. CASE InitWorkers
  BY <1>16 DEF InitWorkers, MainAt
<1>17. CASE StartChat
  BY <1>17 DEF StartChat, MainAt
<1>18. CASE LoopEnds
  BY <1>18 DEF LoopEnds, MainAt
<1>19. CASE JoinChat
  BY <1>19 DEF JoinChat, MainAt
<1>20. CASE ChatQuits
  BY <1>20 DEF ChatQuits, At
<1>21. CASE Race
  BY <1>21 DEF Race
<1>22. ASSUME NEW s \in Stoppers, StopListening(s) PROVE UNCHANGED <<LifeOf, Threads, PlaceOf>>
  BY <1>22 DEF StopListening, At
<1>23. ASSUME NEW s \in Stoppers, DisconnectAllBegin(s) PROVE UNCHANGED <<LifeOf, Threads, PlaceOf>>
  BY <1>23 DEF DisconnectAllBegin, At
<1>24. ASSUME NEW s \in Stoppers, DisconnectAllEnd(s) PROVE UNCHANGED <<LifeOf, Threads, PlaceOf>>
  BY <1>24 DEF DisconnectAllEnd, At
<1>25. ASSUME NEW s \in Stoppers, StopClose(s) PROVE UNCHANGED <<LifeOf, Threads, PlaceOf>>
  BY <1>25 DEF StopClose, At
<1>26. ASSUME NEW s \in Stoppers, DeleteWorkers(s) PROVE UNCHANGED <<LifeOf, Threads, PlaceOf>>
  BY <1>26 DEF DeleteWorkers, At
<1>27. ASSUME NEW s \in Stoppers, JoinWorker(s) PROVE UNCHANGED <<LifeOf, Threads, PlaceOf>>
  BY <1>27 DEF JoinWorker, At
<1>28. CASE EpollFails
  BY <1>28 DEF EpollFails
<1>29. QED
  BY <1>1, <1>2, <1>3, <1>4, <1>5, <1>6, <1>7, <1>8, <1>9, <1>10, <1>11, <1>12, <1>13, <1>14,
     <1>15, <1>16, <1>17, <1>18, <1>19, <1>20, <1>21, <1>22, <1>23, <1>24, <1>25, <1>26, <1>27,
     <1>28

\* A client's place follows its Connection object.
LEMMA PlaceMoves ==
  ASSUME ServerTypeOK, NEW c \in Clients
  PROVE  /\ heap[c] = "none" => PlaceOf[c] = "outside"
         /\ heap[c] = "live" => PlaceOf[c] = "inside"
         /\ heap' = [heap EXCEPT ![c] = "live"] => PlaceOf' = [PlaceOf EXCEPT ![c] = "inside"]
         /\ heap' = [heap EXCEPT ![c] = "freed"] => PlaceOf' = [PlaceOf EXCEPT ![c] = "left"]
BY DEF ServerTypeOK, PlaceOf

\* Every other step is one of the steps of ServerLife.
LEMMA LifeStep ==
  ASSUME SafeInv, LifeInv, Next
  PROVE  Life!LifeNext \/ UNCHANGED Life!lifeVars
<1> USE DEF SafeInv, ServerTypeOK, StopInv, LifeInv, StartInv, DownInv, Stoppers, Stopping, NoConn,
            BeforeWorkers, BeforeWorker, BeforeAcceptor, BeforeChat,
            LifeOf, Threads, PlaceOf, clientVars, accVars, workVars, stopVars, sockVars, connVars
<1>1. CASE SetRunning
  <2>1. Life!ComeUp \/ UNCHANGED Life!lifeVars
    BY <1>1 DEF SetRunning, MainAt, Life!ComeUp, Life!lifeVars
  <2>2. QED
    BY <2>1 DEF Life!LifeNext
<1>2. CASE StartWorkers \/ StartAcceptor
  <2>1. Life!StartThread
    BY <1>2 DEF StartWorkers, StartAcceptor, MainAt, Life!StartThread
  <2>2. QED
    BY <2>1 DEF Life!LifeNext
<1>3. CASE AccLoop \/ WorkLoop \/ NextEvent
  <2>1. Life!EndThread \/ UNCHANGED Life!lifeVars
    BY <1>3 DEF AccLoop, WorkLoop, NextEvent, Life!EndThread, Life!lifeVars
  <2>2. QED
    BY <2>1 DEF Life!LifeNext
<1>4. CASE Connect
  <2>1. accConn \in Clients /\ heap[accConn] = "none" /\ heap' = [heap EXCEPT ![accConn] = "live"]
    BY <1>4 DEF Connect, AcceptorInv
  <2>2. "acceptor" \in Threads /\ UNCHANGED <<LifeOf, Threads>>
    BY <1>4 DEF Connect
  <2> HIDE DEF LifeOf, Threads, PlaceOf
  <2>3. Life!LetIn(accConn)
    BY <2>1, <2>2, PlaceMoves DEF Life!LetIn
  <2>4. QED
    BY <2>1, <2>3 DEF Life!LifeNext
<1>5. CASE DisconnectEnd
  <2>1. workConn \in Live
    BY <1>5 DEF DisconnectEnd, InsideInv, VectorInv, Deleting
  <2>2. workConn \in Clients /\ heap[workConn] = "live" /\ heap' = [heap EXCEPT ![workConn] = "freed"]
    BY <1>5, <2>1 DEF DisconnectEnd, Live
  <2>3. "worker" \in Threads /\ UNCHANGED <<LifeOf, Threads>>
    BY <1>5 DEF DisconnectEnd
  <2> HIDE DEF LifeOf, Threads, PlaceOf
  <2>4. Life!LetGo(workConn)
    BY <2>2, <2>3, PlaceMoves DEF Life!LetGo
  <2>5. QED
    BY <2>2, <2>4 DEF Life!LifeNext
<1>6. ASSUME NEW s \in Stoppers, DeleteOne(s) PROVE Life!LifeNext
  <2>1. PICK c \in victims : heap' = [heap EXCEPT ![c] = "freed"]
    BY <1>6 DEF DeleteOne
  <2>2. c \in Live
    BY <1>6, <2>1 DEF DeleteOne, VectorInv, Deleting
  <2>3. c \in Clients /\ heap[c] = "live"
    BY <2>2 DEF Live
  <2>4. LifeOf \in {"stopping", "stopped"} /\ UNCHANGED <<LifeOf, Threads>>
    BY <1>6 DEF DeleteOne
  <2> HIDE DEF LifeOf, Threads, PlaceOf
  <2>5. Life!LetGo(c)
    BY <2>1, <2>3, <2>4, PlaceMoves DEF Life!LetGo
  <2>6. QED
    BY <2>3, <2>5 DEF Life!LifeNext
<1>7. ASSUME NEW s \in Stoppers, StopBegins(s) PROVE Life!LifeNext \/ UNCHANGED Life!lifeVars
  <2>1. Life!GoDown \/ UNCHANGED Life!lifeVars
    BY <1>7 DEF StopBegins, At, Life!GoDown, Life!lifeVars
  <2>2. QED
    BY <2>1 DEF Life!LifeNext
<1>8. ASSUME NEW s \in Stoppers, JoinAcceptor(s) PROVE Life!LifeNext \/ UNCHANGED Life!lifeVars
  <2>1. Life!Stopped \/ UNCHANGED Life!lifeVars
    BY <1>8 DEF JoinAcceptor, At, Life!Stopped, Life!lifeVars
  <2>2. QED
    BY <2>1 DEF Life!LifeNext
<1>9. QED
  <2>1. UNCHANGED <<LifeOf, Threads, PlaceOf>> => UNCHANGED Life!lifeVars
    BY DEF Life!lifeVars
  <2>2. QED
    BY <1>1, <1>2, <1>3, <1>4, <1>5, <1>6, <1>7, <1>8, <2>1, HiddenStep
       DEF Next, Client, Acceptor, Worker, Main, Stop

\* The server implements the life that an operator and its clients expect of it.
THEOREM ServerLivesALife == Spec => ImplementsLife
<1>1. Init => Life!LifeInit
  BY DEF Init, Life!LifeInit, LifeOf, Threads, PlaceOf
<1>2. ServerInv /\ [Next]_vars => [Life!LifeNext]_(Life!lifeVars)
  <2> SUFFICES ASSUME ServerInv, [Next]_vars PROVE Life!LifeNext \/ UNCHANGED Life!lifeVars
    OBVIOUS
  <2>1. CASE Next
    BY <2>1, LifeStep DEF ServerInv
  <2>2. CASE UNCHANGED vars
    BY <2>2 DEF vars, clientVars, accVars, workVars, stopVars, sockVars, connVars,
                Life!lifeVars, LifeOf, Threads, PlaceOf
  <2>3. QED
    BY <2>1, <2>2
<1>3. QED
  BY <1>1, <1>2, ServerInvariant, PTL DEF Spec, ImplementsLife, Life!LifeSpec
===============================================================================
